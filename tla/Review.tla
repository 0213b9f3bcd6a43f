-------------------------------- MODULE Review --------------------------------
(***************************************************************************)
(* The reviews of one full video: reviewService.Submit, Act and Cancel     *)
(* (internal/service/review_service.go) and the review.submit node of a    *)
(* pipeline (internal/pipeline/node_handlers.go).  A client is one request *)
(* or one node in progress; each statement it runs is one action, so       *)
(* clients interleave between them.  A call may end after any of them: a   *)
(* lookup finds nothing, a statement fails, the request is cancelled, the  *)
(* process dies.  The flows and their nodes are set up by the seed and     *)
(* change under no operation.                                              *)
(***************************************************************************)
EXTENDS Integers, Sequences, FiniteSets

CONSTANTS
    Clients,      \* requests and nodes in progress
    Users,        \* who may be an approver or a submitter
    Nobody,       \* submitted_by of the records a node creates
    Anyone,       \* approver of a node with a role or a department: not checked
    Flows, DefaultFlow,
    Nodes         \* flow -> (step_no -> [approver, skippable])

Steps(f) == DOMAIN Nodes[f]

\* scripts/sql/001_init.sql: step_no starts at 1 and is unique in its flow.
ASSUME FlowsAssumption ==
    /\ DefaultFlow \in Flows
    /\ \A f \in Flows : IsFiniteSet(Steps(f)) /\ Steps(f) \subseteq Nat \ {0}

VARIABLES
    records,      \* review_records, by id
    journal,      \* review_node_records
    rcall         \* what each client is doing to them

rvars == <<records, journal, rcall>>

Idle == [pc |-> "idle", user |-> Nobody, flow |-> DefaultFlow, rec |-> 0,
         step |-> 0, action |-> "none", since |-> 0]

Begin(c, call) == rcall[c].pc = "idle" /\ rcall' = [rcall EXCEPT ![c] = call]
End(c) == rcall' = [rcall EXCEPT ![c] = Idle]
At(c, pc) == rcall[c].pc = pc
Goto(c, pc) == rcall' = [rcall EXCEPT ![c].pc = pc]

ReviewInit ==
    /\ records = <<>> /\ journal = {}
    /\ rcall = [c \in Clients |-> Idle]

Pending(i) == records[i].status = "pending"

Least(S) == CHOOSE n \in S : \A m \in S : n <= m

-------------------------------------------------------------------------------
(* Submit and review.submit.                                               *)

(* The video is read first.                                                *)
SubmitStart(c, u, f) ==
    /\ Begin(c, [Idle EXCEPT !.pc = "check", !.user = u, !.flow = f])
    /\ UNCHANGED <<records, journal>>

(* Not the code: nobody looks for a pending record.                        *)
SubmitCheckUnlooked(c) ==
    /\ At(c, "check")
    /\ Steps(rcall[c].flow) # {}
    /\ rcall' = [rcall EXCEPT ![c].pc = "create", ![c].since = Len(records)]
    /\ UNCHANGED <<records, journal>>

(* GetActiveRecord has to find no pending record; the flow has to have     *)
(* nodes.  since remembers how many records there were.                    *)
SubmitCheck(c) ==
    /\ At(c, "check")
    /\ \A i \in DOMAIN records : ~Pending(i)
    /\ Steps(rcall[c].flow) # {}
    /\ rcall' = [rcall EXCEPT ![c].pc = "create", ![c].since = Len(records)]
    /\ UNCHANGED <<records, journal>>

FirstStep(f) == LET n == Least(Steps(f)) IN IF n <= 0 THEN 1 ELSE n

NewRecord(flow, step, user, from, since) ==
    [flow |-> flow, step |-> step, status |-> "pending", by |-> user,
     from |-> from, since |-> since]

SubmitCreate(c) ==
    /\ At(c, "create")
    /\ LET m == rcall[c] IN
         records' = Append(records, NewRecord(m.flow, FirstStep(m.flow), m.user,
                                              "api", m.since))
    /\ End(c)
    /\ UNCHANGED journal

NodeStart(c) ==
    /\ Begin(c, [Idle EXCEPT !.pc = "node"])
    /\ UNCHANGED <<records, journal>>

(* The node looks for no pending record and for no nodes of the flow, and  *)
(* every record of its starts at step 1.                                   *)
NodeCreate(c) ==
    /\ At(c, "node")
    /\ records' = Append(records, NewRecord(DefaultFlow, 1, Nobody, "node", 0))
    /\ Goto(c, "mark")
    /\ UNCHANGED journal

(* It then marks the video; that write is added by the module Release.     *)
NodeMark(c) == At(c, "mark") /\ End(c) /\ UNCHANGED <<records, journal>>

-------------------------------------------------------------------------------
(* Act.                                                                    *)

MayAct(u, action, node) ==
    /\ node.approver \in {u, Anyone}
    /\ action = "skip" => node.skippable

ActRead(c, u, i, action) ==
    /\ Pending(i)
    /\ records[i].step \in Steps(records[i].flow)
    /\ MayAct(u, action, Nodes[records[i].flow][records[i].step])
    /\ Begin(c, [Idle EXCEPT !.pc = "note", !.user = u, !.rec = i,
                             !.step = records[i].step, !.action = action])
    /\ UNCHANGED <<records, journal>>

(* The journal entry comes before the record changes.                      *)
ActNote(c) ==
    /\ At(c, "note")
    /\ LET m == rcall[c] IN
         journal' = journal \cup {[rec |-> m.rec, step |-> m.step,
                                   action |-> m.action, by |-> m.user]}
    /\ Goto(c, "decide")
    /\ UNCHANGED records

(* Not the code: skipping the last step approves.                          *)
DecidedBySkip(r, action) ==
    LET later == {n \in Steps(r.flow) : n > r.step} IN
    CASE action = "reject" -> [r EXCEPT !.status = "rejected"]
      [] action # "reject" /\ later # {} -> [r EXCEPT !.step = Least(later)]
      [] OTHER -> [r EXCEPT !.status = "approved"]

(* What the action writes; a skip of the last step writes nothing.         *)
Decided(r, action) ==
    LET later == {n \in Steps(r.flow) : n > r.step} IN
    CASE action = "reject" -> [r EXCEPT !.status = "rejected"]
      [] action # "reject" /\ later # {} -> [r EXCEPT !.step = Least(later)]
      [] action = "approve" /\ later = {} -> [r EXCEPT !.status = "approved"]
      [] OTHER -> r

(* Not the code: the write of before the compare-and-set was added.        *)
UpdateRecordBlind(i, step, new) == records' = [records EXCEPT ![i] = new]

(* UpdateRecordCAS: the row changes only if it is still as it was read.    *)
UpdateRecordCAS(i, step, new) ==
    records' = IF Pending(i) /\ records[i].step = step
               THEN [records EXCEPT ![i] = new]
               ELSE records

ActDecide(c) ==
    /\ At(c, "decide")
    /\ LET m == rcall[c] IN
         UpdateRecordCAS(m.rec, m.step, Decided(records[m.rec], m.action))
    /\ End(c)
    /\ UNCHANGED journal

-------------------------------------------------------------------------------
(* Cancel, by the submitter.                                               *)
CancelRead(c, u, i) ==
    /\ records[i].by = u /\ Pending(i)
    /\ Begin(c, [Idle EXCEPT !.pc = "cancel", !.user = u, !.rec = i,
                             !.step = records[i].step])
    /\ UNCHANGED <<records, journal>>

CancelWrite(c) ==
    /\ At(c, "cancel")
    /\ LET m == rcall[c] IN
         UpdateRecordCAS(m.rec, m.step,
                         [records[m.rec] EXCEPT !.status = "cancelled"])
    /\ End(c)
    /\ UNCHANGED journal

Abandon(c) == rcall[c].pc # "idle" /\ End(c) /\ UNCHANGED <<records, journal>>

-------------------------------------------------------------------------------
Actions == {"approve", "reject", "skip"}

ReviewStart(c) ==
    \/ \E u \in Users, f \in Flows : SubmitStart(c, u, f)
    \/ NodeStart(c)
    \/ \E u \in Users, i \in DOMAIN records :
          (\E action \in Actions : ActRead(c, u, i, action)) \/ CancelRead(c, u, i)

ReviewStep(c) ==
    \/ SubmitCheck(c) \/ SubmitCreate(c) \/ NodeCreate(c) \/ NodeMark(c)
    \/ ActNote(c) \/ ActDecide(c) \/ CancelWrite(c) \/ Abandon(c)

ReviewNext == \E c \in Clients : ReviewStart(c) \/ ReviewStep(c)

ReviewSpec == ReviewInit /\ [][ReviewNext]_rvars

-------------------------------------------------------------------------------
Record == [flow : Flows, step : Nat, by : Users \cup {Nobody}, since : Nat,
           status : {"pending", "approved", "rejected", "cancelled"},
           from : {"api", "node"}]

Call == [pc : {"idle", "check", "create", "node", "mark", "note", "decide", "cancel"},
         user : Users \cup {Nobody}, flow : Flows, rec : Nat, step : Nat,
         action : Actions \cup {"none"}, since : Nat]

Entry == [rec : Nat, step : Nat, action : Actions, by : Users]

ReviewTypeOK ==
    /\ records \in Seq(Record)
    /\ journal \subseteq Entry
    /\ rcall \in [Clients -> Call]

Noted(i, s, actions) ==
    \E e \in journal : e.rec = i /\ e.step = s /\ e.action \in actions

(* An approved record has a journal entry, approve or skip, for every step *)
(* of its flow, and an approve for the last one: no interleaving of        *)
(* reviewers carries a record past a step nobody acted on                  *)
(* (review_service.go:184-294).                                            *)
ApprovalsAreBacked ==
    \A i \in DOMAIN records : records[i].status = "approved" =>
        \A s \in Steps(records[i].flow) :
           /\ Noted(i, s, {"approve", "skip"})
           /\ (\A n \in Steps(records[i].flow) : n <= s) => Noted(i, s, {"approve"})

(* A record that ended stays as it ended, and one under review never goes  *)
(* back to an earlier step, however stale the copy a reviewer or the       *)
(* submitter acts on is (repo/review.go:93-107).                           *)
ReviewOnlyAdvances ==
    [][\A i \in DOMAIN records :
          /\ i \in DOMAIN records'
          /\ records'[i].step >= records[i].step
          /\ ~Pending(i) => records'[i] = records[i]]_rvars

(* Submit opens a second review beside a pending one only if its look for  *)
(* an active record came before that one was created: the check and the    *)
(* insert are two statements, and nothing else lets two through            *)
(* (review_service.go:95-149).                                             *)
SecondReviewIsBlind ==
    \A i, j \in DOMAIN records :
        (i < j /\ Pending(i) /\ Pending(j) /\ records[j].from = "api")
            => records[j].since < i
===============================================================================
