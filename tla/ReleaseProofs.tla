----------------------------- MODULE ReleaseProofs -----------------------------
(***************************************************************************)
(* Proofs about Review, for every set of flows and any number of clients   *)
(* and records, and about its composition Release.                         *)
(***************************************************************************)
EXTENDS Release, WellFoundedInduction, TLAPS

(* The least element of a set of naturals is one.                          *)
LEMMA LeastIsLeast ==
    ASSUME NEW S, S \subseteq Nat, S # {}
    PROVE  Least(S) \in S /\ \A n \in S : Least(S) <= n
<1> DEFINE R == {ss \in Nat \X Nat : ss[1] < ss[2]}
<1>1. IsWellFoundedOn(R, Nat)
  BY NatLessThanWellFounded DEF OpToRel
<1>2. PICK x \in S : \A y \in S : ~(<<y, x>> \in R)
  <2> HIDE DEF R
  <2> QED BY <1>1, WFMin
<1>3. ASSUME NEW y \in S, ~(x <= y) PROVE FALSE
  <2>1. <<y, x>> \in Nat \X Nat /\ <<y, x>>[1] = y /\ <<y, x>>[2] = x /\ y < x
    BY <1>3
  <2>2. <<y, x>> \in R
    BY <2>1, Zenon
  <2> QED BY <1>2, <2>2
<1> QED
  BY <1>3, Zenon DEF Least

-------------------------------------------------------------------------------
(* The invariant of the reviews.                                           *)

\* A call past its read names a record, at a step its flow has; one that
\* is about to decide has its entry in the journal; the records a Submit
\* counted when it looked are no longer pending.
CallIsRight(m) ==
    /\ m.pc \in {"note", "decide", "cancel"} => m.rec \in DOMAIN records
    /\ m.pc \in {"note", "decide"} =>
          /\ m.action \in Actions /\ m.user \in Users
          /\ m.step \in Steps(records[m.rec].flow)
    /\ m.pc = "decide" => Noted(m.rec, m.step, {m.action})
    /\ m.pc = "create" =>
          /\ m.since <= Len(records) /\ Steps(m.flow) # {}
          /\ \A i \in DOMAIN records : i <= m.since => ~Pending(i)

CallsAreRight == \A c \in Clients : CallIsRight(rcall[c])

\* Every step before the current one was passed, and an approved record was
\* approved at its flow's last.
Passed(i, r) ==
    /\ \A s \in Steps(r.flow) : s < r.step => Noted(i, s, {"approve", "skip"})
    /\ r.status = "approved" =>
          /\ r.step \in Steps(r.flow)
          /\ \A s \in Steps(r.flow) : s <= r.step
          /\ Noted(i, r.step, {"approve"})

StepsArePassed == \A i \in DOMAIN records : Passed(i, records[i])

\* The records a Submit counted when it looked are no longer pending.
LooksWereRight ==
    \A i, j \in DOMAIN records :
        records[j].from = "api" =>
            records[j].since < j /\ (i <= records[j].since => ~Pending(i))

RInv == ReviewTypeOK /\ CallsAreRight /\ StepsArePassed /\ LooksWereRight

(* Decided and the cancellation change the status or the step, no more.    *)
LEMMA DecidedIsRecord ==
    ASSUME NEW r \in Record, NEW action \in Actions
    PROVE  LET d == Decided(r, action) IN
           /\ d \in Record
           /\ d.flow = r.flow /\ d.from = r.from /\ d.since = r.since /\ d.by = r.by
           /\ d.step >= r.step
           /\ \A s \in Steps(r.flow) : s < d.step => s <= r.step
           /\ d.step # r.step => action # "reject" /\ d.status = r.status
           /\ d.status = "approved" /\ r.status # "approved" =>
                 /\ d.step = r.step /\ action = "approve"
                 /\ \A s \in Steps(r.flow) : s <= r.step
<1> DEFINE later == {n \in Steps(r.flow) : n > r.step}
<1>1. Steps(r.flow) \subseteq Nat /\ r.step \in Nat
  BY FlowsAssumption DEF Record
<1>2. ASSUME later # {}
      PROVE  Least(later) \in later /\ \A n \in later : Least(later) <= n
  BY <1>1, <1>2, LeastIsLeast
<1> DEFINE next == Least(later)
<1>3. CASE action = "reject"
  <2>1. Decided(r, action) = [r EXCEPT !.status = "rejected"]
    BY <1>3 DEF Decided
  <2> QED BY <1>1, <1>3, <2>1 DEF Record
<1>4. CASE action # "reject" /\ later # {}
  <2>1. Decided(r, action) = [r EXCEPT !.step = next]
    BY <1>4 DEF Decided
  <2>2. next \in Nat /\ next > r.step
    BY <1>1, <1>2, <1>4
  <2>3. \A s \in Steps(r.flow) : s < next => s <= r.step
    <3> SUFFICES ASSUME NEW s \in Steps(r.flow), s < next, ~(s <= r.step) PROVE FALSE
      OBVIOUS
    <3>1. s \in later
      BY <1>1
    <3>2. next <= s
      BY <1>2, <1>4, <3>1
    <3> HIDE DEF next
    <3> QED BY <1>1, <2>2, <3>2
  <2> HIDE DEF next, later
  <2> QED BY <1>1, <1>4, <2>1, <2>2, <2>3 DEF Record
<1>5. CASE action = "approve" /\ later = {}
  <2>1. Decided(r, action) = [r EXCEPT !.status = "approved"]
    BY <1>5 DEF Decided
  <2>2. \A s \in Steps(r.flow) : s <= r.step
    BY <1>1, <1>5
  <2> HIDE DEF later
  <2> QED BY <1>1, <1>5, <2>1, <2>2 DEF Record
<1>6. CASE action = "skip" /\ later = {}
  <2>1. Decided(r, action) = r
    BY <1>6 DEF Decided
  <2>2. \A s \in Steps(r.flow) : s <= r.step
    BY <1>1, <1>6
  <2> HIDE DEF later
  <2> QED BY <1>1, <2>1, <2>2 DEF Record
<1> HIDE DEF later
<1> QED BY <1>3, <1>4, <1>5, <1>6 DEF Actions

-------------------------------------------------------------------------------
(* What a step does to the records: nothing, a new one, or another version *)
(* of a pending one.                                                       *)
Appended(r) == records' = Append(records, r)

Replaced(i, r) ==
    /\ i \in DOMAIN records /\ Pending(i)
    /\ r.flow = records[i].flow /\ r.from = records[i].from
    /\ r.since = records[i].since /\ r.step >= records[i].step
    /\ records' = [records EXCEPT ![i] = r]

(* The records that were there are still there, in the same flows, and     *)
(* none becomes pending again.                                             *)
Grown ==
    /\ Len(records) <= Len(records')
    /\ records' \in Seq(Record)
    /\ \A i \in DOMAIN records :
          /\ i \in DOMAIN records'
          /\ records'[i].flow = records[i].flow
          /\ records'[i].step >= records[i].step
          /\ ~Pending(i) => records'[i] = records[i]

LEMMA RecordsAreTyped ==
    ASSUME ReviewTypeOK, NEW i \in DOMAIN records
    PROVE  records[i] \in Record /\ records[i].step \in Nat /\ records[i].since \in Nat
<1>1. records[i] \in Record
  BY DEF ReviewTypeOK
<1> QED BY <1>1 DEF Record

LEMMA AppendedIsGrown ==
    ASSUME ReviewTypeOK, NEW r \in Record, Appended(r)
    PROVE  /\ Grown
           /\ Len(records') = Len(records) + 1
           /\ records'[Len(records) + 1] = r
           /\ \A i \in DOMAIN records : records'[i] = records[i]
           /\ DOMAIN records' = DOMAIN records \cup {Len(records) + 1}
<1>1. records \in Seq(Record)
  BY DEF ReviewTypeOK
<1>2. records' = Append(records, r)
  BY DEF Appended
<1>3. /\ records' \in Seq(Record)
      /\ Len(records') = Len(records) + 1
      /\ records'[Len(records) + 1] = r
      /\ \A i \in DOMAIN records : records'[i] = records[i]
      /\ DOMAIN records' = DOMAIN records \cup {Len(records) + 1}
  BY <1>1, <1>2
<1>4. \A i \in DOMAIN records : records[i].step \in Nat
  BY RecordsAreTyped
<1> QED BY <1>1, <1>3, <1>4 DEF Grown

LEMMA ReplacedIsGrown ==
    ASSUME ReviewTypeOK, NEW i \in DOMAIN records, NEW r \in Record, Replaced(i, r)
    PROVE  /\ Grown
           /\ DOMAIN records' = DOMAIN records
           /\ records'[i] = r
           /\ \A j \in DOMAIN records : j # i => records'[j] = records[j]
<1>1. records \in Seq(Record) /\ records' = [records EXCEPT ![i] = r]
  BY DEF ReviewTypeOK, Replaced
<1>2. /\ DOMAIN records' = DOMAIN records
      /\ records'[i] = r
      /\ \A j \in DOMAIN records : j # i => records'[j] = records[j]
  BY <1>1
<1>3. records' \in Seq(Record) /\ Len(records') = Len(records)
  BY <1>1
<1>4. \A j \in DOMAIN records : records[j].step \in Nat
  BY RecordsAreTyped
<1> QED BY <1>1, <1>2, <1>3, <1>4 DEF Grown, Replaced

LEMMA SameIsGrown == ASSUME ReviewTypeOK, records' = records PROVE Grown
<1>1. \A j \in DOMAIN records : records[j].step \in Nat
  BY RecordsAreTyped
<1> QED BY <1>1 DEF Grown, ReviewTypeOK

(* A call stays right whatever the others do.                              *)
LEMMA RightStaysRight ==
    ASSUME ReviewTypeOK, Grown, journal \subseteq journal'
    PROVE  \A m \in Call : CallIsRight(m) => CallIsRight(m)'
<1> SUFFICES ASSUME NEW m \in Call, CallIsRight(m) PROVE CallIsRight(m)'
  OBVIOUS
<1>1. m.pc \in {"note", "decide", "cancel"} => m.rec \in DOMAIN records'
  BY DEF CallIsRight, Grown
<1>2. m.pc \in {"note", "decide"} =>
        /\ m.action \in Actions /\ m.user \in Users
        /\ m.step \in Steps(records'[m.rec].flow)
  BY DEF CallIsRight, Grown
<1>3. m.pc = "decide" => Noted(m.rec, m.step, {m.action})'
  BY DEF CallIsRight, Noted
<1>4. ASSUME m.pc = "create"
      PROVE  /\ m.since <= Len(records') /\ Steps(m.flow) # {}
             /\ \A i \in DOMAIN records' : i <= m.since => ~Pending(i)'
  <2>1. m.since \in Nat /\ Len(records) \in Nat /\ Len(records') \in Nat
    BY DEF Call, ReviewTypeOK, Grown
  <2>2. m.since <= Len(records) /\ Steps(m.flow) # {}
    BY <1>4 DEF CallIsRight
  <2>3. ASSUME NEW i \in DOMAIN records', i <= m.since PROVE ~Pending(i)'
    <3>1. i \in DOMAIN records
      BY <2>1, <2>2, <2>3 DEF ReviewTypeOK, Grown
    <3>2. ~Pending(i)
      BY <1>4, <2>3, <3>1 DEF CallIsRight
    <3> QED BY <3>1, <3>2 DEF Grown, Pending
  <2> QED BY <2>1, <2>2, <2>3 DEF Grown
<1> QED BY <1>1, <1>2, <1>3, <1>4 DEF CallIsRight

(* So a step that gives one client a right call keeps all calls right.     *)
LEMMA OneCallChanges ==
    ASSUME RInv, Grown, journal \subseteq journal',
           NEW c \in Clients, NEW m \in Call, CallIsRight(m)',
           rcall' = [rcall EXCEPT ![c] = m]
    PROVE  rcall' \in [Clients -> Call] /\ CallsAreRight'
<1>1. rcall \in [Clients -> Call]
  BY DEF RInv, ReviewTypeOK
<1>2. rcall' \in [Clients -> Call]
  BY <1>1
<1>3. \A d \in Clients : CallIsRight(rcall[d])'
  <2> SUFFICES ASSUME NEW d \in Clients PROVE CallIsRight(rcall[d])'
    OBVIOUS
  <2>1. CASE d = c
    <3>1. rcall'[d] = m
      BY <1>1, <2>1
    <3> QED BY <3>1 DEF CallIsRight
  <2>2. CASE d # c
    <3>1. rcall'[d] = rcall[d] /\ rcall[d] \in Call
      BY <1>1, <2>2
    <3>2. CallIsRight(rcall[d])
      BY DEF RInv, CallsAreRight
    <3>3. \A n \in Call : CallIsRight(n) => CallIsRight(n)'
      BY RightStaysRight DEF RInv
    <3> QED BY <3>1, <3>2, <3>3 DEF CallIsRight
  <2> QED BY <2>1, <2>2
<1> QED BY <1>2, <1>3 DEF CallsAreRight

LEMMA NotedStays ==
    ASSUME journal \subseteq journal', NEW i, NEW s, NEW A, Noted(i, s, A)
    PROVE  Noted(i, s, A)'
BY DEF Noted

LEMMA PassedStays ==
    ASSUME journal \subseteq journal'
    PROVE  \A i, r : Passed(i, r) => Passed(i, r)'
<1> SUFFICES ASSUME NEW i, NEW r, Passed(i, r) PROVE Passed(i, r)'
  OBVIOUS
<1> QED BY NotedStays DEF Passed

LEMMA SameKeeps ==
    ASSUME RInv, records' = records, journal \subseteq journal'
    PROVE  StepsArePassed' /\ LooksWereRight'
<1>1. StepsArePassed'
  <2> SUFFICES ASSUME NEW i \in DOMAIN records' PROVE Passed(i, records[i])'
    BY DEF StepsArePassed
  <2>1. Passed(i, records[i])
    BY DEF RInv, StepsArePassed
  <2> QED BY <2>1, PassedStays DEF Passed
<1>2. LooksWereRight'
  BY DEF RInv, LooksWereRight, Pending
<1> QED BY <1>1, <1>2

LEMMA AppendKeeps ==
    ASSUME RInv, journal \subseteq journal', NEW r \in Record, Appended(r),
           r.status = "pending",
           \A s \in Steps(r.flow) : ~(s < r.step),
           r.from = "api" => /\ r.since <= Len(records)
                             /\ \A i \in DOMAIN records : i <= r.since => ~Pending(i)
    PROVE  StepsArePassed' /\ LooksWereRight'
<1> DEFINE last == Len(records) + 1
<1>0. /\ records'[last] = r
      /\ \A i \in DOMAIN records : records'[i] = records[i]
      /\ DOMAIN records' = DOMAIN records \cup {last}
  BY AppendedIsGrown DEF RInv
<1>1. last \in Nat /\ \A i \in DOMAIN records : i \in Nat /\ i < last
  BY DEF RInv, ReviewTypeOK
<1>2. StepsArePassed'
  <2> SUFFICES ASSUME NEW i \in DOMAIN records' PROVE Passed(i, records[i])'
    BY DEF StepsArePassed
  <2>1. CASE i = last
    BY <1>0, <2>1 DEF Passed
  <2>2. CASE i \in DOMAIN records
    <3>1. Passed(i, records[i])
      BY <2>2 DEF RInv, StepsArePassed
    <3>2. \A r1 : Passed(i, r1) => Passed(i, r1)'
      BY PassedStays
    <3> QED BY <1>0, <2>2, <3>1, <3>2 DEF Passed
  <2> QED BY <1>0, <2>1, <2>2
<1>3. LooksWereRight'
  <2> SUFFICES ASSUME NEW i \in DOMAIN records', NEW j \in DOMAIN records',
                      records'[j].from = "api"
               PROVE  records'[j].since < j /\ (i <= records'[j].since => ~Pending(i)')
    BY DEF LooksWereRight
  <2>1. CASE j = last
    <3>1. records'[j].since = r.since /\ r.since \in Nat /\ r.since < last
      BY <1>0, <1>1, <2>1 DEF Record, RInv, ReviewTypeOK
    <3>2. ASSUME i <= r.since PROVE ~Pending(i)'
      <4>1. i \in DOMAIN records
        BY <1>0, <1>1, <3>1, <3>2
      <4> QED BY <1>0, <2>1, <3>2, <4>1 DEF Pending
    <3> QED BY <2>1, <3>1, <3>2
  <2>2. CASE j \in DOMAIN records
    <3>1. /\ records'[j] = records[j] /\ records[j].since \in Nat /\ records[j].since < j
          /\ \A k \in DOMAIN records : k <= records[j].since => ~Pending(k)
      BY <1>0, <2>2, RecordsAreTyped DEF RInv, LooksWereRight
    <3>2. ASSUME i <= records[j].since PROVE ~Pending(i)'
      <4>1. i \in DOMAIN records
        BY <1>0, <1>1, <2>2, <3>1, <3>2
      <4> QED BY <1>0, <3>1, <3>2, <4>1 DEF Pending
    <3> QED BY <3>1, <3>2
  <2> QED BY <1>0, <2>1, <2>2
<1> QED BY <1>2, <1>3

LEMMA ReplaceKeeps ==
    ASSUME RInv, journal \subseteq journal',
           NEW i \in DOMAIN records, NEW r \in Record, Replaced(i, r),
           Passed(i, r)
    PROVE  StepsArePassed' /\ LooksWereRight'
<1>0. /\ DOMAIN records' = DOMAIN records
      /\ records'[i] = r
      /\ \A j \in DOMAIN records : j # i => records'[j] = records[j]
  BY ReplacedIsGrown DEF RInv
<1>1. StepsArePassed'
  <2> SUFFICES ASSUME NEW k \in DOMAIN records' PROVE Passed(k, records[k])'
    BY DEF StepsArePassed
  <2>1. CASE k = i
    <3>1. Passed(i, r)'
      BY PassedStays
    <3> QED BY <1>0, <2>1, <3>1 DEF Passed
  <2>2. CASE k # i
    <3>1. Passed(k, records[k]) /\ records'[k] = records[k]
      BY <1>0, <2>2 DEF RInv, StepsArePassed
    <3>2. \A r1 : Passed(k, r1) => Passed(k, r1)'
      BY PassedStays
    <3> QED BY <3>1, <3>2 DEF Passed
  <2> QED BY <2>1, <2>2
<1>2. LooksWereRight'
  <2>1. \A j \in DOMAIN records : /\ records'[j].from = records[j].from
                                  /\ records'[j].since = records[j].since
    BY <1>0 DEF Replaced
  <2>2. \A j \in DOMAIN records : Pending(j)' => Pending(j)
    BY <1>0 DEF Pending, Replaced
  <2> QED BY <1>0, <2>1, <2>2 DEF RInv, LooksWereRight
<1> QED BY <1>1, <1>2

-------------------------------------------------------------------------------
(* Every step of a client keeps the invariant and lets the records grow.   *)

LEMMA IdleIsCall == Idle \in Call /\ CallIsRight(Idle) /\ CallIsRight(Idle)'
BY FlowsAssumption DEF Idle, Call, CallIsRight

(* The steps that change no record.                                        *)
LEMMA QuietStep ==
    ASSUME RInv, records' = records, journal \subseteq journal', journal' \subseteq Entry,
           NEW c \in Clients, NEW m \in Call, CallIsRight(m)',
           rcall' = [rcall EXCEPT ![c] = m]
    PROVE  RInv' /\ Grown
<1>1. Grown
  BY SameIsGrown DEF RInv
<1>2. rcall' \in [Clients -> Call] /\ CallsAreRight'
  BY <1>1, OneCallChanges
<1>3. StepsArePassed' /\ LooksWereRight'
  BY SameKeeps
<1>4. ReviewTypeOK'
  BY <1>1, <1>2 DEF ReviewTypeOK, Grown
<1> QED BY <1>1, <1>2, <1>3, <1>4 DEF RInv

LEMMA StartStep ==
    ASSUME RInv, NEW c \in Clients, ReviewStart(c)
    PROVE  RInv' /\ Grown
<1> USE DEF RInv
<1>0. journal \subseteq Entry /\ Idle \in Call
  BY IdleIsCall DEF ReviewTypeOK
<1>1. ASSUME NEW u \in Users, NEW f \in Flows, SubmitStart(c, u, f) PROVE RInv' /\ Grown
  <2> DEFINE m == [Idle EXCEPT !.pc = "check", !.user = u, !.flow = f]
  <2>1. m \in Call /\ CallIsRight(m)'
    BY FlowsAssumption DEF Idle, Call, CallIsRight
  <2>2. rcall' = [rcall EXCEPT ![c] = m] /\ records' = records /\ journal' = journal
    BY <1>1 DEF SubmitStart, Begin
  <2> HIDE DEF m
  <2> QED BY <1>0, <2>1, <2>2, QuietStep
<1>2. ASSUME NodeStart(c) PROVE RInv' /\ Grown
  <2> DEFINE m == [Idle EXCEPT !.pc = "node"]
  <2>1. m \in Call /\ CallIsRight(m)'
    BY FlowsAssumption DEF Idle, Call, CallIsRight
  <2>2. rcall' = [rcall EXCEPT ![c] = m] /\ records' = records /\ journal' = journal
    BY <1>2 DEF NodeStart, Begin
  <2> HIDE DEF m
  <2> QED BY <1>0, <2>1, <2>2, QuietStep
<1>3. ASSUME NEW u \in Users, NEW i \in DOMAIN records, NEW action \in Actions,
             ActRead(c, u, i, action)
      PROVE  RInv' /\ Grown
  <2>0. PICK step \in Nat : step = records[i].step
    BY RecordsAreTyped
  <2> DEFINE m == [Idle EXCEPT !.pc = "note", !.user = u, !.rec = i,
                               !.step = step, !.action = action]
  <2>1. rcall' = [rcall EXCEPT ![c] = m] /\ records' = records /\ journal' = journal
    BY <1>3, <2>0 DEF ActRead, Begin
  <2>2. i \in Nat /\ step \in Steps(records[i].flow)
    BY <1>3, <2>0 DEF ReviewTypeOK, ActRead
  <2>3. m \in Call
    BY <2>2, FlowsAssumption DEF Idle, Call
  <2>4. CallIsRight(m)'
    BY <2>1, <2>2 DEF Idle, CallIsRight
  <2> HIDE DEF m
  <2> QED BY <1>0, <2>1, <2>3, <2>4, QuietStep
<1>4. ASSUME NEW u \in Users, NEW i \in DOMAIN records, CancelRead(c, u, i)
      PROVE  RInv' /\ Grown
  <2>0. PICK step \in Nat : step = records[i].step
    BY RecordsAreTyped
  <2> DEFINE m == [Idle EXCEPT !.pc = "cancel", !.user = u, !.rec = i, !.step = step]
  <2>1. rcall' = [rcall EXCEPT ![c] = m] /\ records' = records /\ journal' = journal
    BY <1>4, <2>0 DEF CancelRead, Begin
  <2>2. i \in Nat
    BY DEF ReviewTypeOK
  <2>3. m \in Call
    BY <2>2, FlowsAssumption DEF Idle, Call
  <2>4. CallIsRight(m)'
    BY <2>1, <2>2 DEF Idle, CallIsRight
  <2> HIDE DEF m
  <2> QED BY <1>0, <2>1, <2>3, <2>4, QuietStep
<1> QED BY <1>1, <1>2, <1>3, <1>4 DEF ReviewStart

(* The steps that change the records.                                      *)
LEMMA RecordStep ==
    ASSUME RInv, Grown, StepsArePassed' /\ LooksWereRight', journal' = journal,
           NEW c \in Clients, NEW m \in Call, CallIsRight(m)',
           rcall' = [rcall EXCEPT ![c] = m]
    PROVE  RInv' /\ Grown
<1>1. rcall' \in [Clients -> Call] /\ CallsAreRight'
  BY OneCallChanges
<1>2. ReviewTypeOK'
  BY <1>1 DEF RInv, ReviewTypeOK, Grown
<1> QED BY <1>1, <1>2 DEF RInv

LEMMA CASKeeps ==
    ASSUME RInv, journal' = journal, NEW i \in DOMAIN records, NEW step, NEW r \in Record,
           UpdateRecordCAS(i, step, r),
           r.flow = records[i].flow, r.from = records[i].from, r.since = records[i].since,
           r.step >= records[i].step, Passed(i, r)
    PROVE  Grown /\ StepsArePassed' /\ LooksWereRight'
<1>1. CASE Pending(i) /\ records[i].step = step
  <2>1. Replaced(i, r)
    BY <1>1 DEF UpdateRecordCAS, Replaced
  <2> QED BY <2>1, ReplacedIsGrown, ReplaceKeeps DEF RInv
<1>2. CASE ~(Pending(i) /\ records[i].step = step)
  <2>1. records' = records
    BY <1>2 DEF UpdateRecordCAS
  <2> QED BY <2>1, SameIsGrown, SameKeeps DEF RInv
<1> QED BY <1>1, <1>2

LEMMA FirstStepIsFirst ==
    ASSUME NEW f \in Flows, Steps(f) # {}
    PROVE  FirstStep(f) \in Nat /\ \A s \in Steps(f) : ~(s < FirstStep(f))
<1>1. Steps(f) \subseteq Nat \ {0}
  BY FlowsAssumption
<1>2. Least(Steps(f)) \in Steps(f) /\ \A s \in Steps(f) : Least(Steps(f)) <= s
  BY <1>1, LeastIsLeast
<1>3. FirstStep(f) = Least(Steps(f))
  BY <1>1, <1>2 DEF FirstStep
<1> QED BY <1>1, <1>2, <1>3

LEMMA SubmitSteps ==
    ASSUME RInv, NEW c \in Clients, SubmitCheck(c) \/ SubmitCreate(c) \/ NodeCreate(c)
    PROVE  RInv' /\ Grown
<1>0. PICK m \in Call : m = rcall[c] /\ CallIsRight(m)
  BY DEF RInv, ReviewTypeOK, CallsAreRight
<1>01. PICK len \in Nat : len = Len(records)
  BY DEF RInv, ReviewTypeOK
<1>1. CASE SubmitCheck(c)
  <2> DEFINE n == [m EXCEPT !.pc = "create", !.since = len]
  <2>1. rcall' = [rcall EXCEPT ![c] = n] /\ records' = records /\ journal' = journal
    BY <1>0, <1>01, <1>1 DEF SubmitCheck, RInv, ReviewTypeOK
  <2>2. n \in Call
    BY DEF Call
  <2>3. CallIsRight(n)'
    <3>1. n.pc = "create" /\ n.since = len /\ n.flow = m.flow
      BY DEF Call
    <3>2. Steps(m.flow) # {} /\ \A i \in DOMAIN records : ~Pending(i)
      BY <1>0, <1>1 DEF SubmitCheck
    <3> HIDE DEF n
    <3> QED BY <1>01, <2>1, <3>1, <3>2 DEF CallIsRight, Pending
  <2> HIDE DEF n
  <2> QED BY <2>1, <2>2, <2>3, QuietStep DEF RInv, ReviewTypeOK
<1>2. CASE SubmitCreate(c)
  <2> DEFINE r == NewRecord(m.flow, FirstStep(m.flow), m.user, "api", m.since)
  <2>1. m.pc = "create" /\ Steps(m.flow) # {} /\ m.flow \in Flows
    BY <1>0, <1>2 DEF SubmitCreate, At, CallIsRight, Call
  <2>2. r \in Record
    BY <2>1, FirstStepIsFirst DEF NewRecord, Record, Call
  <2>3. \A s \in Steps(r.flow) : ~(s < r.step)
    BY <2>1, FirstStepIsFirst DEF NewRecord
  <2>4. r.status = "pending" /\ r.since = m.since
    BY DEF NewRecord
  <2>5. r.since <= Len(records) /\ \A i \in DOMAIN records : i <= r.since => ~Pending(i)
    BY <1>0, <2>1, <2>4 DEF CallIsRight
  <2>6. Appended(r) /\ journal' = journal /\ rcall' = [rcall EXCEPT ![c] = Idle]
    BY <1>0, <1>2 DEF SubmitCreate, Appended, End
  <2> HIDE DEF r
  <2>7. Grown /\ StepsArePassed' /\ LooksWereRight'
    BY <2>2, <2>3, <2>4, <2>5, <2>6, AppendedIsGrown, AppendKeeps DEF RInv
  <2> QED BY <2>6, <2>7, RecordStep, IdleIsCall
<1>3. CASE NodeCreate(c)
  <2> DEFINE r == NewRecord(DefaultFlow, 1, Nobody, "node", 0)
             n == [m EXCEPT !.pc = "mark"]
  <2>1. r \in Record /\ r.status = "pending" /\ r.from # "api"
    BY FlowsAssumption DEF NewRecord, Record
  <2>2. \A s \in Steps(r.flow) : ~(s < r.step)
    BY FlowsAssumption DEF NewRecord
  <2>3. Appended(r) /\ journal' = journal /\ rcall' = [rcall EXCEPT ![c] = n]
    BY <1>0, <1>3 DEF NodeCreate, Appended, Goto, RInv, ReviewTypeOK
  <2>4. n \in Call /\ CallIsRight(n)'
    BY DEF Call, CallIsRight
  <2> HIDE DEF r, n
  <2>5. Grown /\ StepsArePassed' /\ LooksWereRight'
    BY <2>1, <2>2, <2>3, AppendedIsGrown, AppendKeeps DEF RInv
  <2> QED BY <2>3, <2>4, <2>5, RecordStep
<1> QED BY <1>1, <1>2, <1>3

LEMMA ActSteps ==
    ASSUME RInv, NEW c \in Clients, ActNote(c) \/ ActDecide(c) \/ CancelWrite(c)
    PROVE  RInv' /\ Grown
<1>0. PICK m \in Call : m = rcall[c] /\ CallIsRight(m)
  BY DEF RInv, ReviewTypeOK, CallsAreRight
<1>01. m.rec \in DOMAIN records
  BY <1>0 DEF ActNote, ActDecide, CancelWrite, At, CallIsRight
<1>02. PICK old \in Record : old = records[m.rec] /\ Passed(m.rec, old)
  BY <1>01, RecordsAreTyped DEF RInv, StepsArePassed
<1>03. old.step \in Nat
  BY DEF Record
<1>1. CASE ActNote(c)
  <2> DEFINE n == [m EXCEPT !.pc = "decide"]
             e == [rec |-> m.rec, step |-> m.step, action |-> m.action, by |-> m.user]
  <2>1. /\ rcall' = [rcall EXCEPT ![c] = n] /\ records' = records
        /\ journal' = journal \cup {e}
    BY <1>0, <1>1 DEF ActNote, Goto, RInv, ReviewTypeOK
  <2>2. /\ m.action \in Actions /\ m.user \in Users
        /\ m.step \in Steps(records[m.rec].flow)
    BY <1>0, <1>1 DEF ActNote, At, CallIsRight
  <2>3. e \in Entry /\ journal' \subseteq Entry
    BY <2>1, <2>2 DEF Call, Entry, RInv, ReviewTypeOK
  <2>4. n \in Call /\ n.pc = "decide" /\ n.rec = m.rec /\ n.step = m.step
        /\ n.action = m.action /\ n.user = m.user
    BY DEF Call
  <2>5. Noted(m.rec, m.step, {m.action})'
    <3>1. e \in journal' /\ e.rec = m.rec /\ e.step = m.step /\ e.action = m.action
      BY <2>1
    <3> QED BY <3>1, Zenon DEF Noted
  <2> HIDE DEF n, e
  <2>6. CallIsRight(n)'
    BY <1>01, <2>1, <2>2, <2>4, <2>5 DEF CallIsRight, Noted
  <2> QED BY <2>1, <2>3, <2>4, <2>6, QuietStep
<1>2. CASE ActDecide(c)
  <2>1. /\ m.pc = "decide" /\ journal' = journal
        /\ rcall' = [rcall EXCEPT ![c] = Idle]
        /\ UpdateRecordCAS(m.rec, m.step, Decided(old, m.action))
    BY <1>0, <1>02, <1>2 DEF ActDecide, At, End
  <2>2. /\ m.action \in Actions /\ m.step \in Steps(old.flow)
        /\ Noted(m.rec, m.step, {m.action})
    BY <1>0, <1>02, <2>1 DEF CallIsRight
  <2>3. CASE Pending(m.rec) /\ old.step = m.step
    <3> DEFINE d == Decided(old, m.action)
    <3>1. /\ d \in Record
          /\ d.flow = old.flow /\ d.from = old.from /\ d.since = old.since
          /\ d.step >= old.step
          /\ \A s \in Steps(old.flow) : s < d.step => s <= old.step
          /\ d.step # old.step => m.action # "reject" /\ d.status = old.status
          /\ d.status = "approved" /\ old.status # "approved" =>
                 /\ d.step = old.step /\ m.action = "approve"
                 /\ \A s \in Steps(old.flow) : s <= old.step
      BY <2>2, DecidedIsRecord
    <3>2. old.status = "pending"
      BY <1>02, <2>3 DEF Pending
    <3> HIDE DEF d
    <3>3. ASSUME NEW s \in Steps(d.flow), s < d.step
          PROVE  Noted(m.rec, s, {"approve", "skip"})
      <4>1. s \in Nat /\ s <= old.step
        BY <3>1, <3>3, FlowsAssumption DEF Record
      <4>2. CASE s = old.step
        <5>1. m.action # "reject"
          BY <3>1, <3>3, <4>2, <1>03
        <5> QED BY <2>2, <2>3, <4>2, <5>1 DEF Noted, Actions
      <4>3. CASE s < old.step
        BY <1>02, <3>1, <3>3, <4>3 DEF Passed
      <4> QED BY <1>03, <4>1, <4>2, <4>3
    <3>4. d.status = "approved" =>
            /\ d.step \in Steps(d.flow)
            /\ \A s \in Steps(d.flow) : s <= d.step
            /\ Noted(m.rec, d.step, {"approve"})
      BY <2>2, <2>3, <3>1, <3>2
    <3>5. Passed(m.rec, d)
      BY <3>3, <3>4 DEF Passed
    <3>6. UpdateRecordCAS(m.rec, m.step, d)
      BY <2>1 DEF d
    <3>7. Grown /\ StepsArePassed' /\ LooksWereRight'
      BY <1>01, <1>02, <2>1, <3>1, <3>5, <3>6, CASKeeps
    <3> QED BY <2>1, <3>7, RecordStep, IdleIsCall
  <2>4. CASE ~(Pending(m.rec) /\ old.step = m.step)
    <3>1. records' = records
      BY <1>02, <2>1, <2>4 DEF UpdateRecordCAS
    <3> QED BY <2>1, <3>1, QuietStep, IdleIsCall DEF RInv, ReviewTypeOK
  <2> QED BY <2>3, <2>4
<1>3. CASE CancelWrite(c)
  <2> DEFINE r == [old EXCEPT !.status = "cancelled"]
  <2>1. /\ journal' = journal /\ rcall' = [rcall EXCEPT ![c] = Idle]
        /\ UpdateRecordCAS(m.rec, m.step, r)
    BY <1>0, <1>02, <1>3 DEF CancelWrite, End
  <2>2. /\ r \in Record /\ r.flow = old.flow /\ r.from = old.from
        /\ r.since = old.since /\ r.step = old.step /\ r.status = "cancelled"
    BY DEF Record
  <2> HIDE DEF r
  <2>3. Passed(m.rec, r)
    BY <1>02, <2>2 DEF Passed
  <2>4. r.step >= old.step
    BY <1>03, <2>2
  <2>5. Grown /\ StepsArePassed' /\ LooksWereRight'
    BY <1>01, <1>02, <2>1, <2>2, <2>3, <2>4, CASKeeps
  <2> QED BY <2>1, <2>5, RecordStep, IdleIsCall
<1> QED BY <1>1, <1>2, <1>3

LEMMA ReviewKeeps == ASSUME RInv, [ReviewNext]_rvars PROVE RInv' /\ Grown
<1>1. ASSUME NEW c \in Clients, ReviewStart(c) PROVE RInv' /\ Grown
  BY <1>1, StartStep
<1>2. ASSUME NEW c \in Clients, ReviewStep(c) PROVE RInv' /\ Grown
  <2>1. CASE SubmitCheck(c) \/ SubmitCreate(c) \/ NodeCreate(c)
    BY <2>1, SubmitSteps
  <2>2. CASE ActNote(c) \/ ActDecide(c) \/ CancelWrite(c)
    BY <2>2, ActSteps
  <2>3. CASE NodeMark(c) \/ Abandon(c)
    <3>1. rcall' = [rcall EXCEPT ![c] = Idle] /\ records' = records /\ journal' = journal
      BY <2>3 DEF NodeMark, Abandon, End
    <3> QED BY <3>1, QuietStep, IdleIsCall DEF RInv, ReviewTypeOK
  <2> QED BY <1>2, <2>1, <2>2, <2>3 DEF ReviewStep
<1>3. CASE UNCHANGED rvars
  <2>1. records' = records /\ journal' = journal /\ rcall' = rcall
    BY <1>3 DEF rvars
  <2>2. RInv'
    BY <2>1 DEF RInv, ReviewTypeOK, CallsAreRight, CallIsRight, StepsArePassed, Passed,
              LooksWereRight, Noted, Pending
  <2> QED BY <2>1, <2>2, SameIsGrown DEF RInv
<1> QED BY <1>1, <1>2, <1>3 DEF ReviewNext

LEMMA RInvHolds == ReviewSpec => []RInv
<1>1. ReviewInit => RInv
  <2> SUFFICES ASSUME ReviewInit PROVE RInv
    OBVIOUS
  <2>1. ReviewTypeOK
    BY IdleIsCall DEF ReviewInit, ReviewTypeOK
  <2>2. CallsAreRight
    BY IdleIsCall DEF ReviewInit, CallsAreRight
  <2>3. DOMAIN records = {}
    BY DEF ReviewInit
  <2> QED BY <2>1, <2>2, <2>3 DEF RInv, StepsArePassed, LooksWereRight
<1>2. RInv /\ [ReviewNext]_rvars => RInv'
  BY ReviewKeeps
<1> QED BY <1>1, <1>2, PTL DEF ReviewSpec

-------------------------------------------------------------------------------
(* Release contains Review, so what holds of every behaviour of Review     *)
(* holds of the reviews of a video that is rendered, edited and published  *)
(* at the same time.                                                       *)

(* A step of the composition is a step of Review or leaves its tables      *)
(* alone: nothing in the rendering or the publication of a video writes a  *)
(* review (review.submit writes the video, never the other way round).     *)
THEOREM ReleaseRunsReview == Spec => ReviewSpec
<1>1. Init => ReviewInit
  BY DEF Init
<1>2. [Next]_vars => [ReviewNext]_rvars
  <2> SUFFICES ASSUME [Next]_vars PROVE [ReviewNext]_rvars
    OBVIOUS
  <2>1. ASSUME NEW c \in Clients, StartCall(c) PROVE [ReviewNext]_rvars
    BY <2>1 DEF StartCall, ReviewNext
  <2>2. ASSUME NEW c \in Clients, StepCall(c) PROVE [ReviewNext]_rvars
    BY <2>2 DEF StepCall, ReviewNext
  <2>3. CASE UNCHANGED vars
    BY <2>3 DEF vars, rvars
  <2>4. CASE UNCHANGED rvars
    BY <2>4
  <2> QED BY <2>1, <2>2, <2>3, <2>4 DEF Next
<1> QED BY <1>1, <1>2, PTL DEF Spec, ReviewSpec

(* No interleaving of reviewers approves a video past a step of its flow,  *)
(* for any flows, any number of reviewers and reviews.                     *)
THEOREM ApprovalsPassedEveryStep == Spec => []ApprovalsAreBacked
<1>1. RInv => ApprovalsAreBacked
  <2> SUFFICES ASSUME RInv, NEW i \in DOMAIN records, records[i].status = "approved",
                      NEW s \in Steps(records[i].flow)
               PROVE  /\ Noted(i, s, {"approve", "skip"})
                      /\ (\A n \in Steps(records[i].flow) : n <= s)
                            => Noted(i, s, {"approve"})
    BY DEF ApprovalsAreBacked
  <2>1. records[i].flow \in Flows /\ records[i].step \in Nat /\ s \in Nat
    <3>1. records[i] \in Record
      BY RecordsAreTyped DEF RInv
    <3>2. records[i].flow \in Flows
      BY <3>1 DEF Record
    <3> QED BY <3>1, <3>2, FlowsAssumption DEF Record
  <2>2. Passed(i, records[i])
    BY DEF RInv, StepsArePassed
  <2>3. /\ records[i].step \in Steps(records[i].flow) /\ s <= records[i].step
        /\ Noted(i, records[i].step, {"approve"})
    BY <2>2 DEF Passed
  <2>4. CASE s < records[i].step
    BY <2>1, <2>2, <2>3, <2>4 DEF Passed
  <2>5. CASE s = records[i].step
    BY <2>3, <2>5 DEF Noted
  <2> QED BY <2>1, <2>3, <2>4, <2>5
<1> QED BY <1>1, RInvHolds, ReleaseRunsReview, PTL

(* A review that ended stays as it ended and one in progress never goes    *)
(* back, whatever stale copies are acted on.                               *)
THEOREM ReviewsAdvance == Spec => ReviewOnlyAdvances
<1>1. RInv /\ [ReviewNext]_rvars =>
        [\A i \in DOMAIN records :
            /\ i \in DOMAIN records'
            /\ records'[i].step >= records[i].step
            /\ ~Pending(i) => records'[i] = records[i]]_rvars
  BY ReviewKeeps DEF Grown
<1> QED BY <1>1, RInvHolds, ReleaseRunsReview, PTL DEF ReviewSpec, ReviewOnlyAdvances

(* Submit opens a second review only if it looked before the first was     *)
(* there.                                                                  *)
THEOREM SecondReviewsAreBlind == Spec => []SecondReviewIsBlind
<1>1. RInv => SecondReviewIsBlind
  <2> SUFFICES ASSUME RInv, NEW i \in DOMAIN records, NEW j \in DOMAIN records,
                      Pending(i), records[j].from = "api"
               PROVE  records[j].since < i
    BY DEF SecondReviewIsBlind
  <2>1. ~(i <= records[j].since)
    BY DEF RInv, LooksWereRight
  <2>2. i \in Nat /\ records[j].since \in Nat
    BY RecordsAreTyped DEF RInv, ReviewTypeOK
  <2> QED BY <2>1, <2>2
<1> QED BY <1>1, RInvHolds, ReleaseRunsReview, PTL

-------------------------------------------------------------------------------
(* The video's row.                                                        *)

\* Neither the row nor a copy of it that an edit is about to write back says
\* succeeded without a file.
VInv ==
    /\ video \in VideoRow /\ vcall \in [Clients -> VideoCall]
    /\ SucceededHasFile
    /\ \A c \in Clients : vcall[c].status = "succeeded" => vcall[c].out # NoFile

LEMMA StatusKeeps ==
    ASSUME VInv, NEW status \in Statuses \ {"succeeded"}, vcall' = vcall,
           UpdateStatus(status) \/ UNCHANGED video
    PROVE  VInv'
<1>1. CASE video' = [video EXCEPT !.status = status]
  BY <1>1 DEF VInv, VideoRow, SucceededHasFile
<1>2. CASE video' = video
  BY <1>2 DEF VInv, SucceededHasFile
<1> QED BY <1>1, <1>2 DEF UpdateStatus

LEMMA VideoKeeps == ASSUME VInv, Next PROVE VInv'
<1> USE DEF VInv, VideoRow, VideoCall, SucceededHasFile
<1>1. ASSUME NEW c \in Clients, VideoStart(c) PROVE VInv'
  BY <1>1 DEF VideoStart, UpdateRead, RenderRead, VBegin, VIdle, Outputs, Statuses
<1>2. ASSUME NEW c \in Clients, VideoStep(c) PROVE VInv'
  <2>1. CASE UpdateWrite(c)
    <3>1. vcall' = [vcall EXCEPT ![c] = VIdle]
      BY <2>1 DEF UpdateWrite, VEnd
    <3>2. video' = [video EXCEPT !.status = vcall[c].status, !.out = vcall[c].out]
          \/ video' = video
      BY <2>1 DEF UpdateWrite, UpdateRow
    <3>3. vcall' \in [Clients -> VideoCall] /\ (\A d \in Clients : vcall'[d] \in {vcall[d], VIdle})
      BY <3>1 DEF VIdle, Outputs, Statuses
    <3>4. video' \in VideoRow /\ SucceededHasFile'
      BY <3>2
    <3> QED BY <3>3, <3>4 DEF VIdle
  <2>2. CASE RenderMark(c)
    <3>1. vcall' = [vcall EXCEPT ![c].pc = "enqueue"]
      BY <2>2 DEF RenderMark, VGoto
    <3>2. video' \in {video, [video EXCEPT !.status = "queued"]}
      BY <2>2 DEF RenderMark, TryStatus, UpdateStatus
    <3>3. video' \in VideoRow /\ SucceededHasFile'
      BY <3>2 DEF Statuses
    <3> QED BY <3>1, <3>3
  <2>3. CASE RenderEnqueue(c) \/ VAbandon(c)
    <3>1. vcall' = [vcall EXCEPT ![c] = VIdle] /\ video' = video
      BY <2>3 DEF RenderEnqueue, VAbandon, VEnd
    <3> QED BY <3>1 DEF VIdle, Outputs, Statuses
  <2> QED BY <1>2, <2>1, <2>2, <2>3 DEF VideoStep
<1>3. CASE VideoAtOnce
  <2>1. CASE Create("draft") \/ Create("queued")
    BY <2>1 DEF Create, Outputs, Statuses
  <2>2. CASE Delete
    BY <2>2 DEF Delete
  <2> QED BY <1>3, <2>1, <2>2 DEF VideoAtOnce
<1>4. ASSUME NEW t \in Renders, Compose(t) PROVE VInv'
  <2>1. CASE Deliver(t) \/ Load(t) \/ Finish(t) \/ LoseAttempt(t)
    <3>1. video' = video /\ vcall' = vcall
      BY <2>1 DEF Deliver, Load, Finish, LoseAttempt
    <3> QED BY <3>1
  <2>2. CASE MarkRunning(t)
    BY <2>2, StatusKeeps DEF MarkRunning, TryStatus, Statuses
  <2>3. CASE ComposeFails(t)
    BY <2>3, StatusKeeps DEF ComposeFails, TryStatus, Statuses
  <2>4. CASE SaveOutput(t)
    <3>1. vcall' = vcall /\ (video' = [video EXCEPT !.status = "succeeded", !.out = t]
                            \/ video' = video)
      BY <2>4 DEF SaveOutput, UpdateRow
    <3>2. t # NoFile /\ t \in Outputs /\ "succeeded" \in Statuses
      BY FilesAssumption DEF Outputs, Statuses
    <3> QED BY <3>1, <3>2
  <2> QED BY <1>4, <2>1, <2>2, <2>3, <2>4 DEF Compose
<1>5. ASSUME NEW c \in Clients, ReviewMarks(c), vcall' = vcall PROVE VInv'
  BY <1>5, StatusKeeps DEF ReviewMarks, TryStatus, Statuses
<1>6. CASE UNCHANGED videov
  BY <1>6 DEF videov
<1> QED BY <1>1, <1>2, <1>3, <1>4, <1>5, <1>6 DEF Next, StartCall, StepCall

LEMMA VInvHolds == Spec => []VInv
<1>1. Init => VInv
  BY FilesAssumption DEF Init, VideoInit, VInv, VideoRow, VideoCall, VIdle,
     SucceededHasFile, Outputs, Statuses
<1>2. VInv /\ [Next]_vars => VInv'
  <2>1. ASSUME VInv, UNCHANGED vars PROVE VInv'
    BY <2>1 DEF VInv, vars, videov, SucceededHasFile
  <2> QED BY <2>1, VideoKeeps
<1> QED BY <1>1, <1>2, PTL DEF Spec

(* No order of renders, retries, stale edits and status writes leaves the  *)
(* status succeeded on a row without a file.                               *)
THEOREM SucceededVideosHaveFiles == Spec => []SucceededHasFile
<1>1. VInv => SucceededHasFile
  BY DEF VInv
<1> QED BY <1>1, VInvHolds, PTL

-------------------------------------------------------------------------------
(* The publish row.                                                        *)

\* The reviews counted by the look behind a row are no longer pending.
Cleared(row) ==
    /\ row.checked <= Len(records)
    /\ \A i \in DOMAIN records : i <= row.checked => ~Pending(i)

\* So it is for the row, and for every copy of a row a call will write.
PInv ==
    /\ publish \in PublishRow /\ pcall \in [Clients -> PublishCall]
    /\ Cleared(publish) /\ \A c \in Clients : Cleared(pcall[c].row)

LEMMA ClearedStays ==
    ASSUME ReviewTypeOK, Grown
    PROVE  \A row \in PublishRow : Cleared(row) => Cleared(row)'
<1> SUFFICES ASSUME NEW row \in PublishRow, Cleared(row) PROVE Cleared(row)'
  OBVIOUS
<1>1. row.checked \in Int /\ Len(records) \in Nat /\ Len(records') \in Nat
  BY DEF PublishRow, Unchecked, ReviewTypeOK, Grown
<1>2. row.checked <= Len(records) /\ Len(records) <= Len(records')
  BY DEF Cleared, Grown
<1>3. ASSUME NEW i \in DOMAIN records', i <= row.checked PROVE ~Pending(i)'
  <2>1. i \in DOMAIN records
    BY <1>1, <1>2, <1>3 DEF ReviewTypeOK, Grown
  <2>2. ~Pending(i)
    BY <1>3, <2>1 DEF Cleared
  <2> QED BY <2>1, <2>2 DEF Grown, Pending
<1> QED BY <1>1, <1>2, <1>3 DEF Cleared

(* A step that writes to the row, and to the call of one client, rows that *)
(* were cleared.                                                           *)
LEMMA PublishWrites ==
    ASSUME PInv, ReviewTypeOK, records' = records, NEW c \in Clients,
           NEW row \in PublishRow, Cleared(row), publish' = row,
           NEW call \in PublishCall, Cleared(call.row), pcall' = [pcall EXCEPT ![c] = call]
    PROVE  PInv'
<1>1. \A r \in PublishRow : Cleared(r) => Cleared(r)'
  BY ClearedStays, SameIsGrown
<1>2. pcall' \in [Clients -> PublishCall]
  BY DEF PInv
<1>3. \A d \in Clients : pcall'[d].row \in PublishRow /\ Cleared(pcall[d].row)'
  <2> SUFFICES ASSUME NEW d \in Clients
               PROVE  pcall'[d].row \in PublishRow /\ Cleared(pcall[d].row)'
    OBVIOUS
  <2>1. PICK r \in PublishRow : r = pcall'[d].row /\ Cleared(r)
    BY DEF PInv, PublishCall
  <2>2. Cleared(r)'
    BY <1>1, <2>1
  <2> QED BY <2>1, <2>2 DEF Cleared
<1>4. Cleared(publish)'
  <2>1. Cleared(row)'
    BY <1>1
  <2> QED BY <2>1 DEF Cleared
<1> QED BY <1>2, <1>3, <1>4 DEF PInv

LEMMA ReviewsKeepPublish == ASSUME PInv, ReviewTypeOK, Grown, UNCHANGED pvars PROVE PInv'
<1>1. \A r \in PublishRow : Cleared(r) => Cleared(r)'
  BY ClearedStays
<1>2. publish' = publish /\ pcall' = pcall
  BY DEF pvars
<1>3. \A d \in Clients : pcall[d].row \in PublishRow
  BY DEF PInv, PublishCall
<1>4. Cleared(publish)'
  <2>1. PICK r \in PublishRow : r = publish /\ Cleared(r)
    BY DEF PInv
  <2>2. Cleared(r)'
    BY <1>1, <2>1
  <2> QED BY <1>2, <2>1, <2>2 DEF Cleared
<1>5. ASSUME NEW d \in Clients PROVE Cleared(pcall[d].row)'
  <2>1. PICK r \in PublishRow : r = pcall[d].row /\ Cleared(r)
    BY <1>3 DEF PInv
  <2>2. Cleared(r)'
    BY <1>1, <2>1
  <2> QED BY <1>2, <2>1, <2>2 DEF Cleared
<1> QED BY <1>2, <1>4, <1>5 DEF PInv

(* What the publication's own steps write, and who says it was cleared.    *)
LEMMA PublishStarts ==
    ASSUME PInv, ReviewTypeOK, records' = records, NEW c \in Clients, PublishStart(c)
    PROVE  PInv'
<1>0. /\ publish \in PublishRow /\ Cleared(publish)
      /\ PIdle \in PublishCall /\ NotPublished \in PublishRow /\ Cleared(NotPublished)
  BY DEF PInv, ReviewTypeOK, PIdle, NotPublished, PublishCall, PublishRow, Cleared, Unchecked
<1> DEFINE call(pc, row) == [pc |-> pc, row |-> row]
<1>01. /\ [PIdle EXCEPT !.pc = "look"] = call("look", NotPublished)
      /\ [PIdle EXCEPT !.pc = "off"] = call("off", NotPublished)
      /\ [PIdle EXCEPT !.pc = "count"] = call("count", NotPublished)
  BY DEF PIdle
<1>1. CASE PublishRead(c)
  <2>1. publish' = publish /\ pcall' = [pcall EXCEPT ![c] = call("look", NotPublished)]
    <3>1. publish' = publish /\ pcall' = [pcall EXCEPT ![c] = [PIdle EXCEPT !.pc = "look"]]
      BY <1>1 DEF PublishRead, PBegin
    <3> QED BY <1>01, <3>1, Zenon
  <2>2. call("look", NotPublished) \in PublishCall
    BY <1>0 DEF PublishCall
  <2> QED BY <1>0, <2>1, <2>2, PublishWrites
<1>2. CASE UnpublishRead(c)
  <2>1. publish' = publish /\ pcall' = [pcall EXCEPT ![c] = call("off", NotPublished)]
    <3>1. publish' = publish /\ pcall' = [pcall EXCEPT ![c] = [PIdle EXCEPT !.pc = "off"]]
      BY <1>2 DEF UnpublishRead, PBegin
    <3> QED BY <1>01, <3>1, Zenon
  <2>2. call("off", NotPublished) \in PublishCall
    BY <1>0 DEF PublishCall
  <2> QED BY <1>0, <2>1, <2>2, PublishWrites
<1>3. CASE CountRead(c)
  <2>1. publish' = publish /\ pcall' = [pcall EXCEPT ![c] = call("count", NotPublished)]
    <3>1. publish' = publish /\ pcall' = [pcall EXCEPT ![c] = [PIdle EXCEPT !.pc = "count"]]
      BY <1>3 DEF CountRead, PBegin
    <3> QED BY <1>01, <3>1, Zenon
  <2>2. call("count", NotPublished) \in PublishCall
    BY <1>0 DEF PublishCall
  <2> QED BY <1>0, <2>1, <2>2, PublishWrites
<1>4. CASE WatermarkRead(c)
  <2>1. publish' = publish /\ pcall' = [pcall EXCEPT ![c] = call("watermark", publish)]
    BY <1>4 DEF WatermarkRead, PBegin
  <2>2. PICK row \in PublishRow : row = publish /\ Cleared(row)
    BY <1>0
  <2>3. call("watermark", row) \in PublishCall
    BY DEF PublishCall
  <2> QED BY <2>1, <2>2, <2>3, PublishWrites
<1> QED BY <1>1, <1>2, <1>3, <1>4 DEF PublishStart

(* PublishReview is the step that finds the reviews ended.                 *)
LEMMA PublishSteps ==
    ASSUME PInv, ReviewTypeOK, records' = records, NEW c \in Clients, PublishStep(c)
    PROVE  PInv'
<1>0. PICK row \in PublishRow : row = publish /\ Cleared(row)
  BY DEF PInv
<1>1. PICK old \in PublishCall : old = pcall[c] /\ Cleared(old.row)
  BY DEF PInv
<1>2. old.row \in PublishRow /\ row.count \in Nat
  BY DEF PublishCall, PublishRow
<1>3. PIdle \in PublishCall /\ Cleared(PIdle.row)
  BY DEF PIdle, NotPublished, PublishCall, PublishRow, Cleared, Unchecked, ReviewTypeOK
<1>4. CASE PublishLook(c)
  <2> DEFINE new == [old EXCEPT !.pc = "review"]
  <2>1. pcall' = [pcall EXCEPT ![c] = new] /\ publish' = row
    BY <1>0, <1>1, <1>4 DEF PublishLook, PGoto, PInv
  <2>2. new \in PublishCall /\ new.row = old.row
    BY DEF PublishCall
  <2> HIDE DEF new
  <2>3. Cleared(new.row)
    BY <1>1, <2>2
  <2> QED BY <1>0, <2>1, <2>2, <2>3, PublishWrites
<1>5. CASE PublishReview(c)
  <2>1. PICK checked \in {Len(records), Unchecked} :
          /\ checked # Unchecked => \A i \in DOMAIN records : ~Pending(i)
          /\ pcall' = [pcall EXCEPT ![c] =
                 [pc |-> "upsert", row |-> [st |-> "on", count |-> 0, checked |-> checked]]]
    BY <1>5 DEF PublishReview
  <2> DEFINE seen == [st |-> "on", count |-> 0, checked |-> checked]
             new == [pc |-> "upsert", row |-> seen]
  <2>2. checked \in Nat \cup {Unchecked} /\ checked <= Len(records)
    BY DEF Unchecked, ReviewTypeOK
  <2>3. seen \in PublishRow /\ new \in PublishCall /\ new.row = seen
    BY <2>2 DEF PublishRow, PublishCall
  <2>4. seen.checked = checked
    OBVIOUS
  <2>5. \A i \in DOMAIN records : i <= checked => ~Pending(i)
    BY <2>1 DEF Unchecked, ReviewTypeOK
  <2>6. pcall' = [pcall EXCEPT ![c] = new] /\ publish' = row
    BY <1>0, <1>5, <2>1 DEF PublishReview
  <2> HIDE DEF seen, new
  <2>7. Cleared(new.row)
    BY <2>2, <2>3, <2>4, <2>5 DEF Cleared
  <2> QED BY <1>0, <2>3, <2>6, <2>7, PublishWrites
<1>6. CASE PublishUpsert(c) \/ WatermarkUpsert(c)
  <2>1. publish' = old.row /\ pcall' = [pcall EXCEPT ![c] = PIdle]
    BY <1>1, <1>6 DEF PublishUpsert, WatermarkUpsert, Upsert, PEnd
  <2> QED BY <1>1, <1>2, <1>3, <2>1, PublishWrites
<1>7. CASE UnpublishWrite(c)
  <2> DEFINE off == [row EXCEPT !.st = "off"]
  <2>1. publish' = off /\ pcall' = [pcall EXCEPT ![c] = PIdle]
    BY <1>0, <1>7 DEF UnpublishWrite, PEnd
  <2>2. off \in PublishRow /\ off.checked = row.checked
    BY DEF PublishRow
  <2> HIDE DEF off
  <2>3. Cleared(off)
    BY <1>0, <2>2 DEF Cleared
  <2> QED BY <1>3, <2>1, <2>2, <2>3, PublishWrites
<1>8. CASE CountAdd(c)
  <2> DEFINE more == [row EXCEPT !.count = row.count + 1]
  <2>1. publish' = more /\ pcall' = [pcall EXCEPT ![c] = PIdle]
    BY <1>0, <1>8 DEF CountAdd, PEnd
  <2>2. more \in PublishRow /\ more.checked = row.checked
    BY <1>2 DEF PublishRow
  <2> HIDE DEF more
  <2>3. Cleared(more)
    BY <1>0, <2>2 DEF Cleared
  <2> QED BY <1>3, <2>1, <2>2, <2>3, PublishWrites
<1>9. CASE PAbandon(c)
  <2>1. publish' = row /\ pcall' = [pcall EXCEPT ![c] = PIdle]
    BY <1>0, <1>9 DEF PAbandon, PEnd
  <2> QED BY <1>0, <1>3, <2>1, PublishWrites
<1> QED BY <1>4, <1>5, <1>6, <1>7, <1>8, <1>9 DEF PublishStep

LEMMA PublishKeeps == ASSUME RInv, PInv, [Next]_vars PROVE PInv'
<1>1. ASSUME NEW c \in Clients, StartCall(c) PROVE PInv'
  <2>1. CASE ReviewStart(c) /\ UNCHANGED pvars
    BY <2>1, ReviewKeeps, ReviewsKeepPublish DEF ReviewNext, RInv
  <2>2. CASE UNCHANGED <<rvars, pvars>>
    BY <2>2, SameIsGrown, ReviewsKeepPublish DEF RInv, rvars
  <2>3. CASE PublishStart(c) /\ UNCHANGED rvars
    BY <2>3, PublishStarts DEF RInv, rvars
  <2> QED BY <1>1, <2>1, <2>2, <2>3 DEF StartCall
<1>2. ASSUME NEW c \in Clients, StepCall(c) PROVE PInv'
  <2>1. CASE ReviewStep(c) /\ UNCHANGED pvars
    BY <2>1, ReviewKeeps, ReviewsKeepPublish DEF ReviewNext, RInv
  <2>2. CASE UNCHANGED <<rvars, pvars>>
    BY <2>2, SameIsGrown, ReviewsKeepPublish DEF RInv, rvars
  <2>3. CASE PublishStep(c) /\ UNCHANGED rvars
    BY <2>3, PublishSteps DEF RInv, rvars
  <2> QED BY <1>2, <2>1, <2>2, <2>3 DEF StepCall
<1>3. CASE UNCHANGED <<rvars, pvars>>
  BY <1>3, SameIsGrown, ReviewsKeepPublish DEF RInv, rvars
<1>4. CASE UNCHANGED vars
  BY <1>3, <1>4 DEF vars
<1> QED BY <1>1, <1>2, <1>3, <1>4 DEF Next

LEMMA PInvHolds == Spec => []PInv
<1>1. Init => PInv
  BY DEF Init, ReviewInit, PInv, PIdle, NotPublished, PublishCall, PublishRow, Cleared, Unchecked
<1>2. RInv /\ PInv /\ [Next]_vars => PInv'
  BY PublishKeeps
<1> QED BY <1>1, <1>2, RInvHolds, ReleaseRunsReview, PTL DEF Spec

(* A video on the public list was put there by a call that found every     *)
(* review opened before its look ended, or whose look failed: no stale     *)
(* watermark edit, take-down or later review brings back an older row.     *)
THEOREM OnSaleVideosWereCleared == Spec => []OnSaleWasCleared
<1>1. RInv /\ PInv => OnSaleWasCleared
  <2> SUFFICES ASSUME RInv, PInv, NEW i \in DOMAIN records, Pending(i)
               PROVE  i > publish.checked
    BY DEF OnSaleWasCleared
  <2>1. ~(i <= publish.checked)
    BY DEF PInv, Cleared
  <2>2. i \in Nat /\ publish.checked \in Int
    BY DEF PInv, PublishRow, Unchecked, RInv, ReviewTypeOK
  <2> QED BY <2>1, <2>2
<1> QED BY <1>1, RInvHolds, PInvHolds, ReleaseRunsReview, PTL

(* The three tables and the calls in progress keep their types, for any    *)
(* number of clients, renders and reviews.                                 *)
THEOREM TypeCorrect == Spec => []TypeOK
<1>1. RInv /\ VInv /\ PInv => TypeOK
  BY DEF RInv, VInv, PInv, TypeOK
<1> QED BY <1>1, RInvHolds, VInvHolds, PInvHolds, ReleaseRunsReview, PTL

===============================================================================
