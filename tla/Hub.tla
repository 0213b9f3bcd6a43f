--------------------------------- MODULE Hub ---------------------------------
(***************************************************************************)
(* pkg/ws: the hub that pushes progress events to WebSocket connections.   *)
(* Every process has one: a loop (Run) that selects among its channels, a  *)
(* subscriber that puts what Redis relays into the same broadcast channel, *)
(* and two goroutines per connection (readPump, writePump).  One task      *)
(* publishes events 1, 2, ... on one topic, in any process; the clients    *)
(* are connections to that topic, each of which is made once.              *)
(***************************************************************************)
EXTENDS Naturals, Sequences, FiniteSets

CONSTANTS
    Procs,          \* processes that run a hub
    Clients, Home,  \* connections, and the process each is made to
    RegisterCap, BroadcastCap, SendCap,     \* capacities of the channels
    MaxEvents       \* bound: events published

ASSUME HubAssumption ==
    /\ IsFiniteSet(Clients) /\ Home \in [Clients -> Procs]
    /\ {RegisterCap, BroadcastCap, SendCap} \subseteq Nat \ {0}
    /\ MaxEvents \in Nat

VARIABLES
    conn,       \* none, open, silent (its peer is gone unnoticed), closed
    reader,     \* readPump: none, reading, leaving, done
    writer,     \* writePump: none, writing, done
    register, unregister, broadcast,    \* the channels of each hub
    members,    \* clients, of each hub
    send,       \* the channel of each client
    shut,       \* clients whose send channel was closed
    task,       \* the publishing process, its next event, and whether that has
                \* gone to the local hub
    relay,      \* what Redis has for the subscriber of each process
    got,        \* history: events written to each connection
    overtaken   \* history: unregistered before it was registered

connVars == <<conn, reader, writer, got>>
hubVars == <<register, unregister, members, shut, overtaken>>
eventVars == <<broadcast, send, task, relay>>
wsVars == <<connVars, hubVars, eventVars>>

HubInit ==
    /\ conn = [c \in Clients |-> "none"]
    /\ reader = [c \in Clients |-> "none"] /\ writer = [c \in Clients |-> "none"]
    /\ register = [p \in Procs |-> << >>] /\ unregister = [p \in Procs |-> << >>]
    /\ broadcast = [p \in Procs |-> << >>]
    /\ members = [p \in Procs |-> {}]
    /\ send = [c \in Clients |-> << >>] /\ shut = {}
    /\ task \in [at : Procs, next : {1}, told : {FALSE}]
    /\ relay = [p \in Procs |-> << >>]
    /\ got = [c \in Clients |-> << >>] /\ overtaken = {}

\* A send that does not block: a full channel drops the event.
Offer(chan, ev, cap) == IF Len(chan) < cap THEN Append(chan, ev) ELSE chan

-----------------------------------------------------------------------------
(* A connection.                                                           *)

\* ServeWS: the upgrade, then a send to register that may have to wait; the
\* pumps start after it.
Upgrade(c) ==
    /\ conn[c] = "none"
    /\ conn' = [conn EXCEPT ![c] = "open"]
    /\ UNCHANGED <<reader, writer, got, hubVars, eventVars>>

Enroll(c) ==
    /\ conn[c] # "none" /\ reader[c] = "none"
    /\ Len(register[Home[c]]) < RegisterCap
    /\ register' = [register EXCEPT ![Home[c]] = Append(@, c)]
    /\ reader' = [reader EXCEPT ![c] = "reading"]
    /\ writer' = [writer EXCEPT ![c] = "writing"]
    /\ UNCHANGED <<conn, got, unregister, members, shut, overtaken, eventVars>>

\* The peer closes the connection, or vanishes without a word.
PeerLeaves(c) ==
    /\ conn[c] = "open"
    /\ \E how \in {"closed", "silent"} : conn' = [conn EXCEPT ![c] = how]
    /\ UNCHANGED <<reader, writer, got, hubVars, eventVars>>

\* NextReader ends with the connection, or at the deadline no pong moved.
ReadFails(c) ==
    /\ reader[c] = "reading" /\ conn[c] \in {"closed", "silent"}
    /\ reader' = [reader EXCEPT ![c] = "leaving"]
    /\ UNCHANGED <<conn, writer, got, hubVars, eventVars>>

\* The deferred send to unregister.
Resign(c) ==
    /\ reader[c] = "leaving"
    /\ Len(unregister[Home[c]]) < RegisterCap
    /\ unregister' = [unregister EXCEPT ![Home[c]] = Append(@, c)]
    /\ reader' = [reader EXCEPT ![c] = "done"]
    /\ UNCHANGED <<conn, writer, got, register, members, shut, overtaken, eventVars>>

\* writePump: one event to the peer; a write to a closed connection ends it.
Write(c) ==
    /\ writer[c] = "writing" /\ send[c] # << >>
    /\ send' = [send EXCEPT ![c] = Tail(@)]
    /\ IF conn[c] = "closed"
       THEN writer' = [writer EXCEPT ![c] = "done"] /\ UNCHANGED got
       ELSE got' = [got EXCEPT ![c] = Append(@, Head(send[c]))] /\ UNCHANGED writer
    /\ UNCHANGED <<conn, reader, hubVars, broadcast, task, relay>>

\* The channel was closed and is drained: the connection is closed.
WriterEnds(c) ==
    /\ writer[c] = "writing" /\ send[c] = << >> /\ c \in shut
    /\ writer' = [writer EXCEPT ![c] = "done"]
    /\ conn' = [conn EXCEPT ![c] = "closed"]
    /\ UNCHANGED <<reader, got, hubVars, eventVars>>

-----------------------------------------------------------------------------
(* The loop of a hub: it picks any channel that has something for it.      *)

TakeRegister(p) ==
    /\ register[p] # << >>
    /\ register' = [register EXCEPT ![p] = Tail(@)]
    /\ members' = [members EXCEPT ![p] = @ \cup {Head(register[p])}]
    /\ UNCHANGED <<connVars, unregister, shut, overtaken, eventVars>>

\* Mutant: the channel of a client that leaves stays open.
TakeUnregisterUnclosed(p) ==
    /\ unregister[p] # << >>
    /\ LET c == Head(unregister[p]) IN
       /\ members' = [members EXCEPT ![p] = @ \ {c}]
       /\ overtaken' = (IF c \in members[p] THEN overtaken ELSE overtaken \cup {c})
    /\ unregister' = [unregister EXCEPT ![p] = Tail(@)]
    /\ UNCHANGED <<connVars, register, shut, eventVars>>

\* A client that is not a member yet is passed over.
TakeUnregister(p) ==
    /\ unregister[p] # << >>
    /\ LET c == Head(unregister[p]) IN
       /\ members' = [members EXCEPT ![p] = @ \ {c}]
       /\ shut' = (IF c \in members[p] THEN shut \cup {c} ELSE shut)
       /\ overtaken' = (IF c \in members[p] THEN overtaken ELSE overtaken \cup {c})
    /\ unregister' = [unregister EXCEPT ![p] = Tail(@)]
    /\ UNCHANGED <<connVars, register, eventVars>>

\* Every member's channel is offered the event; a slow one misses it.
TakeBroadcast(p) ==
    /\ broadcast[p] # << >>
    /\ broadcast' = [broadcast EXCEPT ![p] = Tail(@)]
    /\ send' = [c \in Clients |->
                   IF c \in members[p] THEN Offer(send[c], Head(broadcast[p]), SendCap)
                                       ELSE send[c]]
    /\ UNCHANGED <<connVars, hubVars, task, relay>>

\* The ticker closes the connection of a member that has not answered.
KeepAlive(p) ==
    \E c \in members[p] :
        /\ conn[c] = "silent"
        /\ conn' = [conn EXCEPT ![c] = "closed"]
        /\ UNCHANGED <<reader, writer, got, hubVars, eventVars>>

-----------------------------------------------------------------------------
(* Events.                                                                 *)

\* Publish, first half: into the broadcast channel of its own process.
PublishLocally ==
    /\ ~task.told /\ task.next <= MaxEvents
    /\ broadcast' = [broadcast EXCEPT ![task.at] = Offer(@, task.next, BroadcastCap)]
    /\ task' = [task EXCEPT !.told = TRUE]
    /\ UNCHANGED <<connVars, hubVars, send, relay>>

\* Second half: to Redis, which hands it to the subscribers, this process's
\* too; each may miss it, and the publication may fail for all of them.
PublishToRedis ==
    /\ task.told
    /\ \E reached \in SUBSET Procs :
           relay' = [p \in Procs |-> IF p \in reached THEN Append(relay[p], task.next)
                                                      ELSE relay[p]]
    /\ task' = [task EXCEPT !.told = FALSE, !.next = @ + 1]
    /\ UNCHANGED <<connVars, hubVars, broadcast, send>>

\* Mutant: the subscriber publishes what it receives.
SubscribeEchoes(p) ==
    /\ relay[p] # << >>
    /\ relay' = [q \in Procs |-> IF q = p THEN Append(Tail(relay[p]), Head(relay[p]))
                                 ELSE Append(relay[q], Head(relay[p]))]
    /\ broadcast' = [broadcast EXCEPT ![p] = Offer(@, Head(relay[p]), BroadcastCap)]
    /\ UNCHANGED <<connVars, hubVars, send, task>>

Subscribe(p) ==
    /\ relay[p] # << >>
    /\ relay' = [relay EXCEPT ![p] = Tail(@)]
    /\ broadcast' = [broadcast EXCEPT ![p] = Offer(@, Head(relay[p]), BroadcastCap)]
    /\ UNCHANGED <<connVars, hubVars, send, task>>

Pump(c) == Enroll(c) \/ ReadFails(c) \/ Resign(c) \/ Write(c) \/ WriterEnds(c)

HubNext ==
    \/ \E c \in Clients : Upgrade(c) \/ PeerLeaves(c) \/ Pump(c)
    \/ \E p \in Procs : \/ TakeRegister(p) \/ TakeUnregister(p) \/ TakeBroadcast(p)
                        \/ KeepAlive(p) \/ Subscribe(p)
    \/ PublishLocally \/ PublishToRedis

HubSpec == HubInit /\ [][HubNext]_wsVars

\* Goroutines are scheduled, and a select chooses at random among the channels
\* that are ready, so that none of them is passed over for ever.
HubFairSpec ==
    /\ HubSpec
    /\ \A c \in Clients : /\ WF_wsVars(Enroll(c)) /\ WF_wsVars(ReadFails(c) \/ Resign(c))
                          /\ WF_wsVars(Write(c) \/ WriterEnds(c))
    /\ \A p \in Procs : /\ WF_wsVars(TakeRegister(p)) /\ WF_wsVars(TakeUnregister(p))
                        /\ WF_wsVars(TakeBroadcast(p)) /\ WF_wsVars(KeepAlive(p))
                        /\ WF_wsVars(Subscribe(p))

-----------------------------------------------------------------------------
HubTypeOK ==
    /\ conn \in [Clients -> {"none", "open", "silent", "closed"}]
    /\ reader \in [Clients -> {"none", "reading", "leaving", "done"}]
    /\ writer \in [Clients -> {"none", "writing", "done"}]
    /\ register \in [Procs -> Seq(Clients)] /\ unregister \in [Procs -> Seq(Clients)]
    /\ members \in [Procs -> SUBSET Clients]
    /\ broadcast \in [Procs -> Seq(1..MaxEvents)] /\ relay \in [Procs -> Seq(1..MaxEvents)]
    /\ send \in [Clients -> Seq(1..MaxEvents)] /\ got \in [Clients -> Seq(1..MaxEvents)]
    /\ shut \subseteq Clients /\ overtaken \subseteq Clients
    /\ task \in [at : Procs, next : 1..(MaxEvents + 1), told : BOOLEAN]
    /\ task.told => task.next <= MaxEvents

\* A connection in another process than the task's sees the events in order,
\* none of them twice and none again after a later one, whatever is dropped on
\* the way: a subscriber hands what it receives to its own hub and to nobody else.
NoEcho ==
    \A c \in Clients : Home[c] # task.at =>
        \A i, j \in DOMAIN got[c] : i < j => got[c][i] < got[c][j]

\* What follows from the comments of BindRedis and Publish, by which a bound hub
\* publishes to Redis instead of to its own channel, and the subscriber brings
\* the event back: no connection, in the task's process or another, sees an
\* event twice.
SeenOnce ==
    \A c \in Clients : \A i, j \in DOMAIN got[c] : i # j => got[c][i] # got[c][j]

\* A connection that was closed, or whose peer vanished, leaves the hub and its
\* goroutines end, unless the loop took its unregistration before its
\* registration, which wait in two channels: nothing removes it then.
EveryoneLeaves ==
    \A c \in Clients :
        <>[](conn[c] \in {"silent", "closed"} =>
                 \/ c \in overtaken
                 \/ c \notin members[Home[c]] /\ writer[c] # "writing" /\ conn[c] = "closed")
=============================================================================
