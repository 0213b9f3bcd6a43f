----------------------------- MODULE CatalogProofs -----------------------------
(***************************************************************************)
(* Proofs about Catalog, for any clients, upstream keys and bounds.  The   *)
(* causes StaleHasCause names make it inductive as it stands; beside it    *)
(* only the types are needed.                                              *)
(***************************************************************************)
EXTENDS Catalog, TLAPS

-------------------------------------------------------------------------------
(* Types.                                                                  *)

LEMMA CallsStayTyped ==
    ASSUME TypeOK, NEW c \in Clients,
           \/ End(c)
           \/ \E pc \in {"write", "key", "mark", "fill", "clear", "clearAll", "clearLast"} :
                 Goto(c, pc)
    PROVE  call' \in [Clients -> Call]
<1>1. CASE End(c)
  BY <1>1 DEF TypeOK, End, Idle, Call
<1>2. ASSUME NEW pc \in {"write", "key", "mark", "fill", "clear", "clearAll", "clearLast"},
             Goto(c, pc)
      PROVE  call' \in [Clients -> Call]
  <2>1. call[c] \in Call
    BY DEF TypeOK
  <2>2. [call[c] EXCEPT !.pc = pc] \in Call
    BY <2>1 DEF Call
  <2> QED BY <1>2, <2>2 DEF TypeOK, Goto
<1> QED BY <1>1, <1>2

LEMMA ResumeStaysTyped ==
    ASSUME TypeOK, NEW c \in Clients, NEW key \in Keys \cup {NoKey}, Resume(c, key)
    PROVE  call' \in [Clients -> Call]
<1>1. call[c] \in Call /\ call \in [Clients -> Call]
  BY DEF TypeOK
<1>2. CASE call' = [call EXCEPT ![c].pc = "write", ![c].key = key]
  <2>1. [call[c] EXCEPT !.pc = "write", !.key = key] \in Call
    BY <1>1 DEF Call
  <2> QED BY <1>1, <1>2, <2>1
<1>3. CASE Goto(c, "mark") \/ End(c)
  BY <1>3, CallsStayTyped
<1> QED BY <1>2, <1>3 DEF Resume

LEMMA StartIsTyped ==
    ASSUME TypeOK, NEW c \in Clients, Start(c) PROVE TypeOK'
<1>1. PICK pc \in {"get", "insert", "remove"},
           op \in {"read", "load", "update", "create", "health", "delete"},
           new \in Keys \cup {NoKey} : Begin(c, pc, op, new)
  BY DEF Start
<1>2. [Idle EXCEPT !.pc = pc, !.op = op, !.new = new] \in Call
  BY DEF Idle, Call
<1>3. call' \in [Clients -> Call]
  BY <1>1, <1>2 DEF Begin, TypeOK
<1> QED BY <1>3 DEF TypeOK, Start

LEMMA WritesAreTyped ==
    ASSUME TypeOK, NEW new \in Row, NEW K, IfLive(new, K)
    PROVE  row' \in Row /\ vers' \in [CacheKeys -> Nat]
BY DEF TypeOK, IfLive, Changed

LEMMA PutIsTyped ==
    ASSUME TypeOK, NEW k \in CacheKeys, NEW ver \in Nat, Put(k, ver)
    PROVE  cache' \in [CacheKeys -> CacheEntry] /\ missed' \in [CacheKeys -> BOOLEAN]
<1> DEFINE late == ver # vers[k]
           entry == [there |-> TRUE, ver |-> ver, late |-> late]
<1>1. late \in BOOLEAN
  OBVIOUS
<1>2. cache' = [cache EXCEPT ![k] = entry] /\ missed' = [missed EXCEPT ![k] = FALSE]
  BY DEF Put
<1> HIDE DEF late
<1>3. entry \in CacheEntry
  BY <1>1 DEF CacheEntry
<1> HIDE DEF entry
<1> QED BY <1>2, <1>3 DEF TypeOK

LEMMA ClearsAreTyped ==
    ASSUME TypeOK, NEW k \in CacheKeys, Clear(k)
    PROVE  cache' \in [CacheKeys -> CacheEntry] /\ missed' \in [CacheKeys -> BOOLEAN]
           /\ lost' \in Nat
<1>1. CASE Drop(k) /\ UNCHANGED lost
  BY <1>1 DEF TypeOK, Drop, Absent, CacheEntry
<1>2. CASE lost' = lost + 1 /\ missed' = [missed EXCEPT ![k] = cache[k].there] /\ cache' = cache
  <2>1. cache[k].there \in BOOLEAN
    BY DEF TypeOK, CacheEntry
  <2> QED BY <1>2, <2>1 DEF TypeOK
<1> QED BY <1>1, <1>2 DEF Clear

LEMMA TypeKept == ASSUME TypeOK, [Next]_vars PROVE TypeOK'
<1>1. ASSUME NEW c \in Clients, Step(c) PROVE TypeOK'
  <2>0. /\ call[c] \in Call /\ call[c].key \in Keys \cup {NoKey}
        /\ call[c].new \in Keys \cup {NoKey} /\ call[c].ver \in Nat
    BY DEF TypeOK, Call
  <2>1. CASE GetHit(c)
    BY <2>1, ResumeStaysTyped DEF GetHit, TypeOK
  <2>2. CASE GetLoad(c)
    <3>1. ReadKey(c) \in CacheKeys
      BY DEF ReadKey, CacheKeys
    <3>2. vers[ReadKey(c)] \in Nat /\ row.key \in Keys \cup {NoKey}
      BY <3>1 DEF TypeOK, Row
    <3>3. [call[c] EXCEPT !.pc = "fill", !.key = row.key, !.ver = vers[ReadKey(c)]] \in Call
      BY <2>0, <3>2 DEF Call
    <3>4. call' \in [Clients -> Call]
      BY <2>2, <3>3 DEF GetLoad, TypeOK
    <3> QED BY <2>2, <3>4 DEF GetLoad, TypeOK
  <2>3. CASE GetFill(c)
    <3>1. ReadKey(c) \in CacheKeys
      BY DEF ReadKey, CacheKeys
    <3>2. cache' \in [CacheKeys -> CacheEntry] /\ missed' \in [CacheKeys -> BOOLEAN]
      BY <2>0, <2>3, <3>1, PutIsTyped DEF GetFill, TypeOK
    <3>3. call' \in [Clients -> Call]
      BY <2>0, <2>3, ResumeStaysTyped DEF GetFill
    <3> QED BY <2>3, <3>2, <3>3 DEF GetFill, TypeOK
  <2>4. CASE Insert(c)
    BY <2>0, <2>4, CallsStayTyped DEF Insert, Changed, TypeOK, Row
  <2>5. CASE WriteRow(c) \/ WriteKey(c) \/ MarkHealth(c) \/ Remove(c)
    <3>1. PICK new \in Row, K \in SUBSET CacheKeys : IfLive(new, K)
      <4>1. [row EXCEPT !.key = call[c].key] \in Row /\ [row EXCEPT !.key = call[c].new] \in Row
            /\ row \in Row /\ [row EXCEPT !.st = "deleted"] \in Row
        BY <2>0 DEF TypeOK, Row
      <4> QED BY <2>5, <4>1 DEF WriteRow, WriteKey, MarkHealth, Remove, CacheKeys
    <3>2. row' \in Row /\ vers' \in [CacheKeys -> Nat]
      BY <3>1, WritesAreTyped
    <3>3. call' \in [Clients -> Call]
      BY <2>5, CallsStayTyped DEF WriteRow, WriteKey, MarkHealth, Remove
    <3> QED BY <2>5, <3>2, <3>3 DEF WriteRow, WriteKey, MarkHealth, Remove, TypeOK
  <2>6. CASE ClearOne(c) \/ ClearAll(c) \/ ClearLast(c)
    <3>1. PICK k \in CacheKeys : Clear(k)
      BY <2>6 DEF ClearOne, ClearAll, ClearLast, CacheKeys
    <3>2. call' \in [Clients -> Call]
      BY <2>6, CallsStayTyped DEF ClearOne, ClearAll, ClearLast, AfterClear
    <3> QED BY <2>6, <3>1, <3>2, ClearsAreTyped DEF ClearOne, ClearAll, ClearLast, TypeOK
  <2> QED BY <1>1, <2>1, <2>2, <2>3, <2>4, <2>5, <2>6 DEF Step
<1>2. ASSUME NEW c \in Clients, Abandon(c) PROVE TypeOK'
  <2>1. missed' \in [CacheKeys -> BOOLEAN]
    BY <1>2 DEF Abandon
  <2>2. lost' \in Nat
    BY <1>2 DEF Abandon, TypeOK
  <2> QED BY <1>2, <2>1, <2>2, CallsStayTyped DEF Abandon, TypeOK
<1>3. ASSUME NEW k \in CacheKeys, Expire(k) PROVE TypeOK'
  BY <1>3 DEF Expire, Drop, Absent, CacheEntry, TypeOK
<1>4. CASE UNCHANGED vars
  BY <1>4 DEF vars, TypeOK
<1> QED BY <1>1, <1>2, <1>3, <1>4, StartIsTyped DEF Next

(* The catalog's variables keep their types.                               *)
THEOREM TypeCorrect == Spec => []TypeOK
<1>1. Init => TypeOK
  BY CatalogAssumption DEF Init, TypeOK, Row, CacheEntry, Absent, Call, Idle
<1> QED BY <1>1, TypeKept, PTL DEF Spec

-------------------------------------------------------------------------------
(* Staleness.                                                              *)

(* A client's step changes what other clients owe in nothing.              *)
LEMMA OthersStillOwe ==
    ASSUME TypeOK, NEW c \in Clients, NEW m, call' = [call EXCEPT ![c] = m]
    PROVE  \A d \in Clients \ {c}, k \in CacheKeys : Owes(d, k) => Owes(d, k)'
BY DEF TypeOK, Owes, At

(* A step that leaves the cache and the versions alone, by a client that   *)
(* owes nothing.                                                           *)
LEMMA OwerlessKeeps ==
    ASSUME TypeOK, StaleHasCause, NEW c \in Clients, NEW m, call' = [call EXCEPT ![c] = m],
           \A k \in CacheKeys : ~Owes(c, k),
           UNCHANGED <<vers, cache, missed>>
    PROVE  StaleHasCause'
<1> SUFFICES ASSUME NEW k \in CacheKeys, cache[k].there, cache[k].ver # vers[k]
             PROVE  cache[k].late \/ missed[k] \/ \E d \in Clients : Owes(d, k)'
  BY DEF StaleHasCause
<1>1. cache[k].late \/ missed[k] \/ \E d \in Clients : Owes(d, k)
  BY DEF StaleHasCause
<1> QED BY <1>1, OthersStillOwe

(* A write: the versions of K move, and the client owes deletions of all   *)
(* of K.                                                                   *)
LEMMA WriterOwes ==
    ASSUME TypeOK, StaleHasCause, NEW c \in Clients, NEW pc, Goto(c, pc),
           \A k \in CacheKeys : ~Owes(c, k),
           NEW K \in SUBSET CacheKeys, Changed(K) \/ UNCHANGED vers,
           \A k \in K : Owes(c, k)',
           UNCHANGED <<cache, missed>>
    PROVE  StaleHasCause'
<1> SUFFICES ASSUME NEW k \in CacheKeys, cache[k].there, cache[k].ver # vers'[k]
             PROVE  cache[k].late \/ missed[k] \/ \E d \in Clients : Owes(d, k)'
  BY DEF StaleHasCause
<1>1. CASE k \in K
  BY <1>1
<1>2. CASE k \notin K
  <2>1. vers'[k] = vers[k]
    BY <1>2 DEF Changed
  <2>2. cache[k].late \/ missed[k] \/ \E d \in Clients : Owes(d, k)
    BY <2>1 DEF StaleHasCause
  <2> QED BY <2>2, OthersStillOwe DEF Goto
<1> QED BY <1>1, <1>2

(* A deletion, or its loss.                                                *)
LEMMA ClearKeeps ==
    ASSUME TypeOK, StaleHasCause, NEW c \in Clients, NEW m, call' = [call EXCEPT ![c] = m],
           NEW k \in CacheKeys, Clear(k), UNCHANGED vers,
           \A j \in CacheKeys \ {k} : Owes(c, j) => Owes(c, j)'
    PROVE  StaleHasCause'
<1> SUFFICES ASSUME NEW j \in CacheKeys, cache'[j].there, cache'[j].ver # vers[j]
             PROVE  cache'[j].late \/ missed'[j] \/ \E d \in Clients : Owes(d, j)'
  BY DEF StaleHasCause
<1>1. CASE j = k
  <2>1. CASE Drop(k)
    BY <1>1, <2>1 DEF Drop, Absent, TypeOK
  <2>2. CASE missed' = [missed EXCEPT ![k] = cache[k].there] /\ cache' = cache
    BY <1>1, <2>2 DEF TypeOK
  <2> QED BY <2>1, <2>2 DEF Clear
<1>2. CASE j # k
  <2>1. cache'[j] = cache[j] /\ missed'[j] = missed[j]
    BY <1>2 DEF Clear, Drop, TypeOK
  <2>2. cache[j].late \/ missed[j] \/ \E d \in Clients : Owes(d, j)
    BY <2>1 DEF StaleHasCause
  <2> QED BY <1>2, <2>1, <2>2, OthersStillOwe
<1> QED BY <1>1, <1>2

LEMMA ReadsKeepCauses ==
    ASSUME TypeOK, StaleHasCause, NEW c \in Clients,
           Start(c) \/ GetHit(c) \/ GetLoad(c) \/ GetFill(c)
    PROVE  StaleHasCause'
<1>1. \A k \in CacheKeys : ~Owes(c, k)
  BY DEF Start, Begin, GetHit, GetLoad, GetFill, Owes, At
<1>2. PICK m : call' = [call EXCEPT ![c] = m]
  BY DEF Start, Begin, GetHit, GetLoad, GetFill, Resume, Goto, End
<1>3. CASE UNCHANGED <<vers, cache, missed>>
  BY <1>1, <1>2, <1>3, OwerlessKeeps
<1>4. CASE vers' = vers /\ Put(ReadKey(c), call[c].ver)
  <2> SUFFICES ASSUME NEW k \in CacheKeys, cache'[k].there, cache'[k].ver # vers[k]
               PROVE  cache'[k].late \/ missed'[k] \/ \E d \in Clients : Owes(d, k)'
    BY <1>4 DEF StaleHasCause
  <2>1. CASE k = ReadKey(c)
    BY <1>4, <2>1 DEF Put, TypeOK
  <2>2. CASE k # ReadKey(c)
    <3>1. cache'[k] = cache[k] /\ missed'[k] = missed[k]
      BY <1>4, <2>2 DEF Put, TypeOK
    <3>2. cache[k].late \/ missed[k] \/ \E d \in Clients : Owes(d, k)
      BY <3>1 DEF StaleHasCause
    <3> QED BY <1>1, <1>2, <3>1, <3>2, OthersStillOwe
  <2> QED BY <2>1, <2>2
<1> QED BY <1>3, <1>4 DEF Start, GetHit, GetLoad, GetFill

LEMMA WritesKeepCauses ==
    ASSUME TypeOK, StaleHasCause, NEW c \in Clients,
           Insert(c) \/ WriteRow(c) \/ WriteKey(c) \/ MarkHealth(c) \/ Remove(c)
    PROVE  StaleHasCause'
<1>1. \A k \in CacheKeys : ~Owes(c, k)
  BY DEF Insert, WriteRow, WriteKey, MarkHealth, Remove, Owes, At
<1>2. c \in DOMAIN call
  BY DEF TypeOK
<1>3. CASE Insert(c) \/ WriteRow(c) \/ Remove(c)
  <2>1. Goto(c, "clear") /\ UNCHANGED <<cache, missed>>
        /\ (Changed(CacheKeys) \/ UNCHANGED vers)
    BY <1>3 DEF Insert, WriteRow, Remove, IfLive
  <2>2. call'[c].pc = "clear"
    BY <1>2, <2>1 DEF Goto, TypeOK, Call
  <2>3. \A k \in CacheKeys : Owes(c, k)'
    BY <2>2 DEF Owes, At
  <2> QED BY <1>1, <2>1, <2>3, WriterOwes
<1>4. CASE WriteKey(c) \/ MarkHealth(c)
  <2>1. Goto(c, "clearLast") /\ UNCHANGED <<cache, missed>>
        /\ (Changed({"one"}) \/ UNCHANGED vers)
    BY <1>4 DEF WriteKey, MarkHealth, IfLive
  <2>2. call'[c].pc = "clearLast"
    BY <1>2, <2>1 DEF Goto, TypeOK, Call
  <2>3. \A k \in {"one"} : Owes(c, k)'
    BY <2>2 DEF Owes, At
  <2> QED BY <1>1, <2>1, <2>3, WriterOwes DEF CacheKeys
<1> QED BY <1>3, <1>4

LEMMA ClearsKeepCauses ==
    ASSUME TypeOK, StaleHasCause, NEW c \in Clients,
           ClearOne(c) \/ ClearAll(c) \/ ClearLast(c) \/ Abandon(c)
    PROVE  StaleHasCause'
<1>0. PICK m : call' = [call EXCEPT ![c] = m]
  BY DEF ClearOne, ClearAll, ClearLast, Abandon, AfterClear, Goto, End
<1>1. CASE ClearOne(c)
  <2>1. call'[c].pc = "clearAll"
    BY <1>1 DEF ClearOne, Goto, TypeOK, Call
  <2>2. \A k \in CacheKeys \ {"one"} : Owes(c, k)'
    BY <2>1 DEF Owes, At, CacheKeys
  <2> QED BY <1>0, <1>1, <2>2, ClearKeeps DEF ClearOne, CacheKeys
<1>2. CASE ClearAll(c)
  <2>1. \A k \in CacheKeys \ {"all"} : ~Owes(c, k)
    BY <1>2 DEF ClearAll, Owes, At
  <2> QED BY <1>0, <1>2, <2>1, ClearKeeps DEF ClearAll, CacheKeys
<1>3. CASE ClearLast(c)
  <2>1. \A k \in CacheKeys \ {"one"} : ~Owes(c, k)
    BY <1>3 DEF ClearLast, Owes, At
  <2> QED BY <1>0, <1>3, <2>1, ClearKeeps DEF ClearLast, CacheKeys
<1>4. CASE Abandon(c)
  <2> SUFFICES ASSUME NEW k \in CacheKeys, cache[k].there, cache[k].ver # vers[k]
               PROVE  cache[k].late \/ missed'[k] \/ \E d \in Clients : Owes(d, k)'
    BY <1>4 DEF StaleHasCause, Abandon
  <2>1. cache[k].late \/ missed[k] \/ \E d \in Clients : Owes(d, k)
    BY DEF StaleHasCause
  <2>2. missed'[k] = (missed[k] \/ (Owes(c, k) /\ cache[k].there))
    BY <1>4 DEF Abandon
  <2> QED BY <1>0, <2>1, <2>2, OthersStillOwe
<1> QED BY <1>1, <1>2, <1>3, <1>4

(* Whatever readers, writers, lost deletions and dying requests do, a      *)
(* stale entry has one of the three causes: every write deletes, after it, *)
(* each cache key it makes stale.                                          *)
THEOREM StaleEntriesHaveCauses == Spec => []StaleHasCause
<1>1. Init => StaleHasCause
  BY DEF Init, StaleHasCause, Absent
<1>2. TypeOK /\ StaleHasCause /\ [Next]_vars => StaleHasCause'
  <2> SUFFICES ASSUME TypeOK, StaleHasCause, [Next]_vars PROVE StaleHasCause'
    OBVIOUS
  <2>1. ASSUME NEW c \in Clients, Start(c) \/ Step(c) \/ Abandon(c) PROVE StaleHasCause'
    BY <2>1, ReadsKeepCauses, WritesKeepCauses, ClearsKeepCauses DEF Step
  <2>2. ASSUME NEW k \in CacheKeys, Expire(k) PROVE StaleHasCause'
    <3>1. \A j \in CacheKeys : cache'[j] = Absent \/ (cache'[j] = cache[j] /\ missed'[j] = missed[j])
      BY <2>2 DEF Expire, Drop, TypeOK
    <3>2. vers' = vers /\ call' = call
      BY <2>2 DEF Expire
    <3> QED BY <3>1, <3>2 DEF StaleHasCause, Owes, At, Absent
  <2>3. CASE UNCHANGED vars
    BY <2>3 DEF vars, StaleHasCause, Owes, At
  <2> QED BY <2>1, <2>2, <2>3 DEF Next
<1> QED BY <1>1, <1>2, TypeCorrect, PTL DEF Spec

(* No stale copy that is written back, and no late health mark or key,     *)
(* brings a deleted model back or changes it.                              *)
THEOREM DeletionIsFinal == Spec => DeletedStaysDeleted
<1>1. [Next]_vars => [row.st = "deleted" => row' = row]_row
  <2> SUFFICES ASSUME [Next]_vars, row.st = "deleted" PROVE row' = row
    OBVIOUS
  <2>1. ASSUME NEW c \in Clients, Start(c) \/ Step(c) \/ Abandon(c) PROVE row' = row
    <3>1. ~Live /\ row.st # "none"
      BY DEF Live
    <3>2. ASSUME NEW new, NEW K, IfLive(new, K) PROVE row' = row
      BY <3>1, <3>2 DEF IfLive
    <3> QED BY <2>1, <3>1, <3>2 DEF Start, Step, Abandon, GetHit, GetLoad, GetFill, Insert,
              WriteRow, WriteKey, MarkHealth, Remove, ClearOne, ClearAll, ClearLast
  <2>2. ASSUME NEW k \in CacheKeys, Expire(k) PROVE row' = row
    BY <2>2 DEF Expire
  <2> QED BY <2>1, <2>2 DEF Next, vars
<1> QED BY <1>1, PTL DEF Spec, DeletedStaysDeleted
===============================================================================
