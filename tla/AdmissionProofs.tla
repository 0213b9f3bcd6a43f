---------------------------- MODULE AdmissionProofs ----------------------------
(***************************************************************************)
(* Proofs about Admission, for any clients, keys, sizes and lives of the   *)
(* buckets and any limit on the requests in flight: the types, that a      *)
(* bucket gives no more than time put into it, that the counter counts,    *)
(* and that a request which comes late under its key stays out.            *)
(***************************************************************************)
EXTENDS Admission, FiniteSetTheorems, TLAPS

Steps == {"out", "ip", "global", "over", "auth", "rbac", "user", "idem", "reserve",
          "handler", "underKey", "save", "leave"}
BucketRow == [there : BOOLEAN, tokens : Nat, elapsed : Nat, idle : Nat]
Bounds == [{"requests", "ticks", "faults"} -> Nat]

-------------------------------------------------------------------------------
(* The buckets.  One that is not in grace holds no more than its history   *)
(* says time has left in it.                                               *)

BucketType == /\ bucket \in [Buckets -> BucketRow] /\ age \in [Clients -> Nat]
              /\ fair \in [Buckets -> Int] /\ grace \subseteq Buckets
TimeFills == \A b \in Buckets \ grace : Level(b, 0) <= fair[b]
NoneOverfull == \A b \in Buckets : fair[b] <= Burst[b]
BucketInv == BucketType /\ TimeFills /\ NoneOverfull

LEMMA LevelIsTyped ==
    ASSUME BucketType, NEW b \in Buckets, NEW a \in Nat
    PROVE  Level(b, a) \in Nat /\ Level(b, a) <= Burst[b] /\ Burst[b] \in Nat
<1>1. bucket[b].tokens \in Nat /\ bucket[b].elapsed \in Nat /\ Burst[b] \in Nat
  BY AdmissionAssumption DEF BucketType, BucketRow
<1> QED BY <1>1 DEF Level, UpTo

(* With the time of now, all that has passed since "last" is counted.      *)
LEMMA LevelNow ==
    ASSUME BucketType, NEW b \in Buckets
    PROVE  Level(b, 0) = IF bucket[b].there
                         THEN UpTo(Burst[b], bucket[b].tokens + bucket[b].elapsed) ELSE Burst[b]
<1>1. bucket[b].elapsed \in Nat
  BY DEF BucketType, BucketRow
<1> QED BY <1>1 DEF Level

(* A grant that is not dated back takes the price out of what there is now. *)
LEMMA GrantKeepsBuckets ==
    ASSUME BucketInv, NEW c \in Clients, NEW b \in Buckets, Grant(c, b), age' \in [Clients -> Nat]
    PROVE  BucketInv'
<1> DEFINE row == [there |-> TRUE, tokens |-> Level(b, age[c]) - Unit, elapsed |-> age[c], idle |-> 0]
<1>a. age[c] \in Nat /\ BucketType
  BY DEF BucketInv, BucketType
<1>1. Level(b, age[c]) \in Nat /\ Level(b, age[c]) <= Burst[b] /\ Burst[b] \in Nat /\ Unit \in Nat
      /\ Level(b, age[c]) >= Unit /\ fair[b] \in Int
  BY <1>a, LevelIsTyped, AdmissionAssumption DEF BucketType, Grant
<1>2. row \in BucketRow /\ row.there /\ row.tokens = Level(b, age[c]) - Unit /\ row.elapsed = age[c]
  BY <1>a, <1>1 DEF BucketRow
<1>3. bucket' = [bucket EXCEPT ![b] = row] /\ fair' = [fair EXCEPT ![b] = @ - Unit]
      /\ grace' = (IF DatedBack(c, b) THEN grace \cup {b} ELSE grace)
  BY DEF Grant
<1> HIDE DEF row
<1>4. BucketType'
  BY <1>1, <1>2, <1>3 DEF BucketInv, BucketType
<1>5. ASSUME ~DatedBack(c, b) PROVE Level(b, 0)' = Level(b, 0) - Unit
  <2>1. Level(b, 0)' = UpTo(Burst[b], Level(b, age[c]) - Unit + age[c])
    <3>1. bucket'[b] = row
      BY <1>3, <1>a DEF BucketType
    <3>2. Level(b, 0)' = (IF bucket'[b].there
                          THEN UpTo(Burst[b], bucket'[b].tokens + bucket'[b].elapsed) ELSE Burst[b])
      <4>1. bucket'[b].elapsed > 0 \/ bucket'[b].elapsed = 0
        BY <1>2, <1>a, <3>1
      <4> QED BY <4>1, <3>1, <1>2, <1>a, <1>1 DEF Level
    <3> QED BY <3>1, <3>2, <1>2
  <2>2. CASE age[c] = 0
    BY <1>1, <2>1, <2>2, AdmissionAssumption DEF UpTo
  <2>3. CASE age[c] <= bucket[b].elapsed /\ Level(b, 0) # Burst[b]
    <3>1. bucket[b].tokens \in Nat /\ bucket[b].elapsed \in Nat
      BY <1>a DEF BucketType, BucketRow
    <3>2. bucket[b].there /\ Level(b, 0) = bucket[b].tokens + bucket[b].elapsed
          /\ bucket[b].tokens + bucket[b].elapsed < Burst[b]
      BY <1>a, <2>3, LevelNow DEF UpTo
    <3>3. Level(b, age[c]) = bucket[b].tokens + (bucket[b].elapsed - age[c])
      BY <1>a, <1>1, <2>3, <3>1, <3>2 DEF Level, UpTo
    <3> QED BY <1>a, <1>1, <2>1, <2>3, <3>1, <3>2, <3>3, AdmissionAssumption DEF UpTo
  <2>4. bucket[b].elapsed \in Nat
    BY <1>a DEF BucketType, BucketRow
  <2> QED BY <1>5, <1>a, <2>2, <2>3, <2>4 DEF DatedBack
<1>6. fair'[b] = fair[b] - Unit
  BY <1>3 DEF BucketInv, BucketType
<1>7. \A d \in Buckets \ {b} : fair'[d] = fair[d] /\ Level(d, 0)' = Level(d, 0)
  BY <1>3 DEF BucketInv, BucketType, Level
<1>8. ASSUME NEW d \in Buckets \ grace' PROVE Level(d, 0)' <= fair'[d]
  <2>1. d \notin grace /\ Level(d, 0) <= fair[d] /\ Level(d, 0) \in Nat
    BY <1>3, <1>8, <1>a, LevelIsTyped DEF BucketInv, TimeFills
  <2>2. CASE d = b
    <3>1. ~DatedBack(c, b)
      BY <1>3, <1>8, <2>2
    <3> QED BY <1>1, <1>5, <1>6, <2>1, <2>2, <3>1
  <2> QED BY <1>7, <2>1, <2>2
<1>9. NoneOverfull'
  BY <1>1, <1>6, <1>7 DEF BucketInv, NoneOverfull
<1> QED BY <1>4, <1>8, <1>9 DEF BucketInv, TimeFills

(* A refused try that adds nothing leaves what there is.                   *)
LEMMA DenyKeepsBuckets ==
    ASSUME BucketInv, NEW c \in Clients, NEW b \in Buckets, Deny(c, b), age' \in [Clients -> Nat]
    PROVE  BucketInv'
<1> DEFINE row == [bucket[b] EXCEPT !.tokens = Level(b, age[c]), !.idle = 0]
<1>a. age[c] \in Nat /\ BucketType
  BY DEF BucketInv, BucketType
<1>1. Level(b, age[c]) \in Nat /\ Level(b, age[c]) <= Burst[b] /\ Burst[b] \in Nat
  BY <1>a, LevelIsTyped
<1>2. bucket[b] \in BucketRow
  BY DEF BucketInv, BucketType
<1>3. row \in BucketRow /\ row.there = bucket[b].there /\ row.tokens = Level(b, age[c])
      /\ row.elapsed = bucket[b].elapsed
  BY <1>1, <1>2 DEF BucketRow
<1>4. bucket' = [bucket EXCEPT ![b] = row] /\ fair' = fair
      /\ grace' = (IF bucket[b].elapsed > age[c] THEN grace \cup {b} ELSE grace)
  BY DEF Deny
<1> HIDE DEF row
<1>5. BucketType'
  BY <1>3, <1>4 DEF BucketInv, BucketType
<1>6. \A d \in Buckets \ {b} : Level(d, 0)' = Level(d, 0)
  BY <1>4 DEF BucketInv, BucketType, Level
<1>7. ASSUME ~(bucket[b].elapsed > age[c]) PROVE Level(b, 0)' <= Level(b, 0)
  <2>1. bucket[b].elapsed \in Nat /\ bucket[b].tokens \in Nat
    BY <1>2 DEF BucketRow
  <2>2. Level(b, 0)' = (IF bucket[b].there
                        THEN UpTo(Burst[b], Level(b, age[c]) + bucket[b].elapsed) ELSE Burst[b])
    <3>1. bucket'[b] = row
      BY <1>4, <1>a DEF BucketType
    <3> QED BY <1>1, <1>3, <2>1, <3>1 DEF Level
  <2>3. bucket[b].there => Level(b, age[c]) = UpTo(Burst[b], bucket[b].tokens)
    BY <1>7, <1>1, <2>1 DEF Level
  <2> QED BY <1>1, <1>a, <2>1, <2>2, <2>3, LevelNow DEF UpTo
<1>8. ASSUME NEW d \in Buckets \ grace' PROVE Level(d, 0)' <= fair'[d]
  <2>1. d \notin grace /\ Level(d, 0) <= fair[d] /\ Level(d, 0) \in Nat /\ fair[d] \in Int
    BY <1>4, <1>8, <1>a, LevelIsTyped DEF BucketInv, BucketType, TimeFills
  <2>2. Level(b, 0)' \in Nat
    BY <1>5, LevelIsTyped, <1>1, <1>3, <1>4, <1>a DEF Level, UpTo, BucketType, BucketRow
  <2>3. CASE d = b
    <3>1. ~(bucket[b].elapsed > age[c])
      BY <1>4, <1>8, <2>3
    <3> QED BY <1>4, <1>7, <2>1, <2>2, <2>3, <3>1
  <2> QED BY <1>4, <1>6, <2>1, <2>3
<1> QED BY <1>4, <1>5, <1>8 DEF BucketInv, TimeFills, NoneOverfull

LEMMA TickKeepsBuckets ==
    ASSUME BucketInv, Tick PROVE BucketInv'
<1> DEFINE Gone == {b \in Buckets : bucket[b].there /\ bucket[b].idle + 1 >= Life[b]}
           none == [there |-> FALSE, tokens |-> 0, elapsed |-> 0, idle |-> 0]
           older(b) == [bucket[b] EXCEPT !.elapsed = @ + 1, !.idle = @ + 1]
<1>1. /\ bucket' = [b \in Buckets |-> CASE b \in Gone -> none
                                        [] bucket[b].there /\ b \notin Gone -> older(b)
                                        [] OTHER -> bucket[b]]
      /\ fair' = [b \in Buckets |-> UpTo(Burst[b], fair[b] + 1)]
      /\ grace' = grace \cup {b \in Gone : Level(b, 0) + 1 < Burst[b]}
      /\ age' = [c \in Clients |->
                   IF pc[c] \in {"ip", "user"} THEN age[c] + 1 ELSE age[c]]
  BY DEF Tick
<1>2. \A b \in Buckets : Level(b, 0) \in Nat /\ Level(b, 0) <= Burst[b] /\ Burst[b] \in Nat
                         /\ fair[b] \in Int /\ bucket[b] \in BucketRow
  BY LevelIsTyped DEF BucketInv, BucketType
<1>g. ASSUME NEW b \in Gone PROVE b \in Buckets
  OBVIOUS
<1>l. ASSUME NEW b \in Buckets, b \notin Gone, bucket[b].there
      PROVE  older(b) \in BucketRow /\ older(b).there = TRUE
             /\ older(b).tokens = bucket[b].tokens /\ older(b).elapsed = bucket[b].elapsed + 1
  <2>1. bucket[b].elapsed + 1 \in Nat /\ bucket[b].idle + 1 \in Nat
    BY <1>2 DEF BucketRow
  <2> QED BY <1>2, <1>l, <2>1 DEF BucketRow
<1>n. none \in BucketRow /\ none.there = FALSE
  BY DEF BucketRow
<1> HIDE DEF Gone, older, none
<1>3. ASSUME NEW b \in Buckets
      PROVE  /\ bucket'[b] \in BucketRow
             /\ Level(b, 0)' \in Nat /\ Level(b, 0)' <= Burst[b]
             /\ \/ b \in Gone /\ Level(b, 0)' = Burst[b]
                \/ b \notin Gone /\ Level(b, 0)' <= Level(b, 0) + 1
  <2>1. CASE b \in Gone
    <3>1. bucket'[b] = none
      BY <1>1, <2>1
    <3>2. Level(b, 0)' = Burst[b]
      BY <1>n, <3>1 DEF Level
    <3> QED BY <1>2, <1>n, <2>1, <3>1, <3>2
  <2>2. CASE b \notin Gone /\ bucket[b].there
    <3>1. bucket'[b] = older(b)
      BY <1>1, <2>2
    <3>2. bucket[b].tokens \in Nat /\ bucket[b].elapsed \in Nat
      BY <1>2 DEF BucketRow
    <3>3. /\ bucket'[b].there /\ bucket'[b].tokens = bucket[b].tokens
          /\ bucket'[b].elapsed = bucket[b].elapsed + 1
      BY <1>l, <2>2, <3>1
    <3>4. Level(b, 0)' = UpTo(Burst[b], bucket[b].tokens + (bucket[b].elapsed + 1))
      BY <3>2, <3>3 DEF Level
    <3>5. Level(b, 0) = UpTo(Burst[b], bucket[b].tokens + bucket[b].elapsed)
      BY <2>2, <3>2 DEF Level
    <3>6. Level(b, 0)' \in Nat /\ Level(b, 0)' <= Burst[b] /\ Level(b, 0)' <= Level(b, 0) + 1
      BY <1>2, <3>4, <3>2, <3>5 DEF UpTo
    <3> QED BY <1>l, <2>2, <3>1, <3>6
  <2>3. CASE b \notin Gone /\ ~bucket[b].there
    <3>1. bucket'[b] = bucket[b]
      BY <1>1, <2>3
    <3> QED BY <1>2, <2>3, <3>1 DEF Level
  <2> QED BY <2>1, <2>2, <2>3
<1>5. \A b \in Buckets : fair'[b] = UpTo(Burst[b], fair[b] + 1)
  BY <1>1
<1>4. BucketType'
  <2>1. bucket' \in [Buckets -> BucketRow]
    BY <1>1, <1>3
  <2>2. \A b \in Buckets : UpTo(Burst[b], fair[b] + 1) \in Int
    BY <1>2 DEF UpTo
  <2>3. fair' \in [Buckets -> Int]
    BY <1>1, <2>2
  <2>4. grace' \subseteq Buckets
    BY <1>1, <1>g DEF BucketInv, BucketType
  <2>5. age' \in [Clients -> Nat]
    BY <1>1 DEF BucketInv, BucketType
  <2> QED BY <2>1, <2>3, <2>4, <2>5 DEF BucketType
<1>6. NoneOverfull'
  BY <1>2, <1>5 DEF NoneOverfull, UpTo
<1>7. ASSUME NEW b \in Buckets, b \notin grace' PROVE Level(b, 0)' <= fair'[b]
  <2>0. b \notin grace /\ ~(b \in Gone /\ Level(b, 0) + 1 < Burst[b])
    BY <1>1, <1>7
  <2>1. Level(b, 0) <= fair[b] /\ (b \in Gone => Level(b, 0) + 1 >= Burst[b])
    BY <1>2, <2>0 DEF BucketInv, TimeFills
  <2> QED BY <1>2, <1>3, <1>5, <2>1 DEF UpTo
<1> QED BY <1>4, <1>6, <1>7 DEF BucketInv, TimeFills

-------------------------------------------------------------------------------
(* The counter.  A request that has passed it is counted, one that has yet *)
(* to pass it is not, and one that was over the limit still is.            *)

Before == {"out", "ip", "global"}
Admitted == {c \in InFlight : pc[c] # "over"}
CountType == /\ pc \in [Clients -> Steps] /\ holds \in [Clients -> BOOLEAN]
             /\ count \in Nat /\ lost \in Nat /\ vanished \in BOOLEAN
HoldersPassed ==
    \A c \in Clients : (holds[c] => pc[c] \notin Before) /\ (pc[c] = "over" => holds[c])
CountInv == CountType /\ HoldersPassed /\ LoadIsCounted

LEMMA FlightIsFinite ==
    /\ IsFiniteSet(InFlight) /\ Cardinality(InFlight) \in Nat
    /\ IsFiniteSet(Admitted) /\ Cardinality(Admitted) \in Nat
    /\ Cardinality(Admitted) <= Cardinality(InFlight)
<1>1. InFlight \subseteq Clients /\ Admitted \subseteq InFlight
  BY DEF InFlight, Admitted
<1>2. IsFiniteSet(InFlight) /\ IsFiniteSet(Admitted)
  BY <1>1, FS_Subset, AdmissionAssumption
<1> QED BY <1>1, <1>2, FS_Subset, FS_CardinalityType

LEMMA FlightStaysFinite ==
    /\ IsFiniteSet(InFlight') /\ Cardinality(InFlight') \in Nat
    /\ IsFiniteSet(Admitted') /\ Cardinality(Admitted') \in Nat
    /\ Cardinality(Admitted') <= Cardinality(InFlight')
<1>1. InFlight' \subseteq Clients /\ Admitted' \subseteq InFlight'
  BY DEF InFlight, Admitted
<1>2. IsFiniteSet(InFlight') /\ IsFiniteSet(Admitted')
  BY <1>1, FS_Subset, AdmissionAssumption
<1> QED BY <1>1, <1>2, FS_Subset, FS_CardinalityType

(* A step that neither takes nor gives back a place.                       *)
LEMMA PassingKeepsCount ==
    ASSUME CountInv, NEW c \in Clients, NEW step \in Steps, GoTo(c, step),
           UNCHANGED <<holds, countVars>>,
           pc[c] # "over", step # "over", holds[c] => step \notin Before
    PROVE  CountInv'
<1>1. CountType' /\ HoldersPassed'
  BY DEF CountInv, CountType, HoldersPassed, GoTo, countVars
<1>2. InFlight' = InFlight /\ Admitted' = Admitted
  BY DEF InFlight, Admitted, GoTo, CountInv, CountType
<1>3. LoadIsCounted'
  BY <1>2 DEF LoadIsCounted, CountInv, countVars, Admitted
<1> QED BY <1>1, <1>3 DEF CountInv

LEMMA AcquireKeepsCount ==
    ASSUME CountInv, NEW c \in Clients, GlobalRateLimit(c) PROVE CountInv'
<1>0. pc[c] = "global" /\ UNCHANGED vanished /\ ~holds[c]
      /\ MaxConcurrent \in Nat /\ count \in Nat /\ lost \in Nat
  BY AdmissionAssumption DEF GlobalRateLimit, CountInv, CountType, HoldersPassed, Before
<1>1. CASE GoTo(c, "auth") /\ UNCHANGED <<count, lost, holds>>
  <2>1. UNCHANGED <<holds, countVars>> /\ pc[c] # "over"
    BY <1>0, <1>1 DEF countVars
  <2> QED BY <1>1, <2>1, PassingKeepsCount DEF Steps, Before
<1>2. CASE GoTo(c, "auth") /\ UNCHANGED holds /\ count' = count + 1 /\ lost' = lost + 1
  <2>1. CountType' /\ HoldersPassed'
    BY <1>0, <1>2 DEF CountInv, CountType, HoldersPassed, GoTo, Before, Steps
  <2>2. InFlight' = InFlight /\ Admitted' = Admitted
    BY <1>0, <1>2 DEF InFlight, Admitted, GoTo, CountInv, CountType
  <2>3. LoadIsCounted'
    BY <1>0, <1>2, <2>2, FlightIsFinite DEF CountInv, LoadIsCounted, Admitted
  <2> QED BY <2>1, <2>3 DEF CountInv
<1>3. CASE /\ count' = count + 1 /\ holds' = [holds EXCEPT ![c] = TRUE] /\ UNCHANGED lost
           /\ GoTo(c, IF count' > MaxConcurrent THEN "over" ELSE "auth")
  <2>1. CountType' /\ HoldersPassed'
    <3>1. GoTo(c, "over") \/ GoTo(c, "auth")
      BY <1>3
    <3> QED BY <1>0, <1>3, <3>1 DEF CountInv, CountType, HoldersPassed, GoTo, Before, Steps
  <2>2. InFlight' = InFlight \cup {c} /\ c \notin InFlight
    BY <1>0, <1>3 DEF InFlight, CountInv, CountType
  <2>3. Cardinality(InFlight') = Cardinality(InFlight) + 1
    BY <2>2, FlightIsFinite, FS_AddElement
  <2>4. CASE count' > MaxConcurrent
    <3>1. Admitted' = Admitted
      BY <1>3, <2>2, <2>4 DEF Admitted, GoTo, CountInv, CountType, InFlight
    <3>2. LoadIsCounted'
      BY <1>0, <1>3, <2>3, <3>1, FlightIsFinite DEF CountInv, LoadIsCounted, Admitted
    <3> QED BY <2>1, <3>2 DEF CountInv
  <2>5. CASE ~(count' > MaxConcurrent)
    <3>1. LoadIsCounted'
      BY <1>0, <1>3, <2>3, <2>5, FlightIsFinite, FlightStaysFinite
         DEF CountInv, LoadIsCounted, Admitted
    <3> QED BY <2>1, <3>1 DEF CountInv
  <2> QED BY <2>4, <2>5
<1> QED BY <1>0, <1>1, <1>2, <1>3 DEF GlobalRateLimit

LEMMA ReleaseKeepsCount ==
    ASSUME CountInv, NEW c \in Clients, holds[c], Release(c), GoTo(c, "out"), vanished' = vanished
    PROVE  CountInv'
<1>1. CountType' /\ HoldersPassed'
  <2>1. count' \in Nat /\ lost' \in Nat
    BY DEF Release, CountInv, CountType
  <2> QED BY <2>1 DEF Release, CountInv, CountType, HoldersPassed, GoTo, Steps
<1>2. InFlight' = InFlight \ {c} /\ c \in InFlight
  BY DEF InFlight, Release, CountInv, CountType
<1>3. Cardinality(InFlight') = Cardinality(InFlight) - 1
  BY <1>2, FlightIsFinite, FS_RemoveElement
<1>4. Cardinality(Admitted') <= Cardinality(Admitted)
  <2>1. Admitted' \subseteq Admitted
    BY <1>2 DEF Admitted, GoTo, CountInv, CountType, InFlight
  <2> QED BY <2>1, FlightIsFinite, FS_Subset
<1>5. MaxConcurrent \in Nat /\ count \in Nat /\ lost \in Nat
  BY AdmissionAssumption DEF CountInv, CountType
<1>6. CASE count' = (IF count > 1 THEN count - 1 ELSE 0) /\ UNCHANGED lost
  <2>1. LoadIsCounted'
    BY <1>3, <1>4, <1>5, <1>6, FlightIsFinite, FlightStaysFinite
       DEF CountInv, LoadIsCounted, Admitted
  <2> QED BY <1>1, <2>1 DEF CountInv
<1>7. CASE lost' = lost + 1 /\ UNCHANGED count
  <2>1. LoadIsCounted'
    BY <1>3, <1>4, <1>5, <1>7, FlightIsFinite, FlightStaysFinite
       DEF CountInv, LoadIsCounted, Admitted
  <2> QED BY <1>1, <2>1 DEF CountInv
<1> QED BY <1>6, <1>7 DEF Release

LEMMA ExpiryKeepsCount == ASSUME CountInv, CounterExpires PROVE CountInv'
<1>1. CountType' /\ HoldersPassed'
  BY DEF CounterExpires, CountInv, CountType, HoldersPassed, reqVars
<1>2. InFlight' = InFlight
  BY DEF CounterExpires, reqVars, InFlight
<1>3. LoadIsCounted'
  BY <1>2, FlightIsFinite DEF CounterExpires, LoadIsCounted
<1> QED BY <1>1, <1>3 DEF CountInv

-------------------------------------------------------------------------------
(* The key.  What has begun is still on record, and whoever found it there *)
(* is on the way out.                                                      *)

KeyType == /\ key \in [Clients -> Keys \cup {NoKey}]
           /\ entry \in [Keys -> {"none", "held", "answer"}]
           /\ begun \subseteq Keys /\ late \in [Clients -> BOOLEAN]
BegunIsHeld == \A k \in begun : entry[k] # "none"
LateLeaves == \A c \in Clients : late[c] => pc[c] = "leave"
KeyNeeded == \A c \in Clients : pc[c] \in {"reserve", "underKey", "save"} => key[c] \in Keys
KeyInv == KeyType /\ BegunIsHeld /\ LateLeaves /\ KeyNeeded

(* A step of a client that is not late, or stays where it is.              *)
LEMMA OthersKeepKeys ==
    ASSUME KeyInv, CountType, NEW c \in Clients, NEW step \in Steps, GoTo(c, step),
           UNCHANGED idemVars, ~late[c],
           \/ UNCHANGED key /\ (step \notin {"reserve", "underKey", "save"} \/ key[c] \in Keys)
           \/ /\ \E k \in Keys \cup {NoKey} : key' = [key EXCEPT ![c] = k]
              /\ step \notin {"reserve", "underKey", "save"}
    PROVE  KeyInv'
<1>1. KeyType' /\ BegunIsHeld'
  BY DEF KeyInv, KeyType, BegunIsHeld, idemVars
<1>2. \A d \in Clients \ {c} : pc'[d] = pc[d] /\ key'[d] = key[d]
  BY DEF GoTo, CountType, KeyInv, KeyType
<1>3. pc'[c] = step /\ (step \in {"reserve", "underKey", "save"} => key'[c] \in Keys)
  BY DEF GoTo, CountType, KeyInv, KeyType
<1>4. LateLeaves' /\ KeyNeeded'
  BY <1>2, <1>3 DEF KeyInv, LateLeaves, KeyNeeded, idemVars
<1> QED BY <1>1, <1>4 DEF KeyInv

LEMMA LookKeepsKeys ==
    ASSUME KeyInv, CountType, NEW c \in Clients, IdemGet(c) PROVE KeyInv'
<1>1. pc[c] = "idem" /\ ~late[c] /\ UNCHANGED <<key, entry, begun>>
  BY DEF IdemGet, KeyInv, LateLeaves
<1>2. \/ GoTo(c, "handler") /\ UNCHANGED late
      \/ /\ key[c] # NoKey
         /\ GoTo(c, IF entry[key[c]] = "none" THEN "reserve" ELSE "leave")
         /\ late' = [late EXCEPT ![c] = key[c] \in begun]
      \/ key[c] # NoKey /\ GoTo(c, "reserve") /\ UNCHANGED late
  BY DEF IdemGet
<1>3. CASE GoTo(c, "handler") /\ UNCHANGED late
  BY <1>1, <1>3, OthersKeepKeys DEF idemVars, Steps
<1>4. CASE key[c] # NoKey /\ GoTo(c, "reserve") /\ UNCHANGED late
  <2>1. key[c] \in Keys
    BY <1>4 DEF KeyInv, KeyType
  <2> QED BY <1>1, <1>4, <2>1, OthersKeepKeys DEF idemVars, Steps
<1>5. CASE /\ key[c] # NoKey
           /\ GoTo(c, IF entry[key[c]] = "none" THEN "reserve" ELSE "leave")
           /\ late' = [late EXCEPT ![c] = key[c] \in begun]
  <2>1. key[c] \in Keys
    BY <1>5 DEF KeyInv, KeyType
  <2>2. pc'[c] = (IF entry[key[c]] = "none" THEN "reserve" ELSE "leave")
        /\ \A d \in Clients \ {c} : pc'[d] = pc[d] /\ late'[d] = late[d]
    BY <1>5 DEF GoTo, CountType, KeyInv, KeyType
  <2>3. late'[c] => pc'[c] = "leave"
    BY <1>5, <2>1, <2>2 DEF KeyInv, KeyType, BegunIsHeld
  <2>4. LateLeaves' /\ KeyNeeded'
    BY <1>1, <2>1, <2>2, <2>3 DEF KeyInv, LateLeaves, KeyNeeded
  <2>5. late' \in [Clients -> BOOLEAN]
    <3>1. (key[c] \in begun) \in BOOLEAN
      OBVIOUS
    <3> QED BY <1>5, <3>1 DEF KeyInv, KeyType
  <2> QED BY <1>1, <2>4, <2>5 DEF KeyInv, KeyType, BegunIsHeld
<1> QED BY <1>2, <1>3, <1>4, <1>5

LEMMA SettingKeepsKeys ==
    ASSUME KeyInv, CountType, NEW c \in Clients,
           IdemReserve(c) \/ IdemSave(c)
    PROVE  KeyInv'
<1>1. ~late[c] /\ key[c] \in Keys /\ UNCHANGED <<key, late>>
  BY DEF IdemReserve, IdemSave, KeyInv, LateLeaves, KeyNeeded
<1>2. PICK step \in {"underKey", "leave"} : GoTo(c, step)
  BY DEF IdemReserve, IdemSave
<1>3. \/ UNCHANGED <<entry, begun>>
      \/ /\ \E e \in {"held", "answer"} : entry' = [entry EXCEPT ![key[c]] = e]
         /\ begun' = begun \cup {key[c]} \/ begun' = begun
  BY DEF IdemReserve, IdemSave
<1>4. KeyType' /\ BegunIsHeld'
  BY <1>1, <1>3 DEF KeyInv, KeyType, BegunIsHeld
<1>5. LateLeaves' /\ KeyNeeded'
  BY <1>1, <1>2 DEF KeyInv, LateLeaves, KeyNeeded, GoTo, CountType
<1> QED BY <1>4, <1>5 DEF KeyInv

LEMMA ExpiryKeepsKeys ==
    ASSUME KeyInv, NEW k \in Keys, EntryExpires(k) PROVE KeyInv'
<1>1. UNCHANGED <<pc, key>> /\ begun' = begun \ {k} /\ entry' = [entry EXCEPT ![k] = "none"]
      /\ late' = [c \in Clients |-> late[c] /\ key[c] # k]
  BY DEF EntryExpires, reqVars
<1>2. KeyType'
  <2>1. late' \in [Clients -> BOOLEAN]
    BY <1>1
  <2> QED BY <1>1, <2>1 DEF KeyInv, KeyType
<1>3. BegunIsHeld'
  BY <1>1 DEF KeyInv, KeyType, BegunIsHeld
<1>4. \A c \in Clients : late'[c] => late[c]
  BY <1>1
<1> QED BY <1>1, <1>2, <1>3, <1>4 DEF KeyInv, LateLeaves, KeyNeeded

-------------------------------------------------------------------------------
(* The chain as a whole.                                                   *)

IInv == BucketInv /\ CountInv /\ KeyInv /\ bounds \in Bounds

LEMMA BucketsUntouched == ASSUME BucketInv, UNCHANGED bucketVars PROVE BucketInv'
BY DEF BucketInv, BucketType, TimeFills, NoneOverfull, Level, bucketVars

LEMMA BoundsStayTyped ==
    ASSUME bounds \in Bounds,
           \/ RedisWorks \/ RedisFails
           \/ Spend("requests") \/ Spend("ticks")
    PROVE  bounds' \in Bounds
BY DEF Bounds, RedisWorks, RedisFails, Spend

(* A client goes on, and nothing is counted or kept.                       *)
LEMMA GoingOn ==
    ASSUME IInv, NEW c \in Clients, NEW step \in Steps \ (Before \cup {"over", "reserve", "underKey"}),
           GoTo(c, step), UNCHANGED <<key, holds, countVars, idemVars>>,
           pc[c] \notin {"over", "leave"},
           step = "save" => pc[c] = "underKey"
    PROVE  CountInv' /\ KeyInv'
<1>1. CountInv'
  BY PassingKeepsCount DEF IInv
<1>2. ~late[c] /\ (step = "save" => key[c] \in Keys)
  BY DEF IInv, KeyInv, LateLeaves, KeyNeeded
<1> QED BY <1>1, <1>2, OthersKeepKeys DEF IInv, CountInv

LEMMA ArriveStep ==
    ASSUME IInv, NEW c \in Clients, NEW k \in Keys \cup {NoKey}, Arrive(c, k) PROVE IInv'
<1>1. /\ pc[c] = "out" /\ GoTo(c, "ip") /\ key' = [key EXCEPT ![c] = k] /\ Spend("requests")
      /\ UNCHANGED <<holds, bucketVars, countVars, idemVars>>
  BY DEF Arrive
<1>2. ~holds[c] /\ ~late[c]
  BY <1>1 DEF IInv, CountInv, HoldersPassed, KeyInv, LateLeaves, Before
<1>3. CountInv'
  BY <1>1, <1>2, PassingKeepsCount DEF IInv, Steps
<1>4. KeyInv'
  BY <1>1, <1>2, OthersKeepKeys DEF IInv, CountInv, Steps
<1> QED BY <1>1, <1>3, <1>4, BucketsUntouched, BoundsStayTyped DEF IInv

LEMMA LimitStep ==
    ASSUME IInv, NEW c \in Clients, IPRateLimit(c) \/ RateLimit(c) PROVE IInv'
<1>1. PICK b \in Buckets, from \in {"ip", "user"}, to \in {"global", "idem"} :
          Limit(c, b, from, to) /\ (from = "user" => to = "idem")
  BY DEF IPRateLimit, RateLimit, Buckets
<1>2. /\ pc[c] = from /\ UNCHANGED <<key, holds, countVars, idemVars>>
      /\ RedisWorks \/ RedisFails
      /\ Grant(c, b) \/ Deny(c, b) \/ UNCHANGED <<bucket, fair, grace>>
      /\ age' = [age EXCEPT ![c] = 0]
  BY <1>1 DEF Limit
<1>3. PICK step \in {"leave", to} : GoTo(c, step)
  BY <1>1 DEF Limit
<1>4. BucketInv'
  <2>1. age' \in [Clients -> Nat]
    BY <1>2 DEF IInv, BucketInv, BucketType
  <2>2. CASE UNCHANGED <<bucket, fair, grace>>
    BY <2>1, <2>2 DEF IInv, BucketInv, BucketType, TimeFills, NoneOverfull, Level
  <2> QED BY <1>2, <2>1, <2>2, GrantKeepsBuckets, DenyKeepsBuckets DEF IInv
<1>5. ~late[c] /\ (from = "ip" => ~holds[c])
  BY <1>2 DEF IInv, CountInv, HoldersPassed, KeyInv, LateLeaves, Before
<1>6. CountInv'
  BY <1>1, <1>2, <1>3, <1>5, PassingKeepsCount DEF IInv, Steps, Before
<1>7. KeyInv'
  BY <1>2, <1>3, <1>5, OthersKeepKeys DEF IInv, CountInv, Steps
<1> QED BY <1>2, <1>4, <1>6, <1>7, BoundsStayTyped DEF IInv

LEMMA GlobalStep ==
    ASSUME IInv, NEW c \in Clients, GlobalRateLimit(c) PROVE IInv'
<1>1. /\ pc[c] = "global" /\ UNCHANGED <<key, bucketVars, idemVars>>
      /\ RedisWorks \/ RedisFails
      /\ GoTo(c, "over") \/ GoTo(c, "auth")
  BY DEF GlobalRateLimit
<1>2. ~late[c]
  BY <1>1 DEF IInv, KeyInv, LateLeaves
<1>3. KeyInv'
  BY <1>1, <1>2, OthersKeepKeys DEF IInv, CountInv, Steps
<1> QED BY <1>1, <1>3, AcquireKeepsCount, BucketsUntouched, BoundsStayTyped DEF IInv

LEMMA RefuseStep ==
    ASSUME IInv, NEW c \in Clients, Refuse(c) PROVE IInv'
<1>1. /\ pc[c] = "over" /\ Release(c) /\ GoTo(c, "out") /\ key' = [key EXCEPT ![c] = NoKey]
      /\ UNCHANGED <<bucketVars, vanished, idemVars>> /\ (RedisWorks \/ RedisFails)
  BY DEF Refuse, Release
<1>2. holds[c] /\ ~late[c]
  BY <1>1 DEF IInv, CountInv, HoldersPassed, KeyInv, LateLeaves
<1>3. CountInv'
  BY <1>1, <1>2, ReleaseKeepsCount DEF IInv
<1>4. KeyInv'
  BY <1>1, <1>2, OthersKeepKeys DEF IInv, CountInv, Steps
<1> QED BY <1>1, <1>3, <1>4, BucketsUntouched, BoundsStayTyped DEF IInv

LEMMA RouteStep ==
    ASSUME IInv, NEW c \in Clients,
           JWTAuth(c) \/ Rbac(c) \/ Handle(c) \/ HandleUnderKey(c)
    PROVE  IInv'
<1>1. /\ UNCHANGED <<key, holds, bucketVars, countVars, idemVars, bounds>>
      /\ pc[c] \in {"auth", "rbac", "handler", "underKey"}
  BY DEF JWTAuth, Rbac, Handle, HandleUnderKey
<1>2. \E step \in {"handler", "leave", "rbac", "user", "idem", "save"} :
          GoTo(c, step) /\ (step = "save" => pc[c] = "underKey")
  BY DEF JWTAuth, Rbac, Routes, Handle, HandleUnderKey
<1>3. CountInv' /\ KeyInv'
  BY <1>1, <1>2, GoingOn DEF Steps, Before
<1> QED BY <1>1, <1>3, BucketsUntouched DEF IInv

LEMMA KeyStep ==
    ASSUME IInv, NEW c \in Clients, IdemGet(c) \/ IdemReserve(c) \/ IdemSave(c)
    PROVE  IInv'
<1>1. /\ UNCHANGED <<holds, bucketVars, countVars>> /\ pc[c] \notin {"over", "leave"}
      /\ \E step \in {"handler", "reserve", "leave", "underKey"} : GoTo(c, step)
  BY DEF IdemGet, IdemReserve, IdemSave
<1>2. CountInv'
  BY <1>1, PassingKeepsCount DEF IInv, Steps, Before
<1>3. KeyInv'
  BY LookKeepsKeys, SettingKeepsKeys DEF IInv, CountInv
<1>4. bounds' \in Bounds
  BY BoundsStayTyped DEF IInv, IdemGet, IdemReserve, IdemSave, RedisWorks
<1> QED BY <1>1, <1>2, <1>3, <1>4, BucketsUntouched DEF IInv

LEMMA LeaveStep ==
    ASSUME IInv, NEW c \in Clients, Leave(c) PROVE IInv'
<1>1. /\ pc[c] = "leave" /\ GoTo(c, "out") /\ key' = [key EXCEPT ![c] = NoKey]
      /\ late' = [late EXCEPT ![c] = FALSE]
      /\ UNCHANGED <<bucketVars, vanished, entry, begun>>
  BY DEF Leave
<1>2. \/ holds[c] /\ Release(c)
      \/ ~holds[c] /\ UNCHANGED <<count, lost, holds, bounds>>
  BY DEF Leave
<1>3. CASE holds[c] /\ Release(c)
  <2>1. CountInv' /\ bounds' \in Bounds
    BY <1>1, <1>3, ReleaseKeepsCount, BoundsStayTyped DEF IInv, Release
  <2>2. KeyInv'
    BY <1>1 DEF IInv, KeyInv, KeyType, BegunIsHeld, LateLeaves, KeyNeeded, GoTo, CountInv, CountType
  <2> QED BY <1>1, <2>1, <2>2, BucketsUntouched DEF IInv
<1>4. CASE ~holds[c] /\ UNCHANGED <<count, lost, holds, bounds>>
  <2>1. CountInv'
    BY <1>1, <1>4, PassingKeepsCount DEF IInv, Steps, countVars
  <2>2. KeyInv'
    BY <1>1 DEF IInv, KeyInv, KeyType, BegunIsHeld, LateLeaves, KeyNeeded, GoTo, CountInv, CountType
  <2> QED BY <1>1, <1>4, <2>1, <2>2, BucketsUntouched DEF IInv
<1> QED BY <1>2, <1>3, <1>4

LEMMA EnvironmentStep ==
    ASSUME IInv, \/ Tick \/ CounterExpires \/ UNCHANGED vars
                 \/ \E k \in Keys : EntryExpires(k)
    PROVE  IInv'
<1>1. CASE Tick
  <2>1. UNCHANGED <<reqVars, countVars, idemVars>> /\ Spend("ticks")
    BY <1>1 DEF Tick
  <2>2. CountInv' /\ KeyInv'
    BY <2>1 DEF IInv, CountInv, CountType, HoldersPassed, LoadIsCounted, InFlight, KeyInv, KeyType,
                BegunIsHeld, LateLeaves, KeyNeeded, reqVars, countVars, idemVars
  <2> QED BY <1>1, <2>1, <2>2, TickKeepsBuckets, BoundsStayTyped DEF IInv
<1>2. CASE CounterExpires
  <2>1. UNCHANGED <<reqVars, bucketVars, idemVars, bounds>>
    BY <1>2 DEF CounterExpires
  <2>2. KeyInv'
    BY <2>1 DEF IInv, KeyInv, KeyType, BegunIsHeld, LateLeaves, KeyNeeded, reqVars, idemVars
  <2> QED BY <1>2, <2>1, <2>2, ExpiryKeepsCount, BucketsUntouched DEF IInv
<1>3. ASSUME NEW k \in Keys, EntryExpires(k) PROVE IInv'
  <2>1. UNCHANGED <<reqVars, bucketVars, countVars, bounds>>
    BY <1>3 DEF EntryExpires
  <2>2. CountInv'
    BY <2>1 DEF IInv, CountInv, CountType, HoldersPassed, LoadIsCounted, InFlight, reqVars, countVars
  <2> QED BY <1>3, <2>1, <2>2, ExpiryKeepsKeys, BucketsUntouched DEF IInv
<1>4. CASE UNCHANGED vars
  <2>1. UNCHANGED <<reqVars, bucketVars, countVars, idemVars, bounds>>
    BY <1>4 DEF vars
  <2>2. CountInv' /\ KeyInv'
    BY <2>1 DEF IInv, CountInv, CountType, HoldersPassed, LoadIsCounted, InFlight, KeyInv, KeyType,
                BegunIsHeld, LateLeaves, KeyNeeded, reqVars, countVars, idemVars
  <2> QED BY <2>1, <2>2, BucketsUntouched DEF IInv
<1> QED BY <1>1, <1>2, <1>3, <1>4

LEMMA InitHolds == ASSUME Init PROVE IInv
<1>1. BucketInv
  <2>1. BucketType
    BY AdmissionAssumption DEF Init, BucketType, BucketRow
  <2>2. \A b \in Buckets : Level(b, 0) = Burst[b] /\ Burst[b] \in Nat
    BY AdmissionAssumption DEF Init, Level
  <2> QED BY <2>1, <2>2 DEF Init, BucketInv, TimeFills, NoneOverfull
<1>2. CountInv
  <2>1. InFlight = {}
    BY DEF Init, InFlight
  <2>2. LoadIsCounted
    <3>1. {c \in InFlight : pc[c] # "over"} = {} /\ MaxConcurrent \in Nat
      BY <2>1, AdmissionAssumption
    <3> QED BY <2>1, <3>1, FS_EmptySet DEF Init, LoadIsCounted
  <2> QED BY <2>2 DEF Init, CountInv, CountType, HoldersPassed, Steps
<1>3. KeyInv /\ bounds \in Bounds
  BY DEF Init, KeyInv, KeyType, BegunIsHeld, LateLeaves, KeyNeeded, Bounds
<1> QED BY <1>1, <1>2, <1>3 DEF IInv

LEMMA Inductive == ASSUME IInv, [Next]_vars PROVE IInv'
BY ArriveStep, LimitStep, GlobalStep, RefuseStep, RouteStep, KeyStep, LeaveStep, EnvironmentStep
   DEF Next

LEMMA Invariant == Spec => []IInv
BY InitHolds, Inductive, PTL DEF Spec

(* Requests, keys in Redis and histories keep their types, whatever the    *)
(* clients, the keys and the limits are.                                   *)
THEOREM TypeCorrect == Spec => []TypeOK
<1>1. ASSUME IInv PROVE TypeOK
  BY <1>1 DEF IInv, TypeOK, BucketInv, BucketType, BucketRow, CountInv, CountType, Steps, KeyInv,
              KeyType, Bounds
<1> QED BY <1>1, Invariant, PTL

(* For any burst and life of a bucket, any price of a request and any      *)
(* order of tries and ticks, with clocks read any time before the script   *)
(* that is given them and scripts carried out though they failed:          *)
(* RateLimit and IPRateLimit let no more through than the burst and the    *)
(* time since, until a stretch of time is credited twice in one of the     *)
(* three ways that grace records.                                          *)
THEOREM LimitsHold == Spec => []LimitIsRespected
<1>1. ASSUME IInv PROVE LimitIsRespected
  <2>1. \A b \in Buckets \ grace :
            Level(b, 0) \in Nat /\ Level(b, 0) <= fair[b] /\ fair[b] \in Int
    BY <1>1, LevelIsTyped DEF IInv, BucketInv, BucketType, TimeFills
  <2> QED BY <2>1 DEF LimitIsRespected
<1> QED BY <1>1, Invariant, PTL

(* For any number of clients and of failing commands, the counter of       *)
(* GlobalRateLimit never exceeds the requests in flight and its commands   *)
(* that failed; while its key lives it is their sum, and no more than      *)
(* MaxConcurrent of the requests it counts are let in.                     *)
THEOREM CounterCounts == Spec => []LoadIsCounted
<1>1. ASSUME IInv PROVE LoadIsCounted
  BY <1>1 DEF IInv, CountInv
<1> QED BY <1>1, Invariant, PTL

(* For any clients and keys: whoever asks for a key after its handler has  *)
(* begun gets no further than the answer of Idempotency.                   *)
THEOREM LatecomersStayOut == Spec => []LatecomersDoNotRun
<1>1. ASSUME IInv PROVE LatecomersDoNotRun
  BY <1>1 DEF IInv, KeyInv, LateLeaves, LatecomersDoNotRun, KeyType
<1> QED BY <1>1, Invariant, PTL
=============================================================================
