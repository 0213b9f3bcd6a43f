------------------------------ MODULE Admission ------------------------------
(***************************************************************************)
(* The middleware chain of internal/server/server.go in front of a         *)
(* handler: IPRateLimit, GlobalRateLimit, JWTAuth and rbac, RateLimit,     *)
(* Idempotency.  A client has one request under way at a time; all of them *)
(* share an address and a user, so that they share both token buckets.     *)
(* Each Lua script and each Redis command is one action.  A request reads  *)
(* the clock for a bucket when it gets to it, in Go, and time passes and   *)
(* others go before it until its script runs.  A Redis error is a fault,   *)
(* which every middleware answers by letting the request pass; a script    *)
(* that failed may have been carried out all the same.                     *)
(* What a request is refused for from its own data and the policy (a token *)
(* that does not parse, a missing permission) is a choice; validation and  *)
(* the body size, which refuse before anything is counted or after, are    *)
(* left out.                                                               *)
(***************************************************************************)
EXTENDS Integers, FiniteSets

CONSTANTS
    Clients, Keys, NoKey,   \* X-Idempotency-Key, or none
    Burst, Life,            \* per bucket: its size, and EXPIRE in ticks
    Unit,                   \* a token, in what a bucket gains in one tick
    MaxConcurrent,          \* GlobalRateLimit
    MaxRequests, MaxTicks, MaxFaults    \* bounds

Buckets == {"ip", "user"}

ASSUME AdmissionAssumption ==
    /\ IsFiniteSet(Clients) /\ NoKey \notin Keys
    /\ Unit \in Nat \ {0} /\ MaxConcurrent \in Nat \ {0}
    /\ Burst \in [Buckets -> Nat] /\ \A b \in Buckets : Burst[b] >= Unit
    /\ Life \in [Buckets -> Nat \ {0}]
    /\ {MaxRequests, MaxTicks, MaxFaults} \subseteq Nat

VARIABLES
    pc, key,    \* of each client: the middleware it is in, its key
    holds,      \* it was counted by GlobalRateLimit
    bucket,     \* ratelimit:ip, ratelimit:user; the time "last" is kept as elapsed
    age,        \* of a client in front of a bucket's script: ticks since it read the
                \* clock for it
    count,      \* ratelimit:global:concurrent
    entry,      \* idempotency:<key>: none, held, answer
    bounds,     \* requests, ticks and faults so far
    fair,       \* history: what a bucket that is only filled by time would hold
    grace,      \* history: buckets that may have been given more than time gives
    vanished,   \* history: the counter expired
    lost,       \* history: since the counter expired, commands of it that failed:
                \* acquires carried out unanswered, and releases not carried out
    begun,      \* history: keys whose reserved request has entered the handler
    late        \* history: the client looked at its key after that

reqVars == <<pc, key, holds>>
bucketVars == <<bucket, age, fair, grace>>
countVars == <<count, vanished, lost>>
idemVars == <<entry, begun, late>>
vars == <<reqVars, bucketVars, countVars, idemVars, bounds>>

Init ==
    /\ pc = [c \in Clients |-> "out"]
    /\ key = [c \in Clients |-> NoKey]
    /\ holds = [c \in Clients |-> FALSE]
    /\ bucket = [b \in Buckets |-> [there |-> FALSE, tokens |-> 0, elapsed |-> 0, idle |-> 0]]
    /\ age = [c \in Clients |-> 0]
    /\ count = 0
    /\ entry = [k \in Keys |-> "none"]
    /\ bounds = [requests |-> 0, ticks |-> 0, faults |-> 0]
    /\ fair = Burst /\ grace = {}
    /\ vanished = FALSE /\ lost = 0
    /\ begun = {} /\ late = [c \in Clients |-> FALSE]

GoTo(c, step) == pc' = [pc EXCEPT ![c] = step]
Spend(what) == bounds' = [bounds EXCEPT ![what] = @ + 1]

\* A Redis command of this request fails: the middleware logs it and goes on.
RedisFails == bounds.faults < MaxFaults /\ Spend("faults")
RedisWorks == UNCHANGED bounds

Arrive(c, k) ==
    /\ pc[c] = "out" /\ bounds.requests < MaxRequests
    /\ GoTo(c, "ip") /\ key' = [key EXCEPT ![c] = k]
    /\ Spend("requests")
    /\ UNCHANGED <<holds, bucketVars, countVars, idemVars>>

-----------------------------------------------------------------------------
(* The token buckets.                                                      *)

UpTo(limit, n) == IF n < limit THEN n ELSE limit

\* What the script counts for a clock read a ticks ago; a time before "last"
\* adds nothing.
Level(b, a) ==
    LET added == IF bucket[b].elapsed > a THEN bucket[b].elapsed - a ELSE 0
    IN  IF bucket[b].there THEN UpTo(Burst[b], bucket[b].tokens + added) ELSE Burst[b]

\* The time to be stored is past, and older than the one that is there, or the
\* bucket is full by now: what time has put in since then is credited again.
DatedBack(c, b) ==
    /\ age[c] > 0
    /\ age[c] > bucket[b].elapsed \/ Level(b, 0) = Burst[b]

\* Mutant: the script stores the tokens and not the time they are from.
GrantUndated(c, b) ==
    /\ Level(b, age[c]) >= Unit
    /\ bucket' = [bucket EXCEPT ![b] =
           [there |-> TRUE, tokens |-> Level(b, age[c]) - Unit,
            elapsed |-> bucket[b].elapsed, idle |-> 0]]
    /\ fair' = [fair EXCEPT ![b] = @ - Unit]
    /\ grace' = (IF DatedBack(c, b) THEN grace \cup {b} ELSE grace)

\* The script, when a token is there: "last" is set to the time it was given.
Grant(c, b) ==
    /\ Level(b, age[c]) >= Unit
    /\ bucket' = [bucket EXCEPT ![b] =
           [there |-> TRUE, tokens |-> Level(b, age[c]) - Unit,
            elapsed |-> age[c], idle |-> 0]]
    /\ fair' = [fair EXCEPT ![b] = @ - Unit]
    /\ grace' = (IF DatedBack(c, b) THEN grace \cup {b} ELSE grace)

\* The script, when none is: it keeps the tokens it has just added and the old
\* time, so that the next try adds them again.
Deny(c, b) ==
    /\ Level(b, age[c]) < Unit
    /\ bucket' = [bucket EXCEPT ![b].tokens = Level(b, age[c]), ![b].idle = 0]
    /\ grace' = (IF bucket[b].elapsed > age[c] THEN grace \cup {b} ELSE grace)
    /\ UNCHANGED fair

\* IPRateLimit and RateLimit differ in their key and their numbers.
Limit(c, b, from, to) ==
    /\ pc[c] = from
    /\ \/ RedisWorks /\ Grant(c, b) /\ GoTo(c, to)
       \/ RedisWorks /\ Deny(c, b) /\ GoTo(c, "leave")
       \/ /\ RedisFails /\ GoTo(c, to)
          /\ Grant(c, b) \/ Deny(c, b) \/ UNCHANGED <<bucket, fair, grace>>
    /\ age' = [age EXCEPT ![c] = 0]
    /\ UNCHANGED <<key, holds, countVars, idemVars>>

IPRateLimit(c) == Limit(c, "ip", "ip", "global")
RateLimit(c) == Limit(c, "user", "user", "idem")

\* Time passes, and a bucket nobody tried for Life ticks is gone: the next one
\* is full, whatever time would have put into this one.
Tick ==
    LET Gone == {b \in Buckets : bucket[b].there /\ bucket[b].idle + 1 >= Life[b]} IN
    /\ bounds.ticks < MaxTicks /\ Spend("ticks")
    /\ bucket' = [b \in Buckets |->
           CASE b \in Gone -> [there |-> FALSE, tokens |-> 0, elapsed |-> 0, idle |-> 0]
             [] bucket[b].there /\ b \notin Gone ->
                  [bucket[b] EXCEPT !.elapsed = @ + 1, !.idle = @ + 1]
             [] OTHER -> bucket[b]]
    /\ age' = [c \in Clients |->
                  IF pc[c] \in {"ip", "user"} THEN age[c] + 1 ELSE age[c]]
    /\ fair' = [b \in Buckets |-> UpTo(Burst[b], fair[b] + 1)]
    /\ grace' = grace \cup {b \in Gone : Level(b, 0) + 1 < Burst[b]}
    /\ UNCHANGED <<reqVars, countVars, idemVars>>

-----------------------------------------------------------------------------
(* The counter of requests in flight.                                      *)

\* The acquire script; EXPIRE comes with the first request only. A request
\* whose acquire failed goes on with no release behind it, although its INCR may
\* have been carried out.
GlobalRateLimit(c) ==
    /\ pc[c] = "global"
    /\ \/ /\ RedisWorks
          /\ count' = count + 1
          /\ holds' = [holds EXCEPT ![c] = TRUE]
          /\ GoTo(c, IF count' > MaxConcurrent THEN "over" ELSE "auth")
          /\ UNCHANGED lost
       \/ /\ RedisFails /\ GoTo(c, "auth") /\ UNCHANGED holds
          /\ \/ count' = count + 1 /\ lost' = lost + 1
             \/ UNCHANGED <<count, lost>>
    /\ UNCHANGED <<key, bucketVars, vanished, idemVars>>

\* The release script, whose error nobody looks at.
Release(c) ==
    /\ \/ RedisWorks /\ count' = (IF count > 1 THEN count - 1 ELSE 0) /\ UNCHANGED lost
       \/ RedisFails /\ lost' = lost + 1 /\ UNCHANGED count
    /\ holds' = [holds EXCEPT ![c] = FALSE]

\* Too many requests: the refused one takes itself out of the count.
Refuse(c) ==
    /\ pc[c] = "over"
    /\ Release(c) /\ GoTo(c, "out") /\ key' = [key EXCEPT ![c] = NoKey]
    /\ UNCHANGED <<bucketVars, vanished, idemVars>>

\* 60 seconds after the count left zero.
CounterExpires ==
    /\ count > 0
    /\ count' = 0 /\ vanished' = TRUE /\ lost' = 0
    /\ UNCHANGED <<reqVars, bucketVars, idemVars, bounds>>

-----------------------------------------------------------------------------
(* The route, its handler, and the idempotency key.                        *)

\* What a route has in front of its handler: a limit for the user and a key, a
\* key, or neither.
Routes == {"user", "idem", "handler"}

\* Signing in and refreshing are open; the rest needs a token that parses.
JWTAuth(c) ==
    /\ pc[c] = "auth"
    /\ \E step \in {"handler", "leave", "rbac"} : GoTo(c, step)
    /\ UNCHANGED <<key, holds, bucketVars, countVars, idemVars, bounds>>

\* Refused by the policy, or on along the route.
Rbac(c) ==
    /\ pc[c] = "rbac"
    /\ \E step \in Routes \cup {"leave"} : GoTo(c, step)
    /\ UNCHANGED <<key, holds, bucketVars, countVars, idemVars, bounds>>

\* The Get: a replay of what is there, be it the placeholder.
IdemGet(c) ==
    /\ pc[c] = "idem"
    /\ IF key[c] = NoKey
       THEN GoTo(c, "handler") /\ UNCHANGED <<bounds, late>>
       ELSE \/ /\ RedisWorks
               /\ GoTo(c, IF entry[key[c]] = "none" THEN "reserve" ELSE "leave")
               /\ late' = [late EXCEPT ![c] = key[c] \in begun]
            \/ RedisFails /\ GoTo(c, "reserve") /\ UNCHANGED late
    /\ UNCHANGED <<key, holds, bucketVars, countVars, entry, begun>>

\* Mutant: no placeholder before the handler.
IdemReserveNot(c) ==
    /\ pc[c] = "reserve"
    /\ GoTo(c, "underKey") /\ begun' = begun \cup {key[c]}
    /\ UNCHANGED <<key, holds, bucketVars, countVars, entry, late, bounds>>

\* The placeholder, and into the handler.
IdemReserve(c) ==
    /\ pc[c] = "reserve"
    /\ GoTo(c, "underKey")
    /\ \/ /\ RedisWorks
          /\ entry' = [entry EXCEPT ![key[c]] = "held"]
          /\ begun' = begun \cup {key[c]}
       \/ RedisFails /\ UNCHANGED <<entry, begun>>
    /\ UNCHANGED <<key, holds, bucketVars, countVars, late>>

\* A handler without a key answers, or panics and Recovery answers for it.
Handle(c) ==
    /\ pc[c] = "handler"
    /\ GoTo(c, "leave")
    /\ UNCHANGED <<key, holds, bucketVars, countVars, idemVars, bounds>>

\* Under a key: an answer below 500 is kept; a 5xx is not, and a panic goes past
\* the rest of Idempotency, so that both leave the placeholder where it is.
HandleUnderKey(c) ==
    /\ pc[c] = "underKey"
    /\ \E step \in {"save", "leave"} : GoTo(c, step)
    /\ UNCHANGED <<key, holds, bucketVars, countVars, idemVars, bounds>>

\* The captured response takes the place of the placeholder.
IdemSave(c) ==
    /\ pc[c] = "save"
    /\ GoTo(c, "leave")
    /\ \/ RedisWorks /\ entry' = [entry EXCEPT ![key[c]] = "answer"]
       \/ RedisFails /\ UNCHANGED entry
    /\ UNCHANGED <<key, holds, bucketVars, countVars, begun, late>>

\* Mutant: the release is not deferred, and a panic passes it by.
LeaveUnreleased(c) ==
    /\ pc[c] = "leave"
    /\ GoTo(c, "out") /\ key' = [key EXCEPT ![c] = NoKey]
    /\ late' = [late EXCEPT ![c] = FALSE]
    /\ \/ holds' = [holds EXCEPT ![c] = FALSE] /\ UNCHANGED <<count, lost, bounds>>
       \/ holds[c] /\ Release(c)
    /\ UNCHANGED <<bucketVars, vanished, entry, begun>>

\* The response is written, and the deferred release runs, after a panic too.
Leave(c) ==
    /\ pc[c] = "leave"
    /\ GoTo(c, "out") /\ key' = [key EXCEPT ![c] = NoKey]
    /\ late' = [late EXCEPT ![c] = FALSE]
    /\ IF holds[c] THEN Release(c) ELSE UNCHANGED <<count, lost, holds, bounds>>
    /\ UNCHANGED <<bucketVars, vanished, entry, begun>>

\* Five minutes after the last Set.
EntryExpires(k) ==
    /\ entry[k] # "none"
    /\ entry' = [entry EXCEPT ![k] = "none"]
    /\ begun' = begun \ {k}
    /\ late' = [c \in Clients |-> late[c] /\ key[c] # k]
    /\ UNCHANGED <<reqVars, bucketVars, countVars, bounds>>

Next ==
    \/ \E c \in Clients :
          \/ \E k \in Keys \cup {NoKey} : Arrive(c, k)
          \/ IPRateLimit(c) \/ GlobalRateLimit(c) \/ Refuse(c)
          \/ JWTAuth(c) \/ Rbac(c)
          \/ RateLimit(c) \/ IdemGet(c) \/ IdemReserve(c)
          \/ Handle(c) \/ HandleUnderKey(c) \/ IdemSave(c) \/ Leave(c)
    \/ Tick \/ CounterExpires
    \/ \E k \in Keys : EntryExpires(k)

Spec == Init /\ [][Next]_vars

-----------------------------------------------------------------------------
TypeOK ==
    /\ pc \in [Clients -> {"out", "ip", "global", "over", "auth", "rbac", "user", "idem",
                           "reserve", "handler", "underKey", "save", "leave"}]
    /\ key \in [Clients -> Keys \cup {NoKey}]
    /\ holds \in [Clients -> BOOLEAN]
    /\ bucket \in [Buckets -> [there : BOOLEAN, tokens : Nat, elapsed : Nat, idle : Nat]]
    /\ count \in Nat /\ lost \in Nat /\ vanished \in BOOLEAN
    /\ entry \in [Keys -> {"none", "held", "answer"}]
    /\ bounds \in [{"requests", "ticks", "faults"} -> Nat]
    /\ age \in [Clients -> Nat]
    /\ fair \in [Buckets -> Int] /\ grace \subseteq Buckets
    /\ begun \subseteq Keys /\ late \in [Clients -> BOOLEAN]

\* A bucket never lets through more than its burst and what time has added since
\* (the comments of RateLimit and IPRateLimit), except after it credited one
\* stretch of time twice: on a refused try, on a grant to a request that read its
\* clock before the last grant or before the bucket was full, or by expiring
\* before time had filled it.
LimitIsRespected == \A b \in Buckets \ grace : fair[b] >= 0

InFlight == {c \in Clients : holds[c]}

\* However requests end, the counter holds no request that is over but one for
\* each of its commands that failed, so that an idle server refuses nobody
\* without such a failure; and as long as the key did not expire under them it
\* counts them all, and lets no more of them in than the limit.
LoadIsCounted ==
    /\ count <= Cardinality(InFlight) + lost
    /\ ~vanished =>
          /\ count = Cardinality(InFlight) + lost
          /\ Cardinality({c \in InFlight : pc[c] # "over"}) <= MaxConcurrent

\* A request that looks at its key after another with the same key has entered
\* the handler does not enter it, whether that one is still there, has answered
\* or has failed, while the entry lives.
LatecomersDoNotRun == \A c \in Clients : late[c] => pc[c] # "underKey"
=============================================================================
