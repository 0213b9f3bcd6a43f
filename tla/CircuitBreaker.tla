---------------------------- MODULE CircuitBreaker ----------------------------
(***************************************************************************)
(* pkg/circuitbreaker: one breaker per upstream endpoint, shared by every  *)
(* adapter call of the process.  There is no lock: state, failures,        *)
(* successes and lastFailAt are four atomics, and each atomic load, store, *)
(* add or compare-and-swap is one action here, so the calls interleave     *)
(* between any two of them.                                                *)
(***************************************************************************)
EXTENDS Naturals

CONSTANTS
    Callers,            \* goroutines inside Call
    FailureThreshold,   \* cfg.FailureThreshold
    OpenDuration,       \* cfg.OpenDuration, in ticks of the clock
    HalfOpenMaxCalls    \* cfg.HalfOpenMaxCalls

ASSUME CallersAssumption == Callers # {}
ASSUME ConfigAssumption == /\ FailureThreshold \in Nat \ {0}
                           /\ OpenDuration \in Nat \ {0}
                           /\ HalfOpenMaxCalls \in Nat \ {0}

VARIABLES
    state,      \* cb.state
    failures,   \* cb.failures
    successes,  \* cb.successes
    age,        \* ticks since cb.lastFailAt, up to OpenDuration
    pc,         \* the atomic operation each caller does next
    before,     \* the state the caller was admitted in
    seen,       \* ticks since the time the caller holds: the lastFailAt it
                \* loaded, or what it read from the clock
    healthy,    \* the upstream answers from now on
    openFor,    \* history: ticks since the state became open, while it is
    crossed     \* history: another caller then held a time it had still to store

cbvars == <<state, failures, successes, age>>
callvars == <<pc, before, seen>>
vars == <<state, failures, successes, age, pc, before, seen, healthy, openFor, crossed>>

States == {"closed", "open", "half"}
Steps == {"idle", "last", "elapsed", "resetF", "resetS", "reload", "fn",
          "addF", "trip", "reopen", "now", "stamp", "clearF",
          "addS", "close", "closeF", "closeS"}

Capped(n) == IF n < OpenDuration THEN n ELSE OpenDuration

\* lastFailAt is zero at first, so the first opening looks long past.
Init == /\ state = "closed" /\ failures = 0 /\ successes = 0
        /\ age = OpenDuration
        /\ pc = [c \in Callers |-> "idle"]
        /\ before = [c \in Callers |-> "closed"]
        /\ seen = [c \in Callers |-> 0]
        /\ healthy = FALSE /\ openFor = 0 /\ crossed = FALSE

At(c, step) == pc[c] = step
GoTo(c, step) == pc' = [pc EXCEPT ![c] = step]

\* Call goes on with fn, in the state it loaded.
Admit(c) == GoTo(c, "fn") /\ before' = [before EXCEPT ![c] = state]

\* currentState: the first load decides unless it finds the breaker open.
LoadState(c) ==
    /\ At(c, "idle")
    /\ IF state = "open"
       THEN GoTo(c, "last") /\ UNCHANGED before
       ELSE Admit(c)
    /\ UNCHANGED <<cbvars, seen, healthy, openFor, crossed>>

LoadLastFail(c) ==
    /\ At(c, "last")
    /\ GoTo(c, "elapsed")
    /\ seen' = [seen EXCEPT ![c] = age]
    /\ UNCHANGED <<cbvars, before, healthy, openFor, crossed>>

\* ErrOpen: OpenDuration has not passed since the lastFailAt it loaded.
TooEarly(c) ==
    /\ At(c, "elapsed") /\ seen[c] < OpenDuration
    /\ GoTo(c, "idle")
    /\ seen' = [seen EXCEPT ![c] = 0]
    /\ UNCHANGED <<cbvars, before, healthy, openFor, crossed>>

\* The compare-and-swap from open to half-open.
HalfOpen(c) ==
    /\ At(c, "elapsed") /\ seen[c] >= OpenDuration
    /\ seen' = [seen EXCEPT ![c] = 0]
    /\ IF state = "open"
       THEN state' = "half" /\ GoTo(c, "resetF") /\ openFor' = 0 /\ crossed' = FALSE
       ELSE UNCHANGED <<state, openFor, crossed>> /\ GoTo(c, "reload")
    /\ UNCHANGED <<failures, successes, age, before, healthy>>

ResetFailures(c) ==
    /\ At(c, "resetF")
    /\ failures' = 0 /\ GoTo(c, "resetS")
    /\ UNCHANGED <<state, successes, age, before, seen, healthy, openFor, crossed>>

\* Mutant: successes are left as the last half-open round left them.
ResetSuccessesForgotten(c) ==
    /\ At(c, "resetS")
    /\ GoTo(c, "reload")
    /\ UNCHANGED <<cbvars, before, seen, healthy, openFor, crossed>>

ResetSuccesses(c) ==
    /\ At(c, "resetS")
    /\ successes' = 0 /\ GoTo(c, "reload")
    /\ UNCHANGED <<state, failures, age, before, seen, healthy, openFor, crossed>>

\* The load that ends currentState after the half-open attempt.
Reload(c) ==
    /\ At(c, "reload")
    /\ IF state = "open" THEN GoTo(c, "idle") /\ UNCHANGED before ELSE Admit(c)
    /\ UNCHANGED <<cbvars, seen, healthy, openFor, crossed>>

FnSucceeds(c) ==
    /\ At(c, "fn")
    /\ GoTo(c, IF before[c] = "closed" THEN "clearF" ELSE "addS")
    /\ UNCHANGED <<cbvars, before, seen, healthy, openFor, crossed>>

FnFails(c) ==
    /\ At(c, "fn") /\ ~healthy
    /\ GoTo(c, IF before[c] = "closed" THEN "addF" ELSE "reopen")
    /\ UNCHANGED <<cbvars, before, seen, healthy, openFor, crossed>>

\* onFailure of a call admitted closed.
AddFailure(c) ==
    /\ At(c, "addF")
    /\ failures' = failures + 1
    /\ GoTo(c, IF failures' >= FailureThreshold THEN "trip" ELSE "idle")
    /\ UNCHANGED <<state, successes, age, before, seen, healthy, openFor, crossed>>

\* A compare-and-swap to open, which its winner follows with the stamp.
OpenFrom(c, from) ==
    /\ IF state = from
       THEN /\ state' = "open" /\ openFor' = 0
            /\ crossed' = (\E d \in Callers \ {c} : At(d, "stamp"))
            /\ GoTo(c, "now")
       ELSE UNCHANGED <<state, openFor, crossed>> /\ GoTo(c, "idle")
    /\ UNCHANGED <<failures, successes, age, before, seen, healthy>>

Trip(c) == At(c, "trip") /\ OpenFrom(c, "closed")

\* onFailure of a call admitted half-open.
Reopen(c) == At(c, "reopen") /\ OpenFrom(c, "half")

\* time.Now(), before the store is called with it.
TakeTime(c) ==
    /\ At(c, "now")
    /\ seen' = [seen EXCEPT ![c] = 0]
    /\ GoTo(c, "stamp")
    /\ UNCHANGED <<cbvars, before, healthy, openFor, crossed>>

\* Mutant: only a trip from closed stamps the failure time.
StampTripOnly(c) ==
    /\ At(c, "stamp")
    /\ age' = (IF before[c] = "closed" THEN seen[c] ELSE age)
    /\ seen' = [seen EXCEPT ![c] = 0]
    /\ GoTo(c, IF before[c] = "closed" THEN "idle" ELSE "clearF")
    /\ UNCHANGED <<state, failures, successes, before, healthy, openFor, crossed>>

\* lastFailAt is stored after the compare-and-swap has opened the breaker: the
\* time the caller read, however long ago and whatever is there now.
Stamp(c) ==
    /\ At(c, "stamp")
    /\ age' = seen[c]
    /\ seen' = [seen EXCEPT ![c] = 0]
    /\ GoTo(c, IF before[c] = "closed" THEN "idle" ELSE "clearF")
    /\ UNCHANGED <<state, failures, successes, before, healthy, openFor, crossed>>

\* failures := 0, after a success while closed or a reopening.
ClearFailures(c) ==
    /\ At(c, "clearF")
    /\ failures' = 0 /\ GoTo(c, "idle")
    /\ UNCHANGED <<state, successes, age, before, seen, healthy, openFor, crossed>>

\* Mutant: the success counter is compared with > for >= and stops at the limit.
AddSuccessLate(c) ==
    /\ At(c, "addS")
    /\ successes' = (IF successes < HalfOpenMaxCalls THEN successes + 1 ELSE successes)
    /\ GoTo(c, IF successes' > HalfOpenMaxCalls THEN "close" ELSE "idle")
    /\ UNCHANGED <<state, failures, age, before, seen, healthy, openFor, crossed>>

\* onSuccess of a call admitted half-open.
AddSuccess(c) ==
    /\ At(c, "addS")
    /\ successes' = successes + 1
    /\ GoTo(c, IF successes' >= HalfOpenMaxCalls THEN "close" ELSE "idle")
    /\ UNCHANGED <<state, failures, age, before, seen, healthy, openFor, crossed>>

Close(c) ==
    /\ At(c, "close")
    /\ IF state = "half"
       THEN state' = "closed" /\ GoTo(c, "closeF")
       ELSE UNCHANGED state /\ GoTo(c, "idle")
    /\ UNCHANGED <<failures, successes, age, before, seen, healthy, openFor, crossed>>

CloseFailures(c) ==
    /\ At(c, "closeF")
    /\ failures' = 0 /\ GoTo(c, "closeS")
    /\ UNCHANGED <<state, successes, age, before, seen, healthy, openFor, crossed>>

CloseSuccesses(c) ==
    /\ At(c, "closeS")
    /\ successes' = 0 /\ GoTo(c, "idle")
    /\ UNCHANGED <<state, failures, age, before, seen, healthy, openFor, crossed>>

\* Time passes for lastFailAt and for the times callers hold.
Tick ==
    /\ age' = Capped(age + 1)
    /\ openFor' = (IF state = "open" THEN Capped(openFor + 1) ELSE openFor)
    /\ seen' = [c \in Callers |-> IF pc[c] \in {"elapsed", "stamp"}
                                  THEN Capped(seen[c] + 1) ELSE seen[c]]
    /\ UNCHANGED <<state, failures, successes, pc, before, healthy, crossed>>

\* The upstream endpoint answers again, and goes on answering.
EndpointRecovers ==
    /\ ~healthy /\ healthy' = TRUE
    /\ UNCHANGED <<cbvars, callvars, openFor, crossed>>

\* The steps of a goroutine, except the choice of what fn returns.
Continue(c) ==
    \/ LoadState(c) \/ LoadLastFail(c) \/ TooEarly(c) \/ HalfOpen(c)
    \/ ResetFailures(c) \/ ResetSuccesses(c) \/ Reload(c)
    \/ AddFailure(c) \/ Trip(c) \/ Reopen(c) \/ TakeTime(c) \/ Stamp(c)
    \/ ClearFailures(c) \/ AddSuccess(c) \/ Close(c) \/ CloseFailures(c) \/ CloseSuccesses(c)

Next ==
    \/ \E c \in Callers : Continue(c) \/ FnSucceeds(c) \/ FnFails(c)
    \/ Tick
    \/ EndpointRecovers

Spec == Init /\ [][Next]_vars

\* Calls keep coming and return, goroutines are scheduled, the clock runs.
FairSpec ==
    /\ Spec
    /\ \A c \in Callers : WF_vars(Continue(c) \/ FnSucceeds(c) \/ FnFails(c))
    /\ WF_vars(Tick)

-----------------------------------------------------------------------------
\* The atomics hold values of their types and every caller is at a known step.
TypeOK ==
    /\ state \in States /\ failures \in Nat /\ successes \in Nat
    /\ age \in 0..OpenDuration /\ openFor \in 0..OpenDuration
    /\ pc \in [Callers -> Steps]
    /\ before \in [Callers -> {"closed", "half"}]
    /\ seen \in [Callers -> 0..OpenDuration]
    /\ healthy \in BOOLEAN /\ crossed \in BOOLEAN

\* No crossing of a threshold is lost between the counters and the state: a
\* closed breaker at its failure threshold, or a half-open one with enough
\* successes, always has a caller on its way to trip, close or reset it,
\* whatever stale results arrived in between (recordResult, currentState).
NoMissedTransition ==
    /\ state = "closed" /\ failures >= FailureThreshold
          => \E c \in Callers : pc[c] \in {"trip", "closeF"}
    /\ state = "half" /\ successes >= HalfOpenMaxCalls
          => \E c \in Callers : pc[c] \in {"close", "resetF", "resetS"}

\* When nobody stands between opening the breaker and storing lastFailAt, the
\* stamp is no older than the opening, so the breaker will not end its open
\* period early: onFailure stores it on both ways to open. The one way out is
\* the clock read of an earlier opening, still to be stored when the breaker
\* opened again.
StampIsFresh ==
    state = "open" /\ ~crossed /\ (\A c \in Callers : pc[c] \notin {"now", "stamp"})
        => age <= openFor

\* The state only moves closed -> open -> half-open -> closed or open, although
\* results of calls admitted in an earlier state keep arriving (package comment).
LegalTransitions ==
    [][ state' # state =>
          <<state, state'>> \in {<<"closed", "open">>, <<"open", "half">>,
                                 <<"half", "open">>, <<"half", "closed">>} ]_vars

\* Once the upstream answers again, the breaker closes for good, whatever late
\* failures and half-finished transitions are still in flight.
RecoversWithUpstream == <>healthy => <>[](state = "closed")

Somewhere(steps) == \E c \in Callers : pc[c] \in steps

\* The counters as they are once the stores that follow a compare-and-swap are
\* done; a trip leaves failures alone until the breaker goes half-open.
Textbook == INSTANCE Breaker WITH
    mode  <- state,
    fails <- IF state # "closed" \/ Somewhere({"closeF"}) THEN 0
             ELSE IF Somewhere({"trip"}) THEN failures - 1 ELSE failures,
    oks   <- IF state # "half" \/ Somewhere({"resetF", "resetS"}) THEN 0
             ELSE IF Somewhere({"close"}) THEN successes - 1 ELSE successes,
    age   <- IF Somewhere({"now"}) THEN 0
             ELSE IF Somewhere({"stamp"}) THEN seen[CHOOSE c \in Callers : At(c, "stamp")]
             ELSE age

\* With one caller at a time the atomics add up to the breaker of the package
\* comment: every call is a step of Breaker or changes nothing it tells apart.
BehavesLikeTextbook == Textbook!Spec
=============================================================================
