-------------------------- MODULE ModelAdapterProofs --------------------------
(***************************************************************************)
(* Proofs about CircuitBreaker, for any number of callers and every        *)
(* configuration: the counters, the state and the stamp keep in step       *)
(* although they are separate atomics; and about ModelAdapter in front of  *)
(* it, which is one more user of that breaker and wastes none of its calls.*)
(***************************************************************************)
EXTENDS ModelAdapter, TLAPS

\* The disjuncts of Next, one caller at a time.
LEMMA NextCases ==
    ASSUME Next
    PROVE  \/ \E c \in Callers :
                  \/ LoadState(c) \/ LoadLastFail(c) \/ TooEarly(c)
                  \/ HalfOpen(c) \/ ResetFailures(c) \/ ResetSuccesses(c)
                  \/ Reload(c) \/ AddFailure(c) \/ Trip(c)
                  \/ Reopen(c) \/ TakeTime(c) \/ Stamp(c) \/ ClearFailures(c)
                  \/ AddSuccess(c) \/ Close(c) \/ CloseFailures(c)
                  \/ CloseSuccesses(c) \/ FnSucceeds(c) \/ FnFails(c)
           \/ Tick
           \/ EndpointRecovers
BY DEF Next, Continue

LEMMA CappedType ==
    ASSUME NEW n \in Nat
    PROVE  Capped(n) \in 0..OpenDuration
BY ConfigAssumption, SMT DEF Capped

-----------------------------------------------------------------------------
LEMMA InitType == Init => TypeOK
<1> SUFFICES ASSUME Init PROVE TypeOK
    OBVIOUS
<1>1. OpenDuration \in 0..OpenDuration /\ 0 \in 0..OpenDuration
    BY ConfigAssumption, SMT
<1>2. /\ state \in States /\ failures \in Nat /\ successes \in Nat
      /\ age \in 0..OpenDuration /\ openFor \in 0..OpenDuration
      /\ healthy \in BOOLEAN /\ crossed \in BOOLEAN
    BY <1>1 DEF Init, States
<1>3. /\ pc \in [Callers -> Steps]
      /\ before \in [Callers -> {"closed", "half"}]
      /\ seen \in [Callers -> 0..OpenDuration]
    BY <1>1, Zenon DEF Init, Steps
<1> QED BY <1>2, <1>3 DEF TypeOK

LEMMA NextType == TypeOK /\ [Next]_vars => TypeOK'
<1> SUFFICES ASSUME TypeOK, [Next]_vars PROVE TypeOK'
    OBVIOUS
<1> USE ConfigAssumption
<1>0. 0 \in 0..OpenDuration
    BY SMT
<1>1. CASE UNCHANGED vars
    BY <1>1 DEF vars, cbvars, callvars, TypeOK
<1>2. ASSUME NEW c \in Callers, NEW step \in Steps, GoTo(c, step)
      PROVE  pc' \in [Callers -> Steps]
    BY <1>2 DEF GoTo, TypeOK
<1>3. ASSUME NEW c \in Callers, LoadState(c) PROVE TypeOK'
    BY <1>0, <1>3 DEF LoadState, At, GoTo, Admit, TypeOK, States, Steps, cbvars
<1>4. ASSUME NEW c \in Callers, LoadLastFail(c) PROVE TypeOK'
    BY <1>0, <1>4 DEF LoadLastFail, At, GoTo, TypeOK, States, Steps, cbvars
<1>5. ASSUME NEW c \in Callers, TooEarly(c) PROVE TypeOK'
    BY <1>0, <1>5 DEF TooEarly, At, GoTo, TypeOK, States, Steps, cbvars
<1>6. ASSUME NEW c \in Callers, HalfOpen(c) PROVE TypeOK'
    BY <1>0, <1>6 DEF HalfOpen, At, GoTo, TypeOK, States, Steps, cbvars
<1>7. ASSUME NEW c \in Callers, ResetFailures(c) PROVE TypeOK'
    BY <1>0, <1>7 DEF ResetFailures, At, GoTo, TypeOK, States, Steps, cbvars
<1>8. ASSUME NEW c \in Callers, ResetSuccesses(c) PROVE TypeOK'
    BY <1>0, <1>8 DEF ResetSuccesses, At, GoTo, TypeOK, States, Steps, cbvars
<1>9. ASSUME NEW c \in Callers, Reload(c) PROVE TypeOK'
    BY <1>0, <1>9 DEF Reload, At, GoTo, Admit, TypeOK, States, Steps, cbvars
<1>10. ASSUME NEW c \in Callers, AddFailure(c) PROVE TypeOK'
    BY <1>0, <1>10 DEF AddFailure, At, GoTo, TypeOK, States, Steps, cbvars
<1>11. ASSUME NEW c \in Callers, Trip(c) PROVE TypeOK'
    BY <1>0, <1>11 DEF Trip, At, GoTo, OpenFrom, TypeOK, States, Steps, cbvars
<1>12. ASSUME NEW c \in Callers, Reopen(c) PROVE TypeOK'
    BY <1>0, <1>12 DEF Reopen, At, GoTo, OpenFrom, TypeOK, States, Steps, cbvars
<1>13. ASSUME NEW c \in Callers, Stamp(c) PROVE TypeOK'
    BY <1>0, <1>13 DEF Stamp, At, GoTo, TypeOK, States, Steps, cbvars
<1>23. ASSUME NEW c \in Callers, TakeTime(c) PROVE TypeOK'
    BY <1>0, <1>23 DEF TakeTime, At, GoTo, TypeOK, States, Steps, cbvars
<1>14. ASSUME NEW c \in Callers, ClearFailures(c) PROVE TypeOK'
    BY <1>0, <1>14 DEF ClearFailures, At, GoTo, TypeOK, States, Steps, cbvars
<1>15. ASSUME NEW c \in Callers, AddSuccess(c) PROVE TypeOK'
    BY <1>0, <1>15 DEF AddSuccess, At, GoTo, TypeOK, States, Steps, cbvars
<1>16. ASSUME NEW c \in Callers, Close(c) PROVE TypeOK'
    BY <1>0, <1>16 DEF Close, At, GoTo, TypeOK, States, Steps, cbvars
<1>17. ASSUME NEW c \in Callers, CloseFailures(c) PROVE TypeOK'
    BY <1>0, <1>17 DEF CloseFailures, At, GoTo, TypeOK, States, Steps, cbvars
<1>18. ASSUME NEW c \in Callers, CloseSuccesses(c) PROVE TypeOK'
    BY <1>0, <1>18 DEF CloseSuccesses, At, GoTo, TypeOK, States, Steps, cbvars
<1>19. ASSUME NEW c \in Callers, FnSucceeds(c) PROVE TypeOK'
    BY <1>0, <1>19 DEF FnSucceeds, At, GoTo, TypeOK, States, Steps, cbvars
<1>20. ASSUME NEW c \in Callers, FnFails(c) PROVE TypeOK'
    BY <1>0, <1>20 DEF FnFails, At, GoTo, TypeOK, States, Steps, cbvars
<1>21. CASE Tick
    <2>1. Capped(age + 1) \in 0..OpenDuration /\ Capped(openFor + 1) \in 0..OpenDuration
        BY CappedType, SMT DEF TypeOK
    <2>2. \A c \in Callers : Capped(seen[c] + 1) \in 0..OpenDuration
        BY CappedType, SMT DEF TypeOK
    <2> QED BY <1>21, <2>1, <2>2 DEF Tick, TypeOK
<1>22. CASE EndpointRecovers
    BY <1>22 DEF EndpointRecovers, TypeOK, cbvars, callvars
<1> QED BY <1>1, <1>3, <1>4, <1>5, <1>6, <1>7, <1>8, <1>9, <1>10, <1>11, <1>12, <1>13, <1>14,
           <1>15, <1>16, <1>17, <1>18, <1>19, <1>20, <1>21, <1>22, <1>23, NextCases

\* The atomics keep their types for every number of callers and every configuration.
THEOREM TypeCorrect == Spec => []TypeOK
BY InitType, NextType, PTL DEF Spec

-----------------------------------------------------------------------------
LEMMA MissedStep == TypeOK /\ NoMissedTransition /\ [Next]_vars => NoMissedTransition'
<1> SUFFICES ASSUME TypeOK, NoMissedTransition, [Next]_vars PROVE NoMissedTransition'
    OBVIOUS
<1> USE ConfigAssumption
<1>1. CASE UNCHANGED vars
    BY <1>1 DEF vars, cbvars, callvars, NoMissedTransition
<1>2. ASSUME NEW c \in Callers, LoadState(c) PROVE NoMissedTransition'
    BY <1>2 DEF LoadState, At, GoTo, Admit, NoMissedTransition, TypeOK, cbvars
<1>3. ASSUME NEW c \in Callers, LoadLastFail(c) PROVE NoMissedTransition'
    BY <1>3 DEF LoadLastFail, At, GoTo, NoMissedTransition, TypeOK, cbvars
<1>4. ASSUME NEW c \in Callers, TooEarly(c) PROVE NoMissedTransition'
    BY <1>4 DEF TooEarly, At, GoTo, NoMissedTransition, TypeOK, cbvars
<1>5. ASSUME NEW c \in Callers, HalfOpen(c) PROVE NoMissedTransition'
    BY <1>5 DEF HalfOpen, At, GoTo, NoMissedTransition, TypeOK, cbvars
<1>6. ASSUME NEW c \in Callers, ResetFailures(c) PROVE NoMissedTransition'
    BY <1>6 DEF ResetFailures, At, GoTo, NoMissedTransition, TypeOK, cbvars
<1>7. ASSUME NEW c \in Callers, ResetSuccesses(c) PROVE NoMissedTransition'
    BY <1>7 DEF ResetSuccesses, At, GoTo, NoMissedTransition, TypeOK, cbvars
<1>8. ASSUME NEW c \in Callers, Reload(c) PROVE NoMissedTransition'
    BY <1>8 DEF Reload, At, GoTo, Admit, NoMissedTransition, TypeOK, cbvars
<1>9. ASSUME NEW c \in Callers, AddFailure(c) PROVE NoMissedTransition'
    BY <1>9 DEF AddFailure, At, GoTo, NoMissedTransition, TypeOK, cbvars
<1>10. ASSUME NEW c \in Callers, Trip(c) PROVE NoMissedTransition'
    BY <1>10 DEF Trip, At, GoTo, OpenFrom, NoMissedTransition, TypeOK, cbvars
<1>11. ASSUME NEW c \in Callers, Reopen(c) PROVE NoMissedTransition'
    BY <1>11 DEF Reopen, At, GoTo, OpenFrom, NoMissedTransition, TypeOK, cbvars
<1>12. ASSUME NEW c \in Callers, Stamp(c) PROVE NoMissedTransition'
    BY <1>12 DEF Stamp, At, GoTo, NoMissedTransition, TypeOK, cbvars
<1>22. ASSUME NEW c \in Callers, TakeTime(c) PROVE NoMissedTransition'
    BY <1>22 DEF TakeTime, At, GoTo, NoMissedTransition, TypeOK, cbvars
<1>13. ASSUME NEW c \in Callers, ClearFailures(c) PROVE NoMissedTransition'
    BY <1>13 DEF ClearFailures, At, GoTo, NoMissedTransition, TypeOK, cbvars
<1>14. ASSUME NEW c \in Callers, AddSuccess(c) PROVE NoMissedTransition'
    BY <1>14 DEF AddSuccess, At, GoTo, NoMissedTransition, TypeOK, cbvars
<1>15. ASSUME NEW c \in Callers, Close(c) PROVE NoMissedTransition'
    BY <1>15 DEF Close, At, GoTo, NoMissedTransition, TypeOK, cbvars
<1>16. ASSUME NEW c \in Callers, CloseFailures(c) PROVE NoMissedTransition'
    BY <1>16 DEF CloseFailures, At, GoTo, NoMissedTransition, TypeOK, cbvars
<1>17. ASSUME NEW c \in Callers, CloseSuccesses(c) PROVE NoMissedTransition'
    BY <1>17 DEF CloseSuccesses, At, GoTo, NoMissedTransition, TypeOK, cbvars
<1>18. ASSUME NEW c \in Callers, FnSucceeds(c) PROVE NoMissedTransition'
    BY <1>18 DEF FnSucceeds, At, GoTo, NoMissedTransition, TypeOK, cbvars
<1>19. ASSUME NEW c \in Callers, FnFails(c) PROVE NoMissedTransition'
    BY <1>19 DEF FnFails, At, GoTo, NoMissedTransition, TypeOK, cbvars
<1>20. CASE Tick
    BY <1>20 DEF Tick, NoMissedTransition, TypeOK
<1>21. CASE EndpointRecovers
    BY <1>21 DEF EndpointRecovers, NoMissedTransition, cbvars, callvars
<1> QED BY <1>1, <1>2, <1>3, <1>4, <1>5, <1>6, <1>7, <1>8, <1>9, <1>10, <1>11, <1>12, <1>13,
           <1>14, <1>15, <1>16, <1>17, <1>18, <1>19, <1>20, <1>21, <1>22, NextCases

\* A counter that reaches its threshold is always acted on: some caller is about
\* to trip or close the breaker, or to reset the counter (recordResult).
THEOREM ThresholdsAreActedOn == Spec => []NoMissedTransition
<1>1. Init => NoMissedTransition
    BY ConfigAssumption DEF Init, NoMissedTransition
<1> QED BY <1>1, MissedStep, TypeCorrect, PTL DEF Spec

-----------------------------------------------------------------------------
\* The times callers are about to store are no older than the opening either,
\* unless one of them was read before it.
StampInv ==
    state = "open" /\ ~crossed =>
        /\ \A c \in Callers : At(c, "stamp") => seen[c] <= openFor
        /\ (\A c \in Callers : pc[c] \notin {"now", "stamp"}) => age <= openFor

LEMMA StampStep == TypeOK /\ StampInv /\ [Next]_vars => StampInv'
<1> SUFFICES ASSUME TypeOK, StampInv, [Next]_vars PROVE StampInv'
    OBVIOUS
<1> USE ConfigAssumption
<1>1. CASE UNCHANGED vars
    BY <1>1 DEF vars, cbvars, callvars, At, StampInv
<1>2. ASSUME NEW c \in Callers, LoadState(c) PROVE StampInv'
    BY <1>2 DEF LoadState, At, GoTo, Admit, StampInv, TypeOK, cbvars
<1>3. ASSUME NEW c \in Callers, LoadLastFail(c) PROVE StampInv'
    BY <1>3 DEF LoadLastFail, At, GoTo, StampInv, TypeOK, cbvars
<1>4. ASSUME NEW c \in Callers, TooEarly(c) PROVE StampInv'
    BY <1>4 DEF TooEarly, At, GoTo, StampInv, TypeOK, cbvars
<1>5. ASSUME NEW c \in Callers, HalfOpen(c) PROVE StampInv'
    BY <1>5 DEF HalfOpen, At, GoTo, StampInv, TypeOK, cbvars
<1>6. ASSUME NEW c \in Callers, ResetFailures(c) PROVE StampInv'
    BY <1>6 DEF ResetFailures, At, GoTo, StampInv, TypeOK, cbvars
<1>7. ASSUME NEW c \in Callers, ResetSuccesses(c) PROVE StampInv'
    BY <1>7 DEF ResetSuccesses, At, GoTo, StampInv, TypeOK, cbvars
<1>8. ASSUME NEW c \in Callers, Reload(c) PROVE StampInv'
    BY <1>8 DEF Reload, At, GoTo, Admit, StampInv, TypeOK, cbvars
<1>9. ASSUME NEW c \in Callers, AddFailure(c) PROVE StampInv'
    BY <1>9 DEF AddFailure, At, GoTo, StampInv, TypeOK, cbvars
<1>10. ASSUME NEW c \in Callers, Trip(c) PROVE StampInv'
    BY <1>10 DEF Trip, At, GoTo, OpenFrom, StampInv, TypeOK, cbvars
<1>11. ASSUME NEW c \in Callers, Reopen(c) PROVE StampInv'
    BY <1>11 DEF Reopen, At, GoTo, OpenFrom, StampInv, TypeOK, cbvars
<1>12. ASSUME NEW c \in Callers, Stamp(c) PROVE StampInv'
    BY <1>12 DEF Stamp, At, GoTo, StampInv, TypeOK, cbvars
<1>22. ASSUME NEW c \in Callers, TakeTime(c) PROVE StampInv'
    BY <1>22 DEF TakeTime, At, GoTo, StampInv, TypeOK, cbvars
<1>13. ASSUME NEW c \in Callers, ClearFailures(c) PROVE StampInv'
    BY <1>13 DEF ClearFailures, At, GoTo, StampInv, TypeOK, cbvars
<1>14. ASSUME NEW c \in Callers, AddSuccess(c) PROVE StampInv'
    BY <1>14 DEF AddSuccess, At, GoTo, StampInv, TypeOK, cbvars
<1>15. ASSUME NEW c \in Callers, Close(c) PROVE StampInv'
    BY <1>15 DEF Close, At, GoTo, StampInv, TypeOK, cbvars
<1>16. ASSUME NEW c \in Callers, CloseFailures(c) PROVE StampInv'
    BY <1>16 DEF CloseFailures, At, GoTo, StampInv, TypeOK, cbvars
<1>17. ASSUME NEW c \in Callers, CloseSuccesses(c) PROVE StampInv'
    BY <1>17 DEF CloseSuccesses, At, GoTo, StampInv, TypeOK, cbvars
<1>18. ASSUME NEW c \in Callers, FnSucceeds(c) PROVE StampInv'
    BY <1>18 DEF FnSucceeds, At, GoTo, StampInv, TypeOK, cbvars
<1>19. ASSUME NEW c \in Callers, FnFails(c) PROVE StampInv'
    BY <1>19 DEF FnFails, At, GoTo, StampInv, TypeOK, cbvars
<1>20. CASE Tick
    BY <1>20 DEF Tick, Capped, At, StampInv, TypeOK
<1>21. CASE EndpointRecovers
    BY <1>21 DEF EndpointRecovers, At, StampInv, cbvars, callvars
<1> QED BY <1>1, <1>2, <1>3, <1>4, <1>5, <1>6, <1>7, <1>8, <1>9, <1>10, <1>11, <1>12, <1>13,
           <1>14, <1>15, <1>16, <1>17, <1>18, <1>19, <1>20, <1>21, <1>22, NextCases

\* Outside the gap between opening and stamping, lastFailAt is no older than the
\* opening, so the breaker rejects for all of OpenDuration, unless a clock read of
\* an earlier opening was still to be stored when it opened (onFailure).
THEOREM StampsAreFresh == Spec => []StampIsFresh
<1>1. Init => StampInv
    BY DEF Init, StampInv
<1>2. StampInv => StampIsFresh
    BY DEF StampInv, StampIsFresh
<1> QED BY <1>1, <1>2, StampStep, TypeCorrect, PTL DEF Spec

-----------------------------------------------------------------------------
\* The state takes only the four transitions of the package comment, from every
\* interleaving of stale and fresh results.
THEOREM TransitionsAreLegal == Spec => LegalTransitions
<1>1. TypeOK /\ [Next]_vars =>
        [ state' # state =>
            <<state, state'>> \in {<<"closed", "open">>, <<"open", "half">>,
                                   <<"half", "open">>, <<"half", "closed">>} ]_vars
    <2> SUFFICES ASSUME [Next]_vars, state' # state
                 PROVE  <<state, state'>> \in {<<"closed", "open">>, <<"open", "half">>,
                                               <<"half", "open">>, <<"half", "closed">>}
        OBVIOUS
    <2>1. Next
        BY DEF vars, cbvars
    <2>2. PICK c \in Callers : HalfOpen(c) \/ Trip(c) \/ Reopen(c) \/ Close(c)
        BY <2>1, NextCases DEF LoadState, LoadLastFail, TooEarly, ResetFailures, ResetSuccesses,
           Reload, AddFailure, TakeTime, Stamp, ClearFailures, AddSuccess, CloseFailures, CloseSuccesses,
           FnSucceeds, FnFails, Tick, EndpointRecovers, cbvars
    <2> QED BY <2>2 DEF HalfOpen, Trip, Reopen, OpenFrom, Close
<1> QED BY <1>1, TypeCorrect, PTL DEF Spec, LegalTransitions

-----------------------------------------------------------------------------
(* One caller. Where the caller stands tells which state the breaker is in  *)
(* and how far the counters are from their thresholds.                      *)

Serial(me) ==
    /\ pc[me] \in {"last", "elapsed", "now", "stamp"} => state = "open"
    /\ pc[me] \in {"resetF", "resetS", "reload", "reopen", "addS", "close"} => state = "half"
    /\ pc[me] \in {"addF", "trip", "closeF", "closeS"} => state = "closed"
    /\ pc[me] = "fn" => state = before[me]
    /\ pc[me] = "clearF" => state = IF before[me] = "closed" THEN "closed" ELSE "open"
    /\ pc[me] \in {"addF", "trip"} => before[me] = "closed"
    /\ pc[me] = "elapsed" => seen[me] = age
    /\ state = "closed" /\ pc[me] \notin {"trip", "closeF"} => failures < FailureThreshold
    /\ pc[me] = "trip" => failures = FailureThreshold
    /\ state = "half" /\ pc[me] \notin {"close", "resetF", "resetS"} => successes < HalfOpenMaxCalls
    /\ pc[me] = "close" => successes = HalfOpenMaxCalls

LEMMA SerialStep ==
    ASSUME NEW me, Callers = {me}, TypeOK, Serial(me), [Next]_vars
    PROVE  Serial(me)'
<1> USE ConfigAssumption
<1>1. CASE UNCHANGED vars
    BY <1>1 DEF vars, cbvars, callvars, Serial
<1>2. CASE LoadState(me)
    BY <1>2 DEF LoadState, At, GoTo, Admit, Serial, TypeOK, States, Steps, cbvars
<1>3. CASE LoadLastFail(me)
    BY <1>3 DEF LoadLastFail, At, GoTo, Serial, TypeOK, States, Steps, cbvars
<1>4. CASE TooEarly(me)
    BY <1>4 DEF TooEarly, At, GoTo, Serial, TypeOK, States, Steps, cbvars
<1>5. CASE HalfOpen(me)
    BY <1>5 DEF HalfOpen, At, GoTo, Serial, TypeOK, States, Steps, cbvars
<1>6. CASE ResetFailures(me)
    BY <1>6 DEF ResetFailures, At, GoTo, Serial, TypeOK, States, Steps, cbvars
<1>7. CASE ResetSuccesses(me)
    BY <1>7 DEF ResetSuccesses, At, GoTo, Serial, TypeOK, States, Steps, cbvars
<1>8. CASE Reload(me)
    BY <1>8 DEF Reload, At, GoTo, Admit, Serial, TypeOK, States, Steps, cbvars
<1>9. CASE AddFailure(me)
    BY <1>9 DEF AddFailure, At, GoTo, Serial, TypeOK, States, Steps, cbvars
<1>10. CASE Trip(me)
    BY <1>10 DEF Trip, At, GoTo, OpenFrom, Serial, TypeOK, States, Steps, cbvars
<1>11. CASE Reopen(me)
    BY <1>11 DEF Reopen, At, GoTo, OpenFrom, Serial, TypeOK, States, Steps, cbvars
<1>12. CASE Stamp(me)
    BY <1>12 DEF Stamp, At, GoTo, Serial, TypeOK, States, Steps, cbvars
<1>22. CASE TakeTime(me)
    BY <1>22 DEF TakeTime, At, GoTo, Serial, TypeOK, States, Steps, cbvars
<1>13. CASE ClearFailures(me)
    BY <1>13 DEF ClearFailures, At, GoTo, Serial, TypeOK, States, Steps, cbvars
<1>14. CASE AddSuccess(me)
    BY <1>14 DEF AddSuccess, At, GoTo, Serial, TypeOK, States, Steps, cbvars
<1>15. CASE Close(me)
    BY <1>15 DEF Close, At, GoTo, Serial, TypeOK, States, Steps, cbvars
<1>16. CASE CloseFailures(me)
    BY <1>16 DEF CloseFailures, At, GoTo, Serial, TypeOK, States, Steps, cbvars
<1>17. CASE CloseSuccesses(me)
    BY <1>17 DEF CloseSuccesses, At, GoTo, Serial, TypeOK, States, Steps, cbvars
<1>18. CASE FnSucceeds(me)
    BY <1>18 DEF FnSucceeds, At, GoTo, Serial, TypeOK, States, Steps, cbvars
<1>19. CASE FnFails(me)
    BY <1>19 DEF FnFails, At, GoTo, Serial, TypeOK, States, Steps, cbvars
<1>20. CASE Tick
    BY <1>20 DEF Tick, Capped, At, Serial, TypeOK
<1>21. CASE EndpointRecovers
    BY <1>21 DEF EndpointRecovers, Serial, cbvars, callvars
<1> QED BY <1>1, <1>2, <1>3, <1>4, <1>5, <1>6, <1>7, <1>8, <1>9, <1>10, <1>11, <1>12, <1>13,
           <1>14, <1>15, <1>16, <1>17, <1>18, <1>19, <1>20, <1>21, <1>22, NextCases

LEMMA SerialIsTextbook ==
    ASSUME NEW me, Callers = {me}, TypeOK, Serial(me), [Next]_vars, Serial(me)'
    PROVE  [Textbook!Next]_(Textbook!bvars)
<1> USE ConfigAssumption
    DEF Textbook!Next, Textbook!Succeed, Textbook!Fail, Textbook!Open, Textbook!Wait,
        Textbook!Probe, Textbook!ProbeSucceeds, Textbook!Close, Textbook!Reopen,
        Textbook!bvars, Somewhere, At
<1>1. CASE UNCHANGED vars
    BY <1>1 DEF vars, cbvars, callvars
<1>2. CASE LoadState(me)
    BY <1>2 DEF LoadState, At, GoTo, Admit, Serial, TypeOK, States, Steps, cbvars
<1>3. CASE LoadLastFail(me)
    BY <1>3 DEF LoadLastFail, At, GoTo, Serial, TypeOK, States, Steps, cbvars
<1>4. CASE TooEarly(me)
    BY <1>4 DEF TooEarly, At, GoTo, Serial, TypeOK, States, Steps, cbvars
<1>5. CASE HalfOpen(me)
    BY <1>5 DEF HalfOpen, At, GoTo, Serial, TypeOK, States, Steps, cbvars
<1>6. CASE ResetFailures(me)
    BY <1>6 DEF ResetFailures, At, GoTo, Serial, TypeOK, States, Steps, cbvars
<1>7. CASE ResetSuccesses(me)
    BY <1>7 DEF ResetSuccesses, At, GoTo, Serial, TypeOK, States, Steps, cbvars
<1>8. CASE Reload(me)
    BY <1>8 DEF Reload, At, GoTo, Admit, Serial, TypeOK, States, Steps, cbvars
<1>9. CASE AddFailure(me)
    BY <1>9 DEF AddFailure, At, GoTo, Serial, TypeOK, States, Steps, cbvars
<1>10. CASE Trip(me)
    BY <1>10 DEF Trip, At, GoTo, OpenFrom, Serial, TypeOK, States, Steps, cbvars
<1>11. CASE Reopen(me)
    BY <1>11 DEF Reopen, At, GoTo, OpenFrom, Serial, TypeOK, States, Steps, cbvars
<1>12. CASE Stamp(me)
    BY <1>12 DEF Stamp, At, GoTo, Serial, TypeOK, States, Steps, cbvars
<1>22. CASE TakeTime(me)
    BY <1>22 DEF TakeTime, At, GoTo, Serial, TypeOK, States, Steps, cbvars
<1>13. CASE ClearFailures(me)
    BY <1>13 DEF ClearFailures, At, GoTo, Serial, TypeOK, States, Steps, cbvars
<1>14. CASE AddSuccess(me)
    BY <1>14 DEF AddSuccess, At, GoTo, Serial, TypeOK, States, Steps, cbvars
<1>15. CASE Close(me)
    BY <1>15 DEF Close, At, GoTo, Serial, TypeOK, States, Steps, cbvars
<1>16. CASE CloseFailures(me)
    BY <1>16 DEF CloseFailures, At, GoTo, Serial, TypeOK, States, Steps, cbvars
<1>17. CASE CloseSuccesses(me)
    BY <1>17 DEF CloseSuccesses, At, GoTo, Serial, TypeOK, States, Steps, cbvars
<1>18. CASE FnSucceeds(me)
    BY <1>18 DEF FnSucceeds, At, GoTo, Serial, TypeOK, States, Steps, cbvars
<1>19. CASE FnFails(me)
    BY <1>19 DEF FnFails, At, GoTo, Serial, TypeOK, States, Steps, cbvars
<1>20. CASE Tick
    BY <1>20 DEF Tick, Capped, At, Serial, TypeOK
<1>21. CASE EndpointRecovers
    BY <1>21 DEF EndpointRecovers, cbvars, callvars
<1> QED BY <1>1, <1>2, <1>3, <1>4, <1>5, <1>6, <1>7, <1>8, <1>9, <1>10, <1>11, <1>12, <1>13,
           <1>14, <1>15, <1>16, <1>17, <1>18, <1>19, <1>20, <1>21, <1>22, NextCases

\* A breaker used by one call at a time implements the textbook breaker of
\* Breaker.tla: the gaps between its atomics show only to concurrent calls.
THEOREM OneCallerIsTextbook ==
    ASSUME NEW CONSTANT me, Callers = {me}
    PROVE  Spec => BehavesLikeTextbook
<1>1. Init => Serial(me)
    BY ConfigAssumption DEF Init, Serial
<1>2. Init => Textbook!Init
    BY DEF Init, Textbook!Init, Somewhere
<1>3. TypeOK /\ Serial(me) /\ [Next]_vars => Serial(me)'
    BY SerialStep
<1>4. TypeOK /\ Serial(me) /\ Serial(me)' /\ [Next]_vars => [Textbook!Next]_(Textbook!bvars)
    BY SerialIsTextbook
<1> QED BY <1>1, <1>2, <1>3, <1>4, TypeCorrect, PTL
        DEF Spec, BehavesLikeTextbook, Textbook!Spec

-----------------------------------------------------------------------------
(* The adapters in front of the breaker.                                    *)

\* Whatever a client does, the breaker sees one of its own steps or nothing.
LEMMA AdapterStepIsBreakerStep == [AdapterNext]_allvars => [Next]_vars
<1> SUFFICES ASSUME [AdapterNext]_allvars PROVE [Next]_vars
    OBVIOUS
<1>1. ASSUME NEW c \in Callers, ClientStep(c) PROVE [Next]_vars
    <2>1. CASE InBreaker(c) BY <2>1 DEF InBreaker, Next
    <2>2. CASE Answers(c) \/ VideoAnswers(c) BY <2>2 DEF Answers, VideoAnswers, Next
    <2>3. CASE Fails(c) \/ VideoFails(c) BY <2>3 DEF Fails, VideoFails, Next
    <2>4. CASE \/ \E k \in Keys : Ask(c, k)
               \/ Join(c) \/ Recheck(c) \/ AskVideo(c) \/ PollAgain(c) \/ Store(c) \/ Land(c)
        BY <2>4 DEF Ask, Join, Recheck, AskVideo, PollAgain, Store, Land
    <2> QED BY <1>1, <2>1, <2>2, <2>3, <2>4 DEF ClientStep
<1>2. CASE Expire BY <1>2 DEF Expire
<1>3. CASE Environment BY <1>3 DEF Environment, Next
<1>4. CASE UNCHANGED allvars BY <1>4 DEF allvars
<1> QED BY <1>1, <1>2, <1>3, <1>4 DEF AdapterNext

\* The cache, the flights and the polling conversations are users of the
\* breaker like any other: what holds of the breaker holds behind them.
THEOREM AdapterUsesBreaker == AdapterSpec => Spec
<1>1. AdapterInit => Init
    BY DEF AdapterInit
<1> QED BY <1>1, AdapterStepIsBreakerStep, PTL DEF AdapterSpec, Spec

\* A client from the moment its flight knows it until the flight is over.
Leads(c) == at[c] \in {"lead", "call", "inside", "back", "land"}

\* A client that leads is the leader its flight has on record, so a key has one
\* leader; nobody is on the way to the upstream for a key that is cached.
FlightInv ==
    /\ \A c \in Callers : at[c] \in {"missed", "wait"} => key[c] \in Keys
    /\ kind = "litellm" =>
         \A c \in Callers :
            /\ Leads(c) => key[c] \in DOMAIN flight /\ flight[key[c]] = c
            /\ at[c] \in {"call", "inside"} => key[c] \notin fresh

AdapterInv == AdapterTypeOK /\ FlightInv

LEMMA FlightType ==
    ASSUME AdapterInv
    PROVE  /\ at \in [Callers -> Places]
           /\ key \in [Callers -> Keys \cup {NoKey}]
           /\ result \in [Callers -> {"none", "ok", "err"}]
           /\ polls \in [Callers -> 0..MaxPolls]
           /\ fresh \subseteq Keys
           /\ DOMAIN flight \subseteq Keys
           /\ \A k \in DOMAIN flight : flight[k] \in Callers
           /\ kind \in {"litellm", "video"}
BY DEF AdapterInv, AdapterTypeOK

LEMMA AdapterStep ==
    ASSUME AdapterInv, [AdapterNext]_allvars
    PROVE  AdapterInv'
<1>0. TypeOK'
    BY AdapterStepIsBreakerStep, NextType DEF AdapterInv, AdapterTypeOK
<1> USE <1>0, FlightType DEF AdapterInv, FlightInv, Leads, Move
<1>1. ASSUME NEW c \in Callers, ClientStep(c) PROVE AdapterInv'
    <2>1. ASSUME NEW k \in Keys, Ask(c, k) PROVE AdapterInv'
        BY <2>1 DEF Ask, Places, AdapterTypeOK
    <2>2. CASE Join(c)
        <3>1. CASE key[c] \in DOMAIN flight
            BY <2>2, <3>1 DEF Join, Places, AdapterTypeOK
        <3>2. CASE key[c] \notin DOMAIN flight
            <4>1. key[c] \in Keys
                BY <2>2 DEF Join
            <4>2. /\ DOMAIN flight' = DOMAIN flight \cup {key[c]}
                  /\ flight'[key[c]] = c
                  /\ \A k \in DOMAIN flight : flight'[k] = flight[k]
                BY <2>2, <3>2 DEF Join
            <4> QED BY <2>2, <3>2, <4>1, <4>2 DEF Join, Places, AdapterTypeOK
        <3> QED BY <3>1, <3>2
    <2>3. CASE Recheck(c)
        BY <2>3 DEF Recheck, Places, AdapterTypeOK
    <2>4. CASE AskVideo(c)
        BY <2>4 DEF AskVideo, Places, AdapterTypeOK
    <2>5. CASE InBreaker(c)
        BY <2>5 DEF InBreaker, Places, AdapterTypeOK
    <2>6. ASSUME NEW r \in {"ok", "err"}, Returned(c, r) PROVE AdapterInv'
        <3>1. 0 \in 0..MaxPolls BY AdapterAssumption
        <3> QED BY <2>6, <3>1 DEF Returned, Places, AdapterTypeOK
    <2>7. CASE Answers(c) \/ Fails(c) \/ VideoAnswers(c) \/ VideoFails(c)
        BY <2>6, <2>7 DEF Answers, Fails, VideoAnswers, VideoFails
    <2>8. CASE PollAgain(c)
        <3>1. polls[c] + 1 \in 0..MaxPolls
            BY <2>8, AdapterAssumption DEF PollAgain
        <3> QED BY <2>8, <3>1 DEF PollAgain, Places, AdapterTypeOK
    <2>9. CASE Store(c)
        BY <2>9 DEF Store, Places, AdapterTypeOK
    <2>10. CASE Land(c)
        <3>1. /\ DOMAIN flight' = DOMAIN flight \ {key[c]}
              /\ \A k \in DOMAIN flight' : flight'[k] = flight[k]
            BY <2>10 DEF Land, Restrict
        <3>2. \A d \in Callers : \/ at'[d] = "out" /\ key'[d] = NoKey
                                 \/ d # c /\ at'[d] = at[d] /\ key'[d] = key[d]
            BY <2>10 DEF Land
        <3>3. FlightInv'
            BY <2>10, <3>1, <3>2 DEF Land
        <3>4. AdapterTypeOK'
            BY <2>10, <3>1 DEF Land, Places, AdapterTypeOK
        <3> QED BY <3>3, <3>4
    <2> QED BY <1>1, <2>1, <2>2, <2>3, <2>4, <2>5, <2>7, <2>8, <2>9, <2>10 DEF ClientStep
<1>2. CASE Expire
    BY <1>2 DEF Expire, AdapterTypeOK
<1>3. CASE Environment
    BY <1>3 DEF Environment, avars, AdapterTypeOK
<1>4. CASE UNCHANGED allvars
    BY <1>4 DEF allvars, avars, AdapterTypeOK
<1> QED BY <1>1, <1>2, <1>3, <1>4 DEF AdapterNext

LEMMA AdapterInvHolds == AdapterSpec => []AdapterInv
<1>1. AdapterInit => AdapterInv
    <2> SUFFICES ASSUME AdapterInit PROVE AdapterInv
        OBVIOUS
    <2>1. TypeOK
        BY InitType DEF AdapterInit
    <2>2. 0 \in 0..MaxPolls
        BY AdapterAssumption
    <2> QED BY <2>1, <2>2 DEF AdapterInit, AdapterInv, AdapterTypeOK, FlightInv, Leads, Places
<1> QED BY <1>1, AdapterStep, PTL DEF AdapterSpec

\* The variables of the adapters keep their types.
THEOREM AdapterTypeCorrect == AdapterSpec => []AdapterTypeOK
BY AdapterInvHolds, PTL DEF AdapterInv

\* However the two looks into the cache and the flight interleave, no client asks
\* the upstream for a cached answer, and no two clients ask for the same one.
THEOREM NoCallIsWasted == AdapterSpec => []NoWastedCall
<1>1. AdapterInv => NoWastedCall
    BY DEF AdapterInv, FlightInv, Leads, NoWastedCall
<1> QED BY <1>1, AdapterInvHolds, PTL

\* Behind the adapters too a counter at its threshold is always acted on.
THEOREM AdapterThresholdsAreActedOn == AdapterSpec => []NoMissedTransition
BY AdapterUsesBreaker, ThresholdsAreActedOn, PTL

\* Behind the adapters too an opening is judged by its own failure time, with the
\* same exception.
THEOREM AdapterStampsAreFresh == AdapterSpec => []StampIsFresh
BY AdapterUsesBreaker, StampsAreFresh, PTL
=============================================================================
