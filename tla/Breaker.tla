------------------------------- MODULE Breaker -------------------------------
(***************************************************************************)
(* What a circuit breaker promises, one completed call per step: it opens  *)
(* on the FailureThreshold-th consecutive failure, rejects for at least    *)
(* OpenDuration, then admits probes and closes after HalfOpenMaxCalls of   *)
(* them succeed; a probe that fails opens it again.                        *)
(***************************************************************************)
EXTENDS Naturals

CONSTANTS FailureThreshold, OpenDuration, HalfOpenMaxCalls

VARIABLES
    mode,      \* "closed", "open" or "half"
    fails,     \* consecutive failures while closed
    oks,       \* successful probes since it went half-open
    age        \* ticks since it opened, up to OpenDuration

bvars == <<mode, fails, oks, age>>

Init == /\ mode = "closed" /\ fails = 0 /\ oks = 0
        /\ age = OpenDuration

Succeed == /\ mode = "closed"
           /\ fails' = 0
           /\ UNCHANGED <<mode, oks, age>>

Fail == /\ mode = "closed"
        /\ fails + 1 < FailureThreshold
        /\ fails' = fails + 1
        /\ UNCHANGED <<mode, oks, age>>

Open == /\ mode = "closed"
        /\ fails + 1 = FailureThreshold
        /\ mode' = "open" /\ fails' = 0 /\ age' = 0
        /\ UNCHANGED oks

Wait == /\ age < OpenDuration
        /\ age' = age + 1
        /\ UNCHANGED <<mode, fails, oks>>

Probe == /\ mode = "open" /\ age = OpenDuration
         /\ mode' = "half"
         /\ UNCHANGED <<fails, oks, age>>

ProbeSucceeds == /\ mode = "half"
                 /\ oks + 1 < HalfOpenMaxCalls
                 /\ oks' = oks + 1
                 /\ UNCHANGED <<mode, fails, age>>

Close == /\ mode = "half"
         /\ oks + 1 = HalfOpenMaxCalls
         /\ mode' = "closed" /\ oks' = 0
         /\ UNCHANGED <<fails, age>>

Reopen == /\ mode = "half"
          /\ mode' = "open" /\ oks' = 0 /\ age' = 0
          /\ UNCHANGED fails

Next == Succeed \/ Fail \/ Open \/ Wait \/ Probe \/ ProbeSucceeds \/ Close \/ Reopen

Spec == Init /\ [][Next]_bvars
=============================================================================
