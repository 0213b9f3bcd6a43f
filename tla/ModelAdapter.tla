----------------------------- MODULE ModelAdapter -----------------------------
(***************************************************************************)
(* internal/adapter: what stands between a service and an upstream model.  *)
(* All adapters of one endpoint share a breaker (module CircuitBreaker,    *)
(* extended here with its callers).  The LiteLLM adapter puts a response   *)
(* cache and a single flight per request in front of it, so only the       *)
(* leader of a flight is a caller of the breaker; the video adapter calls  *)
(* it around a whole submit-and-poll conversation.  The two kinds keep     *)
(* their breakers in different registries, so a breaker serves one kind.   *)
(***************************************************************************)
EXTENDS CircuitBreaker, Functions

CONSTANTS
    Keys,       \* what cacheKey makes of the requests
    NoKey,      \* no request
    MaxPolls    \* max_polls of the video adapter

ASSUME AdapterAssumption == Keys # {} /\ NoKey \notin Keys /\ MaxPolls \in Nat \ {0}

VARIABLES
    kind,       \* the adapters of this endpoint: "litellm" or "video"
    at,         \* where each client is in Generate
    key,        \* the cache key of its request
    result,     \* what fn returned to it
    polls,      \* polls its video task has taken; 0 before there is a task
    fresh,      \* keys with a cached response younger than cacheTTL
    flight      \* keys in sf, with their leaders

avars == <<kind, at, key, result, polls, fresh, flight>>
allvars == <<vars, avars>>

Places == {"out", "missed", "lead", "wait", "call", "inside", "back", "land"}

\* NewLiteLLMAdapter, NewVideoAdapter: one breaker per endpoint and kind.
AdapterInit ==
    /\ Init
    /\ kind \in {"litellm", "video"}
    /\ at = [c \in Callers |-> "out"]
    /\ key = [c \in Callers |-> NoKey]
    /\ result = [c \in Callers |-> "none"]
    /\ polls = [c \in Callers |-> 0]
    /\ fresh = {} /\ flight = << >>

Move(c, to) == at' = [at EXCEPT ![c] = to]

\* Generate of the LiteLLM adapter: a hit returns at once and changes nothing.
Ask(c, k) ==
    /\ kind = "litellm" /\ at[c] = "out" /\ k \notin fresh
    /\ Move(c, "missed") /\ key' = [key EXCEPT ![c] = k]
    /\ UNCHANGED <<vars, kind, result, polls, fresh, flight>>

\* sf.Do: the first client with a key leads, the others wait for its answer.
Join(c) ==
    /\ at[c] = "missed"
    /\ IF key[c] \in DOMAIN flight
       THEN Move(c, "wait") /\ UNCHANGED flight
       ELSE /\ Move(c, "lead")
            /\ flight' = [k \in DOMAIN flight \cup {key[c]} |->
                             IF k = key[c] THEN c ELSE flight[k]]
    /\ UNCHANGED <<vars, kind, key, result, polls, fresh>>

\* Mutant: the leader does not look into the cache again.
RecheckSkipped(c) ==
    /\ at[c] = "lead"
    /\ Move(c, "call")
    /\ UNCHANGED <<vars, kind, key, result, polls, fresh, flight>>

\* The second look: a flight that ended since the first one left its answer.
Recheck(c) ==
    /\ at[c] = "lead"
    /\ Move(c, IF key[c] \in fresh THEN "land" ELSE "call")
    /\ UNCHANGED <<vars, kind, key, result, polls, fresh, flight>>

\* Generate of the video adapter goes straight to its breaker.
AskVideo(c) ==
    /\ kind = "video" /\ at[c] = "out"
    /\ Move(c, "call")
    /\ UNCHANGED <<vars, kind, key, result, polls, fresh, flight>>

\* cb.Call: an operation of the breaker by a client that is in it.  When it
\* returns, by ErrOpen or after the result is recorded, Generate goes on.
InBreaker(c) ==
    /\ at[c] \in {"call", "inside"}
    /\ Continue(c)
    /\ Move(c, IF pc'[c] = "idle" THEN "back" ELSE "inside")
    /\ UNCHANGED <<kind, key, result, polls, fresh, flight>>

\* fn returned r to its caller, which is still to be recorded.
Returned(c, r) ==
    /\ at[c] = "inside"
    /\ result' = [result EXCEPT ![c] = r]
    /\ polls' = [polls EXCEPT ![c] = 0]
    /\ UNCHANGED <<kind, at, key, fresh, flight>>

\* A chat, image or speech response.
Answers(c) == kind = "litellm" /\ FnSucceeds(c) /\ Returned(c, "ok")

\* Transport, a status other than 2xx (4xx too), decoding, an error in the body.
Fails(c) == kind = "litellm" /\ FnFails(c) /\ Returned(c, "err")

\* A video url in the response to the submission, or to a poll.
VideoAnswers(c) == kind = "video" /\ FnSucceeds(c) /\ Returned(c, "ok")

\* A submission or a poll fails in any of these ways, although its task may live
\* on; or the task failed, has no url, or is still pending at the last poll; or
\* the context of the client is over.
VideoFails(c) == kind = "video" /\ FnFails(c) /\ Returned(c, "err")

\* The submission returned a task, or a poll a status that is not final.
PollAgain(c) ==
    /\ kind = "video" /\ at[c] = "inside" /\ pc[c] = "fn"
    /\ polls[c] < MaxPolls
    /\ polls' = [polls EXCEPT ![c] = @ + 1]
    /\ UNCHANGED <<vars, kind, at, key, result, fresh, flight>>

\* setCached, for a response only.
Store(c) ==
    /\ at[c] = "back"
    /\ Move(c, "land")
    /\ fresh' = (IF kind = "litellm" /\ result[c] = "ok"
                 THEN fresh \cup {key[c]} ELSE fresh)
    /\ UNCHANGED <<vars, kind, key, result, polls, flight>>

\* The flight is over: the leader and everyone who waited return to their callers.
Land(c) ==
    /\ at[c] = "land"
    /\ LET Led == {c} \cup {d \in Callers : at[d] = "wait" /\ key[d] = key[c]} IN
       /\ at' = [d \in Callers |-> IF d \in Led THEN "out" ELSE at[d]]
       /\ key' = [d \in Callers |-> IF d \in Led THEN NoKey ELSE key[d]]
    /\ result' = [result EXCEPT ![c] = "none"]
    /\ flight' = Restrict(flight, DOMAIN flight \ {key[c]})
    /\ UNCHANGED <<vars, kind, polls, fresh>>

\* An entry reaches cacheTTL, or the LRU makes room for another.
Expire ==
    \E k \in fresh :
        /\ fresh' = fresh \ {k}
        /\ UNCHANGED <<vars, kind, at, key, result, polls, flight>>

ClientStep(c) ==
    \/ \E k \in Keys : Ask(c, k)
    \/ Join(c) \/ Recheck(c) \/ AskVideo(c)
    \/ InBreaker(c) \/ Answers(c) \/ Fails(c)
    \/ VideoAnswers(c) \/ VideoFails(c) \/ PollAgain(c)
    \/ Store(c) \/ Land(c)

Environment == (Tick \/ EndpointRecovers) /\ UNCHANGED avars

AdapterNext == (\E c \in Callers : ClientStep(c)) \/ Expire \/ Environment

AdapterSpec == AdapterInit /\ [][AdapterNext]_allvars

\* Requests keep coming and their goroutines are scheduled, entries expire and
\* the clock runs.
AdapterFairSpec ==
    /\ AdapterSpec
    /\ \A c \in Callers : WF_allvars(ClientStep(c))
    /\ WF_allvars(Expire)
    /\ WF_allvars(Tick /\ UNCHANGED avars)

-----------------------------------------------------------------------------
AdapterTypeOK ==
    /\ TypeOK
    /\ kind \in {"litellm", "video"}
    /\ at \in [Callers -> Places]
    /\ key \in [Callers -> Keys \cup {NoKey}]
    /\ result \in [Callers -> {"none", "ok", "err"}]
    /\ polls \in [Callers -> 0..MaxPolls]
    /\ fresh \subseteq Keys
    /\ DOMAIN flight \subseteq Keys /\ \A k \in DOMAIN flight : flight[k] \in Callers

\* An upstream request is paid for only when it has to be: nobody asks for an
\* answer that is in the cache, and no two clients ask for the same one, however
\* their looks into the cache and the flight interleave (Generate looks twice).
NoWastedCall ==
    kind = "litellm" =>
        \A c \in Callers : at[c] \in {"call", "inside"} =>
            /\ key[c] \notin fresh
            /\ \A d \in Callers \ {c} :
                   at[d] \in {"call", "inside"} => key[d] # key[c]
=============================================================================
