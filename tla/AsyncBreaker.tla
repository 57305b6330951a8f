----------------------------- MODULE AsyncBreaker ---------------------------
(***************************************************************************)
(* The circuit breaker for asynchronous calls (infra/circuit_breaker.py).  *)
(* Its lock guards each look at the state but not the call itself, so a    *)
(* call may end in another state than it was admitted in; only the         *)
(* fallback of a short-circuited call runs with the lock held.             *)
(***************************************************************************)
EXTENDS Integers, FiniteSets

CONSTANTS
    Callers,
    FailureThreshold, HalfOpenSuccessThreshold,
    MaxRetries,
    NoCaller,
    MaxRequests     \* bound: total_requests

ASSUME ThresholdsArePositive ==
    FailureThreshold \in Nat \ {0} /\ HalfOpenSuccessThreshold \in Nat \ {0}
ASSUME RetriesAreCounted == MaxRetries \in Nat
ASSUME NoCallerIsNone == NoCaller \notin Callers

VARIABLES
    state, failure_count, consecutive_successes,
    cooled,         \* recovery_timeout has passed since the last change of state
    lock,           \* the caller holding it, or NoCaller
    call,           \* caller -> where its call is, and its attempts
    total_requests,
    proven          \* history: successes counted since the breaker half-opened

breakerVars == <<state, failure_count, consecutive_successes, cooled, lock, call,
                 total_requests, proven>>

BreakerInit ==
    /\ state = "CLOSED" /\ failure_count = 0 /\ consecutive_successes = 0
    /\ cooled = FALSE /\ lock = NoCaller /\ total_requests = 0 /\ proven = 0
    /\ call = [c \in Callers |-> [at |-> "idle", attempts |-> 0]]

Goes(c, where) == call' = [call EXCEPT ![c].at = where]

RecoveryElapses ==
    /\ state = "OPEN" /\ ~cooled /\ cooled' = TRUE
    /\ UNCHANGED <<state, failure_count, consecutive_successes, lock, call, total_requests, proven>>

(* The mutant: trials of an earlier recovery still count.                  *)
MutantHalfOpens ==
    /\ state' = "HALF_OPEN" /\ proven' = 0 /\ cooled' = FALSE
    /\ UNCHANGED consecutive_successes

HalfOpens ==
    /\ state' = "HALF_OPEN" /\ proven' = 0 /\ cooled' = FALSE
    /\ consecutive_successes' = 0

(* A short-circuited call without a fallback raises and is over.           *)
Enter(c) ==
    /\ call[c].at = "idle" /\ lock = NoCaller /\ total_requests < MaxRequests
    /\ total_requests' = total_requests + 1
    /\ IF state = "OPEN" /\ ~cooled
       THEN /\ \/ Goes(c, "short") /\ lock' = c
               \/ UNCHANGED <<call, lock>>
            /\ UNCHANGED <<state, consecutive_successes, cooled, proven>>
       ELSE /\ call' = [call EXCEPT ![c] = [at |-> "running", attempts |-> 1]]
            /\ IF state = "OPEN" THEN HalfOpens
               ELSE UNCHANGED <<state, consecutive_successes, cooled, proven>>
            /\ UNCHANGED lock
    /\ UNCHANGED failure_count

ShortFallbackEnds(c) ==
    /\ call[c].at = "short" /\ Goes(c, "idle") /\ lock' = NoCaller
    /\ UNCHANGED <<state, failure_count, consecutive_successes, cooled, total_requests, proven>>

FuncReturns(c) ==
    /\ call[c].at = "running" /\ Goes(c, "succeeded")
    /\ UNCHANGED <<state, failure_count, consecutive_successes, cooled, lock, total_requests, proven>>

FuncRaises(c) ==
    /\ call[c].at = "running"
    /\ Goes(c, IF call[c].attempts <= MaxRetries THEN "backoff" ELSE "failed")
    /\ UNCHANGED <<state, failure_count, consecutive_successes, cooled, lock, total_requests, proven>>

Retry(c) ==
    /\ call[c].at = "backoff"
    /\ call' = [call EXCEPT ![c] = [at |-> "running", attempts |-> @.attempts + 1]]
    /\ UNCHANGED <<state, failure_count, consecutive_successes, cooled, lock, total_requests, proven>>

OnSuccess(c) ==
    /\ call[c].at = "succeeded" /\ lock = NoCaller /\ Goes(c, "idle")
    /\ IF state = "HALF_OPEN"
       THEN /\ proven' = proven + 1
            /\ IF consecutive_successes + 1 >= HalfOpenSuccessThreshold
               THEN /\ state' = "CLOSED" /\ failure_count' = 0 /\ consecutive_successes' = 0
                    /\ cooled' = FALSE
               ELSE /\ consecutive_successes' = consecutive_successes + 1
                    /\ UNCHANGED <<state, failure_count, cooled>>
       ELSE /\ failure_count' = (IF state = "CLOSED" THEN 0 ELSE failure_count)
            /\ UNCHANGED <<state, consecutive_successes, cooled, proven>>
    /\ UNCHANGED <<lock, total_requests>>

(* The caller's own fallback, if any, then runs without the lock.          *)
OnFailure(c) ==
    /\ call[c].at = "failed" /\ lock = NoCaller /\ Goes(c, "idle")
    /\ IF state = "HALF_OPEN" \/ (state = "CLOSED" /\ failure_count + 1 >= FailureThreshold)
       THEN state' = "OPEN" /\ cooled' = FALSE
       ELSE UNCHANGED <<state, cooled>>
    /\ failure_count' = (IF state = "CLOSED" THEN failure_count + 1 ELSE failure_count)
    /\ UNCHANGED <<consecutive_successes, lock, total_requests, proven>>

Advance(c) ==
    \/ ShortFallbackEnds(c) \/ FuncReturns(c) \/ FuncRaises(c) \/ Retry(c)
    \/ OnSuccess(c) \/ OnFailure(c)

BreakerNext == RecoveryElapses \/ \E c \in Callers : Enter(c) \/ Advance(c)

BreakerSpec == BreakerInit /\ [][BreakerNext]_breakerVars

-----------------------------------------------------------------------------
(* The breaker closes only on as many successes as the threshold asks for, *)
(* counted since it last half-opened, though calls admitted long before    *)
(* may end in between (_on_success).                                       *)
ClosesOnlyWhenProven ==
    [][state = "HALF_OPEN" /\ state' = "CLOSED" => proven' >= HalfOpenSuccessThreshold]_breakerVars
=============================================================================
