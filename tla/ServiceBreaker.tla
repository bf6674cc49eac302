----------------------------- MODULE ServiceBreaker -----------------------------
(***************************************************************************)
(* CircuitBreaker of resilience/circuit_breaker.py, shared by coroutines   *)
(* that call one external service through it. call() decides on the state  *)
(* it finds and then awaits the service; the answer is booked on whatever  *)
(* state the breaker is in by then.                                        *)
(***************************************************************************)
EXTENDS Integers, FiniteSets

CONSTANTS
    Callers,            \* coroutines using the breaker
    FailureThreshold,   \* failure_threshold
    SuccessThreshold,   \* success_threshold
    HalfOpenMaxCalls    \* half_open_max_calls

ASSUME ThresholdsAssumption ==
    /\ {FailureThreshold, SuccessThreshold, HalfOpenMaxCalls} \subseteq Nat \ {0}
    /\ SuccessThreshold <= HalfOpenMaxCalls   \* the defaults are 3 and 3

VARIABLES
    state,      \* CircuitState
    failures,   \* failures, counted to the threshold
    successes,  \* successes
    probes,     \* half_open_calls
    elapsed,    \* timeout_seconds have passed since last_failure_time
    call,       \* where a caller is: idle, or awaiting a call admitted when the
                \* breaker was closed, or as a probe of this or an earlier half-open
    proofs,     \* history: probes of this half-open period that succeeded
    healthy     \* the service answers

vars == <<state, failures, successes, probes, elapsed, call, proofs, healthy>>

Init ==
    /\ state = "closed" /\ failures = 0 /\ successes = 0 /\ probes = 0 /\ elapsed = FALSE
    /\ call = [c \in Callers |-> "idle"]
    /\ proofs = 0 /\ healthy = TRUE

-----------------------------------------------------------------------------
(* call(), up to the await of the service.                                 *)
CallClosed(c) ==
    /\ call[c] = "idle" /\ state = "closed"
    /\ call' = [call EXCEPT ![c] = "closed"]
    /\ UNCHANGED <<state, failures, successes, probes, elapsed, proofs, healthy>>

(* A probe of an earlier half-open period that is still under way.         *)
StaleProbe(place) == IF place = "probe" THEN "late" ELSE place

(* (A name with an underscore is a fault that a change of the code could   *)
(* bring into the definition after it.)                                    *)
ProbesAtFirst_Uncounted == 0

(* The caller that makes the breaker half-open is its first probe.         *)
ProbesAtFirst == 1

(* The timeout of an open breaker is over, and a caller notices.           *)
CallTestsRecovery(c) ==
    /\ call[c] = "idle" /\ state = "open" /\ elapsed
    /\ state' = "half_open"
    /\ probes' = ProbesAtFirst
    /\ proofs' = 0
    /\ call' = [[d \in Callers |-> StaleProbe(call[d])] EXCEPT ![c] = "probe"]
    /\ UNCHANGED <<failures, successes, elapsed, healthy>>

MayProbe_OffByOne == probes <= HalfOpenMaxCalls

(* Further probes, up to half_open_max_calls; beyond, and while the        *)
(* timeout runs, CircuitBreakerOpen is raised and nothing changes.         *)
MayProbe == probes < HalfOpenMaxCalls

CallHalfOpen(c) ==
    /\ call[c] = "idle" /\ state = "half_open" /\ MayProbe
    /\ probes' = probes + 1
    /\ call' = [call EXCEPT ![c] = "probe"]
    /\ UNCHANGED <<state, failures, successes, elapsed, proofs, healthy>>

Answered(c) ==
    /\ call[c] # "idle"
    /\ call' = [call EXCEPT ![c] = "idle"]
    /\ proofs' = IF healthy /\ call[c] = "probe" THEN proofs + 1 ELSE proofs

FailuresWhenClosing_Kept == failures

(* What _on_success leaves of the failures when it closes the breaker.     *)
FailuresWhenClosing == 0

(* _on_success                                                             *)
OnSuccess(c) ==
    /\ Answered(c) /\ healthy
    /\ \/ /\ state = "half_open" /\ successes + 1 >= SuccessThreshold
          /\ state' = "closed" /\ successes' = 0 /\ failures' = FailuresWhenClosing
       \/ /\ state = "half_open" /\ successes + 1 < SuccessThreshold
          /\ successes' = successes + 1
          /\ UNCHANGED <<state, failures>>
       \/ /\ state = "closed"
          /\ failures' = IF failures > 0 THEN failures - 1 ELSE 0
          /\ UNCHANGED <<state, successes>>
       \/ state = "open" /\ UNCHANGED <<state, failures, successes>>
    /\ UNCHANGED <<probes, elapsed, healthy>>

(* A failure opens a breaker that is half-open at once, one that is closed *)
(* at the threshold.                                                       *)
OpensOnFailure(count) == state = "half_open" \/ count >= FailureThreshold

(* _on_failure; the timeout begins anew, in every state.                   *)
OnFailure(c) ==
    /\ Answered(c) /\ ~healthy
    /\ failures' = IF failures < FailureThreshold THEN failures + 1 ELSE failures
    /\ elapsed' = FALSE
    /\ state' = IF OpensOnFailure(failures + 1) THEN "open" ELSE state
    /\ UNCHANGED <<successes, probes, healthy>>

(* The task of the caller is cancelled, as TimeoutManager.with_timeout     *)
(* does: CancelledError is no Exception, so nothing is booked.             *)
Cancelled(c) ==
    /\ call[c] # "idle"
    /\ call' = [call EXCEPT ![c] = "idle"]
    /\ UNCHANGED <<state, failures, successes, probes, elapsed, proofs, healthy>>

TimeoutElapses ==
    /\ state = "open" /\ ~elapsed
    /\ elapsed' = TRUE
    /\ UNCHANGED <<state, failures, successes, probes, call, proofs, healthy>>

ServiceChanges ==
    /\ healthy' = ~healthy
    /\ UNCHANGED <<state, failures, successes, probes, elapsed, call, proofs>>

-----------------------------------------------------------------------------
Calls(c) == CallClosed(c) \/ CallTestsRecovery(c) \/ CallHalfOpen(c)
Answers(c) == OnSuccess(c) \/ OnFailure(c)

PatientNext == TimeoutElapses \/ ServiceChanges \/ \E c \in Callers : Calls(c) \/ Answers(c)
Next == PatientNext \/ \E c \in Callers : Cancelled(c)

(* Callers keep calling, and the service answers or fails every call.      *)
Fairness == WF_vars(TimeoutElapses) /\ \A c \in Callers : WF_vars(Calls(c)) /\ WF_vars(Answers(c))

Spec == Init /\ [][Next]_vars
PatientSpec == Init /\ [][PatientNext]_vars /\ Fairness
ImpatientSpec == Spec /\ Fairness

-----------------------------------------------------------------------------
TypeOK ==
    /\ state \in {"closed", "open", "half_open"} /\ failures \in 0..FailureThreshold
    /\ successes \in 0..SuccessThreshold - 1 /\ probes \in 0..HalfOpenMaxCalls
    /\ elapsed \in BOOLEAN /\ healthy \in BOOLEAN
    /\ call \in [Callers -> {"idle", "closed", "probe", "late"}] /\ proofs \in 0..HalfOpenMaxCalls

(* A half-open breaker has no more calls of this period under way than     *)
(* half_open_max_calls, counting those that succeeded.                     *)
ProbesBounded ==
    state = "half_open" => Cardinality({c \in Callers : call[c] = "probe"}) + proofs <= HalfOpenMaxCalls

(* Late answers never leave a closed breaker with a count of failures that *)
(* should have opened it.                                                  *)
ClosedBelowThreshold == state = "closed" => failures < FailureThreshold

(* Inductive: probes counts, in every state, the calls of the last         *)
(* half-open period that are under way or succeeded.                       *)
Probing == {c \in Callers : call[c] = "probe"}

IInv ==
    /\ TypeOK /\ ClosedBelowThreshold
    /\ IsFiniteSet(Probing) /\ Cardinality(Probing) + proofs <= probes

-----------------------------------------------------------------------------
(* What the comments promise and the code does not do.                     *)

(* "success_threshold: Successes to close".                                *)
ClosedByItsProbes ==
    [][state = "half_open" /\ state' = "closed" => proofs' >= SuccessThreshold]_vars

(* "Testing if recovered": if the service recovers for good, the breaker   *)
(* closes. It holds of PatientSpec, not of ImpatientSpec, where a caller   *)
(* may be cancelled while it awaits.                                       *)
Recovers == (<>[]healthy) => []<>(state = "closed")
=============================================================================
