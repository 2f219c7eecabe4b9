--------------------------- MODULE CircuitBreaker ---------------------------
(***************************************************************************)
(* The circuit breaker of src/worker/circuit_breaker.rs as operators on a  *)
(* breaker record: one record per endpoint, kept by the dispatcher.        *)
(*                                                                         *)
(* The only thing the code asks of open_until is whether Instant::now()    *)
(* has passed it, so the Option<Instant> is kept as "None", "Pending" (set *)
(* and still ahead) or "Elapsed" (set and passed).                         *)
(***************************************************************************)
EXTENDS Naturals

CONSTANTS
  FailureThreshold, (* worker.circuit_failure_threshold                    *)
  CountLimit        (* 2^32: failure_count is a u32 and a release build    *)
                    (* wraps it                                            *)

ASSUME BreakerAssumption ==
  /\ FailureThreshold \in Nat
  /\ CountLimit \in Nat
  /\ FailureThreshold < CountLimit

CircuitState == {"Closed", "Open", "HalfOpen"}

Breaker ==
  [ state           : CircuitState,
    failure_count   : Nat,
    open_until      : {"None", "Pending", "Elapsed"},
    probe_in_flight : BOOLEAN ]

NewBreaker ==
  [ state           |-> "Closed",
    failure_count   |-> 0,
    open_until      |-> "None",
    probe_in_flight |-> FALSE ]

(* Mutant of Observed: the recovery window is not waited for.              *)
ObservedEager(b) ==
  IF b.state = "Open" THEN [b EXCEPT !.state = "HalfOpen"] ELSE b

(* state(): reading the state of an Open breaker whose recovery window is  *)
(* over turns it HalfOpen.                                                 *)
Observed(b) ==
  IF b.state = "Open" /\ b.open_until = "Elapsed"
  THEN [b EXCEPT !.state = "HalfOpen"]
  ELSE b

(* can_attempt(): its answer, and the breaker it leaves behind.            *)
CanAttempt(b) ==
  \/ Observed(b).state = "Closed"
  \/ Observed(b).state = "HalfOpen" /\ ~b.probe_in_flight

AfterCanAttempt(b) ==
  IF Observed(b).state = "HalfOpen"
  THEN [Observed(b) EXCEPT !.probe_in_flight = TRUE]
  ELSE Observed(b)

(* Mutant of RecordSuccess: a success takes one failure back.              *)
RecordSuccessDecays(b) ==
  [b EXCEPT !.failure_count   = @ - 1,
            !.state           = "Closed",
            !.open_until      = "None",
            !.probe_in_flight = FALSE]

RecordSuccess(b) ==
  [b EXCEPT !.failure_count   = 0,
            !.state           = "Closed",
            !.open_until      = "None",
            !.probe_in_flight = FALSE]

(* Mutant of RecordFailure: the probe slot is freed by a success only.     *)
RecordFailureKeepsProbe(b) ==
  LET n    == (b.failure_count + 1) % CountLimit
      trip == n >= FailureThreshold \/ b.state = "HalfOpen"
  IN  [b EXCEPT !.failure_count   = n,
                !.state           = IF trip THEN "Open" ELSE @,
                !.open_until      = IF trip THEN "Pending" ELSE @]

(* Mutant of RecordFailure: the breaker trips one failure late.            *)
RecordFailureLate(b) ==
  LET n    == (b.failure_count + 1) % CountLimit
      trip == n > FailureThreshold \/ b.state = "HalfOpen"
  IN  [b EXCEPT !.failure_count   = n,
                !.state           = IF trip THEN "Open" ELSE @,
                !.open_until      = IF trip THEN "Pending" ELSE @,
                !.probe_in_flight = FALSE]

(* record_failure() looks at the stored state, not at state().             *)
RecordFailure(b) ==
  LET n    == (b.failure_count + 1) % CountLimit
      trip == n >= FailureThreshold \/ b.state = "HalfOpen"
  IN  [b EXCEPT !.failure_count   = n,
                !.state           = IF trip THEN "Open" ELSE @,
                !.open_until      = IF trip THEN "Pending" ELSE @,
                !.probe_in_flight = FALSE]

(* Instant::now() passes open_until.                                       *)
RecoveryElapses(b) == [b EXCEPT !.open_until = "Elapsed"]
=============================================================================
