------------------------------ MODULE Dispatch ------------------------------
(***************************************************************************)
(* The delivery worker: run_dispatch_loop and run_dispatch_once of         *)
(* src/worker/runner.rs, and dispatch_single_event of                      *)
(* src/worker/dispatcher.rs. A pass of a worker is cut where another actor *)
(* can get in between: at every await, and between any two SQL statements, *)
(* because outside claim_next_event each of them commits on its own.       *)
(*                                                                         *)
(*   claim -> lookup -> count -> admit -> post -> await -> insert -> mark  *)
(*                                 \-> defer                        \-> bury*)
(*                                                                         *)
(* Any error on the way leads to "requeue" (the Err arm of                 *)
(* run_dispatch_once). main.rs starts one worker; claim_next_event is      *)
(* written for several, so their number is a parameter.                    *)
(***************************************************************************)
EXTENDS Store, CircuitBreaker

CONSTANTS
  Workers,
  MaxAttempts       (* worker.max_attempts                                 *)

ASSUME DispatchAssumption == MaxAttempts \in Nat

VARIABLES
  pc,               (* worker -> where it is in its pass                   *)
  ev,               (* worker -> event of its current or last pass, 0: none*)
  attemptNum,       (* worker -> attempt_num, 0 outside a delivery         *)
  success,          (* worker -> the downstream answered 2xx               *)
  outcome,          (* worker -> result of its last run_dispatch_once      *)
  breakers,         (* endpoint -> circuit breaker (SharedCircuitBreakers) *)
  failedInRow       (* history: endpoint -> failed answers recorded since  *)
                    (* the last good one or the start of the process       *)

dispatchVars ==
  << pc, ev, attemptNum, success, outcome, breakers, failedInRow >>

DispatchPc ==
  {"claim", "lookup", "count", "admit", "defer", "post", "await", "insert",
   "mark", "bury", "requeue", "sleep"}

DispatchTypeOK ==
  /\ pc         \in [Workers -> DispatchPc]
  /\ ev         \in [Workers -> 0..MaxEvents]
  /\ attemptNum \in [Workers -> Nat]
  /\ success    \in [Workers -> BOOLEAN]
  /\ outcome    \in [Workers -> {"None", "Idle", "Settled", "Deferred", "Err"}]
  /\ breakers   \in [EndpointIds -> Breaker]
  /\ failedInRow \in [EndpointIds -> Nat]

(* A breaker is created on an endpoint's first delivery; one that does not *)
(* exist yet and one just created cannot be told apart.                    *)
DispatchInit ==
  /\ pc         = [w \in Workers |-> "claim"]
  /\ ev         = [w \in Workers |-> 0]
  /\ attemptNum = [w \in Workers |-> 0]
  /\ success    = [w \in Workers |-> FALSE]
  /\ outcome    = [w \in Workers |-> "None"]
  /\ breakers   = [ep \in EndpointIds |-> NewBreaker]
  /\ failedInRow = [ep \in EndpointIds |-> 0]

Goto(w, l) == pc' = [pc EXCEPT ![w] = l]

(* run_dispatch_once returns o: after Settled the loop goes straight on,   *)
(* otherwise it sleeps, for the poll interval or a backoff delay.          *)
Finish(w, o) ==
  /\ Goto(w, IF o = "Settled" THEN "claim" ELSE "sleep")
  /\ outcome'    = [outcome EXCEPT ![w] = o]
  /\ attemptNum' = [attemptNum EXCEPT ![w] = 0]
  /\ success'    = [success EXCEPT ![w] = FALSE]

Wake(w) ==
  /\ pc[w] = "sleep"
  /\ Goto(w, "claim")
  /\ UNCHANGED << storeVars, ev, attemptNum, success, outcome,
                  breakers, failedInRow >>

-----------------------------------------------------------------------------
(* claim_next_event: the oldest RECEIVED event becomes PROCESSING, in one  *)
(* IMMEDIATE transaction.                                                  *)

ClaimNextEvent(w, e) ==
  /\ pc[w] = "claim"
  /\ IsOldestReceived(e)
  /\ SetStatus(e, "PROCESSING")
  /\ ev' = [ev EXCEPT ![w] = e]
  /\ Goto(w, "lookup")
  /\ UNCHANGED << intakeVars, attempts, dlq, dlqSeq, sends, faults,
                  attemptNum, success, outcome, breakers, failedInRow >>

FindQueueEmpty(w) ==
  /\ pc[w] = "claim"
  /\ \A e \in EventIds : status[e] # "RECEIVED"
  /\ Finish(w, "Idle")
  /\ UNCHANGED << storeVars, ev, breakers, failedInRow >>

(* The transaction fails and rolls back: nothing was claimed.              *)
ClaimFault(w) ==
  /\ pc[w] = "claim"
  /\ Fault
  /\ Finish(w, "Err")
  /\ UNCHANGED << intakeVars, status, attempts, dlq, dlqSeq, sends, ev,
                  breakers, failedInRow >>

-----------------------------------------------------------------------------
(* dispatch_single_event.                                                  *)

(* SELECT the event, then its endpoint: a row that is gone is an error. An *)
(* event only goes with its endpoint, so the second SELECT decides alone.  *)
Lookup(w) ==
  /\ pc[w] = "lookup"
  /\ Goto(w, IF /\ status[ev[w]] # "NONE"
                /\ endpoints[endpointOf[ev[w]]] = "live"
             THEN "count"
             ELSE "requeue")
  /\ UNCHANGED << storeVars, ev, attemptNum, success, outcome,
                  breakers, failedInRow >>

(* SELECT COUNT( * ) FROM delivery_attempts; attempt_num is one more.      *)
CountAttempts(w) ==
  /\ pc[w] = "count"
  /\ attemptNum' = [attemptNum EXCEPT ![w] = attempts[ev[w]] + 1]
  /\ Goto(w, "admit")
  /\ UNCHANGED << storeVars, ev, success, outcome, breakers, failedInRow >>

(* The breaker is asked, and takes its probe slot, under the map's lock.   *)
CheckBreaker(w) ==
  LET ep == endpointOf[ev[w]]
  IN  /\ pc[w] = "admit"
      /\ Goto(w, IF CanAttempt(breakers[ep]) THEN "post" ELSE "defer")
      /\ breakers' = [breakers EXCEPT ![ep] = AfterCanAttempt(@)]
      /\ UNCHANGED << storeVars, ev, attemptNum, success, outcome,
                      failedInRow >>

(* Mutant of Defer: the event is left where it is.                         *)
DeferForgets(w) ==
  /\ pc[w] = "defer"
  /\ Finish(w, "Deferred")
  /\ UNCHANGED << storeVars, ev, breakers, failedInRow >>

(* Circuit open: the event goes back to the queue, uncharged.              *)
Defer(w) ==
  /\ pc[w] = "defer"
  /\ SetStatus(ev[w], "RECEIVED")
  /\ Finish(w, "Deferred")
  /\ UNCHANGED << intakeVars, attempts, dlq, dlqSeq, sends, faults, ev,
                  breakers, failedInRow >>

(* client.post(..).send() leaves for the target.                           *)
Post(w) ==
  /\ pc[w] = "post"
  /\ sends' = [sends EXCEPT ![ev[w]] = @ + 1]
  /\ Goto(w, "await")
  /\ UNCHANGED << intakeVars, status, attempts, dlq, dlqSeq, faults, ev,
                  attemptNum, success, outcome, breakers, failedInRow >>

(* The answer (2xx or not, a transport error, the client's 30 s timeout)   *)
(* is recorded in the breaker before the next await.                       *)
Reply(w, ok) ==
  LET ep == endpointOf[ev[w]]
  IN  /\ pc[w] = "await"
      /\ success' = [success EXCEPT ![w] = ok]
      /\ breakers' = [breakers EXCEPT ![ep] = IF ok THEN RecordSuccess(@)
                                                    ELSE RecordFailure(@)]
      /\ failedInRow' = [failedInRow EXCEPT ![ep] = IF ok THEN 0 ELSE @ + 1]
      /\ Goto(w, "insert")
      /\ UNCHANGED << storeVars, ev, attemptNum, outcome >>

(* INSERT INTO delivery_attempts: its foreign key refuses an event that is *)
(* gone.                                                                   *)
InsertAttempt(w) ==
  /\ pc[w] = "insert"
  /\ IF status[ev[w]] # "NONE"
     THEN /\ attempts' = [attempts EXCEPT ![ev[w]] = @ + 1]
          /\ Goto(w, "mark")
     ELSE /\ Goto(w, "requeue")
          /\ UNCHANGED attempts
  /\ UNCHANGED << intakeVars, status, dlq, dlqSeq, sends, faults, ev,
                  attemptNum, success, outcome, breakers, failedInRow >>

(* Mutant of MarkDelivered: something after the UPDATE can still fail.     *)
MarkDeliveredThenFail(w) ==
  /\ pc[w] = "mark"
  /\ success[w]
  /\ SetStatus(ev[w], "DELIVERED")
  /\ Goto(w, "requeue")
  /\ UNCHANGED << intakeVars, attempts, dlq, dlqSeq, sends, faults, ev,
                  attemptNum, success, outcome, breakers, failedInRow >>

MarkDelivered(w) ==
  /\ pc[w] = "mark"
  /\ success[w]
  /\ SetStatus(ev[w], "DELIVERED")
  /\ Finish(w, "Settled")
  /\ UNCHANGED << intakeVars, attempts, dlq, dlqSeq, sends, faults, ev,
                  breakers, failedInRow >>

(* Mutant of MarkRetry: one attempt too many.                              *)
MarkRetryOneMore(w) ==
  /\ pc[w] = "mark"
  /\ ~success[w]
  /\ attemptNum[w] <= MaxAttempts
  /\ SetStatus(ev[w], "RECEIVED")
  /\ Finish(w, "Settled")
  /\ UNCHANGED << intakeVars, attempts, dlq, dlqSeq, sends, faults, ev,
                  breakers, failedInRow >>

(* Budget remains: back to the queue, and the pass still counts as Settled.*)
MarkRetry(w) ==
  /\ pc[w] = "mark"
  /\ ~success[w]
  /\ attemptNum[w] < MaxAttempts
  /\ SetStatus(ev[w], "RECEIVED")
  /\ Finish(w, "Settled")
  /\ UNCHANGED << intakeVars, attempts, dlq, dlqSeq, sends, faults, ev,
                  breakers, failedInRow >>

(* Mutant of MarkFailed: one attempt too few.                              *)
MarkFailedOneLess(w) ==
  /\ pc[w] = "mark"
  /\ ~success[w]
  /\ attemptNum[w] + 1 >= MaxAttempts
  /\ SetStatus(ev[w], "FAILED")
  /\ Goto(w, "bury")
  /\ UNCHANGED << intakeVars, attempts, dlq, dlqSeq, sends, faults, ev,
                  attemptNum, success, outcome, breakers, failedInRow >>

(* Budget exhausted: FAILED first, the dead letter in a second statement.  *)
MarkFailed(w) ==
  /\ pc[w] = "mark"
  /\ ~success[w]
  /\ attemptNum[w] >= MaxAttempts
  /\ SetStatus(ev[w], "FAILED")
  /\ Goto(w, "bury")
  /\ UNCHANGED << intakeVars, attempts, dlq, dlqSeq, sends, faults, ev,
                  attemptNum, success, outcome, breakers, failedInRow >>

(* INSERT OR REPLACE INTO dead_letter_queue, under a fresh id.             *)
Bury(w) ==
  /\ pc[w] = "bury"
  /\ IF status[ev[w]] # "NONE"
     THEN /\ dlqSeq' = [dlqSeq EXCEPT ![ev[w]] = @ + 1]
          /\ dlq' = [dlq EXCEPT ![ev[w]] = dlqSeq[ev[w]] + 1]
          /\ Finish(w, "Settled")
     ELSE /\ Goto(w, "requeue")
          /\ UNCHANGED << dlq, dlqSeq, outcome, attemptNum, success >>
  /\ UNCHANGED << intakeVars, status, attempts, sends, faults, ev,
                  breakers, failedInRow >>

(* A statement of the pass fails: dispatch_single_event returns Err.       *)
DispatchFault(w) ==
  /\ pc[w] \in {"lookup", "count", "defer", "insert", "mark", "bury"}
  /\ Fault
  /\ Goto(w, "requeue")
  /\ UNCHANGED << intakeVars, status, attempts, dlq, dlqSeq, sends, ev,
                  attemptNum, success, outcome, breakers, failedInRow >>

(* Mutant of Requeue: the Err arm only reports the error.                  *)
RequeueForgets(w) ==
  /\ pc[w] = "requeue"
  /\ Finish(w, "Err")
  /\ UNCHANGED << storeVars, ev, breakers, failedInRow >>

(* The Err arm of run_dispatch_once. What requeue_event itself returns is  *)
(* thrown away.                                                            *)
Requeue(w) ==
  /\ pc[w] = "requeue"
  /\ SetStatus(ev[w], "RECEIVED")
  /\ Finish(w, "Err")
  /\ UNCHANGED << intakeVars, attempts, dlq, dlqSeq, sends, faults, ev,
                  breakers, failedInRow >>

RequeueFault(w) ==
  /\ pc[w] = "requeue"
  /\ Fault
  /\ Finish(w, "Err")
  /\ UNCHANGED << intakeVars, status, attempts, dlq, dlqSeq, sends, ev,
                  breakers, failedInRow >>

(* The recovery window of a tripped breaker ends.                          *)
RecoveryEnds(ep) ==
  /\ breakers[ep].open_until = "Pending"
  /\ breakers' = [breakers EXCEPT ![ep] = RecoveryElapses(@)]
  /\ UNCHANGED << storeVars, pc, ev, attemptNum, success, outcome,
                  failedInRow >>

-----------------------------------------------------------------------------
(* What a worker does on its own, and what the database may do to it.      *)

WorkerStep(w) ==
  \/ Wake(w)
  \/ \E e \in EventIds : ClaimNextEvent(w, e)
  \/ FindQueueEmpty(w)
  \/ Lookup(w)
  \/ CountAttempts(w)
  \/ CheckBreaker(w)
  \/ Defer(w)
  \/ Post(w)
  \/ \E ok \in BOOLEAN : Reply(w, ok)
  \/ InsertAttempt(w)
  \/ MarkDelivered(w)
  \/ MarkRetry(w)
  \/ MarkFailed(w)
  \/ Bury(w)
  \/ Requeue(w)

WorkerFault(w) ==
  \/ ClaimFault(w)
  \/ DispatchFault(w)
  \/ RequeueFault(w)

DispatchNext ==
  \/ \E w \in Workers : WorkerStep(w) \/ WorkerFault(w)
  \/ \E ep \in EndpointIds : RecoveryEnds(ep)
=============================================================================
