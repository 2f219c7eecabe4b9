------------------------------- MODULE Relay --------------------------------
(***************************************************************************)
(* AetherRelay as one process: the ingest, endpoint and replay handlers    *)
(* and the dispatch worker share nothing but the database, and the         *)
(* breakers live in the worker's memory. The process may be killed and     *)
(* started again (main.rs); the database is all that survives.             *)
(***************************************************************************)
EXTENDS Dispatch, Replay, Ingest, Endpoints, FiniteSets

CONSTANT MaxCrashes (* bound: restarts of the process                      *)

ASSUME RelayAssumption ==
  /\ MaxCrashes \in Nat
  /\ IsFiniteSet(Workers)

VARIABLE crashes    (* history: restarts so far                            *)

vars == << storeVars, dispatchVars, replayVars, ingestVars, crashes >>

TypeOK ==
  /\ StoreTypeOK
  /\ DispatchTypeOK
  /\ ReplayTypeOK
  /\ IngestTypeOK
  /\ crashes \in Nat

Init ==
  /\ StoreInit
  /\ DispatchInit
  /\ ReplayInit
  /\ IngestInit
  /\ crashes = 0

(* Every task of the process is dropped and main() starts afresh: workers  *)
(* at the top of their loop with new breakers, no request in flight. What  *)
(* senders have been answered stays answered.                              *)
Restart ==
  /\ crashes < MaxCrashes
  /\ crashes'    = crashes + 1
  /\ pc'         = [w \in Workers |-> "claim"]
  /\ ev'         = [w \in Workers |-> 0]
  /\ attemptNum' = [w \in Workers |-> 0]
  /\ success'    = [w \in Workers |-> FALSE]
  /\ outcome'    = [w \in Workers |-> "None"]
  /\ breakers'   = [ep \in EndpointIds |-> NewBreaker]
  /\ failedInRow' = [ep \in EndpointIds |-> 0]
  /\ rpc'        = [r \in Replayers |-> "idle"]
  /\ letter'     = [r \in Replayers |-> NoLetter]
  /\ ipc'        = [i \in Ingesters |-> "idle"]
  /\ UNCHANGED << storeVars, replays, request, answer >>

(* kill -9, at any point.                                                  *)
Crash == Restart

(* SIGINT: axum drains its requests, main() returns and the runtime drops  *)
(* the worker task at the await it is in; so it does when bind() fails     *)
(* after the worker was spawned. A spawn_blocking closure that has started *)
(* still runs to its end, so a drop never falls between its statements.    *)
Shutdown ==
  /\ \A r \in Replayers : rpc[r] = "idle"
  /\ \A i \in Ingesters : ipc[i] = "idle"
  /\ \A w \in Workers   : pc[w] \notin {"count", "mark", "bury"}
  /\ Restart

Next ==
  \/ DispatchNext  /\ UNCHANGED << replayVars, ingestVars, crashes >>
  \/ ReplayNext    /\ UNCHANGED << dispatchVars, ingestVars, crashes >>
  \/ IngestNext    /\ UNCHANGED << dispatchVars, replayVars, crashes >>
  \/ EndpointsNext /\ UNCHANGED << dispatchVars, replayVars, ingestVars, crashes >>
  \/ Crash
  \/ Shutdown

Spec == Init /\ [][Next]_vars

(* Tasks the runtime keeps running: the worker (its sleeps end and the     *)
(* HTTP client times out), the clock, and the handlers once they have      *)
(* started. Nobody is obliged to send a request.                           *)
Fairness ==
  /\ \A w \in Workers : WF_vars(WorkerStep(w) /\ UNCHANGED << replayVars, ingestVars, crashes >>)
  /\ \A ep \in EndpointIds :
       WF_vars(RecoveryEnds(ep) /\ UNCHANGED << replayVars, ingestVars, crashes >>)
  /\ \A r \in Replayers : WF_vars(ReplayStep(r) /\ UNCHANGED << dispatchVars, ingestVars, crashes >>)
  /\ \A i \in Ingesters : WF_vars(IngestStep(i) /\ UNCHANGED << dispatchVars, replayVars, crashes >>)

FairSpec == Spec /\ Fairness

-----------------------------------------------------------------------------
(* Vocabulary of the properties.                                           *)

(* The worker is in a pass over event e.                                   *)
Holds(w, e) == ev[w] = e /\ pc[w] \notin {"claim", "sleep"}

(* One worker, as main.rs deploys it; one replay request at a time.        *)
SoleWorker   == \A v, w \in Workers : v = w
SoleReplayer == \A q, r \in Replayers : q = r

(* Nobody will come back to the event: it is PROCESSING without a worker,  *)
(* or FAILED without a dead letter and without a worker to write one.      *)
Stranded(e) == status[e] = "PROCESSING" /\ \A w \in Workers : ~Holds(w, e)

Unreplayable(e) ==
  /\ status[e] = "FAILED"
  /\ dlq[e] = 0
  /\ \A w \in Workers : ~(ev[w] = e /\ pc[w] \in {"bury", "requeue"})

IsLost(e) == Stranded(e) \/ Unreplayable(e)

(* A fault sends a delivery to requeue_event; a second one may hit         *)
(* requeue_event itself.                                                   *)
AtMostOneFault == crashes = 0 /\ faults < 2
Undisturbed    == crashes = 0 /\ faults = 0

-----------------------------------------------------------------------------
(* Safety.                                                                 *)

(* "A row left in PROCESSING is never re-claimed by anything"              *)
(* (dispatcher.rs:21): while the process lives and no second database call *)
(* fails, a PROCESSING event is in the hands of some worker, whatever the  *)
(* breaker, the retries, the replays and the deletes do.                   *)
NoStrandedEvent == AtMostOneFault => \A e \in EventIds : ~Stranded(e)

(* An event that ran out of attempts can be replayed: it has a dead letter *)
(* or its worker is about to write one, even while other replays are       *)
(* removing letters (dlq.rs:93) and other workers write them.              *)
FailedIsReplayable == AtMostOneFault => \A e \in EventIds : ~Unreplayable(e)

(* What delete_endpoint's pending count is for (endpoints.rs:225): the     *)
(* event the worker is delivering, and its endpoint, outlive the delivery, *)
(* although it reads them several awaits before it writes.                 *)
DeliveryKeepsTarget ==
  SoleWorker =>
    \A w \in Workers :
      pc[w] \in {"lookup", "count", "admit", "defer", "post", "await",
                 "insert", "mark"} =>
        /\ status[ev[w]] # "NONE"
        /\ endpoints[endpointOf[ev[w]]] = "live"

(* Deduplication (idempotency.rs:17): an endpoint never has two accepted   *)
(* events with the same key, the ones a delete took along included, with   *)
(* any number of requests in flight and whatever became of the first one.  *)
AcceptedOnce ==
  \A e, f \in 1..lastEvent :
    endpointOf[e] = endpointOf[f] /\ keyOf[e] = keyOf[f] => e = f

(* "Two workers can never claim the same row" (runner.rs:52): no two       *)
(* deliver the same event at once, whatever fails and is restarted until   *)
(* the first replay, nor with one replay at a time while nothing fails.    *)
ClaimedByOne ==
  replays = 0 \/ (SoleReplayer /\ Undisturbed) =>
    \A v, w \in Workers :
      /\ {pc[v], pc[w]} \subseteq
           {"lookup", "count", "admit", "defer", "post", "await", "insert", "mark"}
      /\ ev[v] = ev[w]
      => v = w

(* Budget, lower bound (dispatcher.rs:174): an event that was never        *)
(* replayed is dead-lettered only after max_attempts requests went out;    *)
(* deferrals and failed database calls never eat an attempt.               *)
FullBudgetUsed ==
  replays = 0 =>
    \A e \in EventIds : status[e] = "FAILED" => sends[e] >= MaxAttempts

(* Budget, upper bound: the target sees an event at most max_attempts      *)
(* times (once if max_attempts is 0), plus one for every database call     *)
(* that failed and every restart after the target had answered.            *)
BoundedSends ==
  replays = 0 =>
    \A e \in EventIds :
      \/ sends[e] <= MaxAttempts + faults + crashes
      \/ sends[e] <= 1 + faults + crashes

(* Budget across replays: with one replay at a time and nothing failing,   *)
(* an event is dead-lettered only after a request since it was last        *)
(* replayed, and gets fewer than twice max_attempts of them. It may get    *)
(* more than max_attempts: requests the worker makes between the UPDATE    *)
(* and the DELETE of replay_dlq (dlq.rs:78) are charged to the attempts    *)
(* that go with the DELETE. After it no attempt of an earlier life counts. *)
ReplaysAreCharged ==
  SoleReplayer /\ Undisturbed =>
    \A e \in EventIds :
      /\ sends[e] <= 1 \/ sends[e] < 2 * MaxAttempts
      /\ status[e] = "FAILED" => sends[e] > 0
      /\ \/ attempts[e] <= sends[e]
         \/ \E r \in Replayers : rpc[r] = "clear" /\ letter[r].event = e

(* A breaker's probe slot is taken only while a request to that endpoint   *)
(* is under way: no path leaves it set, which would keep the breaker       *)
(* HalfOpen and refusing for ever (circuit_breaker.rs:51).                 *)
ProbeIsOwned ==
  \A ep \in EndpointIds :
    breakers[ep].probe_in_flight =>
      \E w \in Workers : pc[w] \in {"post", "await"} /\ endpointOf[ev[w]] = ep

(* A breaker is closed exactly as long as fewer than                       *)
(* failure_threshold (one, if that is 0) answers in a row were bad: it     *)
(* never trips early, and neither the recovery windows, the failed probes, *)
(* late answers to other workers nor the wrap of its own counter           *)
(* (circuit_breaker.rs:71) close it without a good one.                    *)
TripsOnTime ==
  \A ep \in EndpointIds :
    breakers[ep].state = "Closed" <=>
      failedInRow[ep] = 0 \/ failedInRow[ep] < FailureThreshold

(* With the one worker of main.rs, no request is on its way to an endpoint *)
(* whose breaker is still in its recovery window.                          *)
WithheldWhileOpen ==
  SoleWorker =>
    \A w \in Workers :
      pc[w] \in {"post", "await"} =>
        breakers[endpointOf[ev[w]]].open_until # "Pending"

(* With one replay at a time and nothing failing, a dead letter always     *)
(* belongs to a FAILED event or to the replay at work on it, also when the *)
(* worker settles the event before the replay has removed the letter.      *)
DeadLetterMeansFailed ==
  SoleReplayer /\ Undisturbed =>
    \A e \in EventIds :
      dlq[e] # 0 =>
        \/ status[e] = "FAILED"
        \/ \E r \in Replayers :
             rpc[r] \in {"clear", "remove"} /\ letter[r].event = e

(* The queue is a queue: with one worker and no replay, an event is        *)
(* settled only after all older ones are, through every retry and          *)
(* deferral.                                                               *)
SettledInOrder ==
  SoleWorker /\ replays = 0 /\ AtMostOneFault =>
    \A e, f \in EventIds :
      f < e /\ status[e] \in {"DELIVERED", "FAILED"} =>
        status[f] \notin {"RECEIVED", "PROCESSING"}

(* How much can be lost: a restart costs at most one event per worker, and *)
(* two database calls have to fail, a delivery's and the requeue_event     *)
(* that repairs it (dispatcher.rs:21), for one more. Replays that remove   *)
(* letters, deletes and open breakers never lose any.                      *)
LossIsBounded ==
  Cardinality({e \in EventIds : IsLost(e)}) <=
    Cardinality(Workers) * crashes + (faults \div 2)

(* What a sender may conclude from its answer, at any later time: after    *)
(* 202 its event is in the database until its endpoint is deleted, crashes *)
(* included; 409 means that some request with this key was accepted; 500   *)
(* means that the database failed or the endpoint was deleted under way.   *)
AnswerIsHonest ==
  \A i \in Ingesters :
    LET ep == request[i].endpoint
        e  == answer[i].event
    IN  /\ answer[i].code = 202 =>
             /\ e \in 1..lastEvent
             /\ endpointOf[e] = ep /\ keyOf[e] = request[i].key
             /\ status[e] # "NONE" \/ endpoints[ep] = "deleted"
        /\ answer[i].code = 409 =>
             \E f \in 1..lastEvent :
               endpointOf[f] = ep /\ keyOf[f] = request[i].key
        /\ answer[i].code = 500 => faults > 0 \/ endpoints[ep] = "deleted"

-----------------------------------------------------------------------------
(* Actions.                                                                *)

(* With one replay at a time and nothing failing, a DELIVERED event is     *)
(* never put back in the queue: replay_dlq's unconditional UPDATE and the  *)
(* worker's hit only events that are not delivered.                        *)
DeliveredIsFinal ==
  [][ SoleReplayer /\ Undisturbed' =>
        \A e \in EventIds :
          status[e] = "DELIVERED" => status'[e] \in {"DELIVERED", "NONE"} ]_vars

-----------------------------------------------------------------------------
(* What the repository says of itself and the code does not keep; the runs *)
(* over these are expected to fail.                                        *)

(* "Zero event loss across `kill -9` restarts" (README.md:94), and "every  *)
(* path that abandons a delivery without settling it has to call           *)
(* [requeue_event]" (dispatcher.rs:21): a PROCESSING event has a worker    *)
(* and a FAILED one a dead letter, restarts and failing requeues included. *)
NothingLost == \A e \in EventIds : ~IsLost(e)

(* "The replayed event gets a full budget again"                           *)
(* (tests/dispatch_loop_test.rs:327), whenever the worker picks it up.     *)
ReplayRestoresBudget ==
  \A e \in EventIds : status[e] = "FAILED" => sends[e] >= MaxAttempts

(* The "atomic replay API" (docs/rust/PRD.md:36): two replays of one       *)
(* letter count as one, so neither puts a DELIVERED event in the queue.    *)
ReplayIsAtomic ==
  [][ \A e \in EventIds :
        status[e] = "DELIVERED" => status'[e] \in {"DELIVERED", "NONE"} ]_vars

(* "spacing retries with the decorrelated-jitter backoff" (runner.rs:133): *)
(* a worker does not claim the event it has just tried without a sleep.    *)
RetriesAreSpaced ==
  [][ \A w \in Workers, e \in EventIds :
        ClaimNextEvent(w, e) /\ ev[w] = e => outcome[w] # "Settled" ]_vars
=============================================================================
