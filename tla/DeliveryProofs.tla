--------------------------- MODULE DeliveryProofs ---------------------------
(***************************************************************************)
(* What holds of a delivery because main.rs starts a single worker, and of *)
(* a breaker whoever calls it, proved for every number of endpoints,       *)
(* events, replays, faults and restarts.                                   *)
(***************************************************************************)
EXTENDS RelayProofs

LEMMA DeliveryTypes ==
  ASSUME StructureOK
  PROVE  /\ pc \in [Workers -> DispatchPc]
         /\ ev \in [Workers -> 0..MaxEvents]
         /\ breakers \in [EndpointIds -> Breaker]
         /\ status \in [EventIds -> EventStatus \cup {"NONE"}]
         /\ lastEvent \in 0..MaxEvents
         /\ \A w \in Workers :
              pc[w] \notin {"claim", "sleep"} => ev[w] \in EventIds /\ ev[w] <= lastEvent
BY DEF StructureOK, TypeOK, StoreTypeOK, DispatchTypeOK, WorkersOK

-----------------------------------------------------------------------------
(* A step of the worker takes an event in hand, keeps it in hand without   *)
(* touching its status, or lets it go.                                     *)
LEMMA WorkerKeepsPending ==
  ASSUME StructureOK, SoleWorker, DeliveryIsPending, NEW w \in Workers,
         WorkerStep(w) \/ WorkerFault(w)
  PROVE  DeliveryIsPending'
<1>a. \A v \in Workers : v = w
  BY DEF SoleWorker
<1>1. CASE \E e \in EventIds : ClaimNextEvent(w, e)
  BY <1>1, <1>a, DeliveryTypes
     DEF ClaimNextEvent, IsOldestReceived, SetStatus, DeliveryIsPending
<1>2. ASSUME pc'[w] \in Delivering => pc[w] \in Delivering,
             UNCHANGED << ev, status >>
      PROVE  DeliveryIsPending'
  BY <1>2, <1>a DEF DeliveryIsPending, SoleWorker
<1>3. ASSUME NEW l \in {"claim", "sleep", "bury"}, pc' = [pc EXCEPT ![w] = l]
      PROVE  DeliveryIsPending'
  BY <1>3, <1>a, DeliveryTypes DEF DeliveryIsPending, Delivering
<1>4. CASE Wake(w) \/ FindQueueEmpty(w) \/ Defer(w) \/ MarkDelivered(w)
           \/ MarkRetry(w) \/ MarkFailed(w) \/ Requeue(w) \/ ClaimFault(w)
           \/ RequeueFault(w)
  BY <1>3, <1>4
     DEF Wake, FindQueueEmpty, Defer, MarkDelivered, MarkRetry, MarkFailed,
         Requeue, ClaimFault, RequeueFault, Finish, Goto
<1>5. CASE Lookup(w) \/ CountAttempts(w) \/ CheckBreaker(w) \/ Post(w)
           \/ (\E ok \in BOOLEAN : Reply(w, ok)) \/ InsertAttempt(w)
  BY <1>2, <1>5, DeliveryTypes
     DEF Lookup, CountAttempts, CheckBreaker, Post, Reply, InsertAttempt, Goto,
         Delivering, storeVars
<1>6. CASE Bury(w) \/ DispatchFault(w)
  <2>1. pc'[w] \notin Delivering
    BY <1>6, DeliveryTypes DEF Bury, DispatchFault, Finish, Goto, Delivering
  <2> QED
    BY <1>a, <2>1 DEF DeliveryIsPending
<1> QED
  BY <1>1, <1>4, <1>5, <1>6 DEF WorkerStep, WorkerFault

(* No other component takes an event from under its delivery: a replay     *)
(* queues it again, and a delete waits for it.                             *)
LEMMA PendingStep ==
  ASSUME StructureOK, DeliveryIsPending, Next
  PROVE  DeliveryIsPending'
<1> SUFFICES ASSUME SoleWorker
             PROVE  DeliveryIsPending'
  BY DEF DeliveryIsPending, SoleWorker
<1>1. ASSUME UNCHANGED << pc, ev >>,
             \A e \in EventIds :
               e <= lastEvent /\ status[e] \in {"RECEIVED", "PROCESSING"} =>
                 status'[e] \in {"RECEIVED", "PROCESSING"}
      PROVE  DeliveryIsPending'
  BY <1>1, DeliveryTypes DEF DeliveryIsPending, Delivering
<1>2. CASE DispatchNext
  <2>1. ASSUME NEW ep \in EndpointIds, RecoveryEnds(ep)
        PROVE  DeliveryIsPending'
    BY <1>1, <2>1 DEF RecoveryEnds, storeVars
  <2> QED
    BY <1>2, <2>1, WorkerKeepsPending DEF DispatchNext
<1>3. CASE ReplayNext /\ UNCHANGED << dispatchVars, ingestVars, crashes >>
  <2>1. ASSUME NEW r \in Replayers, ReplayUpdate(r)
        PROVE  DeliveryIsPending'
    BY <1>1, <1>3, <2>1, DeliveryTypes DEF ReplayUpdate, SetStatus, dispatchVars
  <2>2. CASE status' = status
    BY <1>1, <1>3, <2>2 DEF dispatchVars
  <2> QED
    BY <1>3, <2>1, <2>2
       DEF ReplayNext, ReplayStep, ReplaySelect, ReplayClear, ReplayRemove,
           ReplayFault, storeVars
<1>4. CASE IngestNext /\ UNCHANGED << dispatchVars, replayVars, crashes >>
  <2>1. AddsRow \/ UNCHANGED status
    BY <1>4, IngestStructure
  <2> QED
    BY <1>1, <1>4, <2>1, DeliveryTypes DEF AddsRow, dispatchVars
<1>5. CASE EndpointsNext /\ UNCHANGED << dispatchVars, replayVars, ingestVars, crashes >>
  <2>1. ASSUME NEW ep \in EndpointIds, DeleteEndpoint(ep)
        PROVE  DeliveryIsPending'
    BY <1>1, <1>5, <2>1 DEF DeleteEndpoint, Cascade, Pending, dispatchVars
  <2>2. ASSUME NEW ep \in EndpointIds, CreateEndpoint(ep)
        PROVE  DeliveryIsPending'
    BY <1>1, <1>5, <2>2 DEF CreateEndpoint, dispatchVars
  <2> QED
    BY <1>5, <2>1, <2>2 DEF EndpointsNext
<1>6. CASE Restart
  BY <1>6 DEF Restart, DeliveryIsPending, Delivering
<1> QED
  BY <1>2, <1>3, <1>4, <1>5, <1>6 DEF Next, Crash, Shutdown

-----------------------------------------------------------------------------
(* The breaker record itself: asking or answering it keeps a breaker that  *)
(* waits Open, and it admits only when it does not wait.                   *)
LEMMA BreakerWaitsOpen ==
  ASSUME NEW b \in Breaker, b.open_until = "Pending" => b.state = "Open"
  PROVE  /\ LET a == AfterCanAttempt(b)
            IN  a.open_until = "Pending" => a.state = "Open"
         /\ CanAttempt(b) => AfterCanAttempt(b).open_until # "Pending"
         /\ RecordSuccess(b).open_until # "Pending"
         /\ RecordFailure(b).open_until = "Pending" => RecordFailure(b).state = "Open"
         /\ RecoveryElapses(b).open_until # "Pending"
BY DEF Breaker, AfterCanAttempt, CanAttempt, Observed, RecordSuccess,
       RecordFailure, RecoveryElapses

(* What a step does to the breakers.                                       *)
LEMMA BreakerChange ==
  ASSUME StructureOK, Next
  PROVE  \/ UNCHANGED << breakers, failedInRow >>
         \/ \E w \in Workers : CheckBreaker(w) \/ \E ok \in BOOLEAN : Reply(w, ok)
         \/ \E ep \in EndpointIds : RecoveryEnds(ep)
         \/ Restart
BY DEF Next, DispatchNext, WorkerStep, WorkerFault, Wake, ClaimNextEvent,
       FindQueueEmpty, ClaimFault, Lookup, CountAttempts, Defer, Post,
       InsertAttempt, MarkDelivered, MarkRetry, MarkFailed, Bury,
       DispatchFault, Requeue, RequeueFault, dispatchVars, Crash, Shutdown

LEMMA OpenStep ==
  ASSUME StructureOK, PendingIsOpen, Next
  PROVE  PendingIsOpen'
<1>1. CASE UNCHANGED breakers
  BY <1>1 DEF PendingIsOpen
<1>2. ASSUME NEW w \in Workers, CheckBreaker(w)
      PROVE  PendingIsOpen'
  BY <1>2, DeliveryTypes, BreakerWaitsOpen DEF CheckBreaker, PendingIsOpen
<1>3. ASSUME NEW w \in Workers, NEW ok \in BOOLEAN, Reply(w, ok)
      PROVE  PendingIsOpen'
  BY <1>3, DeliveryTypes, BreakerWaitsOpen DEF Reply, PendingIsOpen
<1>4. ASSUME NEW ep \in EndpointIds, RecoveryEnds(ep)
      PROVE  PendingIsOpen'
  BY <1>4, DeliveryTypes, BreakerWaitsOpen DEF RecoveryEnds, PendingIsOpen
<1>5. CASE Restart
  BY <1>5 DEF Restart, PendingIsOpen, NewBreaker
<1> QED
  BY <1>1, <1>2, <1>3, <1>4, <1>5, BreakerChange

(* A request leaves only through the breaker, and its target is settled by *)
(* then.                                                                   *)
LEMMA RequestsStartAtBreaker ==
  ASSUME StructureOK, Next, NEW w \in Workers, pc'[w] \in {"post", "await"},
         ~CheckBreaker(w)
  PROVE  /\ pc[w] \in {"post", "await"}
         /\ ev'[w] = ev[w]
         /\ endpointOf'[ev[w]] = endpointOf[ev[w]]
<1>a. ~Restart
  BY DEF Restart
<1>1. pc[w] \in {"post", "await"} /\ ev'[w] = ev[w]
  <2>1. CASE DispatchNext
    <3>1. PICK v \in Workers : WorkerStep(v) \/ WorkerFault(v) \/ UNCHANGED << pc, ev >>
      BY <2>1 DEF DispatchNext, RecoveryEnds
    <3>2. CASE v = w
      BY <3>1, <3>2, DeliveryTypes
         DEF WorkerStep, WorkerFault, Wake, ClaimNextEvent, FindQueueEmpty,
             ClaimFault, Lookup, CountAttempts, Defer, Post, Reply,
             InsertAttempt, MarkDelivered, MarkRetry, MarkFailed, Bury,
             DispatchFault, Requeue, RequeueFault, Finish, Goto
    <3>3. CASE v # w
      BY <3>1, <3>3, DeliveryTypes
         DEF WorkerStep, WorkerFault, Wake, ClaimNextEvent, FindQueueEmpty,
             ClaimFault, Lookup, CountAttempts, CheckBreaker, Defer, Post,
             Reply, InsertAttempt, MarkDelivered, MarkRetry, MarkFailed, Bury,
             DispatchFault, Requeue, RequeueFault, Finish, Goto
    <3> QED
      BY <3>2, <3>3
  <2> QED
    BY <1>a, <2>1 DEF Next, dispatchVars, Crash, Shutdown
<1>2. endpointOf'[ev[w]] = endpointOf[ev[w]]
  <2>1. ev[w] \in 1..lastEvent
    BY <1>1, DeliveryTypes DEF EventIds
  <2>2. CASE UNCHANGED endpointOf
    BY <2>2
  <2>3. CASE IngestNext /\ UNCHANGED << dispatchVars, replayVars, crashes >>
    BY <2>1, <2>3, IngestStructure DEF AddsRow, intakeVars
  <2>4. CASE ~IngestNext
    BY <1>a, <2>2, <2>4, DispatchStructure, ReplayStructure, EndpointsStructure
       DEF Next, KeepsRows, intakeVars, Crash, Shutdown
  <2> QED
    BY <2>2, <2>3, <2>4, <1>a, DispatchStructure, ReplayStructure,
       EndpointsStructure
       DEF Next, KeepsRows, intakeVars, Crash, Shutdown
<1> QED
  BY <1>1, <1>2

(* The only worker that could trip the breaker is the one whose request is *)
(* under way.                                                              *)
LEMMA WithheldStep ==
  ASSUME StructureOK, DeliveryIsPending, PendingIsOpen, WithheldWhileOpen, Next
  PROVE  WithheldWhileOpen'
<1> SUFFICES ASSUME SoleWorker, NEW w \in Workers, pc'[w] \in {"post", "await"}
             PROVE  breakers'[endpointOf'[ev'[w]]].open_until # "Pending"
  BY DEF WithheldWhileOpen, SoleWorker
<1>a. \A v \in Workers : v = w
  BY DEF SoleWorker
<1>1. CASE CheckBreaker(w)
  <2> DEFINE ep == endpointOf[ev[w]]
  <2>1. ep \in EndpointIds
    BY <1>1, DeliveryTypes
       DEF CheckBreaker, DeliveryIsPending, Delivering, StructureOK, RowsOK
  <2>2. CanAttempt(breakers[ep])
    BY <1>1, DeliveryTypes DEF CheckBreaker, Goto
  <2>3. breakers'[ep] = AfterCanAttempt(breakers[ep])
    BY <1>1, <2>1, DeliveryTypes DEF CheckBreaker
  <2>4. breakers'[ep].open_until # "Pending"
    BY <2>1, <2>2, <2>3, DeliveryTypes, BreakerWaitsOpen DEF PendingIsOpen
  <2>5. UNCHANGED << ev, endpointOf >>
    BY <1>1 DEF CheckBreaker, storeVars, intakeVars
  <2> QED
    BY <2>4, <2>5
<1>2. CASE ~CheckBreaker(w)
  <2> DEFINE ep == endpointOf[ev[w]]
  <2>1. /\ breakers[ep].open_until # "Pending"
        /\ ev'[w] = ev[w] /\ endpointOf'[ev[w]] = ep
    BY <1>2, RequestsStartAtBreaker DEF WithheldWhileOpen
  <2>2. ASSUME NEW q \in EndpointIds, RecoveryEnds(q)
        PROVE  breakers'[ep].open_until # "Pending"
    BY <2>1, <2>2, DeliveryTypes DEF RecoveryEnds, RecoveryElapses, Breaker
  <2>3. ~\E ok \in BOOLEAN : Reply(w, ok)
    BY DeliveryTypes DEF Reply, Goto
  <2>4. ~Restart
    BY DEF Restart
  <2>5. UNCHANGED breakers \/ \E q \in EndpointIds : RecoveryEnds(q)
    BY <1>a, <1>2, <2>3, <2>4, BreakerChange
  <2> QED
    BY <2>1, <2>2, <2>5
<1> QED
  BY <1>1, <1>2

-----------------------------------------------------------------------------

LEMMA DeliveryInvInit == Init => DeliveryInv
BY StructureInit
   DEF Init, StoreInit, DispatchInit, DeliveryInv, DeliveryIsPending,
       Delivering, PendingIsOpen, NewBreaker, WithheldWhileOpen

LEMMA DeliveryInvStep ==
  ASSUME DeliveryInv, [Next]_vars
  PROVE  DeliveryInv'
<1>1. CASE Next
  BY <1>1, StructureStep, PendingStep, OpenStep, WithheldStep DEF DeliveryInv
<1>2. CASE UNCHANGED vars
  <2>1. StructureOK'
    BY <1>2, StructureStep DEF DeliveryInv
  <2>2. UNCHANGED << pc, ev, breakers, status, endpointOf >>
    BY <1>2 DEF vars, storeVars, intakeVars, dispatchVars
  <2> QED
    BY <2>1, <2>2
       DEF DeliveryInv, DeliveryIsPending, PendingIsOpen, WithheldWhileOpen,
           SoleWorker
<1> QED
  BY <1>1, <1>2

LEMMA DeliveryInvariance == Spec => []DeliveryInv
BY DeliveryInvInit, DeliveryInvStep, PTL DEF Spec

(* The event being delivered and its endpoint outlive the delivery, though *)
(* the delete only looks at statuses and the worker looks once             *)
(* (endpoints.rs:225).                                                     *)
THEOREM TargetsAreKept == Spec => []DeliveryKeepsTarget
<1>1. DeliveryInv => DeliveryKeepsTarget
  <2> SUFFICES ASSUME DeliveryInv, SoleWorker, NEW w \in Workers,
                      pc[w] \in Delivering
               PROVE  /\ status[ev[w]] # "NONE"
                      /\ endpoints[endpointOf[ev[w]]] = "live"
    BY DEF DeliveryKeepsTarget, Delivering
  <2>1. ev[w] \in EventIds
    BY DeliveryTypes DEF DeliveryInv, Delivering
  <2> QED
    BY <2>1 DEF DeliveryInv, DeliveryIsPending, StructureOK, RowsOK
<1> QED
  BY <1>1, DeliveryInvariance, PTL

(* No request is on its way to an endpoint in its recovery window          *)
(* (circuit_breaker.rs:70).                                                *)
THEOREM RequestsAreWithheld == Spec => []WithheldWhileOpen
<1>1. DeliveryInv => WithheldWhileOpen
  BY DEF DeliveryInv
<1> QED
  BY <1>1, DeliveryInvariance, PTL

-----------------------------------------------------------------------------
(* When a breaker is closed.                                               *)

(* The number of bad answers in a row that trips a breaker.                *)
LeastThreshold == IF FailureThreshold = 0 THEN 1 ELSE FailureThreshold

CountsRight(b, n) ==
  /\ b.state = "Closed" <=> n < LeastThreshold
  /\ b.state = "Closed" => b.failure_count = n

TripInv == \A ep \in EndpointIds : CountsRight(breakers[ep], failedInRow[ep])

LEMMA BreakerCounts ==
  ASSUME NEW b \in Breaker, NEW n \in Nat, CountsRight(b, n)
  PROVE  /\ CountsRight(AfterCanAttempt(b), n)
         /\ CountsRight(RecordSuccess(b), 0)
         /\ CountsRight(RecordFailure(b), n + 1)
         /\ CountsRight(RecoveryElapses(b), n)
<1>a. /\ LeastThreshold \in Nat /\ LeastThreshold >= 1
      /\ FailureThreshold <= LeastThreshold /\ LeastThreshold <= CountLimit
  BY BreakerAssumption DEF LeastThreshold
<1>b. ASSUME NEW c, NEW m,
             \/ c.state # "Closed" /\ ~(m < LeastThreshold)
             \/ c.state = "Closed" /\ m < LeastThreshold /\ c.failure_count = m
      PROVE  CountsRight(c, m)
  BY <1>b DEF CountsRight
<1>1. /\ CountsRight(AfterCanAttempt(b), n)
      /\ CountsRight(RecordSuccess(b), 0)
      /\ CountsRight(RecoveryElapses(b), n)
  BY <1>a DEF CountsRight, Breaker, AfterCanAttempt, Observed, RecordSuccess, RecoveryElapses
<1>2. ASSUME b.state # "Closed"
      PROVE  CountsRight(RecordFailure(b), n + 1)
  <2>1. RecordFailure(b).state # "Closed"
    BY <1>2 DEF RecordFailure, Breaker
  <2>2. ~(n + 1 < LeastThreshold)
    BY <1>a, <1>2 DEF CountsRight
  <2> QED
    BY <2>1, <2>2, <1>b
<1>3. ASSUME b.state = "Closed"
      PROVE  CountsRight(RecordFailure(b), n + 1)
  <2>1. b.failure_count = n /\ n < LeastThreshold
    BY <1>3 DEF CountsRight
  <2>2. RecordFailure(b).failure_count = (n + 1) % CountLimit
    BY <2>1 DEF RecordFailure, Breaker
  <2>3. RecordFailure(b).state = IF (n + 1) % CountLimit >= FailureThreshold
                                 THEN "Open" ELSE "Closed"
    BY <1>3, <2>1 DEF RecordFailure, Breaker
  <2>4. CASE n + 1 < LeastThreshold
    <3>1. (n + 1) % CountLimit = n + 1
      BY <1>a, <2>4, BreakerAssumption
    <3>2. n + 1 < FailureThreshold
      BY <2>4, BreakerAssumption DEF LeastThreshold
    <3> QED
      <4>1. ~((n + 1) % CountLimit >= FailureThreshold)
        BY <3>1, <3>2, BreakerAssumption
      <4>2. RecordFailure(b).state = "Closed" /\ RecordFailure(b).failure_count = n + 1
        BY <2>2, <2>3, <3>1, <4>1
      <4> QED
        BY <1>b, <2>4, <4>2
  <2>5. CASE ~(n + 1 < LeastThreshold)
    <3>1. n + 1 = LeastThreshold
      BY <1>a, <2>1, <2>5
    <3>2. (n + 1) % CountLimit >= FailureThreshold
      <4>1. CASE FailureThreshold = 0
        BY <4>1, BreakerAssumption
      <4>2. CASE FailureThreshold # 0
        <5>1. n + 1 = FailureThreshold
          BY <3>1, <4>2 DEF LeastThreshold
        <5>2. (n + 1) % CountLimit = n + 1
          BY <5>1, BreakerAssumption
        <5> QED
          BY <5>1, <5>2, BreakerAssumption
      <4> QED
        BY <4>1, <4>2
    <3> QED
      <4>1. RecordFailure(b).state # "Closed"
        BY <2>3, <3>2
      <4> QED
        BY <1>b, <2>5, <4>1
  <2> QED
    BY <2>4, <2>5
<1> QED
  BY <1>1, <1>2, <1>3

LEMMA TripStep ==
  ASSUME StructureOK, TripInv, [Next]_vars
  PROVE  TripInv'
<1>a. breakers \in [EndpointIds -> Breaker] /\ failedInRow \in [EndpointIds -> Nat]
  BY DEF StructureOK, TypeOK, DispatchTypeOK
<1>b. \A b \in Breaker, n \in Nat :
        CountsRight(b, n) => /\ CountsRight(AfterCanAttempt(b), n)
                             /\ CountsRight(RecordSuccess(b), 0)
                             /\ CountsRight(RecordFailure(b), n + 1)
                             /\ CountsRight(RecoveryElapses(b), n)
  BY BreakerCounts
<1>1. CASE UNCHANGED << breakers, failedInRow >>
  BY <1>1 DEF TripInv, CountsRight, LeastThreshold
(* One endpoint's breaker is asked or answered.                            *)
<1>2. ASSUME NEW p, NEW b, NEW n,
             breakers' = [breakers EXCEPT ![p] = b],
             failedInRow' = [failedInRow EXCEPT ![p] = n],
             p \in EndpointIds => CountsRight(b, n)
      PROVE  TripInv'
  <2>1. ASSUME NEW ep \in EndpointIds
        PROVE  CountsRight(breakers'[ep], failedInRow'[ep])
    <3>1. CASE ep = p
      BY <1>a, <1>2, <3>1
    <3>2. CASE ep # p
      BY <1>a, <1>2, <3>2 DEF TripInv
    <3> QED
      BY <3>1, <3>2
  <2> QED
    BY <2>1 DEF TripInv, CountsRight, LeastThreshold
<1>3. ASSUME NEW w \in Workers, CheckBreaker(w)
      PROVE  TripInv'
  <2> DEFINE p == endpointOf[ev[w]]
  <2>1. /\ breakers' = [breakers EXCEPT ![p] = AfterCanAttempt(breakers[p])]
        /\ failedInRow' = [failedInRow EXCEPT ![p] = failedInRow[p]]
    BY <1>a, <1>3 DEF CheckBreaker
  <2>2. p \in EndpointIds => CountsRight(AfterCanAttempt(breakers[p]), failedInRow[p])
    BY <1>a, <1>b DEF TripInv
  <2> HIDE DEF p
  <2> QED
    BY <1>2, <2>1, <2>2
<1>4. ASSUME NEW w \in Workers, NEW ok \in BOOLEAN, Reply(w, ok)
      PROVE  TripInv'
  <2> DEFINE p == endpointOf[ev[w]]
             b == IF ok THEN RecordSuccess(breakers[p]) ELSE RecordFailure(breakers[p])
             n == IF ok THEN 0 ELSE failedInRow[p] + 1
  <2>1. /\ breakers' = [breakers EXCEPT ![p] = b]
        /\ failedInRow' = [failedInRow EXCEPT ![p] = n]
    BY <1>4 DEF Reply
  <2>2. p \in EndpointIds => CountsRight(b, n)
    BY <1>a, <1>b DEF TripInv
  <2> HIDE DEF p, b, n
  <2> QED
    BY <1>2, <2>1, <2>2
<1>5. ASSUME NEW p \in EndpointIds, RecoveryEnds(p)
      PROVE  TripInv'
  <2>1. /\ breakers' = [breakers EXCEPT ![p] = RecoveryElapses(breakers[p])]
        /\ failedInRow' = [failedInRow EXCEPT ![p] = failedInRow[p]]
    BY <1>a, <1>5 DEF RecoveryEnds
  <2>2. CountsRight(RecoveryElapses(breakers[p]), failedInRow[p])
    BY <1>a, <1>b DEF TripInv
  <2> QED
    BY <1>2, <2>1, <2>2
<1>6. CASE Restart
  <2>1. \A ep \in EndpointIds : breakers'[ep] = NewBreaker /\ failedInRow'[ep] = 0
    BY <1>6 DEF Restart
  <2>2. CountsRight(NewBreaker, 0)
    BY BreakerAssumption DEF CountsRight, NewBreaker, LeastThreshold
  <2> QED
    BY <2>1, <2>2 DEF TripInv, CountsRight, LeastThreshold
<1>7. CASE UNCHANGED vars
  BY <1>1, <1>7 DEF vars, dispatchVars
<1> QED
  BY <1>1, <1>3, <1>4, <1>5, <1>6, <1>7, BreakerChange

(* A breaker trips on the very answer that makes it failure_threshold bad  *)
(* ones in a row, and only a good one closes it (circuit_breaker.rs:70),   *)
(* for every threshold, every width of its counter and any number of       *)
(* workers whose answers come late.                                        *)
THEOREM BreakersTrip == Spec => []TripsOnTime
<1>1. Init => TripInv
  <2>1. Init => \A ep \in EndpointIds : breakers[ep] = NewBreaker /\ failedInRow[ep] = 0
    BY DEF Init, DispatchInit
  <2>2. CountsRight(NewBreaker, 0)
    BY BreakerAssumption DEF CountsRight, NewBreaker, LeastThreshold
  <2> QED
    BY <2>1, <2>2 DEF TripInv
<1>2. StructureOK /\ TripInv => TripsOnTime
  <2> SUFFICES ASSUME StructureOK, TripInv, NEW ep \in EndpointIds
               PROVE  breakers[ep].state = "Closed" <=>
                        failedInRow[ep] = 0 \/ failedInRow[ep] < FailureThreshold
    BY DEF TripsOnTime
  <2>1. breakers[ep].state = "Closed" <=> failedInRow[ep] < LeastThreshold
    BY DEF TripInv, CountsRight
  <2>2. failedInRow[ep] \in Nat
    BY DEF StructureOK, TypeOK, DispatchTypeOK
  <2> QED
    BY <2>1, <2>2, BreakerAssumption DEF LeastThreshold
<1> QED
  BY <1>1, <1>2, StructureInit, StructureStep, TripStep, PTL DEF Spec
=============================================================================
