----------------------------- MODULE RelayProofs ----------------------------
(***************************************************************************)
(* Machine-checked proofs about the relay, for every number of workers,    *)
(* requests, endpoints, events, faults and restarts.                       *)
(***************************************************************************)
EXTENDS RelayInvariant, FiniteSetTheorems, TLAPS

-----------------------------------------------------------------------------
(* Breaker operators stay within the type.                                 *)

LEMMA BreakerType ==
  ASSUME NEW b \in Breaker
  PROVE  /\ NewBreaker \in Breaker
         /\ AfterCanAttempt(b) \in Breaker
         /\ RecordSuccess(b) \in Breaker
         /\ RecordFailure(b) \in Breaker
         /\ RecoveryElapses(b) \in Breaker
<1>1. (b.failure_count + 1) % CountLimit \in Nat
  BY BreakerAssumption DEF Breaker
<1> QED
  BY <1>1 DEF Breaker, CircuitState, NewBreaker, Observed, AfterCanAttempt,
              RecordSuccess, RecordFailure, RecoveryElapses

-----------------------------------------------------------------------------
(* Types.                                                                  *)

LEMMA FinishType ==
  ASSUME DispatchTypeOK, NEW w \in Workers,
         NEW o \in {"Idle", "Settled", "Deferred", "Err"},
         Finish(w, o), UNCHANGED << ev, breakers, failedInRow >>
  PROVE  DispatchTypeOK'
<1>1. pc' = [pc EXCEPT ![w] = "claim"] \/ pc' = [pc EXCEPT ![w] = "sleep"]
  BY DEF Finish, Goto
<1>2. pc' \in [Workers -> DispatchPc]
  BY <1>1 DEF DispatchTypeOK, DispatchPc
<1> QED
  BY <1>2 DEF Finish, DispatchTypeOK

LEMMA DispatchTypes ==
  ASSUME TypeOK, WorkersOK, DispatchNext
  PROVE  StoreTypeOK' /\ DispatchTypeOK'
<1> USE DEF TypeOK, StoreTypeOK, DispatchTypeOK, DispatchPc, EventStatus,
            intakeVars, storeVars, Goto
<1>1. ASSUME NEW w \in Workers, Wake(w)
      PROVE  StoreTypeOK' /\ DispatchTypeOK'
  BY <1>1 DEF Wake
<1>2. ASSUME NEW w \in Workers, NEW e \in EventIds, ClaimNextEvent(w, e)
      PROVE  StoreTypeOK' /\ DispatchTypeOK'
  BY <1>2 DEF ClaimNextEvent, SetStatus, EventIds
<1>3. ASSUME NEW w \in Workers, FindQueueEmpty(w)
      PROVE  StoreTypeOK' /\ DispatchTypeOK'
  BY <1>3, FinishType DEF FindQueueEmpty
<1>4. ASSUME NEW w \in Workers, ClaimFault(w)
      PROVE  StoreTypeOK' /\ DispatchTypeOK'
  BY <1>4, FinishType DEF ClaimFault, Fault
<1>5. ASSUME NEW w \in Workers, Lookup(w)
      PROVE  StoreTypeOK' /\ DispatchTypeOK'
  BY <1>5 DEF Lookup
<1>6. ASSUME NEW w \in Workers, CountAttempts(w)
      PROVE  StoreTypeOK' /\ DispatchTypeOK'
  <2>1. ev[w] \in EventIds
    BY <1>6 DEF CountAttempts, WorkersOK
  <2> QED
    BY <1>6, <2>1 DEF CountAttempts
<1>7. ASSUME NEW w \in Workers, CheckBreaker(w)
      PROVE  StoreTypeOK' /\ DispatchTypeOK'
  BY <1>7, BreakerType DEF CheckBreaker
<1>8. ASSUME NEW w \in Workers, Defer(w)
      PROVE  StoreTypeOK' /\ DispatchTypeOK'
  BY <1>8, FinishType DEF Defer, SetStatus
<1>9. ASSUME NEW w \in Workers, Post(w)
      PROVE  StoreTypeOK' /\ DispatchTypeOK'
  <2>1. ev[w] \in EventIds
    BY <1>9 DEF Post, WorkersOK
  <2>2. sends' \in [EventIds -> Nat]
    BY <1>9, <2>1 DEF Post
  <2> QED
    BY <1>9, <2>2 DEF Post
<1>10. ASSUME NEW w \in Workers, NEW ok \in BOOLEAN, Reply(w, ok)
       PROVE  StoreTypeOK' /\ DispatchTypeOK'
  <2>1. /\ breakers' \in [EndpointIds -> Breaker]
        /\ success' \in [Workers -> BOOLEAN]
    BY <1>10, BreakerType DEF Reply
  <2>2. failedInRow' \in [EndpointIds -> Nat]
    <3>1. PICK p : failedInRow' = [failedInRow EXCEPT ![p] = IF ok THEN 0 ELSE @ + 1]
      BY <1>10 DEF Reply
    <3>2. \A q \in EndpointIds : failedInRow[q] + 1 \in Nat
      OBVIOUS
    <3> QED
      BY <3>1, <3>2
  <2> QED
    BY <1>10, <2>1, <2>2 DEF Reply
<1>11. ASSUME NEW w \in Workers, InsertAttempt(w)
       PROVE  StoreTypeOK' /\ DispatchTypeOK'
  BY <1>11 DEF InsertAttempt
<1>12. ASSUME NEW w \in Workers,
              MarkDelivered(w) \/ MarkRetry(w) \/ MarkFailed(w)
       PROVE  StoreTypeOK' /\ DispatchTypeOK'
  <2>1. status' \in [EventIds -> EventStatus \cup {"NONE"}]
    BY <1>12 DEF MarkDelivered, MarkRetry, MarkFailed, SetStatus
  <2>2. DispatchTypeOK'
    BY <1>12, FinishType DEF MarkDelivered, MarkRetry, MarkFailed
  <2> QED
    BY <1>12, <2>1, <2>2 DEF MarkDelivered, MarkRetry, MarkFailed
<1>13. ASSUME NEW w \in Workers, Bury(w)
       PROVE  StoreTypeOK' /\ DispatchTypeOK'
  <2>1. ev[w] \in EventIds
    BY <1>13 DEF Bury, WorkersOK
  <2>2. dlqSeq[ev[w]] + 1 \in Nat
    BY <2>1
  <2>3. dlq' \in [EventIds -> Nat] /\ dlqSeq' \in [EventIds -> Nat]
    BY <1>13, <2>1, <2>2 DEF Bury
  <2>4. DispatchTypeOK'
    BY <1>13, FinishType DEF Bury
  <2> QED
    BY <1>13, <2>3, <2>4 DEF Bury
<1>14. ASSUME NEW w \in Workers, DispatchFault(w) \/ RequeueFault(w)
       PROVE  StoreTypeOK' /\ DispatchTypeOK'
  <2>1. StoreTypeOK'
    BY <1>14 DEF DispatchFault, RequeueFault, Fault
  <2>2. DispatchTypeOK'
    BY <1>14, FinishType DEF DispatchFault, RequeueFault
  <2> QED
    BY <2>1, <2>2
<1>15. ASSUME NEW w \in Workers, Requeue(w)
       PROVE  StoreTypeOK' /\ DispatchTypeOK'
  BY <1>15, FinishType DEF Requeue, SetStatus
<1>16. ASSUME NEW ep \in EndpointIds, RecoveryEnds(ep)
       PROVE  StoreTypeOK' /\ DispatchTypeOK'
  BY <1>16, BreakerType DEF RecoveryEnds
<1> QED
  BY <1>1, <1>2, <1>3, <1>4, <1>5, <1>6, <1>7, <1>8, <1>9, <1>10, <1>11,
     <1>12, <1>13, <1>14, <1>15, <1>16
     DEF DispatchNext, WorkerStep, WorkerFault

LEMMA ReplayTypes ==
  ASSUME TypeOK, ReplayersOK, ReplayNext
  PROVE  StoreTypeOK' /\ ReplayTypeOK'
<1> USE DEF TypeOK, StoreTypeOK, ReplayTypeOK, EventStatus, intakeVars,
            storeVars, ReplayDone
<1>a. NoLetter \in Letter
  BY StoreAssumption DEF NoLetter, Letter
<1>1. ASSUME NEW r \in Replayers, NEW e \in EventIds, ReplaySelect(r, e)
      PROVE  StoreTypeOK' /\ ReplayTypeOK'
  <2>1. [event |-> e, serial |-> dlq[e]] \in Letter
    BY StoreAssumption DEF EventIds, Letter
  <2> QED
    BY <1>1, <2>1 DEF ReplaySelect
<1>2. ASSUME NEW r \in Replayers, ReplayUpdate(r)
      PROVE  StoreTypeOK' /\ ReplayTypeOK'
  BY <1>2 DEF ReplayUpdate, SetStatus
<1>3. ASSUME NEW r \in Replayers, ReplayClear(r)
      PROVE  StoreTypeOK' /\ ReplayTypeOK'
  BY <1>3 DEF ReplayClear
<1>4. ASSUME NEW r \in Replayers, ReplayRemove(r)
      PROVE  StoreTypeOK' /\ ReplayTypeOK'
  BY <1>4, <1>a DEF ReplayRemove
<1>5. ASSUME NEW r \in Replayers, ReplayFault(r)
      PROVE  StoreTypeOK' /\ ReplayTypeOK'
  BY <1>5, <1>a DEF ReplayFault, Fault
<1> QED
  BY <1>1, <1>2, <1>3, <1>4, <1>5 DEF ReplayNext, ReplayStep

LEMMA RespondType ==
  ASSUME IngestTypeOK, NEW i \in Ingesters, NEW e \in 0..MaxEvents,
         NEW code \in {0, 202, 400, 401, 404, 409, 413, 500},
         Respond(i, code, e), request' \in [Ingesters -> Request]
  PROVE  IngestTypeOK'
<1>1. [code |-> code, event |-> e] \in Answer
  BY DEF Answer
<1> QED
  BY <1>1 DEF IngestTypeOK, Respond

LEMMA IngestTypes ==
  ASSUME TypeOK, IngestersOK, IngestNext
  PROVE  StoreTypeOK' /\ IngestTypeOK'
<1> USE DEF TypeOK, StoreTypeOK, intakeVars, storeVars
<1> 0 \in 0..MaxEvents
  BY StoreAssumption
<1>a. IngestTypeOK /\ request \in [Ingesters -> Request]
  BY DEF IngestTypeOK
<1>1. ASSUME NEW i \in Ingesters, NEW ep \in EndpointIds, NEW k \in Keys,
             NEW d \in SUBSET Defects, Receive(i, ep, k, d)
      PROVE  StoreTypeOK' /\ IngestTypeOK'
  <2>1. StoreTypeOK'
    BY <1>1 DEF Receive
  <2>2. request' \in [Ingesters -> Request]
    <3>1. [endpoint |-> ep, key |-> k, defects |-> d] \in Request
      BY DEF Request
    <3> QED
      BY <1>1, <1>a, <3>1 DEF Receive
  <2>3. CASE EarlyRefusal(d) # 0
    <3>1. EarlyRefusal(d) \in {0, 202, 400, 401, 404, 409, 413, 500}
      BY DEF EarlyRefusal
    <3>2. Respond(i, EarlyRefusal(d), 0)
      BY <1>1, <2>3 DEF Receive
    <3> QED
      BY <1>a, <2>1, <2>2, <3>1, <3>2, RespondType
  <2>4. CASE EarlyRefusal(d) = 0
    <3>1. NoAnswer \in Answer
      BY DEF NoAnswer, Answer
    <3> QED
      BY <1>1, <2>1, <2>2, <2>4, <3>1 DEF Receive, IngestTypeOK
  <2> QED
    BY <2>3, <2>4
<1>2. ASSUME NEW i \in Ingesters, LookupEndpoint(i)
      PROVE  StoreTypeOK' /\ IngestTypeOK'
  <2>1. request' \in [Ingesters -> Request] /\ StoreTypeOK'
    BY <1>2, <1>a DEF LookupEndpoint
  <2>2. CASE Respond(i, 404, 0) \/ Respond(i, 401, 0)
    BY <1>a, <2>1, <2>2, RespondType
  <2>3. CASE ipc' = [ipc EXCEPT ![i] = "accept"] /\ UNCHANGED << request, answer >>
    BY <2>1, <2>3 DEF IngestTypeOK
  <2> QED
    BY <1>2, <2>2, <2>3 DEF LookupEndpoint
<1>3. ASSUME NEW i \in Ingesters, RefuseDuplicate(i)
      PROVE  StoreTypeOK' /\ IngestTypeOK'
  BY <1>3, <1>a, RespondType DEF RefuseDuplicate
<1>4. ASSUME NEW i \in Ingesters, RefuseOrphan(i)
      PROVE  StoreTypeOK' /\ IngestTypeOK'
  BY <1>4, <1>a, RespondType DEF RefuseOrphan
<1>5. ASSUME NEW i \in Ingesters, AcceptEvent(i)
      PROVE  StoreTypeOK' /\ IngestTypeOK'
  <2>1. /\ request[i].endpoint \in EndpointIds
        /\ request[i].key \in Keys
    BY <1>5 DEF AcceptEvent, InsertEvent, IngestersOK
  <2>2. lastEvent + 1 \in 0..MaxEvents
    BY <1>5, StoreAssumption DEF AcceptEvent, InsertEvent
  <2>3. Respond(i, 202, lastEvent + 1) /\ request' = request
    BY <1>5 DEF AcceptEvent, InsertEvent
  <2>4. IngestTypeOK'
    BY <1>a, <2>2, <2>3, RespondType
  <2> QED
    BY <1>5, <2>1, <2>2, <2>4 DEF AcceptEvent, InsertEvent, EventStatus
<1>6. ASSUME NEW i \in Ingesters, IngestFault(i)
      PROVE  StoreTypeOK' /\ IngestTypeOK'
  <2>1. Respond(i, 500, 0) /\ request' = request /\ StoreTypeOK'
    BY <1>6 DEF IngestFault, Fault
  <2> QED
    BY <1>a, <2>1, RespondType
<1>7. ASSUME NEW i \in Ingesters, HangUp(i)
      PROVE  StoreTypeOK' /\ IngestTypeOK'
  BY <1>7 DEF HangUp, IngestTypeOK
<1> QED
  BY <1>1, <1>2, <1>3, <1>4, <1>5, <1>6, <1>7 DEF IngestNext, IngestStep

LEMMA EndpointsTypes ==
  ASSUME TypeOK, EndpointsNext
  PROVE  StoreTypeOK'
BY DEF TypeOK, StoreTypeOK, EndpointsNext, CreateEndpoint, DeleteEndpoint, Cascade

LEMMA RestartTypes ==
  ASSUME TypeOK, Restart
  PROVE  TypeOK'
<1>1. NewBreaker \in Breaker
  BY DEF NewBreaker, Breaker, CircuitState
<1>2. NoLetter \in Letter /\ 0 \in 0..MaxEvents
  BY StoreAssumption DEF NoLetter, Letter
<1> QED
  BY <1>1, <1>2
     DEF TypeOK, Restart, StoreTypeOK, DispatchTypeOK, DispatchPc,
         ReplayTypeOK, IngestTypeOK, storeVars, intakeVars

-----------------------------------------------------------------------------
(* Structure: rows, letters, and what each task remembers of them.         *)

(* A step that neither adds nor removes a row, and only draws new letters. *)
KeepsRows ==
  /\ UNCHANGED intakeVars
  /\ \A e \in EventIds : (status'[e] = "NONE") <=> (status[e] = "NONE")
  /\ \A e \in EventIds : dlqSeq[e] <= dlqSeq'[e]

LEMMA KeptRows ==
  ASSUME StructureOK, KeepsRows
  PROVE  RowsOK'
BY DEF StructureOK, KeepsRows, RowsOK, intakeVars

(* SetStatus on an existing or a missing row keeps it so.                  *)
LEMMA SetStatusKeepsRows ==
  ASSUME TypeOK, NEW e, NEW s \in EventStatus, SetStatus(e, s)
  PROVE  \A f \in EventIds : (status'[f] = "NONE") <=> (status[f] = "NONE")
BY DEF TypeOK, StoreTypeOK, SetStatus, EventStatus

LEMMA DispatchKeepsRows ==
  ASSUME StructureOK, DispatchNext
  PROVE  KeepsRows /\ LettersOK'
<1> USE DEF KeepsRows
<1>a. TypeOK /\ LettersOK /\ dlq \in [EventIds -> Nat] /\ dlqSeq \in [EventIds -> Nat]
  BY DEF StructureOK, TypeOK, StoreTypeOK
<1>b. {"RECEIVED", "PROCESSING", "DELIVERED", "FAILED"} = EventStatus
  BY DEF EventStatus
<1>1. ASSUME UNCHANGED << intakeVars, status, dlq, dlqSeq >>
      PROVE  KeepsRows /\ LettersOK'
  BY <1>a, <1>1 DEF LettersOK
<1>2. ASSUME NEW e, NEW s \in EventStatus, SetStatus(e, s),
             UNCHANGED << intakeVars, dlq, dlqSeq >>
      PROVE  KeepsRows /\ LettersOK'
  BY <1>a, <1>2, SetStatusKeepsRows DEF LettersOK
<1>3. ASSUME NEW w \in Workers, Bury(w)
      PROVE  KeepsRows /\ LettersOK'
  <2>1. UNCHANGED << intakeVars, status >>
    BY <1>3 DEF Bury
  <2>2. CASE UNCHANGED << dlq, dlqSeq >>
    BY <1>1, <2>1, <2>2
  <2>3. CASE /\ dlqSeq' = [dlqSeq EXCEPT ![ev[w]] = @ + 1]
             /\ dlq' = [dlq EXCEPT ![ev[w]] = dlqSeq[ev[w]] + 1]
    BY <1>a, <2>1, <2>3 DEF LettersOK
  <2> QED
    BY <1>3, <2>2, <2>3 DEF Bury
<1>4. ASSUME NEW w \in Workers, WorkerStep(w)
      PROVE  KeepsRows /\ LettersOK'
  <2>1. CASE \/ Wake(w) \/ FindQueueEmpty(w) \/ Lookup(w) \/ CountAttempts(w)
             \/ CheckBreaker(w) \/ Post(w) \/ InsertAttempt(w)
             \/ \E ok \in BOOLEAN : Reply(w, ok)
    BY <1>1, <2>1
       DEF Wake, FindQueueEmpty, Lookup, CountAttempts, CheckBreaker, Post,
           InsertAttempt, Reply, storeVars
  <2>2. CASE \E e \in EventIds : ClaimNextEvent(w, e)
    BY <1>2, <1>b, <2>2 DEF ClaimNextEvent
  <2>3. CASE Defer(w) \/ MarkRetry(w) \/ Requeue(w)
    BY <1>2, <1>b, <2>3 DEF Defer, MarkRetry, Requeue
  <2>4. CASE MarkDelivered(w) \/ MarkFailed(w)
    BY <1>2, <1>b, <2>4 DEF MarkDelivered, MarkFailed
  <2> QED
    BY <1>3, <1>4, <2>1, <2>2, <2>3, <2>4 DEF WorkerStep
<1>5. ASSUME NEW w \in Workers, WorkerFault(w)
      PROVE  KeepsRows /\ LettersOK'
  BY <1>1, <1>5 DEF WorkerFault, ClaimFault, DispatchFault, RequeueFault
<1>6. ASSUME NEW ep \in EndpointIds, RecoveryEnds(ep)
      PROVE  KeepsRows /\ LettersOK'
  BY <1>1, <1>6 DEF RecoveryEnds, storeVars
<1> QED
  BY <1>4, <1>5, <1>6 DEF DispatchNext

LEMMA DispatchWorkersOK ==
  ASSUME StructureOK, DispatchNext
  PROVE  WorkersOK'
<1>a. /\ TypeOK /\ WorkersOK /\ RowsOK
      /\ pc \in [Workers -> DispatchPc] /\ ev \in [Workers -> 0..MaxEvents]
      /\ lastEvent' = lastEvent
  BY DispatchKeepsRows
     DEF StructureOK, TypeOK, DispatchTypeOK, KeepsRows, intakeVars
(* A worker stays in its pass over the same event, or ends it.             *)
<1>1. ASSUME NEW w \in Workers, NEW l, pc' = [pc EXCEPT ![w] = l],
             l \in {"claim", "sleep"} \/ pc[w] \notin {"claim", "sleep"},
             ev' = ev
      PROVE  WorkersOK'
  BY <1>a, <1>1 DEF WorkersOK
<1>2. ASSUME NEW w \in Workers, NEW e \in EventIds, ClaimNextEvent(w, e)
      PROVE  WorkersOK'
  <2>1. e <= lastEvent
    BY <1>a, <1>2 DEF ClaimNextEvent, IsOldestReceived, RowsOK
  <2> QED
    BY <1>a, <1>2, <2>1 DEF ClaimNextEvent, Goto, WorkersOK
<1>3. ASSUME NEW w \in Workers, WorkerStep(w)
      PROVE  WorkersOK'
  <2>1. CASE Wake(w) \/ FindQueueEmpty(w)
    BY <1>1, <2>1 DEF Wake, FindQueueEmpty, Finish, Goto
  <2>2. CASE Lookup(w) \/ CountAttempts(w) \/ CheckBreaker(w) \/ Post(w)
    BY <1>1, <2>2 DEF Lookup, CountAttempts, CheckBreaker, Post, Goto
  <2>3. CASE (\E ok \in BOOLEAN : Reply(w, ok)) \/ InsertAttempt(w)
    BY <1>1, <2>3 DEF Reply, InsertAttempt, Goto
  <2>4. CASE Defer(w) \/ MarkRetry(w) \/ Requeue(w) \/ MarkDelivered(w)
    BY <1>1, <2>4 DEF Defer, MarkRetry, Requeue, MarkDelivered, Finish, Goto
  <2>5. CASE MarkFailed(w) \/ Bury(w)
    BY <1>1, <2>5 DEF MarkFailed, Bury, Finish, Goto
  <2> QED
    BY <1>2, <1>3, <2>1, <2>2, <2>3, <2>4, <2>5 DEF WorkerStep
<1>4. ASSUME NEW w \in Workers, WorkerFault(w)
      PROVE  WorkersOK'
  BY <1>1, <1>4
     DEF WorkerFault, ClaimFault, DispatchFault, RequeueFault, Finish, Goto
<1>5. ASSUME NEW ep \in EndpointIds, RecoveryEnds(ep)
      PROVE  WorkersOK'
  BY <1>a, <1>5 DEF RecoveryEnds, WorkersOK
<1> QED
  BY <1>3, <1>4, <1>5 DEF DispatchNext

LEMMA ReplayStructure ==
  ASSUME StructureOK, ReplayNext, UNCHANGED << dispatchVars, ingestVars, crashes >>
  PROVE  StructureOK' /\ KeepsRows
<1>a. /\ TypeOK /\ LettersOK /\ ReplayersOK
      /\ dlq \in [EventIds -> Nat] /\ dlqSeq \in [EventIds -> Nat]
      /\ letter \in [Replayers -> Letter]
      /\ rpc \in [Replayers -> {"idle", "update", "clear", "remove"}]
  BY DEF StructureOK, TypeOK, StoreTypeOK, ReplayTypeOK
<1>1. TypeOK'
  BY ReplayTypes
     DEF StructureOK, TypeOK, DispatchTypeOK, IngestTypeOK, dispatchVars,
         ingestVars
<1>2. UNCHANGED << intakeVars, dlqSeq >>
  BY DEF ReplayNext, ReplayStep, ReplaySelect, ReplayUpdate, ReplayClear,
         ReplayRemove, ReplayFault, storeVars
<1>3. KeepsRows /\ LettersOK' /\ ReplayersOK'
  <2>1. ASSUME UNCHANGED dlq \/ \E e : dlq' = [dlq EXCEPT ![e] = 0]
        PROVE  LettersOK'
    BY <1>a, <1>2, <2>1 DEF LettersOK
  <2>2. ASSUME NEW r \in Replayers, NEW l, rpc' = [rpc EXCEPT ![r] = l],
               rpc[r] # "idle" \/ l = "idle",
               letter' = letter \/ (l = "idle" /\ letter' = [letter EXCEPT ![r] = NoLetter])
        PROVE  ReplayersOK'
    BY <1>a, <1>2, <2>2 DEF ReplayersOK
  <2>3. ASSUME NEW r \in Replayers, NEW e \in EventIds, ReplaySelect(r, e)
        PROVE  status' = status /\ LettersOK' /\ ReplayersOK'
    <3>1. dlq[e] \in 1 .. dlqSeq[e]
      BY <1>a, <2>3 DEF ReplaySelect, LettersOK
    <3>2. letter' = [letter EXCEPT ![r] = [event |-> e, serial |-> dlq[e]]]
      BY <2>3 DEF ReplaySelect
    <3>3. ReplayersOK'
      <4>1. \A q \in Replayers : q # r => rpc'[q] = rpc[q] /\ letter'[q] = letter[q]
        BY <1>a, <2>3, <3>2 DEF ReplaySelect
      <4>2. letter'[r].event = e /\ letter'[r].serial = dlq[e]
        BY <1>a, <3>2
      <4> SUFFICES ASSUME NEW q \in Replayers, rpc'[q] # "idle"
                   PROVE  /\ letter'[q].event \in EventIds
                          /\ letter'[q].serial \in 1 .. dlqSeq'[letter'[q].event]
        BY DEF ReplayersOK
      <4>3. CASE q = r
        BY <1>2, <3>1, <4>2, <4>3
      <4>4. CASE q # r
        BY <1>a, <1>2, <4>1, <4>4 DEF ReplayersOK
      <4> QED
        BY <4>3, <4>4
    <3> QED
      BY <2>1, <2>3, <3>3 DEF ReplaySelect, storeVars
  <2>4. ASSUME NEW r \in Replayers, ReplayUpdate(r)
        PROVE  KeepsRows /\ LettersOK' /\ ReplayersOK'
    <3>1. \A f \in EventIds : (status'[f] = "NONE") <=> (status[f] = "NONE")
      BY <1>a, <2>4, SetStatusKeepsRows DEF ReplayUpdate, EventStatus
    <3> QED
      <4>1. KeepsRows
        BY <1>a, <1>2, <3>1 DEF KeepsRows
      <4>2. LettersOK'
        BY <2>1, <2>4 DEF ReplayUpdate
      <4>3. ReplayersOK'
        BY <2>2, <2>4 DEF ReplayUpdate
      <4> QED
        BY <4>1, <4>2, <4>3
  <2>5. ASSUME NEW r \in Replayers, ReplayClear(r)
        PROVE  status' = status /\ LettersOK' /\ ReplayersOK'
    BY <2>1, <2>2, <2>5 DEF ReplayClear
  <2>6. ASSUME NEW r \in Replayers, ReplayRemove(r)
        PROVE  status' = status /\ LettersOK' /\ ReplayersOK'
    <3>1. LettersOK'
      BY <1>a, <1>2, <2>6 DEF ReplayRemove, LettersOK
    <3> QED
      BY <2>2, <2>6, <3>1 DEF ReplayRemove, ReplayDone
  <2>7. ASSUME NEW r \in Replayers, ReplayFault(r)
        PROVE  status' = status /\ LettersOK' /\ ReplayersOK'
    BY <2>1, <2>2, <2>7 DEF ReplayFault, ReplayDone
  <2>8. ASSUME status' = status
        PROVE  KeepsRows
    BY <1>a, <1>2, <2>8 DEF KeepsRows
  <2> QED
    BY <2>3, <2>4, <2>5, <2>6, <2>7, <2>8 DEF ReplayNext, ReplayStep
<1>4. RowsOK'
  BY <1>3, KeptRows
<1>5. WorkersOK' /\ IngestersOK'
  BY <1>2 DEF StructureOK, WorkersOK, IngestersOK, dispatchVars, ingestVars,
              intakeVars
<1> QED
  BY <1>1, <1>3, <1>4, <1>5 DEF StructureOK

LEMMA DispatchStructure ==
  ASSUME StructureOK, DispatchNext, UNCHANGED << replayVars, ingestVars, crashes >>
  PROVE  StructureOK' /\ KeepsRows
<1>1. KeepsRows /\ LettersOK' /\ WorkersOK' /\ RowsOK'
  BY DispatchKeepsRows, DispatchWorkersOK, KeptRows
<1>2. TypeOK'
  BY DispatchTypes
     DEF StructureOK, TypeOK, ReplayTypeOK, IngestTypeOK, replayVars, ingestVars
<1>3. ReplayersOK'
  <2>1. dlqSeq \in [EventIds -> Nat] /\ dlqSeq' \in [EventIds -> Nat]
    BY <1>2 DEF StructureOK, TypeOK, StoreTypeOK
  <2> QED
    BY <1>1, <2>1 DEF StructureOK, ReplayersOK, KeepsRows, replayVars
<1>4. IngestersOK'
  BY DEF StructureOK, IngestersOK, ingestVars
<1> QED
  BY <1>1, <1>2, <1>3, <1>4 DEF StructureOK

(* What an ingest step does to the rows: nothing, or one new RECEIVED row. *)
AddsRow ==
  /\ UNCHANGED << endpoints, attempts, dlq, dlqSeq, sends, faults >>
  /\ lastEvent < MaxEvents
  /\ lastEvent' = lastEvent + 1
  /\ status' = [status EXCEPT ![lastEvent + 1] = "RECEIVED"]
  /\ \A e \in 1 .. lastEvent : endpointOf'[e] = endpointOf[e]
  /\ RowsOK'

LEMMA IngestStructure ==
  ASSUME StructureOK, IngestNext, UNCHANGED << dispatchVars, replayVars, crashes >>
  PROVE  /\ StructureOK'
         /\ AddsRow \/ UNCHANGED << intakeVars, status, attempts, dlq, dlqSeq, sends >>
         /\ AddsRow \/ faults' >= faults
<1>a. /\ TypeOK /\ RowsOK /\ IngestersOK
      /\ ipc \in [Ingesters -> {"idle", "lookup", "accept"}]
      /\ request \in [Ingesters -> Request]
      /\ status \in [EventIds -> EventStatus \cup {"NONE"}]
      /\ endpointOf \in [EventIds -> EndpointIds \cup {None}]
      /\ lastEvent \in 0..MaxEvents
      /\ faults \in Nat
  BY DEF StructureOK, TypeOK, StoreTypeOK, IngestTypeOK
<1>1. TypeOK'
  BY IngestTypes
     DEF StructureOK, TypeOK, DispatchTypeOK, ReplayTypeOK, dispatchVars,
         replayVars
<1>2. IngestersOK'
  <2>1. ASSUME NEW i \in Ingesters, NEW ep \in EndpointIds, NEW k \in Keys,
               NEW d \in SUBSET Defects, Receive(i, ep, k, d)
        PROVE  IngestersOK'
    <3>1. request' = [request EXCEPT ![i] =
                        [endpoint |-> ep, key |-> k, defects |-> d]]
      BY <2>1 DEF Receive
    <3>2. \A j \in Ingesters : j # i => ipc'[j] = ipc[j]
      BY <1>a, <2>1 DEF Receive, Respond
    <3> QED
      BY <1>a, <3>1, <3>2 DEF IngestersOK
  <2>2. ASSUME NEW i \in Ingesters, ipc[i] # "idle", request' = request,
               \E l : ipc' = [ipc EXCEPT ![i] = l]
        PROVE  IngestersOK'
    BY <1>a, <2>2 DEF IngestersOK
  <2>3. ASSUME NEW i \in Ingesters, IngestStep(i) \/ IngestFault(i) \/ HangUp(i)
        PROVE  IngestersOK'
    BY <2>2, <2>3
       DEF IngestStep, LookupEndpoint, RefuseDuplicate, AcceptEvent, InsertEvent,
           RefuseOrphan, IngestFault, HangUp, Respond
  <2> QED
    BY <2>1, <2>3 DEF IngestNext
<1>3. ASSUME NEW i \in Ingesters, AcceptEvent(i)
      PROVE  AddsRow
  <2>1. request[i].endpoint \in EndpointIds
    BY <1>a, <1>3 DEF AcceptEvent, InsertEvent, IngestersOK
  <2>2. /\ lastEvent + 1 \in EventIds
        /\ endpointOf' = [endpointOf EXCEPT ![lastEvent + 1] = request[i].endpoint]
    BY <1>a, <1>3, StoreAssumption DEF AcceptEvent, InsertEvent, EventIds
  <2>3. RowsOK'
    BY <1>a, <1>3, <2>1, <2>2 DEF AcceptEvent, InsertEvent, RowsOK, EventIds
  <2> QED
    BY <1>a, <1>3, <2>2, <2>3, StoreAssumption DEF AcceptEvent, InsertEvent, AddsRow, EventIds
<1>4. \/ AddsRow
      \/ UNCHANGED << intakeVars, status, attempts, dlq, dlqSeq, sends >> /\ faults' >= faults
  <2>1. ASSUME UNCHANGED storeVars
        PROVE  UNCHANGED << intakeVars, status, attempts, dlq, dlqSeq, sends >> /\ faults' >= faults
    BY <1>a, <2>1 DEF storeVars
  <2>2. ASSUME NEW i \in Ingesters, IngestFault(i)
        PROVE  UNCHANGED << intakeVars, status, attempts, dlq, dlqSeq, sends >> /\ faults' >= faults
    BY <1>a, <2>2 DEF IngestFault, Fault
  <2> QED
    BY <1>3, <2>1, <2>2
       DEF IngestNext, Receive, IngestStep, LookupEndpoint, RefuseDuplicate,
           RefuseOrphan, HangUp
<1>5. RowsOK'
  BY <1>a, <1>4 DEF AddsRow, RowsOK, intakeVars
<1>6. LettersOK' /\ WorkersOK' /\ ReplayersOK'
  <2>1. UNCHANGED << dlq, dlqSeq >> /\ lastEvent <= lastEvent'
    BY <1>a, <1>4 DEF AddsRow, intakeVars
  <2>2. lastEvent' \in 0..MaxEvents /\ ev \in [Workers -> 0..MaxEvents]
    BY <1>1 DEF StructureOK, TypeOK, StoreTypeOK, DispatchTypeOK, dispatchVars
  <2>3. WorkersOK'
    BY <1>a, <2>1, <2>2 DEF StructureOK, WorkersOK, dispatchVars, EventIds
  <2> QED
    BY <2>1, <2>3 DEF StructureOK, LettersOK, ReplayersOK, replayVars
<1> QED
  BY <1>1, <1>2, <1>4, <1>5, <1>6, <1>a DEF StructureOK, AddsRow

LEMMA EndpointsStructure ==
  ASSUME StructureOK, EndpointsNext,
         UNCHANGED << dispatchVars, replayVars, ingestVars, crashes >>
  PROVE  /\ StructureOK'
         /\ \A e \in EventIds : \/ status'[e] = "NONE"
                                \/ status'[e] = status[e] /\ dlq'[e] = dlq[e]
         /\ UNCHANGED << lastEvent, endpointOf, dlqSeq, faults >>
<1>a. /\ TypeOK /\ RowsOK /\ LettersOK
      /\ endpoints \in [EndpointIds -> {"absent", "live", "deleted"}]
      /\ dlqSeq \in [EventIds -> Nat]
  BY DEF StructureOK, TypeOK, StoreTypeOK
<1>1. TypeOK'
  BY EndpointsTypes
     DEF StructureOK, TypeOK, DispatchTypeOK, ReplayTypeOK, IngestTypeOK,
         dispatchVars, replayVars, ingestVars
<1>2. ASSUME NEW ep \in EndpointIds, CreateEndpoint(ep)
      PROVE  RowsOK' /\ LettersOK'
  BY <1>a, <1>2 DEF CreateEndpoint, RowsOK, LettersOK
<1>3. ASSUME NEW ep \in EndpointIds, DeleteEndpoint(ep)
      PROVE  RowsOK' /\ LettersOK'
  BY <1>a, <1>3 DEF DeleteEndpoint, Cascade, RowsOK, LettersOK
<1>4. \A e \in EventIds : \/ status'[e] = "NONE"
                          \/ status'[e] = status[e] /\ dlq'[e] = dlq[e]
  BY DEF EndpointsNext, CreateEndpoint, DeleteEndpoint, Cascade
<1>5. UNCHANGED << lastEvent, endpointOf, dlqSeq, faults >>
  BY DEF EndpointsNext, CreateEndpoint, DeleteEndpoint, Cascade
<1>6. WorkersOK' /\ ReplayersOK' /\ IngestersOK'
  BY <1>5
     DEF StructureOK, WorkersOK, ReplayersOK, IngestersOK, dispatchVars,
         replayVars, ingestVars
<1> QED
  BY <1>1, <1>2, <1>3, <1>4, <1>5, <1>6 DEF EndpointsNext, StructureOK

LEMMA RestartStructure ==
  ASSUME StructureOK, Restart
  PROVE  StructureOK'
<1>1. TypeOK'
  BY RestartTypes DEF StructureOK
<1> QED
  BY <1>1
     DEF StructureOK, Restart, RowsOK, LettersOK, WorkersOK, ReplayersOK,
         IngestersOK, storeVars, intakeVars

LEMMA StructureStep ==
  ASSUME StructureOK, [Next]_vars
  PROVE  StructureOK'
<1>1. CASE Next
  BY <1>1, DispatchStructure, ReplayStructure, IngestStructure,
     EndpointsStructure, RestartStructure
     DEF Next, Crash, Shutdown
<1>2. CASE UNCHANGED vars
  BY <1>2
     DEF vars, StructureOK, TypeOK, StoreTypeOK, DispatchTypeOK, ReplayTypeOK,
         IngestTypeOK, RowsOK, LettersOK, WorkersOK, ReplayersOK, IngestersOK,
         storeVars, intakeVars, dispatchVars, replayVars, ingestVars
<1> QED
  BY <1>1, <1>2

LEMMA StructureInit == Init => StructureOK
<1>1. ASSUME Init
      PROVE  TypeOK
  <2>1. NewBreaker \in Breaker
    BY DEF NewBreaker, Breaker, CircuitState
  <2>2. NoLetter \in Letter /\ NoAnswer \in Answer /\ NoRequest \in Request
    BY StoreAssumption
       DEF NoLetter, Letter, NoAnswer, Answer, NoRequest, Request
  <2>3. 0 \in 0..MaxEvents
    BY StoreAssumption
  <2> QED
    BY <1>1, <2>1, <2>2, <2>3
       DEF Init, StoreInit, DispatchInit, ReplayInit, IngestInit, TypeOK,
           StoreTypeOK, DispatchTypeOK, DispatchPc, ReplayTypeOK, IngestTypeOK
<1> QED
  BY <1>1
     DEF Init, StoreInit, DispatchInit, ReplayInit, IngestInit, StructureOK,
         RowsOK, LettersOK, WorkersOK, ReplayersOK, IngestersOK

(* Every variable of the relay has its type in every reachable state, and  *)
(* every reference a task holds is to something that exists or did.        *)
THEOREM Structure == Spec => []StructureOK
<1> QED
  BY StructureInit, StructureStep, PTL DEF Spec

(* The type invariant, for every value of the constants.                   *)
THEOREM TypeCorrect == Spec => []TypeOK
<1>1. StructureOK => TypeOK
  BY DEF StructureOK
<1> QED
  BY <1>1, Structure, PTL

-----------------------------------------------------------------------------
(* Facts about steps that the invariants below share.                      *)

LEMMA Types ==
  ASSUME StructureOK
  PROVE  /\ pc \in [Workers -> DispatchPc]
         /\ ev \in [Workers -> 0..MaxEvents]
         /\ breakers \in [EndpointIds -> Breaker]
         /\ status \in [EventIds -> EventStatus \cup {"NONE"}]
         /\ dlq \in [EventIds -> Nat]
         /\ dlqSeq \in [EventIds -> Nat]
         /\ faults \in Nat
         /\ crashes \in Nat
         /\ lastEvent \in 0..MaxEvents
BY DEF StructureOK, TypeOK, StoreTypeOK, DispatchTypeOK

(* Faults and restarts are only ever counted up.                           *)
LEMMA Monotone ==
  ASSUME StructureOK, Next
  PROVE  /\ faults' >= faults /\ crashes' >= crashes
         /\ AtMostOneFault' => AtMostOneFault
<1>a. faults \in Nat /\ crashes \in Nat
  BY Types
<1>1. DispatchNext => faults' >= faults
  BY <1>a
     DEF DispatchNext, WorkerStep, WorkerFault, Wake, ClaimNextEvent,
         FindQueueEmpty, ClaimFault, Lookup, CountAttempts, CheckBreaker,
         Defer, Post, Reply, InsertAttempt, MarkDelivered, MarkRetry,
         MarkFailed, Bury, DispatchFault, Requeue, RequeueFault,
         RecoveryEnds, Fault, storeVars
<1>2. ReplayNext => faults' >= faults
  BY <1>a
     DEF ReplayNext, ReplayStep, ReplaySelect, ReplayUpdate, ReplayClear,
         ReplayRemove, ReplayFault, Fault, storeVars
<1>3. IngestNext => faults' >= faults
  BY <1>a
     DEF IngestNext, IngestStep, Receive, LookupEndpoint, RefuseDuplicate,
         RefuseOrphan, AcceptEvent, InsertEvent, IngestFault, HangUp, Fault, storeVars
<1>4. EndpointsNext => faults' >= faults
  BY <1>a DEF EndpointsNext, CreateEndpoint, DeleteEndpoint, Cascade
<1>5. Restart => faults' >= faults /\ crashes' >= crashes
  BY <1>a DEF Restart, storeVars
<1>6. faults' >= faults /\ crashes' >= crashes
  BY <1>a, <1>1, <1>2, <1>3, <1>4, <1>5 DEF Next, Crash, Shutdown
<1>7. faults' \in Nat /\ crashes' \in Nat
  BY StructureStep, Types, <1>a
     DEF StructureOK, TypeOK, StoreTypeOK
<1> QED
  BY <1>a, <1>6, <1>7 DEF AtMostOneFault

-----------------------------------------------------------------------------
(* Where losses come from: a step dooms an event only if it is a requeue   *)
(* that fails or a restart.                                                *)

LEMMA UncarriedStep ==
  ASSUME StructureOK, Next, ~Restart, NEW e \in EventIds, Uncarried(e)',
         \A w \in Workers : ~(RequeueFault(w) /\ ev[w] = e)
  PROVE  Uncarried(e)
<1>a. /\ pc \in [Workers -> DispatchPc] /\ ev \in [Workers -> 0..MaxEvents]
      /\ RowsOK /\ WorkersOK
      /\ lastEvent \in 0..MaxEvents
      /\ status \in [EventIds -> EventStatus \cup {"NONE"}]
  BY Types DEF StructureOK
<1>b. status'[e] = "PROCESSING" /\ \A w \in Workers : ~Carries(w, e)'
  BY DEF Uncarried
<1>1. CASE DispatchNext /\ UNCHANGED << replayVars, ingestVars, crashes >>
  (* A worker moves on and keeps what it carries.                          *)
  <2>1. ASSUME NEW w \in Workers, NEW l, pc' = [pc EXCEPT ![w] = l],
               UNCHANGED << ev, status >>,
               \/ pc[w] \in {"claim", "sleep", "bury"}
               \/ l \notin {"claim", "sleep", "bury"}
               \/ status[ev[w]] = "NONE"
               \/ ev[w] # e
        PROVE  Uncarried(e)
    BY <1>a, <1>b, <2>1 DEF Uncarried, Carries
  (* A worker writes the status it owes, whatever it does next.            *)
  <2>2. ASSUME NEW w \in Workers, NEW l, pc' = [pc EXCEPT ![w] = l], ev' = ev,
               NEW s \in EventStatus, s # "PROCESSING", SetStatus(ev[w], s)
        PROVE  Uncarried(e)
    <3>1. status[e] = "PROCESSING" /\ e # ev[w]
      BY <1>a, <1>b, <2>2 DEF SetStatus
    <3> QED
      BY <1>a, <1>b, <2>2, <3>1 DEF Uncarried, Carries
  <2>3. ASSUME NEW w \in Workers, NEW f \in EventIds, ClaimNextEvent(w, f)
        PROVE  Uncarried(e)
    <3>1. pc' = [pc EXCEPT ![w] = "lookup"] /\ ev' = [ev EXCEPT ![w] = f]
      BY <2>3 DEF ClaimNextEvent, Goto
    <3>2. f # e
      BY <1>a, <1>b, <3>1 DEF Carries
    <3>3. status'[e] = status[e]
      BY <1>a, <2>3, <3>2 DEF ClaimNextEvent, SetStatus
    <3> QED
      BY <1>a, <1>b, <2>3, <3>1, <3>3 DEF Uncarried, Carries, ClaimNextEvent
  <2>4. ASSUME NEW w \in Workers, WorkerStep(w)
        PROVE  Uncarried(e)
    <3>a. {"RECEIVED", "PROCESSING", "DELIVERED", "FAILED"} = EventStatus
      BY DEF EventStatus
    <3>1. CASE \/ Wake(w) \/ FindQueueEmpty(w) \/ CountAttempts(w)
               \/ CheckBreaker(w) \/ Post(w)
               \/ \E ok \in BOOLEAN : Reply(w, ok)
      BY <2>1, <3>1
         DEF Wake, FindQueueEmpty, CountAttempts, CheckBreaker, Post, Reply,
             Finish, Goto, storeVars
    <3>2. CASE Lookup(w) \/ InsertAttempt(w) \/ Bury(w)
      BY <2>1, <3>2 DEF Lookup, InsertAttempt, Bury, Finish, Goto, storeVars
    <3>3. CASE Defer(w) \/ MarkRetry(w) \/ Requeue(w)
      BY <2>2, <3>a, <3>3 DEF Defer, MarkRetry, Requeue, Finish, Goto
    <3>4. CASE MarkDelivered(w) \/ MarkFailed(w)
      BY <2>2, <3>a, <3>4 DEF MarkDelivered, MarkFailed, Finish, Goto
    <3> QED
      BY <2>3, <2>4, <3>1, <3>2, <3>3, <3>4 DEF WorkerStep
  <2>5. ASSUME NEW w \in Workers, WorkerFault(w)
        PROVE  Uncarried(e)
    BY <2>1, <2>5 DEF WorkerFault, ClaimFault, DispatchFault, RequeueFault, Finish, Goto
  <2>6. ASSUME NEW ep \in EndpointIds, RecoveryEnds(ep)
        PROVE  Uncarried(e)
    BY <1>b, <2>6 DEF RecoveryEnds, Uncarried, Carries, storeVars
  <2> QED
    BY <1>1, <2>4, <2>5, <2>6 DEF DispatchNext
<1>2. ASSUME UNCHANGED << pc, ev >>, status[e] = "PROCESSING"
      PROVE  Uncarried(e)
  BY <1>b, <1>2 DEF Uncarried, Carries
<1>3. CASE ReplayNext /\ UNCHANGED << dispatchVars, ingestVars, crashes >>
  <2>1. status[e] = "PROCESSING"
    BY <1>3, <1>a, <1>b
       DEF ReplayNext, ReplayStep, ReplaySelect, ReplayUpdate, ReplayClear,
           ReplayRemove, ReplayFault, SetStatus, storeVars
  <2> QED
    BY <1>2, <1>3, <2>1 DEF dispatchVars
<1>4. CASE IngestNext /\ UNCHANGED << dispatchVars, replayVars, crashes >>
  BY <1>2, <1>4, <1>a, <1>b, IngestStructure DEF AddsRow, dispatchVars
<1>5. CASE EndpointsNext /\ UNCHANGED << dispatchVars, replayVars, ingestVars, crashes >>
  BY <1>2, <1>5, <1>b, EndpointsStructure DEF dispatchVars
<1> QED
  BY <1>1, <1>3, <1>4, <1>5 DEF Next, Crash, Shutdown

LEMMA UnburiedStep ==
  ASSUME StructureOK, Next, ~Restart, NEW e \in EventIds, Unburied(e)',
         \A w \in Workers : ~(RequeueFault(w) /\ ev[w] = e)
  PROVE  Unburied(e)
<1>a. /\ pc \in [Workers -> DispatchPc] /\ ev \in [Workers -> 0..MaxEvents]
      /\ status \in [EventIds -> EventStatus \cup {"NONE"}]
      /\ dlq \in [EventIds -> Nat] /\ dlqSeq \in [EventIds -> Nat]
      /\ lastEvent \in 0..MaxEvents
      /\ LettersOK /\ WorkersOK /\ ReplayersOK
  BY Types DEF StructureOK
<1>b. /\ rpc \in [Replayers -> {"idle", "update", "clear", "remove"}]
      /\ letter \in [Replayers -> Letter]
  BY DEF StructureOK, TypeOK, ReplayTypeOK
<1>c. \A r \in Replayers : rpc[r] # "idle" => letter[r].event \in EventIds
  BY <1>a DEF ReplayersOK
<1>d. /\ status'[e] = "FAILED" /\ (dlq'[e] = 0 \/ LetterIsStale(e)')
      /\ \A w \in Workers : ~Buries(w, e)'
  BY DEF Unburied
(* Replays and the letter stand still, and the event was FAILED before.    *)
<1>1. ASSUME UNCHANGED << rpc, letter >>, dlq'[e] = dlq[e], status[e] = "FAILED",
             \A w \in Workers : Buries(w, e) => Buries(w, e)'
      PROVE  Unburied(e)
  <2>1. LetterIsStale(e)' => LetterIsStale(e)
    BY <1>1 DEF LetterIsStale
  <2> QED
    BY <1>1, <1>d, <2>1 DEF Unburied
<1>2. CASE DispatchNext /\ UNCHANGED << replayVars, ingestVars, crashes >>
  <2>a. UNCHANGED << rpc, letter >>
    BY <1>2 DEF replayVars
  (* A worker moves on; if it owed a letter, it still does.                *)
  <2>1. ASSUME NEW w \in Workers, NEW l, pc' = [pc EXCEPT ![w] = l],
               UNCHANGED << ev, status, dlq >>,
               \/ pc[w] \notin {"bury", "requeue"}
               \/ l \in {"bury", "requeue"}
               \/ status[ev[w]] = "NONE"
               \/ ev[w] # e
        PROVE  Unburied(e)
    <3>1. ASSUME NEW v \in Workers, Buries(v, e)
          PROVE  Buries(v, e)'
      BY <1>a, <1>d, <2>1, <3>1 DEF Buries
    <3> QED
      BY <1>1, <1>d, <2>a, <2>1, <3>1
  (* A worker settles its event otherwise.                                 *)
  <2>2. ASSUME NEW w \in Workers, NEW l, pc' = [pc EXCEPT ![w] = l],
               UNCHANGED << ev, dlq >>,
               NEW s \in EventStatus, s # "FAILED", SetStatus(ev[w], s)
        PROVE  Unburied(e)
    <3>1. status[e] = "FAILED" /\ e # ev[w]
      BY <1>a, <1>d, <2>2 DEF SetStatus
    <3>2. ASSUME NEW v \in Workers, Buries(v, e)
          PROVE  Buries(v, e)'
      BY <1>a, <2>2, <3>1, <3>2 DEF Buries
    <3> QED
      BY <1>1, <2>a, <2>2, <3>1, <3>2
  <2>3. ASSUME NEW w \in Workers, NEW f \in EventIds, ClaimNextEvent(w, f)
        PROVE  Unburied(e)
    <3>1. status[e] = "FAILED"
      BY <1>a, <1>d, <2>3 DEF ClaimNextEvent, SetStatus
    <3>2. ASSUME NEW v \in Workers, Buries(v, e)
          PROVE  Buries(v, e)'
      BY <1>a, <2>3, <3>2 DEF Buries, ClaimNextEvent, Goto
    <3>3. dlq' = dlq
      BY <2>3 DEF ClaimNextEvent
    <3> QED
      BY <1>1, <2>a, <3>1, <3>2, <3>3
  <2>4. ASSUME NEW w \in Workers, MarkFailed(w)
        PROVE  Unburied(e)
    <3>1. pc' = [pc EXCEPT ![w] = "bury"] /\ UNCHANGED << ev, dlq >>
      BY <2>4 DEF MarkFailed, Goto
    <3>2. e # ev[w]
      BY <1>a, <1>d, <3>1 DEF Buries
    <3>3. status'[e] = status[e]
      BY <1>a, <2>4, <3>2 DEF MarkFailed, SetStatus
    <3>4. ASSUME NEW v \in Workers, Buries(v, e)
          PROVE  Buries(v, e)'
      BY <1>a, <3>1, <3>4 DEF Buries
    <3> QED
      BY <1>1, <1>d, <2>a, <3>1, <3>3, <3>4
  (* The new letter's id is none that a replay remembers.                  *)
  <2>5. ASSUME NEW w \in Workers, Bury(w)
        PROVE  Unburied(e)
    <3>a. ev[w] \in EventIds /\ pc[w] = "bury" /\ UNCHANGED << ev, status >>
      BY <1>a, <2>5 DEF Bury, WorkersOK
    <3>1. CASE status[ev[w]] = "NONE"
      BY <2>1, <2>5, <3>1 DEF Bury, Goto
    <3>2. CASE status[ev[w]] # "NONE"
      <4>1. /\ dlq' = [dlq EXCEPT ![ev[w]] = dlqSeq[ev[w]] + 1]
            /\ pc' = [pc EXCEPT ![w] = "claim"]
        BY <2>5, <3>2 DEF Bury, Finish, Goto
      <4>2. ASSUME ev[w] = e
            PROVE  FALSE
        <5>1. dlq'[e] # 0 /\ dlq'[e] = dlqSeq[e] + 1
          BY <1>a, <4>1, <4>2
        <5>2. PICK r \in Replayers :
                /\ rpc[r] \in {"clear", "remove"}
                /\ letter[r] = [event |-> e, serial |-> dlq'[e]]
          BY <1>d, <2>a, <5>1 DEF LetterIsStale
        <5>3. letter[r].event = e /\ letter[r].serial = dlqSeq[e] + 1
          BY <5>1, <5>2
        <5>4. letter[r].serial \in 1 .. dlqSeq[e]
          BY <1>a, <5>2, <5>3 DEF ReplayersOK
        <5> QED
          BY <1>a, <5>3, <5>4
      <4>3. ASSUME NEW v \in Workers, Buries(v, e)
            PROVE  Buries(v, e)'
        BY <1>a, <3>a, <4>1, <4>2, <4>3 DEF Buries
      <4>4. dlq'[e] = dlq[e]
        BY <1>a, <4>1, <4>2
      <4> QED
        BY <1>1, <1>d, <2>a, <3>a, <4>3, <4>4
    <3> QED
      BY <3>1, <3>2
  <2>6. ASSUME NEW w \in Workers, WorkerStep(w)
        PROVE  Unburied(e)
    <3>a. {"RECEIVED", "PROCESSING", "DELIVERED", "FAILED"} = EventStatus
      BY DEF EventStatus
    <3>1. CASE \/ Wake(w) \/ FindQueueEmpty(w) \/ CountAttempts(w)
               \/ CheckBreaker(w) \/ Post(w)
               \/ \E ok \in BOOLEAN : Reply(w, ok)
      BY <2>1, <3>1
         DEF Wake, FindQueueEmpty, CountAttempts, CheckBreaker, Post, Reply,
             Finish, Goto, storeVars
    <3>2. CASE Lookup(w) \/ InsertAttempt(w)
      BY <2>1, <3>2 DEF Lookup, InsertAttempt, Goto, storeVars
    <3>3. CASE Defer(w) \/ MarkRetry(w) \/ Requeue(w) \/ MarkDelivered(w)
      BY <2>2, <3>a, <3>3
         DEF Defer, MarkRetry, Requeue, MarkDelivered, Finish, Goto
    <3> QED
      BY <2>3, <2>4, <2>5, <2>6, <3>1, <3>2, <3>3 DEF WorkerStep
  <2>7. ASSUME NEW w \in Workers, WorkerFault(w)
        PROVE  Unburied(e)
    BY <2>1, <2>7 DEF WorkerFault, ClaimFault, DispatchFault, RequeueFault, Finish, Goto
  <2>8. ASSUME NEW ep \in EndpointIds, RecoveryEnds(ep)
        PROVE  Unburied(e)
    BY <1>1, <1>d, <2>a, <2>8 DEF RecoveryEnds, Buries, storeVars
  <2> QED
    BY <1>2, <2>6, <2>7, <2>8 DEF DispatchNext
<1>3. CASE ReplayNext /\ UNCHANGED << dispatchVars, ingestVars, crashes >>
  <2>a. \A w \in Workers : Buries(w, e)' <=> Buries(w, e)
    BY <1>3 DEF dispatchVars, Buries
  (* The replay moves on without touching its letter.                      *)
  <2>1. ASSUME NEW r \in Replayers, NEW l, rpc' = [rpc EXCEPT ![r] = l],
               \A q \in Replayers : q # r => letter'[q] = letter[q],
               \/ l \in {"idle", "update"}
               \/ letter' = letter /\ rpc[r] = "clear",
               UNCHANGED << status, dlq >>
        PROVE  Unburied(e)
    <3>1. \A q \in Replayers :
            rpc'[q] \in {"clear", "remove"} =>
              rpc[q] \in {"clear", "remove"} /\ letter'[q] = letter[q]
      BY <1>b, <2>1
    <3>2. LetterIsStale(e)' => LetterIsStale(e)
      BY <2>1, <3>1 DEF LetterIsStale
    <3> QED
      BY <1>d, <2>a, <2>1, <3>2 DEF Unburied
  <2>2. ASSUME NEW r \in Replayers, NEW f \in EventIds, ReplaySelect(r, f)
        PROVE  Unburied(e)
    BY <1>b, <2>1, <2>2 DEF ReplaySelect, storeVars
  (* It puts its own event in the queue.                                   *)
  <2>3. ASSUME NEW r \in Replayers, ReplayUpdate(r)
        PROVE  Unburied(e)
    <3>1. status[e] = "FAILED" /\ e # letter[r].event
      BY <1>a, <1>d, <2>3 DEF ReplayUpdate, SetStatus
    <3>2. (\A q \in Replayers : q # r => rpc'[q] = rpc[q]) /\ UNCHANGED << letter, dlq >>
      BY <1>b, <2>3 DEF ReplayUpdate
    <3>3. LetterIsStale(e)' => LetterIsStale(e)
      <4> SUFFICES ASSUME NEW q \in Replayers, rpc'[q] \in {"clear", "remove"},
                          letter'[q] = [event |-> e, serial |-> dlq'[e]]
                   PROVE  LetterIsStale(e)
        BY DEF LetterIsStale
      <4>1. letter[q] = [event |-> e, serial |-> dlq[e]]
        BY <3>2
      <4>2. letter[q].event = e
        BY <4>1
      <4>3. q # r
        BY <3>1, <4>2
      <4> QED
        BY <3>2, <4>1, <4>3 DEF LetterIsStale
    <3> QED
      BY <1>d, <2>a, <3>1, <3>2, <3>3 DEF Unburied
  <2>4. ASSUME NEW r \in Replayers, ReplayClear(r)
        PROVE  Unburied(e)
    BY <2>1, <2>4 DEF ReplayClear
  (* It removes its own letter only, and that of a FAILED event only while *)
  (* the next one is being written.                                        *)
  <2>5. ASSUME NEW r \in Replayers, ReplayRemove(r)
        PROVE  Unburied(e)
    <3>1. /\ rpc[r] = "remove" /\ letter[r].event \in EventIds
          /\ letter[r] \in Letter
          /\ rpc' = [rpc EXCEPT ![r] = "idle"]
          /\ \A q \in Replayers : q # r => letter'[q] = letter[q]
          /\ status' = status
      BY <1>b, <1>c, <2>5 DEF ReplayRemove, ReplayDone
    <3>2. \A q \in Replayers :
            rpc'[q] \in {"clear", "remove"} =>
              rpc[q] \in {"clear", "remove"} /\ letter'[q] = letter[q]
      BY <1>b, <3>1
    <3>3. CASE dlq'[e] = dlq[e]
      <4>1. LetterIsStale(e)' => LetterIsStale(e)
        BY <3>2, <3>3 DEF LetterIsStale
      <4> QED
        BY <1>d, <2>a, <3>1, <3>3, <4>1 DEF Unburied
    <3>4. CASE dlq'[e] # dlq[e]
      <4>1. e = letter[r].event /\ dlq[e] = letter[r].serial
        BY <1>a, <2>5, <3>4 DEF ReplayRemove
      <4>2. letter[r] = [event |-> e, serial |-> dlq[e]]
        BY <3>1, <4>1 DEF Letter
      <4>3. LetterIsStale(e)
        BY <3>1, <4>2 DEF LetterIsStale
      <4> QED
        BY <1>d, <2>a, <3>1, <4>3 DEF Unburied
    <3> QED
      BY <3>3, <3>4
  <2>6. ASSUME NEW r \in Replayers, ReplayFault(r)
        PROVE  Unburied(e)
    BY <1>b, <2>1, <2>6 DEF ReplayFault, ReplayDone
  <2> QED
    BY <1>3, <2>2, <2>3, <2>4, <2>5, <2>6 DEF ReplayNext, ReplayStep
<1>4. CASE IngestNext /\ UNCHANGED << dispatchVars, replayVars, crashes >>
  <2>1. AddsRow \/ UNCHANGED << status, dlq >>
    BY <1>4, IngestStructure
  <2>2. status[e] = "FAILED" /\ dlq'[e] = dlq[e]
    BY <1>a, <1>d, <2>1 DEF AddsRow
  <2> QED
    BY <1>1, <1>4, <2>2 DEF dispatchVars, replayVars, Buries
<1>5. CASE EndpointsNext /\ UNCHANGED << dispatchVars, replayVars, ingestVars, crashes >>
  <2>1. status[e] = "FAILED" /\ dlq'[e] = dlq[e]
    BY <1>5, <1>d, EndpointsStructure
  <2> QED
    BY <1>1, <1>5, <2>1 DEF dispatchVars, replayVars, Buries
<1> QED
  BY <1>2, <1>3, <1>4, <1>5 DEF Next, Crash, Shutdown

LEMMA RequeuersStep ==
  ASSUME StructureOK, Next, NEW w \in Workers, w \in Requeuers', ~DispatchFault(w)
  PROVE  w \in Requeuers /\ ~RequeueFault(w)
<1>a. /\ pc \in [Workers -> DispatchPc] /\ ev \in [Workers -> 0..MaxEvents]
      /\ status \in [EventIds -> EventStatus \cup {"NONE"}]
      /\ lastEvent \in 0..MaxEvents
      /\ RowsOK /\ WorkersOK
  BY Types DEF StructureOK
<1>b. pc'[w] = "requeue" /\ status'[ev'[w]] # "NONE"
  BY DEF Requeuers
<1>c. ~Restart
  BY <1>b DEF Restart
<1>d. ~RequeueFault(w)
  BY <1>a, <1>b DEF RequeueFault, Finish, Goto
<1> SUFFICES w \in Requeuers
  BY <1>d
<1>1. ASSUME pc[w] = "requeue", ev'[w] = ev[w], status[ev[w]] = "NONE" => status'[ev[w]] = "NONE"
      PROVE  w \in Requeuers
  BY <1>b, <1>1 DEF Requeuers
<1>2. CASE DispatchNext /\ UNCHANGED << replayVars, ingestVars, crashes >>
  <2>1. ASSUME NEW v \in Workers, WorkerStep(v) \/ WorkerFault(v)
        PROVE  v # w /\ pc'[w] = pc[w] /\ ev'[w] = ev[w]
    <3>1. CASE v # w
      BY <1>a, <2>1, <3>1
         DEF WorkerStep, WorkerFault, Wake, ClaimNextEvent, FindQueueEmpty, ClaimFault,
             Lookup, CountAttempts, CheckBreaker, Defer, Post, Reply, InsertAttempt,
             MarkDelivered, MarkRetry, MarkFailed, Bury, DispatchFault, Requeue,
             RequeueFault, Finish, Goto
    <3>2. CASE v = w
      <4>1. CASE Lookup(w) \/ InsertAttempt(w) \/ Bury(w)
        <5>1. status[ev[w]] = "NONE"
          BY <1>a, <1>b, <4>1 DEF Lookup, InsertAttempt, Bury, Finish, Goto, RowsOK, WorkersOK
        <5> QED
          BY <1>b, <4>1, <5>1 DEF Lookup, InsertAttempt, Bury, storeVars
      <4>2. CASE ~(Lookup(w) \/ InsertAttempt(w) \/ Bury(w))
        BY <1>a, <1>b, <2>1, <3>2, <4>2
           DEF WorkerStep, WorkerFault, Wake, ClaimNextEvent, FindQueueEmpty, ClaimFault,
               CountAttempts, CheckBreaker, Defer, Post, Reply, MarkDelivered, MarkRetry,
               MarkFailed, Requeue, RequeueFault, Finish, Goto
      <4> QED
        BY <4>1, <4>2
    <3> QED
      BY <3>1, <3>2
  <2>2. ASSUME NEW ep \in EndpointIds, RecoveryEnds(ep)
        PROVE  w \in Requeuers
    BY <1>1, <1>b, <2>2 DEF RecoveryEnds, storeVars
  <2>3. ASSUME NEW v \in Workers, WorkerStep(v) \/ WorkerFault(v)
        PROVE  w \in Requeuers
    <3>1. pc[w] = "requeue" /\ ev'[w] = ev[w] /\ ev[w] \in EventIds
      BY <1>a, <1>b, <2>1, <2>3 DEF WorkersOK
    <3>2. status[ev[w]] = "NONE" => status'[ev[w]] = "NONE"
      BY <1>2, <3>1, DispatchStructure DEF KeepsRows
    <3> QED
      BY <1>1, <3>1, <3>2
  <2> QED
    BY <1>2, <2>2, <2>3 DEF DispatchNext
<1>3. CASE \/ ReplayNext    /\ UNCHANGED << dispatchVars, ingestVars, crashes >>
           \/ IngestNext    /\ UNCHANGED << dispatchVars, replayVars, crashes >>
           \/ EndpointsNext /\ UNCHANGED << dispatchVars, replayVars, ingestVars, crashes >>
  <2>1. UNCHANGED << pc, ev >>
    BY <1>3 DEF dispatchVars
  <2>2. ev[w] \in EventIds /\ ev[w] <= lastEvent /\ pc[w] = "requeue"
    BY <1>a, <1>b, <2>1 DEF WorkersOK
  <2>3. CASE KeepsRows
    BY <1>1, <2>1, <2>2, <2>3 DEF KeepsRows
  <2>4. CASE ~KeepsRows
    <3>1. status[ev[w]] = "NONE" => status'[ev[w]] = "NONE"
      BY <1>3, <1>a, <2>2, <2>4, ReplayStructure, IngestStructure, EndpointsStructure
         DEF AddsRow
    <3> QED
      BY <1>1, <2>1, <2>2, <3>1
  <2> QED
    BY <2>3, <2>4
<1> QED
  BY <1>2, <1>3, <1>c DEF Next, Crash, Shutdown

(* One call fails at a time.                                               *)
LEMMA FaultKinds ==
  ASSUME StructureOK, Next, ~Restart
  PROVE  /\ crashes' = crashes
         /\ \/ /\ faults' >= faults
               /\ \A w \in Workers : ~RequeueFault(w) /\ ~DispatchFault(w)
            \/ \E w \in Workers :
                 /\ RequeueFault(w) \/ DispatchFault(w)
                 /\ faults' = faults + 1
                 /\ \A v \in Workers : v # w => ~RequeueFault(v) /\ ~DispatchFault(v)
<1>a. pc \in [Workers -> DispatchPc]
  BY Types
<1>1. crashes' = crashes
  BY DEF Next, Crash, Shutdown
<1>2. ASSUME NEW v \in Workers, NEW w \in Workers, v # w,
             RequeueFault(w) \/ DispatchFault(w)
      PROVE  ~RequeueFault(v) /\ ~DispatchFault(v)
  BY <1>a, <1>2 DEF RequeueFault, DispatchFault, Finish, Goto
<1>3. ASSUME NEW w \in Workers, RequeueFault(w) \/ DispatchFault(w)
      PROVE  faults' = faults + 1
  BY <1>3 DEF RequeueFault, DispatchFault, Fault
<1> QED
  BY <1>1, <1>2, <1>3, Monotone

LEMMA LossTypes ==
  /\ IsFiniteSet(Workers) /\ Cardinality(Workers) \in Nat
  /\ IsFiniteSet(EventIds)
  /\ \A S \in SUBSET EventIds : IsFiniteSet(S) /\ Cardinality(S) \in Nat
  /\ \A S \in SUBSET Workers : IsFiniteSet(S) /\ Cardinality(S) \in Nat
<1>1. IsFiniteSet(EventIds)
  BY StoreAssumption, FS_Interval DEF EventIds
<1>2. IsFiniteSet(Workers)
  BY RelayAssumption
<1> QED
  BY <1>1, <1>2, FS_Subset, FS_CardinalityType

LEMMA LossStep ==
  ASSUME StructureOK, LossesAreFew, Next
  PROVE  LossesAreFew'
<1> DEFINE D == Doomed
           R == Requeuers
           n == Cardinality(Workers) * crashes
<1>a. /\ D \in SUBSET EventIds /\ D' \in SUBSET EventIds
      /\ R \in SUBSET Workers /\ R' \in SUBSET Workers
  BY DEF Doomed, Requeuers
<1>b. /\ Cardinality(D) \in Nat /\ Cardinality(D') \in Nat
      /\ Cardinality(R) \in Nat /\ Cardinality(R') \in Nat
  BY <1>a, LossTypes
<1>c. faults \in Nat /\ crashes \in Nat /\ faults' \in Nat /\ crashes' \in Nat
  BY StructureStep, Types DEF StructureOK, TypeOK, StoreTypeOK
<1>d. n \in Nat
  BY <1>c, LossTypes
<1>e. 2 * Cardinality(D) + Cardinality(R) <= 2 * n + faults
  BY DEF LossesAreFew
<1>1. CASE ~Restart
  <2>a. n' = n
    BY <1>1, FaultKinds
  <2>1. ASSUME \A w \in Workers : ~RequeueFault(w)
        PROVE  D' \subseteq D
    BY <1>1, <2>1, UncarriedStep, UnburiedStep DEF Doomed
  <2>2. ASSUME \A w \in Workers : ~RequeueFault(w) /\ ~DispatchFault(w), faults' >= faults
        PROVE  LossesAreFew'
    <3>1. D' \subseteq D /\ R' \subseteq R
      BY <1>a, <2>1, <2>2, RequeuersStep
    <3>2. Cardinality(D') <= Cardinality(D) /\ Cardinality(R') <= Cardinality(R)
      BY <1>a, <3>1, LossTypes, FS_Subset
    <3> QED
      BY <1>b, <1>c, <1>d, <1>e, <2>a, <2>2, <3>2 DEF LossesAreFew
  <2>3. ASSUME NEW w \in Workers, DispatchFault(w), faults' = faults + 1,
               \A v \in Workers : v # w => ~RequeueFault(v) /\ ~DispatchFault(v)
        PROVE  LossesAreFew'
    <3>1. ~RequeueFault(w)
      BY <2>3 DEF RequeueFault, DispatchFault
    <3>2. D' \subseteq D /\ R' \subseteq R \cup {w}
      BY <1>a, <2>1, <2>3, <3>1, RequeuersStep
    <3>3. Cardinality(D') <= Cardinality(D)
      BY <1>a, <3>2, LossTypes, FS_Subset
    <3>4. Cardinality(R') <= Cardinality(R) + 1
      <4>1. R \cup {w} \in SUBSET Workers
        BY <1>a
      <4>2. Cardinality(R \cup {w}) <= Cardinality(R) + 1
        BY <1>a, <1>b, LossTypes, FS_AddElement
      <4>3. Cardinality(R') <= Cardinality(R \cup {w})
        BY <3>2, <4>1, LossTypes, FS_Subset
      <4> QED
        BY <1>b, <4>1, <4>2, <4>3, LossTypes
    <3> QED
      BY <1>b, <1>c, <1>d, <1>e, <2>a, <2>3, <3>3, <3>4 DEF LossesAreFew
  <2>4. ASSUME NEW w \in Workers, RequeueFault(w), faults' = faults + 1,
               \A v \in Workers : v # w => ~RequeueFault(v) /\ ~DispatchFault(v)
        PROVE  LossesAreFew'
    <3>1. ~DispatchFault(w)
      BY <2>4 DEF RequeueFault, DispatchFault
    <3>2. R' \subseteq R \ {w}
      BY <1>a, <2>4, <3>1, RequeuersStep
    <3>3. D' \subseteq D \cup {ev[w]}
      BY <1>1, <2>4, UncarriedStep, UnburiedStep DEF Doomed
    <3>4. CASE status[ev[w]] = "NONE"
      <4>1. D' \subseteq D
        <5>1. status'[ev[w]] = "NONE"
          BY <2>4, <3>4 DEF RequeueFault
        <5>2. ev[w] \notin D'
          BY <5>1 DEF Doomed, Uncarried, Unburied
        <5> QED
          BY <3>3, <5>2
      <4>2. Cardinality(D') <= Cardinality(D) /\ Cardinality(R') <= Cardinality(R)
        BY <1>a, <3>2, <4>1, LossTypes, FS_Subset
      <4> QED
        BY <1>b, <1>c, <1>d, <1>e, <2>a, <2>4, <4>2 DEF LossesAreFew
    <3>5. CASE status[ev[w]] # "NONE"
      <4>1. w \in R
        BY <2>4, <3>5 DEF RequeueFault, Requeuers
      <4>2. Cardinality(R') <= Cardinality(R) - 1
        <5>1. Cardinality(R \ {w}) = Cardinality(R) - 1
          BY <1>a, <4>1, LossTypes, FS_RemoveElement
        <5>2. Cardinality(R') <= Cardinality(R \ {w})
          BY <1>a, <3>2, LossTypes, FS_Subset
        <5> QED
          BY <1>b, <5>1, <5>2
      <4>3. Cardinality(D') <= Cardinality(D) + 1
        <5>a. IsFiniteSet(D)
          BY <1>a, LossTypes
        <5>b. /\ IsFiniteSet(D \cup {ev[w]})
              /\ \/ Cardinality(D \cup {ev[w]}) = Cardinality(D)
                 \/ Cardinality(D \cup {ev[w]}) = Cardinality(D) + 1
          BY <5>a, FS_AddElement
        <5>1. IsFiniteSet(D \cup {ev[w]}) /\ Cardinality(D \cup {ev[w]}) <= Cardinality(D) + 1
          BY <1>b, <5>b
        <5>2. Cardinality(D') <= Cardinality(D \cup {ev[w]})
          BY <3>3, <5>1, FS_Subset
        <5>3. Cardinality(D \cup {ev[w]}) \in Nat
          BY <5>1, FS_CardinalityType
        <5> QED
          BY <1>b, <5>1, <5>2, <5>3
      <4> QED
        BY <1>b, <1>c, <1>d, <1>e, <2>a, <2>4, <4>2, <4>3 DEF LossesAreFew
    <3> QED
      BY <3>4, <3>5
  <2> QED
    BY <1>1, <2>2, <2>3, <2>4, FaultKinds
(* Each newly doomed event was some worker's, and each worker had one.     *)
<1>2. CASE Restart
  <2> DEFINE N == D' \ D
             Had(e) == CHOOSE w \in Workers : ev[w] = e
             f == [e \in N |-> Had(e)]
  <2>1. ASSUME NEW e \in N
        PROVE  \E w \in Workers : ev[w] = e
    <3>1. /\ status' = status /\ dlq' = dlq
          /\ \A r \in Replayers : rpc'[r] = "idle"
      BY <1>2 DEF Restart, storeVars
    <3>2. ~LetterIsStale(e)'
      BY <3>1 DEF LetterIsStale
    <3>3. ~Uncarried(e) /\ ~Unburied(e) /\ (Uncarried(e)' \/ Unburied(e)')
      BY <2>1 DEF Doomed
    <3> QED
      BY <3>1, <3>2, <3>3 DEF Uncarried, Unburied, Carries, Buries
  <2>2. \A e \in N : f[e] \in Workers /\ ev[f[e]] = e
    BY <2>1
  <2>3. f \in Injection(N, Workers)
    BY <2>2 DEF Injection, IsInjective
  <2>4. IsFiniteSet(N) /\ Cardinality(N) <= Cardinality(Workers)
    BY <2>3, LossTypes, FS_Injection
  <2>5. Cardinality(D') <= Cardinality(D) + Cardinality(Workers)
    <3>1. Cardinality(N) \in Nat /\ Cardinality(D \cap N) \in Nat
      BY <1>a, <2>4, FS_CardinalityType, LossTypes
    <3>2. /\ IsFiniteSet(D \cup N)
          /\ Cardinality(D \cup N) = Cardinality(D) + Cardinality(N) - Cardinality(D \cap N)
      BY <1>a, <2>4, LossTypes, FS_Union
    <3>3. Cardinality(D') <= Cardinality(D \cup N)
      BY <3>2, FS_Subset
    <3> QED
      BY <1>b, <2>4, <3>1, <3>2, <3>3, LossTypes
  <2>6. Cardinality(R') = 0
    BY <1>2, FS_EmptySet DEF Restart, Requeuers
  <2>7. n' = n + Cardinality(Workers)
    BY <1>2, <1>c, LossTypes DEF Restart
  <2>8. faults' = faults
    BY <1>2 DEF Restart, storeVars
  <2> QED
    BY <1>b, <1>c, <1>d, <1>e, <2>5, <2>6, <2>7, <2>8, LossTypes DEF LossesAreFew
<1> QED
  BY <1>1, <1>2

(* While at most one call has failed, nobody is doomed.                    *)
LEMMA NobodyIsDoomed ==
  ASSUME StructureOK, LossesAreFew, AtMostOneFault
  PROVE  Doomed = {}
<1>1. Doomed \in SUBSET EventIds /\ Requeuers \in SUBSET Workers
  BY DEF Doomed, Requeuers
<1>2. /\ Cardinality(Doomed) \in Nat /\ Cardinality(Requeuers) \in Nat
      /\ Cardinality(Workers) \in Nat /\ IsFiniteSet(Doomed)
  BY <1>1, LossTypes
<1>3. Cardinality(Workers) * crashes = 0 /\ faults \in Nat /\ faults < 2
  BY <1>2, Types DEF AtMostOneFault
<1>4. Cardinality(Doomed) = 0
  BY <1>2, <1>3 DEF LossesAreFew
<1> QED
  BY <1>2, <1>4, FS_EmptySet

-----------------------------------------------------------------------------
(* Probe slots.                                                            *)

LEMMA ProbeStep ==
  ASSUME StructureOK, ProbeIsOwned, Next
  PROVE  ProbeIsOwned'
<1>a. /\ pc \in [Workers -> DispatchPc] /\ ev \in [Workers -> 0..MaxEvents]
      /\ breakers \in [EndpointIds -> Breaker]
      /\ lastEvent \in 0..MaxEvents
      /\ WorkersOK
  BY Types DEF StructureOK
<1>b. \A w \in Workers : pc[w] \in {"post", "await"} => ev[w] \in 1 .. lastEvent
  BY <1>a DEF WorkersOK, EventIds
<1>1. CASE DispatchNext /\ UNCHANGED << replayVars, ingestVars, crashes >>
  <2>a. endpointOf' = endpointOf
    BY <1>1, DispatchStructure DEF KeepsRows, intakeVars
  (* Steps outside the request to the target.                              *)
  <2>1. ASSUME NEW w \in Workers, NEW l, pc' = [pc EXCEPT ![w] = l],
               UNCHANGED << ev, breakers >>,
               pc[w] \notin {"post", "await"} \/ l \in {"post", "await"}
        PROVE  ProbeIsOwned'
    BY <1>a, <2>a, <2>1 DEF ProbeIsOwned
  <2>2. ASSUME NEW w \in Workers, NEW e \in EventIds, ClaimNextEvent(w, e)
        PROVE  ProbeIsOwned'
    BY <1>a, <2>a, <2>2 DEF ClaimNextEvent, Goto, ProbeIsOwned
  (* The slot is taken on the way to the request...                        *)
  <2>3. ASSUME NEW w \in Workers, CheckBreaker(w)
        PROVE  ProbeIsOwned'
    <3> DEFINE p == endpointOf[ev[w]]
    <3>1. /\ pc[w] = "admit" /\ ev' = ev
          /\ breakers' = [breakers EXCEPT ![p] = AfterCanAttempt(@)]
          /\ pc' = [pc EXCEPT ![w] = IF CanAttempt(breakers[p])
                                     THEN "post" ELSE "defer"]
      BY <2>3 DEF CheckBreaker, Goto
    <3>2. \A v \in Workers : pc[v] \in {"post", "await"} => pc'[v] = pc[v]
      BY <1>a, <3>1
    <3>3. ASSUME NEW ep \in EndpointIds, breakers'[ep].probe_in_flight
          PROVE  breakers[ep].probe_in_flight \/ (ep = p /\ pc'[w] = "post")
      <4>1. CASE ep # p
        BY <1>a, <3>1, <3>3, <4>1
      <4>2. CASE ep = p
        <5>1. breakers'[ep] = AfterCanAttempt(breakers[ep])
          BY <1>a, <3>1, <4>2
        <5>2. breakers[ep].probe_in_flight \/ CanAttempt(breakers[ep])
          BY <3>3, <5>1, <1>a DEF AfterCanAttempt, CanAttempt, Observed, Breaker
        <5> QED
          BY <1>a, <3>1, <4>2, <5>2
      <4> QED
        BY <4>1, <4>2
    <3> QED
      BY <1>a, <2>a, <3>1, <3>2, <3>3 DEF ProbeIsOwned
  (* ... and freed with its answer.                                        *)
  <2>4. ASSUME NEW w \in Workers, NEW ok \in BOOLEAN, Reply(w, ok)
        PROVE  ProbeIsOwned'
    <3> DEFINE p == endpointOf[ev[w]]
    <3>1. /\ pc' = [pc EXCEPT ![w] = "insert"] /\ ev' = ev
          /\ breakers' = [breakers EXCEPT ![p] = IF ok THEN RecordSuccess(@)
                                                       ELSE RecordFailure(@)]
      BY <2>4 DEF Reply, Goto
    <3>2. ASSUME NEW ep \in EndpointIds, breakers'[ep].probe_in_flight
          PROVE  ep # p /\ breakers[ep].probe_in_flight
      <4>1. CASE ep = p
        <5>1. ~RecordSuccess(breakers[ep]).probe_in_flight
          BY <1>a DEF RecordSuccess, Breaker
        <5>2. ~RecordFailure(breakers[ep]).probe_in_flight
          BY <1>a DEF RecordFailure, Breaker
        <5> QED
          BY <1>a, <3>1, <3>2, <4>1, <5>1, <5>2
      <4>2. CASE ep # p
        BY <1>a, <3>1, <3>2, <4>2
      <4> QED
        BY <4>1, <4>2
    <3> QED
      BY <1>a, <2>a, <3>1, <3>2 DEF ProbeIsOwned
  <2>5. ASSUME NEW w \in Workers, WorkerStep(w)
        PROVE  ProbeIsOwned'
    <3>1. CASE Wake(w) \/ FindQueueEmpty(w) \/ Lookup(w) \/ CountAttempts(w)
      BY <2>1, <3>1
         DEF Wake, FindQueueEmpty, Lookup, CountAttempts, Finish, Goto
    <3>2. CASE Post(w) \/ InsertAttempt(w) \/ MarkFailed(w) \/ Bury(w)
      BY <2>1, <3>2 DEF Post, InsertAttempt, MarkFailed, Bury, Finish, Goto
    <3>3. CASE Defer(w) \/ MarkRetry(w) \/ Requeue(w) \/ MarkDelivered(w)
      BY <2>1, <3>3 DEF Defer, MarkRetry, Requeue, MarkDelivered, Finish, Goto
    <3> QED
      BY <2>2, <2>3, <2>4, <2>5, <3>1, <3>2, <3>3 DEF WorkerStep
  <2>6. ASSUME NEW w \in Workers, WorkerFault(w)
        PROVE  ProbeIsOwned'
    BY <2>1, <2>6
       DEF WorkerFault, ClaimFault, DispatchFault, RequeueFault, Finish, Goto
  <2>7. ASSUME NEW q \in EndpointIds, RecoveryEnds(q)
        PROVE  ProbeIsOwned'
    <3>1. breakers' = [breakers EXCEPT ![q] = RecoveryElapses(@)]
      BY <2>7 DEF RecoveryEnds
    <3>2. \A ep \in EndpointIds :
            breakers'[ep].probe_in_flight = breakers[ep].probe_in_flight
      BY <1>a, <3>1 DEF RecoveryElapses, Breaker
    <3> QED
      BY <2>a, <2>7, <3>2 DEF RecoveryEnds, ProbeIsOwned
  <2> QED
    BY <1>1, <2>5, <2>6, <2>7 DEF DispatchNext
<1>2. ASSUME UNCHANGED << pc, ev, breakers >>,
             \A e \in 1 .. lastEvent : endpointOf'[e] = endpointOf[e]
      PROVE  ProbeIsOwned'
  BY <1>b, <1>2 DEF ProbeIsOwned
<1>3. CASE ReplayNext /\ UNCHANGED << dispatchVars, ingestVars, crashes >>
  <2>1. endpointOf' = endpointOf
    BY <1>3, ReplayStructure DEF KeepsRows, intakeVars
  <2> QED
    BY <1>2, <1>3, <2>1 DEF dispatchVars
<1>4. CASE IngestNext /\ UNCHANGED << dispatchVars, replayVars, crashes >>
  <2>1. \A e \in 1 .. lastEvent : endpointOf'[e] = endpointOf[e]
    BY <1>4, IngestStructure DEF AddsRow, intakeVars
  <2> QED
    BY <1>2, <1>4, <2>1 DEF dispatchVars
<1>5. CASE EndpointsNext /\ UNCHANGED << dispatchVars, replayVars, ingestVars, crashes >>
  <2>1. endpointOf' = endpointOf
    BY <1>5, EndpointsStructure
  <2> QED
    BY <1>2, <1>5, <2>1 DEF dispatchVars
<1>6. CASE Restart
  <2>1. breakers' = [ep \in EndpointIds |-> NewBreaker]
    BY <1>6 DEF Restart
  <2> QED
    BY <2>1 DEF ProbeIsOwned, NewBreaker
<1> QED
  BY <1>1, <1>3, <1>4, <1>5, <1>6 DEF Next, Crash, Shutdown

-----------------------------------------------------------------------------
(* The theorems.                                                           *)

LEMMA IndInvInit == Init => IndInv
<1>1. ASSUME Init
      PROVE  LossesAreFew
  <2>1. Doomed = {} /\ Requeuers = {}
    BY <1>1
       DEF Init, StoreInit, DispatchInit, Doomed, Uncarried, Unburied, Requeuers
  <2>2. Cardinality(Doomed) = 0 /\ Cardinality(Requeuers) = 0
    BY <2>1, FS_EmptySet
  <2>3. crashes = 0 /\ faults = 0
    BY <1>1 DEF Init, StoreInit
  <2> QED
    BY <2>2, <2>3, LossTypes DEF LossesAreFew
<1>2. ASSUME Init
      PROVE  ProbeIsOwned
  BY <1>2 DEF Init, DispatchInit, ProbeIsOwned, NewBreaker
<1> QED
  BY <1>1, <1>2, StructureInit DEF IndInv

LEMMA IndInvStep ==
  ASSUME IndInv, [Next]_vars
  PROVE  IndInv'
<1>1. CASE Next
  BY <1>1, StructureStep, LossStep, ProbeStep DEF IndInv
<1>2. CASE UNCHANGED vars
  <2>1. StructureOK'
    BY <1>2, StructureStep DEF IndInv
  <2>2. UNCHANGED << status, faults, pc, ev, breakers, dlq, rpc, letter, crashes, endpointOf >>
    BY <1>2 DEF vars, storeVars, intakeVars, dispatchVars, replayVars
  <2>3. UNCHANGED << Doomed, Requeuers >>
    BY <2>2 DEF Doomed, Requeuers, Uncarried, Unburied, Carries, Buries, LetterIsStale
  <2> QED
    BY <2>1, <2>2, <2>3 DEF IndInv, LossesAreFew, ProbeIsOwned
<1> QED
  BY <1>1, <1>2

(* The inductive invariant holds in every reachable state.                 *)
THEOREM Invariance == Spec => []IndInv
BY IndInvInit, IndInvStep, PTL DEF Spec

LEMMA IndInvCarries == IndInv => ProcessingIsCarried
BY NobodyIsDoomed DEF IndInv, ProcessingIsCarried, Doomed

(* A restart loses at most one event per worker, and it takes two failing  *)
(* calls to lose another: what remains of the promise of dispatcher.rs:21  *)
(* and README.md:94, for any number of workers, replays, faults and        *)
(* restarts.                                                               *)
THEOREM LossesAreBounded == Spec => []LossIsBounded
<1>1. ASSUME IndInv
      PROVE  LossIsBounded
  <2> DEFINE L == {e \in EventIds : IsLost(e)}
             n == Cardinality(Workers) * crashes
  <2>1. L \subseteq Doomed
    BY DEF IsLost, Stranded, Unreplayable, Holds, Doomed, Uncarried, Unburied, Carries, Buries
  <2>2. Doomed \in SUBSET EventIds /\ Requeuers \in SUBSET Workers
    BY DEF Doomed, Requeuers
  <2>3. Cardinality(L) <= Cardinality(Doomed)
    BY <2>1, <2>2, LossTypes, FS_Subset
  <2>4. /\ Cardinality(L) \in Nat /\ Cardinality(Doomed) \in Nat
        /\ Cardinality(Requeuers) \in Nat
    BY <2>2, LossTypes
  <2>5. faults \in Nat /\ n \in Nat
    BY <1>1, Types, LossTypes DEF IndInv
  <2>6. 2 * Cardinality(Doomed) + Cardinality(Requeuers) <= 2 * n + faults
    BY <1>1 DEF IndInv, LossesAreFew
  <2>7. Cardinality(L) <= n + (faults \div 2)
    BY <2>3, <2>4, <2>5, <2>6
  <2> QED
    BY <2>7 DEF LossIsBounded
<1> QED
  BY <1>1, Invariance, PTL

(* While the process lives and at most one database call has failed, every *)
(* PROCESSING event is in the hands of a worker: the promise of            *)
(* dispatcher.rs:21, for any number of workers, replays and endpoints.     *)
THEOREM NothingStranded == Spec => []NoStrandedEvent
<1>1. IndInv => NoStrandedEvent
  BY IndInvCarries DEF ProcessingIsCarried, NoStrandedEvent, Stranded, Holds, Uncarried, Carries
<1> QED
  BY <1>1, Invariance, PTL

(* While the process lives and at most one database call has failed, every *)
(* FAILED event has a dead letter, or a worker that is about to write it:  *)
(* no interleaving of replays and dead-lettering loses the last letter.    *)
THEOREM FailedStaysReplayable == Spec => []FailedIsReplayable
<1>1. IndInv => FailedIsReplayable
  BY NobodyIsDoomed DEF IndInv, Doomed, Unburied, Buries, FailedIsReplayable, Unreplayable
<1> QED
  BY <1>1, Invariance, PTL

(* No path through the dispatcher leaves a breaker's probe slot taken.     *)
THEOREM ProbesAreOwned == Spec => []ProbeIsOwned
<1>1. IndInv => ProbeIsOwned
  BY DEF IndInv
<1> QED
  BY <1>1, Invariance, PTL
=============================================================================
