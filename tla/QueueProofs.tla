----------------------------- MODULE QueueProofs -----------------------------
(***************************************************************************)
(* The relay is a queue, with one replay at a time and nothing failing:    *)
(* proved for every number of endpoints, keys, events, attempts, replays   *)
(* and requests in flight.                                                 *)
(***************************************************************************)
EXTENDS RelayRefinement, IntakeProofs

LEMMA QueueTypes ==
  ASSUME StructureOK
  PROVE  /\ pc \in [Workers -> DispatchPc]
         /\ ev \in [Workers -> 0..MaxEvents]
         /\ status \in [EventIds -> EventStatus \cup {"NONE"}]
         /\ dlq \in [EventIds -> Nat]
         /\ dlqSeq \in [EventIds -> Nat]
         /\ lastEvent \in 0..MaxEvents
         /\ rpc \in [Replayers -> {"idle", "update", "clear", "remove"}]
         /\ letter \in [Replayers -> Letter]
         /\ \A w \in Workers :
              pc[w] \notin {"claim", "sleep"} => ev[w] \in EventIds /\ ev[w] <= lastEvent
         /\ \A r \in Replayers :
              rpc[r] # "idle" =>
                /\ letter[r].event \in EventIds
                /\ letter[r].serial \in 1 .. dlqSeq[letter[r].event]
BY DEF StructureOK, TypeOK, StoreTypeOK, DispatchTypeOK, ReplayTypeOK, WorkersOK, ReplayersOK

(* The conjuncts of QueueInv, where it says something.                     *)
Orderly == HandsOK /\ NoRowNoLetter /\ ReplayIsTimely /\ OldLettersGo

-----------------------------------------------------------------------------
(* What a worker does to the queue.                                        *)

Moves(w) ==
  /\ UNCHANGED << intakeVars, ev, status, dlq >>
  /\ \E l : /\ pc' = [pc EXCEPT ![w] = l]
            /\ \/ l \in {"claim", "sleep"}
               \/ pc[w] \in Delivering /\ l \in Delivering
               \/ l = "requeue" /\ pc[w] = "bury" /\ status[ev[w]] = "NONE"

LetsGo(w) ==
  /\ pc[w] \in Delivering
  /\ UNCHANGED << intakeVars, ev, dlq >>
  /\ \E l \in {"claim", "sleep"}, s \in {"RECEIVED", "DELIVERED"} :
       /\ pc' = [pc EXCEPT ![w] = l]
       /\ status' = [status EXCEPT ![ev[w]] = s]

GivesUp(w) ==
  /\ pc[w] \in Delivering
  /\ UNCHANGED << intakeVars, ev, dlq >>
  /\ pc' = [pc EXCEPT ![w] = "bury"]
  /\ status' = [status EXCEPT ![ev[w]] = "FAILED"]

Takes(w) ==
  /\ pc[w] = "claim"
  /\ UNCHANGED << intakeVars, dlq >>
  /\ \E e \in EventIds :
       /\ IsOldestReceived(e)
       /\ pc' = [pc EXCEPT ![w] = "lookup"]
       /\ ev' = [ev EXCEPT ![w] = e]
       /\ status' = [status EXCEPT ![e] = "PROCESSING"]

WritesLetter(w) ==
  /\ pc[w] = "bury" /\ status[ev[w]] = "FAILED"
  /\ UNCHANGED << intakeVars, ev, status >>
  /\ pc' = [pc EXCEPT ![w] = "claim"]
  /\ dlq' = [dlq EXCEPT ![ev[w]] = dlqSeq[ev[w]] + 1]

LEMMA WorkerKinds ==
  ASSUME StructureOK, HandsOK, NEW w \in Workers, WorkerStep(w)
  PROVE  Moves(w) \/ LetsGo(w) \/ GivesUp(w) \/ Takes(w) \/ WritesLetter(w)
<1> USE QueueTypes
<1>a. /\ pc[w] \in Delivering => status[ev[w]] = "PROCESSING"
      /\ pc[w] = "bury" => status[ev[w]] \in {"FAILED", "NONE"}
      /\ pc[w] = "requeue" => status[ev[w]] = "NONE"
  BY DEF HandsOK
<1>1. CASE Wake(w) \/ FindQueueEmpty(w)
  BY <1>1 DEF Wake, FindQueueEmpty, Finish, Goto, Moves, storeVars
<1>2. CASE \E e \in EventIds : ClaimNextEvent(w, e)
  BY <1>2 DEF ClaimNextEvent, Goto, Takes, SetStatus, IsOldestReceived
<1>3. CASE Lookup(w)
  <2>1. pc[w] = "lookup" /\ ev[w] \in EventIds
    BY <1>3 DEF Lookup
  <2>2. status[ev[w]] # "NONE" /\ endpoints[endpointOf[ev[w]]] = "live"
    BY <1>a, <2>1 DEF Delivering, StructureOK, RowsOK
  <2> QED
    BY <1>3, <2>1, <2>2 DEF Lookup, Goto, Moves, Delivering, storeVars
<1>4. CASE CountAttempts(w) \/ CheckBreaker(w) \/ Post(w) \/ \E ok \in BOOLEAN : Reply(w, ok)
  BY <1>4 DEF CountAttempts, CheckBreaker, Post, Reply, Goto, Moves, Delivering, storeVars
<1>5. CASE InsertAttempt(w)
  BY <1>5, <1>a DEF InsertAttempt, Goto, Moves, Delivering
<1>6. CASE Defer(w) \/ MarkRetry(w) \/ MarkDelivered(w)
  <2>1. pc[w] \in Delivering
    BY <1>6 DEF Defer, MarkRetry, MarkDelivered, Delivering
  <2>2. PICK s \in {"RECEIVED", "DELIVERED"} : SetStatus(ev[w], s)
    BY <1>6 DEF Defer, MarkRetry, MarkDelivered
  <2>3. status' = [status EXCEPT ![ev[w]] = s]
    BY <1>a, <2>1, <2>2 DEF SetStatus
  <2>4. PICK l \in {"claim", "sleep"} : pc' = [pc EXCEPT ![w] = l]
    BY <1>6 DEF Defer, MarkRetry, MarkDelivered, Finish, Goto
  <2>5. UNCHANGED << intakeVars, ev, dlq >>
    BY <1>6 DEF Defer, MarkRetry, MarkDelivered
  <2> QED
    BY <2>1, <2>3, <2>4, <2>5 DEF LetsGo
<1>7. CASE MarkFailed(w)
  BY <1>7, <1>a DEF MarkFailed, SetStatus, Goto, GivesUp, Delivering
<1>8. CASE Bury(w)
  BY <1>8, <1>a DEF Bury, Finish, Goto, Moves, WritesLetter
<1>9. CASE Requeue(w)
  <2>1. status' = status
    BY <1>9, <1>a DEF Requeue, SetStatus
  <2> QED
    BY <1>9, <2>1 DEF Requeue, Finish, Goto, Moves
<1> QED
  BY <1>1, <1>2, <1>3, <1>4, <1>5, <1>6, <1>7, <1>8, <1>9 DEF WorkerStep

LEMMA WorkerKeepsOrder ==
  ASSUME StructureOK, Orderly, NEW w \in Workers, WorkerStep(w),
         UNCHANGED << rpc, letter >>
  PROVE  Orderly'
<1> USE QueueTypes DEF Orderly
<1>a. lastEvent' = lastEvent
  BY WorkerKinds
     DEF Moves, LetsGo, GivesUp, Takes, WritesLetter, intakeVars
<1>b. \A r \in Replayers : rpc[r] # "idle" => letter[r].event <= lastEvent
  BY DEF ReplayIsTimely
<1>1. CASE Moves(w)
  <2>1. PICK l : /\ pc' = [pc EXCEPT ![w] = l]
                 /\ \/ l \in {"claim", "sleep"}
                    \/ pc[w] \in Delivering /\ l \in Delivering
                    \/ l = "requeue" /\ pc[w] = "bury" /\ status[ev[w]] = "NONE"
    BY <1>1 DEF Moves
  <2>2. UNCHANGED << ev, status, dlq >>
    BY <1>1 DEF Moves
  <2>3. HandsOK'
    BY <2>1, <2>2 DEF HandsOK, Settling, Delivering
  <2>4. NoRowNoLetter'
    BY <2>2 DEF NoRowNoLetter
  <2>5. \A e : AtBury(e)' => AtBury(e)
    BY <2>1, <2>2 DEF AtBury, Delivering
  <2>6. ReplayIsTimely'
    BY <1>a, <2>2, <2>5 DEF ReplayIsTimely
  <2>7. OldLettersGo'
    BY <2>2, <2>5 DEF OldLettersGo
  <2> QED
    BY <2>3, <2>4, <2>6, <2>7
<1>2. CASE LetsGo(w) \/ GivesUp(w)
  <2>1. PICK l \in {"claim", "sleep", "bury"}, s \in {"RECEIVED", "DELIVERED", "FAILED"} :
          /\ pc' = [pc EXCEPT ![w] = l]
          /\ status' = [status EXCEPT ![ev[w]] = s]
          /\ l = "bury" => s = "FAILED"
    BY <1>2 DEF LetsGo, GivesUp
  <2>2. UNCHANGED << ev, dlq >> /\ pc[w] \in Delivering
    BY <1>2 DEF LetsGo, GivesUp
  <2>3. ev[w] \in EventIds /\ status[ev[w]] = "PROCESSING"
    BY <2>2 DEF HandsOK, Delivering
  <2>4. \A v \in Workers : v # w /\ pc[v] \in Settling => ev[v] # ev[w]
    BY <2>2 DEF HandsOK, Settling
  <2>5. HandsOK'
    <3>1. \A v \in Workers : v # w => pc'[v] = pc[v] /\ ev'[v] = ev[v]
      BY <2>1, <2>2
    <3>2. ASSUME NEW v \in Workers
          PROVE  /\ pc'[v] \in Delivering => status'[ev'[v]] = "PROCESSING"
                 /\ pc'[v] = "bury" => status'[ev'[v]] \in {"FAILED", "NONE"}
                 /\ pc'[v] = "requeue" => status'[ev'[v]] = "NONE"
      BY <2>1, <2>2, <2>3, <2>4, <3>1 DEF HandsOK, Settling, Delivering
    <3>3. ASSUME NEW v \in Workers, NEW u \in Workers,
                 pc'[v] \in Settling, pc'[u] \in Settling, ev'[u] = ev'[v]
          PROVE  u = v
      BY <2>1, <2>2, <2>4, <3>1, <3>3 DEF HandsOK, Settling, Delivering
    <3> QED
      BY <3>2, <3>3 DEF HandsOK
  <2>6. NoRowNoLetter'
    BY <2>1, <2>2, <2>3 DEF NoRowNoLetter
  <2>7. \A e \in EventIds : e # ev[w] => (AtBury(e)' => AtBury(e)) /\ status'[e] = status[e]
    BY <2>1, <2>2, <2>3 DEF AtBury
  <2>8. \A r \in Replayers : rpc[r] = "update" /\ status[letter[r].event] # "NONE" => letter[r].event # ev[w]
    BY <2>3 DEF ReplayIsTimely
  <2>9. ReplayIsTimely'
    BY <1>a, <1>b, <2>1, <2>2, <2>3, <2>7, <2>8 DEF ReplayIsTimely
  <2>10. OldLettersGo'
    BY <2>2, <2>3, <2>7 DEF OldLettersGo
  <2> QED
    BY <2>5, <2>6, <2>9, <2>10
<1>3. CASE Takes(w)
  <2>1. PICK e \in EventIds : /\ status[e] = "RECEIVED"
                              /\ pc' = [pc EXCEPT ![w] = "lookup"]
                              /\ ev' = [ev EXCEPT ![w] = e]
                              /\ status' = [status EXCEPT ![e] = "PROCESSING"]
    BY <1>3 DEF Takes, IsOldestReceived
  <2>2. dlq' = dlq /\ pc[w] = "claim"
    BY <1>3 DEF Takes
  <2>3. \A v \in Workers : pc[v] \in Settling \cup {"requeue"} => ev[v] # e
    BY <2>1 DEF HandsOK, Settling
  <2>4. HandsOK'
    <3>1. \A v \in Workers : v # w => pc'[v] = pc[v] /\ ev'[v] = ev[v]
      BY <2>1
    <3>2. pc'[w] = "lookup" /\ ev'[w] = e
      BY <2>1
    <3>3. ASSUME NEW v \in Workers
          PROVE  /\ pc'[v] \in Delivering => status'[ev'[v]] = "PROCESSING"
                 /\ pc'[v] = "bury" => status'[ev'[v]] \in {"FAILED", "NONE"}
                 /\ pc'[v] = "requeue" => status'[ev'[v]] = "NONE"
      BY <2>1, <2>3, <3>1, <3>2 DEF HandsOK, Settling, Delivering
    <3>4. ASSUME NEW v \in Workers, NEW u \in Workers,
                 pc'[v] \in Settling, pc'[u] \in Settling, ev'[u] = ev'[v]
          PROVE  u = v
      BY <2>3, <3>1, <3>2, <3>4 DEF HandsOK
    <3> QED
      BY <3>3, <3>4 DEF HandsOK
  <2>5. NoRowNoLetter'
    BY <2>1, <2>2 DEF NoRowNoLetter
  <2>6. \A f \in EventIds : /\ AtBury(f)' => AtBury(f)
                            /\ f # e => status'[f] = status[f]
    BY <2>1 DEF AtBury
  <2>7. ReplayIsTimely'
    BY <1>a, <1>b, <2>1, <2>2, <2>6 DEF ReplayIsTimely
  <2>8. OldLettersGo'
    BY <2>1, <2>2, <2>6 DEF OldLettersGo
  <2> QED
    BY <2>4, <2>5, <2>7, <2>8
<1>4. CASE WritesLetter(w)
  <2>1. /\ pc[w] = "bury" /\ status[ev[w]] = "FAILED" /\ ev[w] \in EventIds
        /\ UNCHANGED << ev, status >>
        /\ pc' = [pc EXCEPT ![w] = "claim"]
        /\ dlq' = [dlq EXCEPT ![ev[w]] = dlqSeq[ev[w]] + 1]
    BY <1>4 DEF WritesLetter
  <2>2. HandsOK'
    BY <2>1 DEF HandsOK, Settling, Delivering
  <2>3. NoRowNoLetter'
    BY <2>1 DEF NoRowNoLetter
  <2>4. \A e \in EventIds : e # ev[w] => (AtBury(e)' => AtBury(e)) /\ dlq'[e] = dlq[e]
    BY <2>1 DEF AtBury
  <2>5. ~AtBury(ev[w])'
    BY <2>1, <2>2 DEF AtBury, HandsOK, Settling
  <2>6. \A r \in Replayers : rpc[r] = "update" => letter[r].event # ev[w]
    BY <2>1 DEF ReplayIsTimely, AtBury
  <2>7. ReplayIsTimely'
    BY <1>a, <1>b, <2>1, <2>4, <2>6 DEF ReplayIsTimely
  <2>8. OldLettersGo'
    BY <2>1, <2>4, <2>5 DEF OldLettersGo
  <2> QED
    BY <2>2, <2>3, <2>7, <2>8
<1> QED
  BY <1>1, <1>2, <1>3, <1>4, WorkerKinds

-----------------------------------------------------------------------------
(* What a replay, a new event and a delete do to it.                       *)

LEMMA ReplayKeepsOrder ==
  ASSUME StructureOK, SoleReplayer, Orderly, ReplayNext, faults' = faults,
         UNCHANGED dispatchVars
  PROVE  /\ Orderly'
         /\ UNCHANGED intakeVars
         /\ \/ status' = status
            \/ \E e \in EventIds :
                 status[e] = "FAILED" /\ status' = [status EXCEPT ![e] = "RECEIVED"]
<1> USE QueueTypes DEF Orderly
<1>a. /\ UNCHANGED << pc, ev >>
      /\ \A e : AtBury(e)' <=> AtBury(e)
  BY DEF dispatchVars, AtBury
<1>b. UNCHANGED intakeVars /\ lastEvent' = lastEvent
  BY DEF ReplayNext, ReplayStep, ReplaySelect, ReplayUpdate, ReplayClear, ReplayRemove,
         ReplayFault, storeVars, intakeVars
<1>1. ASSUME NEW r \in Replayers, NEW e \in EventIds, ReplaySelect(r, e)
      PROVE  Orderly' /\ status' = status
  <2>1. /\ UNCHANGED << status, dlq >> /\ rpc[r] = "idle" /\ dlq[e] # 0
        /\ rpc' = [rpc EXCEPT ![r] = "update"]
        /\ letter' = [letter EXCEPT ![r] = [event |-> e, serial |-> dlq[e]]]
    BY <1>1 DEF ReplaySelect, storeVars
  <2>2. \A q \in Replayers : q = r
    BY DEF SoleReplayer
  <2>3. \A f \in EventIds : dlq[f] # 0 => status[f] = "FAILED" /\ ~AtBury(f)
    BY <2>1, <2>2 DEF OldLettersGo
  <2>4. HandsOK' /\ NoRowNoLetter'
    BY <1>a, <2>1 DEF HandsOK, NoRowNoLetter
  <2>5. e <= lastEvent
    BY <2>1, <2>3 DEF StructureOK, RowsOK
  <2>6. letter'[r].event = e /\ letter'[r].serial = dlq[e]
    BY <2>1
  <2>7. ReplayIsTimely'
    BY <1>a, <1>b, <2>1, <2>2, <2>3, <2>5, <2>6 DEF ReplayIsTimely
  <2>8. OldLettersGo'
    BY <1>a, <2>1, <2>3 DEF OldLettersGo
  <2> QED
    BY <2>1, <2>4, <2>7, <2>8
<1>2. ASSUME NEW r \in Replayers, ReplayUpdate(r)
      PROVE  /\ Orderly'
             /\ \/ status' = status
                \/ \E e \in EventIds :
                     status[e] = "FAILED" /\ status' = [status EXCEPT ![e] = "RECEIVED"]
  <2> DEFINE e == letter[r].event
  <2>1. /\ e \in EventIds /\ rpc[r] = "update"
        /\ UNCHANGED << dlq, letter >> /\ rpc' = [rpc EXCEPT ![r] = "clear"]
    BY <1>2 DEF ReplayUpdate
  <2>2. \A q \in Replayers : q = r
    BY DEF SoleReplayer
  <2>3. NoRowNoLetter' /\ ReplayIsTimely'
    <3>1. \A f \in EventIds : status'[f] = "NONE" <=> status[f] = "NONE"
      BY <1>2 DEF ReplayUpdate, SetStatus
    <3> QED
      BY <1>b, <2>1, <2>2, <3>1 DEF NoRowNoLetter, ReplayIsTimely
  <2>4. CASE status[e] = "NONE"
    <3>1. status' = status
      BY <1>2, <2>1, <2>4 DEF ReplayUpdate, SetStatus
    <3>2. HandsOK'
      BY <1>a, <3>1 DEF HandsOK
    <3>3. OldLettersGo'
      BY <1>a, <2>1, <3>1 DEF OldLettersGo
    <3> QED
      BY <2>3, <3>1, <3>2, <3>3
  <2>5. CASE status[e] # "NONE"
    <3>1. status[e] = "FAILED" /\ dlq[e] = letter[r].serial /\ ~AtBury(e)
      BY <2>1, <2>5 DEF ReplayIsTimely
    <3>2. status' = [status EXCEPT ![e] = "RECEIVED"]
      BY <1>2, <2>1, <2>5 DEF ReplayUpdate, SetStatus
    <3>3. HandsOK'
      <4>1. \A w \in Workers : pc[w] \in Settling \cup {"requeue"} => ev[w] # e
        BY <3>1 DEF HandsOK, Settling, AtBury
      <4> QED
        BY <1>a, <2>1, <3>2, <4>1 DEF HandsOK, Settling, Delivering
    <3>4. OldLettersGo'
      <4>1. letter[r] = [event |-> e, serial |-> dlq[e]]
        BY <3>1 DEF Letter
      <4>2. \A f \in EventIds : f # e => status'[f] = status[f]
        BY <3>2
      <4>3. rpc'[r] = "clear" /\ letter'[r] = [event |-> e, serial |-> dlq'[e]]
        BY <2>1, <4>1
      <4> QED
        BY <1>a, <2>1, <2>2, <4>2, <4>3 DEF OldLettersGo
    <3> QED
      BY <2>1, <2>3, <3>1, <3>2, <3>3, <3>4
  <2> QED
    BY <2>4, <2>5
<1>3. ASSUME NEW r \in Replayers, ReplayClear(r)
      PROVE  Orderly' /\ status' = status
  <2>1. /\ UNCHANGED << status, dlq, letter >>
        /\ rpc[r] = "clear" /\ rpc' = [rpc EXCEPT ![r] = "remove"]
    BY <1>3 DEF ReplayClear
  <2> QED
    BY <1>a, <1>b, <2>1 DEF HandsOK, NoRowNoLetter, ReplayIsTimely, OldLettersGo
<1>4. ASSUME NEW r \in Replayers, ReplayRemove(r)
      PROVE  Orderly' /\ status' = status
  <2> DEFINE e == letter[r].event
  <2>1. /\ e \in EventIds /\ rpc[r] = "remove" /\ status' = status
        /\ rpc' = [rpc EXCEPT ![r] = "idle"]
        /\ dlq' = [dlq EXCEPT ![e] = IF @ = letter[r].serial THEN 0 ELSE @]
    BY <1>4 DEF ReplayRemove, ReplayDone
  <2>2. \A q \in Replayers : q = r
    BY DEF SoleReplayer
  <2>3. HandsOK' /\ NoRowNoLetter'
    BY <1>a, <2>1 DEF HandsOK, NoRowNoLetter
  <2>4. ReplayIsTimely'
    BY <2>1, <2>2 DEF ReplayIsTimely
  <2>5. \A f \in EventIds :
          dlq'[f] # 0 => dlq'[f] = dlq[f] /\ letter[r] # [event |-> f, serial |-> dlq[f]]
    BY <2>1
  <2>6. OldLettersGo'
    BY <1>a, <2>1, <2>2, <2>5 DEF OldLettersGo
  <2> QED
    BY <2>1, <2>3, <2>4, <2>6
<1>5. ASSUME NEW r \in Replayers, ReplayFault(r)
      PROVE  FALSE
  BY <1>5 DEF ReplayFault, Fault, StructureOK, TypeOK, StoreTypeOK
<1> QED
  BY <1>b, <1>1, <1>2, <1>3, <1>4, <1>5 DEF ReplayNext, ReplayStep

LEMMA IngestKeepsOrder ==
  ASSUME StructureOK, Orderly, UNCHANGED << dispatchVars, replayVars >>,
         AddsRow \/ UNCHANGED << intakeVars, status, dlq >>
  PROVE  Orderly'
<1> USE QueueTypes DEF Orderly
<1>a. /\ UNCHANGED << pc, ev, rpc, letter >>
      /\ \A e : AtBury(e)' <=> AtBury(e)
  BY DEF dispatchVars, replayVars, AtBury
<1>1. CASE UNCHANGED << intakeVars, status, dlq >>
  <2>1. lastEvent' = lastEvent /\ UNCHANGED << status, dlq >>
    BY <1>1 DEF intakeVars
  <2> QED
    BY <1>a, <2>1 DEF HandsOK, NoRowNoLetter, ReplayIsTimely, OldLettersGo
<1>2. CASE AddsRow
  <2>1. /\ lastEvent + 1 \in EventIds /\ lastEvent' = lastEvent + 1
        /\ status' = [status EXCEPT ![lastEvent + 1] = "RECEIVED"]
        /\ dlq' = dlq
    BY <1>2, StoreAssumption DEF AddsRow, EventIds
  <2>2. \A e \in EventIds : e <= lastEvent => status'[e] = status[e]
    BY <2>1
  <2>3. status[lastEvent + 1] = "NONE"
    BY <2>1 DEF StructureOK, RowsOK
  <2>4. dlq[lastEvent + 1] = 0
    BY <2>1, <2>3 DEF NoRowNoLetter
  <2>5. \A e \in EventIds : dlq[e] # 0 => status'[e] = status[e]
    BY <2>1, <2>4
  <2>6. HandsOK'
    <3>1. \A w \in Workers : pc[w] \notin {"claim", "sleep"} => status'[ev[w]] = status[ev[w]]
      BY <2>2
    <3> QED
      BY <1>a, <3>1 DEF HandsOK, Settling, Delivering
  <2>7. NoRowNoLetter'
    BY <2>1, <2>5 DEF NoRowNoLetter
  <2>8. ReplayIsTimely'
    <3>1. ASSUME NEW r \in Replayers, rpc[r] # "idle"
          PROVE  /\ letter[r].event <= lastEvent + 1
                 /\ status'[letter[r].event] = status[letter[r].event]
      <4>1. letter[r].event \in EventIds /\ letter[r].event <= lastEvent
        BY <3>1 DEF ReplayIsTimely
      <4> QED
        BY <2>2, <4>1 DEF EventIds
    <3> QED
      BY <1>a, <2>1, <3>1 DEF ReplayIsTimely
  <2>9. OldLettersGo'
    BY <1>a, <2>1, <2>5 DEF OldLettersGo
  <2> QED
    BY <2>6, <2>7, <2>8, <2>9
<1> QED
  BY <1>1, <1>2

LEMMA EndpointsKeepOrder ==
  ASSUME StructureOK, Orderly, EndpointsNext, UNCHANGED << dispatchVars, replayVars >>
  PROVE  Orderly'
<1> USE QueueTypes DEF Orderly
<1>a. /\ UNCHANGED << pc, ev, rpc, letter >>
      /\ \A e : AtBury(e)' <=> AtBury(e)
  BY DEF dispatchVars, replayVars, AtBury
<1>1. ASSUME NEW ep \in EndpointIds, CreateEndpoint(ep)
      PROVE  Orderly'
  BY <1>a, <1>1 DEF CreateEndpoint, HandsOK, NoRowNoLetter, ReplayIsTimely, OldLettersGo
<1>2. ASSUME NEW ep \in EndpointIds, DeleteEndpoint(ep)
      PROVE  Orderly'
  <2>1. /\ lastEvent' = lastEvent
        /\ \A e \in EventIds :
             \/ status'[e] = "NONE" /\ dlq'[e] = 0
             \/ status'[e] = status[e] /\ dlq'[e] = dlq[e]
        /\ \A e \in EventIds : status[e] = "PROCESSING" => status'[e] = "PROCESSING"
        /\ \A e \in EventIds : status[e] = "NONE" => status'[e] = "NONE"
    BY <1>2 DEF DeleteEndpoint, Cascade, Pending
  <2>2. HandsOK'
    <3>1. \A w \in Workers : pc[w] \in Settling \cup {"requeue"} => ev[w] \in EventIds
      BY DEF Settling, Delivering
    <3> QED
      BY <1>a, <2>1, <3>1 DEF HandsOK, Settling, Delivering
  <2>3. NoRowNoLetter'
    BY <2>1 DEF NoRowNoLetter
  <2>4. ReplayIsTimely'
    BY <1>a, <2>1 DEF ReplayIsTimely
  <2>5. OldLettersGo'
    BY <1>a, <2>1 DEF OldLettersGo
  <2> QED
    BY <2>2, <2>3, <2>4, <2>5
<1> QED
  BY <1>1, <1>2 DEF EndpointsNext

-----------------------------------------------------------------------------
(* All steps together.                                                     *)

LEMMA UndisturbedSteps ==
  ASSUME StructureOK, Next, Undisturbed'
  PROVE  /\ Undisturbed /\ faults' = faults
         /\ ~Restart
         /\ \A w \in Workers : ~WorkerFault(w)
<1>1. /\ faults \in Nat /\ crashes \in Nat /\ faults' >= faults /\ crashes' >= crashes
      /\ faults' = 0 /\ crashes' = 0
  BY Types, Monotone DEF Undisturbed
<1>2. ~Restart
  BY <1>1 DEF Restart
<1> QED
  BY <1>1, <1>2
     DEF Undisturbed, WorkerFault, ClaimFault, DispatchFault, RequeueFault, Fault

LEMMA QueueInvInit == Init => QueueInv
BY DEF Init, StoreInit, DispatchInit, ReplayInit, QueueInv, HandsOK, Settling, Delivering,
       NoRowNoLetter, ReplayIsTimely, OldLettersGo

LEMMA QueueInvStep ==
  ASSUME StructureOK, QueueInv, [Next]_vars
  PROVE  QueueInv'
<1>1. CASE UNCHANGED vars
  <2>1. UNCHANGED << pc, ev, status, dlq, lastEvent, rpc, letter, faults, crashes >>
    BY <1>1 DEF vars, storeVars, intakeVars, dispatchVars, replayVars
  <2> QED
    BY <2>1 DEF QueueInv, SoleReplayer, Undisturbed, HandsOK, NoRowNoLetter, ReplayIsTimely,
                OldLettersGo, AtBury
<1>2. CASE Next
  <2> SUFFICES ASSUME SoleReplayer, Undisturbed'
               PROVE  Orderly'
    BY DEF QueueInv, SoleReplayer, Orderly
  <2>a. /\ Undisturbed /\ faults' = faults /\ ~Restart
        /\ \A w \in Workers : ~WorkerFault(w)
    BY <1>2, UndisturbedSteps
  <2>b. Orderly
    BY <2>a DEF QueueInv, Orderly
  <2>1. CASE DispatchNext /\ UNCHANGED << replayVars, ingestVars, crashes >>
    <3>1. UNCHANGED << rpc, letter >>
      BY <2>1 DEF replayVars
    <3>2. ASSUME NEW ep \in EndpointIds, RecoveryEnds(ep)
          PROVE  Orderly'
      <4>1. UNCHANGED << pc, ev, status, dlq, lastEvent >>
        BY <3>2 DEF RecoveryEnds, storeVars, intakeVars
      <4> QED
        BY <2>b, <3>1, <4>1
           DEF Orderly, HandsOK, NoRowNoLetter, ReplayIsTimely, OldLettersGo, AtBury
    <3> QED
      BY <2>1, <2>a, <2>b, <3>1, <3>2, WorkerKeepsOrder DEF DispatchNext
  <2>2. CASE ReplayNext /\ UNCHANGED << dispatchVars, ingestVars, crashes >>
    BY <2>2, <2>a, <2>b, ReplayKeepsOrder
  <2>3. CASE IngestNext /\ UNCHANGED << dispatchVars, replayVars, crashes >>
    BY <2>3, <2>b, IngestStructure, IngestKeepsOrder
  <2>4. CASE EndpointsNext /\ UNCHANGED << dispatchVars, replayVars, ingestVars, crashes >>
    BY <2>4, <2>b, EndpointsKeepOrder
  <2> QED
    BY <1>2, <2>1, <2>2, <2>3, <2>4, <2>a DEF Next, Crash, Shutdown
<1> QED
  BY <1>1, <1>2

LEMMA QueueInvariance == Spec => [](StructureOK /\ QueueInv)
BY StructureInit, StructureStep, QueueInvInit, QueueInvStep, PTL DEF Spec

(* With one replay at a time and nothing failing, a dead letter belongs to *)
(* a FAILED event or to the replay at work on it (dlq.rs:78), for any      *)
(* number of workers.                                                      *)
THEOREM LettersMeanFailed == Spec => []DeadLetterMeansFailed
<1>1. QueueInv => DeadLetterMeansFailed
  <2> SUFFICES ASSUME QueueInv, SoleReplayer, Undisturbed, NEW e \in EventIds,
                      dlq[e] # 0, status[e] # "FAILED"
               PROVE  \E r \in Replayers :
                        rpc[r] \in {"clear", "remove"} /\ letter[r].event = e
    BY DEF DeadLetterMeansFailed
  <2>1. PICK r \in Replayers : /\ rpc[r] \in {"clear", "remove"}
                               /\ letter[r] = [event |-> e, serial |-> dlq[e]]
    BY DEF QueueInv, OldLettersGo
  <2> QED
    BY <2>1
<1> QED
  BY <1>1, QueueInvariance, PTL

-----------------------------------------------------------------------------
(* Statuses move as they do in the queue.                                  *)

(* The one event whose status a step changes, and how.                     *)
Shift(e) ==
  /\ UNCHANGED intakeVars
  /\ \/ /\ IsOldestReceived(e)
        /\ \E w \in Workers : pc[w] = "claim"
        /\ status' = [status EXCEPT ![e] = "PROCESSING"]
     \/ /\ status[e] = "FAILED"
        /\ status' = [status EXCEPT ![e] = "RECEIVED"]
     \/ /\ status[e] = "PROCESSING"
        /\ \E s \in {"RECEIVED", "DELIVERED", "FAILED"} : status' = [status EXCEPT ![e] = s]

LEMMA WorkerShifts ==
  ASSUME StructureOK, HandsOK, NEW w \in Workers, WorkerStep(w)
  PROVE  UNCHANGED << intakeVars, status >> \/ \E e \in EventIds : Shift(e)
<1> USE QueueTypes
<1>1. CASE Moves(w) \/ WritesLetter(w)
  BY <1>1 DEF Moves, WritesLetter
<1>2. CASE LetsGo(w) \/ GivesUp(w)
  <2>1. ev[w] \in EventIds /\ status[ev[w]] = "PROCESSING"
    BY <1>2 DEF LetsGo, GivesUp, HandsOK, Delivering
  <2>2. Shift(ev[w])
    BY <1>2, <2>1 DEF LetsGo, GivesUp, Shift
  <2> QED
    BY <2>1, <2>2
<1>3. CASE Takes(w)
  BY <1>3 DEF Takes, Shift
<1> QED
  BY <1>1, <1>2, <1>3, WorkerKinds

LEMMA StatusShifts ==
  ASSUME StructureOK, QueueInv, SoleReplayer, Undisturbed', Next
  PROVE  \/ UNCHANGED << intakeVars, status >>
         \/ \E e \in EventIds : Shift(e)
         \/ \E i \in Ingesters : AcceptEvent(i)
         \/ EndpointsNext
<1>a. /\ Undisturbed /\ faults' = faults /\ ~Restart
      /\ \A w \in Workers : ~WorkerFault(w)
  BY UndisturbedSteps
<1>b. Orderly
  BY <1>a DEF QueueInv, Orderly
<1>1. CASE DispatchNext /\ UNCHANGED << replayVars, ingestVars, crashes >>
  <2>1. ASSUME NEW ep \in EndpointIds, RecoveryEnds(ep)
        PROVE  UNCHANGED << intakeVars, status >>
    BY <2>1 DEF RecoveryEnds, storeVars
  <2> QED
    BY <1>1, <1>a, <1>b, <2>1, WorkerShifts DEF DispatchNext, Orderly
<1>2. CASE ReplayNext /\ UNCHANGED << dispatchVars, ingestVars, crashes >>
  BY <1>2, <1>a, <1>b, ReplayKeepsOrder DEF Shift
<1>3. CASE IngestNext /\ UNCHANGED << dispatchVars, replayVars, crashes >>
  BY <1>3
     DEF IngestNext, IngestStep, Receive, LookupEndpoint, RefuseDuplicate, RefuseOrphan,
         IngestFault, HangUp, storeVars
<1> QED
  BY <1>1, <1>2, <1>3, <1>a DEF Next, Crash, Shutdown

(* With one replay at a time and nothing failing, an event that was        *)
(* delivered stays delivered or leaves with its endpoint: the UPDATEs of   *)
(* replay_dlq (dlq.rs:78) and of the worker (dispatcher.rs:170) name no    *)
(* status and still never meet a delivered event, for any number of        *)
(* workers.                                                                *)
THEOREM DeliveredStaysFinal == Spec => DeliveredIsFinal
<1>1. ASSUME StructureOK, QueueInv, [Next]_vars
      PROVE  [ SoleReplayer /\ Undisturbed' =>
                 \A e \in EventIds :
                   status[e] = "DELIVERED" => status'[e] \in {"DELIVERED", "NONE"} ]_vars
  <2> SUFFICES ASSUME Next, SoleReplayer, Undisturbed',
                      NEW e \in EventIds, status[e] = "DELIVERED"
               PROVE  status'[e] \in {"DELIVERED", "NONE"}
    BY <1>1
  <2>a. StructureOK /\ QueueInv
    BY <1>1
  <2> USE QueueTypes, <2>a
  <2>1. CASE UNCHANGED << intakeVars, status >>
    BY <2>1
  <2>2. ASSUME NEW f \in EventIds, Shift(f)
        PROVE  status'[e] = "DELIVERED"
    BY <2>2 DEF Shift, IsOldestReceived
  <2>3. ASSUME NEW i \in Ingesters, AcceptEvent(i)
        PROVE  status'[e] = "DELIVERED"
    <3>1. e <= lastEvent
      BY DEF StructureOK, RowsOK
    <3> QED
      BY <2>3, <3>1, AcceptGrows DEF EventIds
  <2>4. CASE EndpointsNext
    BY <2>4 DEF EndpointsNext, CreateEndpoint, DeleteEndpoint, Cascade
  <2> QED
    BY <2>1, <2>2, <2>3, <2>4, StatusShifts
<1> QED
  BY <1>1, QueueInvariance, PTL DEF Spec, DeliveredIsFinal

-----------------------------------------------------------------------------
(* Nothing is known of an event that was not accepted yet.                 *)

LEMMA UnusedStep ==
  ASSUME StructureOK, UnusedOK, [Next]_vars
  PROVE  UnusedOK'
<1>a. /\ lastEvent \in 0..MaxEvents /\ MaxEvents \in Nat
      /\ endpointOf \in [EventIds -> EndpointIds \cup {None}]
      /\ sends \in [EventIds -> Nat] /\ attempts \in [EventIds -> Nat]
      /\ \A w \in Workers : pc[w] \notin {"claim", "sleep"} => ev[w] <= lastEvent
  BY StoreAssumption DEF StructureOK, TypeOK, StoreTypeOK, WorkersOK
<1>1. ASSUME UNCHANGED << lastEvent, endpointOf >>,
             \A e \in EventIds :
               e > lastEvent => sends'[e] \in {0, sends[e]} /\ attempts'[e] \in {0, attempts[e]}
      PROVE  UnusedOK'
  BY <1>1 DEF UnusedOK
<1>2. CASE DispatchNext /\ UNCHANGED << replayVars, ingestVars, crashes >>
  <2>1. UNCHANGED << lastEvent, endpointOf >>
    BY <1>2, DispatchStructure DEF KeepsRows, intakeVars
  <2>2. ASSUME NEW w \in Workers, WorkerStep(w) \/ WorkerFault(w)
        PROVE  /\ \/ sends' = sends
                  \/ pc[w] = "post" /\ sends' = [sends EXCEPT ![ev[w]] = @ + 1]
               /\ \/ attempts' = attempts
                  \/ pc[w] = "insert" /\ attempts' = [attempts EXCEPT ![ev[w]] = @ + 1]
    <3>1. CASE Post(w) \/ InsertAttempt(w)
      BY <3>1 DEF Post, InsertAttempt
    <3>2. CASE ~Post(w) /\ ~InsertAttempt(w)
      BY <2>2, <3>2
         DEF WorkerStep, WorkerFault, Wake, ClaimNextEvent, FindQueueEmpty, ClaimFault, Lookup,
             CountAttempts, CheckBreaker, Defer, Reply, MarkDelivered, MarkRetry, MarkFailed,
             Bury, DispatchFault, Requeue, RequeueFault, storeVars
    <3> QED
      BY <3>1, <3>2
  <2>3. ASSUME NEW ep \in EndpointIds, RecoveryEnds(ep)
        PROVE  UNCHANGED << sends, attempts >>
    BY <2>3 DEF RecoveryEnds, storeVars
  <2>4. ASSUME NEW w \in Workers, WorkerStep(w) \/ WorkerFault(w)
        PROVE  \A e \in EventIds : e > lastEvent => sends'[e] = sends[e] /\ attempts'[e] = attempts[e]
    <3>1. ASSUME pc[w] \notin {"claim", "sleep"}, NEW e \in EventIds, e > lastEvent
          PROVE  e # ev[w]
      <4>1. ev[w] <= lastEvent /\ ev[w] \in EventIds
        BY <1>a, <3>1 DEF StructureOK, WorkersOK
      <4> QED
        BY <1>a, <3>1, <4>1 DEF EventIds
    <3> QED
      BY <1>a, <2>2, <2>4, <3>1
  <2> QED
    BY <1>1, <1>2, <2>1, <2>3, <2>4 DEF DispatchNext
<1>3. CASE ReplayNext /\ UNCHANGED << dispatchVars, ingestVars, crashes >>
  <2>1. UNCHANGED << lastEvent, endpointOf >>
    BY <1>3, ReplayStructure DEF KeepsRows, intakeVars
  <2>2. \A e \in EventIds : sends'[e] \in {0, sends[e]} /\ attempts'[e] \in {0, attempts[e]}
    BY <1>3, <1>a
       DEF ReplayNext, ReplayStep, ReplaySelect, ReplayUpdate, ReplayClear, ReplayRemove,
           ReplayFault, storeVars
  <2> QED
    BY <1>1, <2>1, <2>2
<1>4. CASE IngestNext /\ UNCHANGED << dispatchVars, replayVars, crashes >>
  <2>1. ASSUME UNCHANGED << lastEvent, endpointOf, sends, attempts >>
        PROVE  UnusedOK'
    BY <1>1, <2>1
  <2>2. ASSUME NEW i \in Ingesters, AcceptEvent(i)
        PROVE  UnusedOK'
    <3>1. /\ lastEvent' = lastEvent + 1 /\ UNCHANGED << sends, attempts >>
          /\ endpointOf' = [endpointOf EXCEPT ![lastEvent + 1] = request[i].endpoint]
      BY <2>2 DEF AcceptEvent, InsertEvent
    <3> QED
      BY <1>a, <3>1 DEF UnusedOK, EventIds
  <2> QED
    BY <1>4, <2>1, <2>2
       DEF IngestNext, IngestStep, Receive, LookupEndpoint, RefuseDuplicate, RefuseOrphan,
           IngestFault, HangUp, storeVars, intakeVars
<1>5. CASE EndpointsNext /\ UNCHANGED << dispatchVars, replayVars, ingestVars, crashes >>
  <2>1. /\ UNCHANGED << lastEvent, endpointOf, sends >>
        /\ \A e \in EventIds : attempts'[e] \in {0, attempts[e]}
    BY <1>5 DEF EndpointsNext, CreateEndpoint, DeleteEndpoint, Cascade
  <2> QED
    BY <1>1, <2>1
<1>6. CASE Restart \/ UNCHANGED vars
  <2>1. UNCHANGED << lastEvent, endpointOf, sends, attempts >>
    BY <1>6 DEF Restart, vars, storeVars, intakeVars
  <2> QED
    BY <1>1, <2>1
<1> QED
  BY <1>2, <1>3, <1>4, <1>5, <1>6 DEF Next, Crash, Shutdown

LEMMA UnusedInvariance == Spec => [](StructureOK /\ UnusedOK)
<1>1. Init => UnusedOK
  BY DEF Init, StoreInit, UnusedOK
<1> QED
  BY <1>1, StructureInit, StructureStep, UnusedStep, PTL DEF Spec

-----------------------------------------------------------------------------
(* The relay implements the queue.                                         *)

RefinementInv ==
  /\ StructureOK
  /\ QueueInv
  /\ UnusedOK
  /\ AcceptedOK
  /\ ProcessingIsCarried
  /\ Undisturbed

LEMMA NothingFails ==
  ASSUME MaxFaults = 0, MaxCrashes = 0
  PROVE  Spec => []Undisturbed
<1>1. Init => Undisturbed
  BY DEF Init, StoreInit, Undisturbed
<1>2. ASSUME StructureOK, Undisturbed, [Next]_vars
      PROVE  Undisturbed'
  <2>1. ~Fault /\ ~Restart
    BY <1>2 DEF Undisturbed, Fault, Restart
  <2>2. CASE Next
    <3>1. DispatchNext => faults' = faults
      BY <2>1
         DEF DispatchNext, WorkerStep, WorkerFault, Wake, ClaimNextEvent, FindQueueEmpty,
             ClaimFault, Lookup, CountAttempts, CheckBreaker, Defer, Post, Reply,
             InsertAttempt, MarkDelivered, MarkRetry, MarkFailed, Bury, DispatchFault,
             Requeue, RequeueFault, RecoveryEnds, storeVars
    <3>2. ReplayNext => faults' = faults
      BY <2>1
         DEF ReplayNext, ReplayStep, ReplaySelect, ReplayUpdate, ReplayClear, ReplayRemove,
             ReplayFault, storeVars
    <3>3. IngestNext => faults' = faults
      BY <2>1
         DEF IngestNext, IngestStep, Receive, LookupEndpoint, RefuseDuplicate, AcceptEvent,
             InsertEvent, RefuseOrphan, IngestFault, HangUp, storeVars
    <3>4. EndpointsNext => faults' = faults
      BY DEF EndpointsNext, CreateEndpoint, DeleteEndpoint, Cascade
    <3> QED
      BY <1>2, <2>1, <2>2, <3>1, <3>2, <3>3, <3>4 DEF Next, Crash, Shutdown, Undisturbed
  <2>3. CASE UNCHANGED vars
    BY <1>2, <2>3 DEF vars, storeVars, Undisturbed
  <2> QED
    BY <1>2, <2>2, <2>3
<1> QED
  BY <1>1, <1>2, Structure, PTL DEF Spec

LEMMA PlaceIs ==
  ASSUME StructureOK, NEW e \in EventIds
  PROVE  /\ Place(e) = "queued" <=> status[e] = "RECEIVED"
         /\ Place(e) = "in hand" <=> status[e] = "PROCESSING"
         /\ Place(e) = "delivered" <=> status[e] = "DELIVERED"
         /\ Place(e) = "given up" <=> status[e] = "FAILED"
         /\ Place(e) = "removed" <=> status[e] = "NONE" /\ e <= lastEvent
         /\ Place(e) = "nowhere" <=> status[e] = "NONE" /\ e > lastEvent
         /\ Place(e) \in {"queued", "in hand", "delivered", "given up", "removed", "nowhere"}
<1>1. status[e] \in {"RECEIVED", "PROCESSING", "DELIVERED", "FAILED", "NONE"}
  BY QueueTypes DEF EventStatus
<1>2. e <= lastEvent \/ e > lastEvent
  BY QueueTypes DEF EventIds
<1>3. ~(e <= lastEvent /\ e > lastEvent)
  BY QueueTypes DEF EventIds
<1> QED
  BY <1>1, <1>2, <1>3 DEF Place

PlaceOf == [e \in EventIds |-> Place(e)]

(* Every step of the relay is a step of the queue or none of its business. *)
LEMMA QueueStep ==
  ASSUME SoleWorker, SoleReplayer, RefinementInv, RefinementInv', [Next]_vars
  PROVE  [Queue!Next]_(Queue!queueVars)
<1> USE DEF RefinementInv
<1> USE QueueTypes
<1>a. /\ Queue!Events = EventIds
      /\ UNCHANGED << PlaceOf, endpointOf >> => UNCHANGED Queue!queueVars
  BY DEF Queue!Events, EventIds, Queue!queueVars, PlaceOf
<1>b. \A e \in EventIds : PlaceOf[e] = Place(e) /\ PlaceOf'[e] = Place(e)'
  BY DEF PlaceOf
<1>c. EventIds = 1..MaxEvents
  BY DEF EventIds
<1>1. CASE UNCHANGED << intakeVars, status >> \/ UNCHANGED vars
  <2>1. UNCHANGED << lastEvent, endpointOf, status >>
    BY <1>1 DEF intakeVars, vars, storeVars
  <2>2. PlaceOf' = PlaceOf
    BY <2>1 DEF PlaceOf, Place
  <2> QED
    BY <1>a, <2>1, <2>2
<1>2. ASSUME NEW e \in EventIds, Shift(e)
      PROVE  Queue!Next
  <2>1. UNCHANGED << lastEvent, endpointOf >>
    BY <1>2 DEF Shift, intakeVars
  <2>2. \A f \in EventIds : f # e => Place(f)' = Place(f)
    BY <1>2, <2>1 DEF Shift, Place
  <2>3. PlaceOf' = [PlaceOf EXCEPT ![e] = Place(e)']
    BY <1>b, <2>2 DEF PlaceOf
  <2>4. ASSUME NEW p, Place(e)' = p
        PROVE  Queue!Move(e, p)
    BY <2>3, <2>4 DEF Queue!Move, PlaceOf
  <2>5. StructureOK'
    OBVIOUS
  <2>6. CASE /\ IsOldestReceived(e)
             /\ \E w \in Workers : pc[w] = "claim"
             /\ status' = [status EXCEPT ![e] = "PROCESSING"]
    <3>1. Place(e) = "queued" /\ Place(e)' = "in hand"
      BY <2>6, PlaceIs DEF IsOldestReceived, Place
    <3>2. \A f \in EventIds : Place(f) = "queued" => e <= f
      BY <2>6, PlaceIs DEF IsOldestReceived
    <3>3. \A f \in EventIds : Place(f) # "in hand"
      <4>1. \A w \in Workers : pc[w] = "claim"
        BY <2>6 DEF SoleWorker
      <4>2. AtMostOneFault
        BY DEF AtMostOneFault, Undisturbed
      <4>3. \A f \in EventIds : status[f] # "PROCESSING"
        BY <4>1, <4>2 DEF ProcessingIsCarried, Uncarried, Carries
      <4> QED
        BY <4>3, PlaceIs
    <3>4. Queue!Take(e)
      BY <1>a, <1>b, <2>1, <2>4, <3>1, <3>2, <3>3 DEF Queue!Take, PlaceOf
    <3> QED
      BY <1>a, <3>4 DEF Queue!Next
  <2>7. CASE status[e] = "FAILED" /\ status' = [status EXCEPT ![e] = "RECEIVED"]
    <3>1. Place(e) = "given up" /\ Place(e)' = "queued"
      BY <2>7, PlaceIs DEF Place
    <3>2. Queue!Replay(e)
      BY <1>b, <2>1, <2>4, <3>1 DEF Queue!Replay, PlaceOf
    <3> QED
      BY <1>a, <3>2 DEF Queue!Next
  <2>8. ASSUME status[e] = "PROCESSING", NEW s \in {"RECEIVED", "DELIVERED", "FAILED"},
               status' = [status EXCEPT ![e] = s]
        PROVE  Queue!Next
    <3>1. /\ Place(e) = "in hand"
          /\ Place(e)' \in {"queued", "delivered", "given up"}
      BY <2>8, PlaceIs DEF Place
    <3>2. Queue!LetGo(e)
      BY <1>b, <2>1, <2>4, <3>1 DEF Queue!LetGo, PlaceOf
    <3> QED
      BY <1>a, <3>2 DEF Queue!Next
  <2> QED
    BY <1>2, <2>6, <2>7, <2>8 DEF Shift
<1>3. ASSUME NEW i \in Ingesters, AcceptEvent(i)
      PROVE  Queue!Next
  <2>a. request[i].endpoint \in EndpointIds /\ lastEvent + 1 \in EventIds
    BY <1>3, AcceptGrows DEF AcceptEvent, StructureOK, IngestersOK
  <2>b. PICK n \in EventIds, ep \in EndpointIds : n = lastEvent + 1 /\ ep = request[i].endpoint
    BY <2>a
  <2>1. /\ n > lastEvent
        /\ endpoints[ep] = "live"
        /\ lastEvent' = n
        /\ status' = [status EXCEPT ![n] = "RECEIVED"]
        /\ endpointOf' = [endpointOf EXCEPT ![n] = ep]
    BY <1>3, <2>b DEF AcceptEvent, InsertEvent
  <2>3. status[n] = "NONE"
    BY <1>c, <2>b DEF StructureOK, RowsOK
  <2>4. \A f \in EventIds : f < n <=> f <= lastEvent
    BY <1>c, <2>b
  <2>5. \A f \in EventIds : f # n => Place(f)' = Place(f)
    <3>1. \A f \in EventIds : f # n => status'[f] = status[f] /\ (f <= n <=> f <= lastEvent)
      BY <1>c, <2>1, <2>b
    <3> QED
      BY <2>1, <3>1 DEF Place
  <2>6. Place(n) = "nowhere" /\ Place(n)' = "queued"
    BY <2>1, <2>3, PlaceIs DEF Place
  <2>7. Queue!Move(n, "queued")
    BY <1>b, <2>1, <2>5, <2>6 DEF Queue!Move, PlaceOf
  <2>8. \A f \in EventIds : f < n => Place(f) # "nowhere"
    BY <1>c, <2>4, PlaceIs
  <2>9. \A f \in EventIds : Place(f) = "removed" => endpointOf[f] # ep
    <3>1. ASSUME NEW f \in EventIds, Place(f) = "removed"
          PROVE  endpoints[endpointOf[f]] = "deleted"
      <4>1. status[f] = "NONE" /\ f <= lastEvent
        BY <3>1, PlaceIs
      <4> QED
        BY <1>c, <4>1 DEF AcceptedOK
    <3> QED
      BY <2>1, <3>1
  <2>10. Queue!Accept(n, ep)
    BY <1>a, <1>b, <2>1, <2>6, <2>7, <2>8, <2>9 DEF Queue!Accept, PlaceOf
  <2> QED
    BY <1>a, <2>10 DEF Queue!Next
<1>4. ASSUME NEW ep \in EndpointIds, CreateEndpoint(ep)
      PROVE  UNCHANGED Queue!queueVars
  <2>1. UNCHANGED << lastEvent, endpointOf, status >>
    BY <1>4 DEF CreateEndpoint
  <2>2. PlaceOf' = PlaceOf
    BY <2>1 DEF PlaceOf, Place
  <2> QED
    BY <1>a, <2>1, <2>2
<1>5. ASSUME NEW ep \in EndpointIds, DeleteEndpoint(ep)
      PROVE  Queue!Next
  <2>1. /\ endpoints[ep] = "live"
        /\ \A e \in EventIds : endpointOf[e] = ep => status[e] \notin {"RECEIVED", "PROCESSING"}
        /\ UNCHANGED << lastEvent, endpointOf >>
        /\ status' = [e \in EventIds |-> IF endpointOf[e] = ep THEN "NONE" ELSE status[e]]
    BY <1>5 DEF DeleteEndpoint, Cascade, Pending
  <2>2. ASSUME NEW e \in EventIds, endpointOf[e] = ep
        PROVE  e <= lastEvent /\ Place(e) \in {"delivered", "given up"} /\ Place(e)' = "removed"
    <3>1. e <= lastEvent
      <4>1. endpointOf[e] # None
        BY <2>2, StoreAssumption
      <4> QED
        BY <1>c, <4>1 DEF UnusedOK
    <3>2. status[e] # "NONE"
      BY <1>c, <2>1, <2>2, <3>1 DEF AcceptedOK
    <3>3. status[e] \in {"DELIVERED", "FAILED"}
      BY <2>1, <2>2, <3>2 DEF EventStatus
    <3>4. Place(e)' = "removed"
      BY <2>1, <2>2, <3>1 DEF Place
    <3> QED
      BY <3>1, <3>3, <3>4, PlaceIs
  <2>3. \A e \in EventIds : endpointOf[e] # ep => Place(e)' = Place(e)
    BY <2>1 DEF Place
  <2>4. PlaceOf' = [e \in EventIds |-> IF endpointOf[e] = ep THEN "removed" ELSE PlaceOf[e]]
    BY <1>b, <2>2, <2>3 DEF PlaceOf
  <2>5. Queue!Remove(ep)
    BY <1>a, <1>b, <2>1, <2>2, <2>4 DEF Queue!Remove, PlaceOf
  <2> QED
    BY <2>5 DEF Queue!Next
<1>6. CASE Next
  <2>1. Undisturbed'
    OBVIOUS
  <2> QED
    BY <1>1, <1>2, <1>3, <1>4, <1>5, <1>6, <2>1, StatusShifts DEF EndpointsNext
<1> QED
  BY <1>1, <1>6

(* With one worker, one replay at a time, no failing database call and no  *)
(* restart, the relay is the queue it is meant to be: an event is taken    *)
(* only as the oldest one waiting and while no other is in hand, it leaves *)
(* the worker's hand to be retried, delivered or given up, only a given up *)
(* one comes back, and a delete leaves nothing behind (dispatcher.rs:170,  *)
(* dlq.rs:78, endpoints.rs:225).                                           *)
THEOREM RelayIsAQueue ==
  ASSUME SoleWorker, SoleReplayer, MaxFaults = 0, MaxCrashes = 0
  PROVE  Spec => ImplementsQueue
<1>1. Init => Queue!Init
  <2> SUFFICES ASSUME Init
               PROVE  Queue!Init
    OBVIOUS
  <2>1. \A e \in EventIds : Place(e) = "nowhere"
    <3>1. \A e \in EventIds : ~(e <= lastEvent) /\ status[e] = "NONE"
      BY DEF Init, StoreInit, EventIds
    <3> QED
      BY <3>1 DEF Place
  <2>2. endpointOf = [e \in EventIds |-> None]
    BY DEF Init, StoreInit
  <2> QED
    BY <2>1, <2>2 DEF Queue!Init, Queue!Events, EventIds
<1>2. Spec => []RefinementInv
  <2>1. IndInv => ProcessingIsCarried
    BY IndInvCarries
  <2>2. IntakeInv => AcceptedOK
    BY DEF IntakeInv
  <2> QED
    BY <2>1, <2>2, NothingFails, QueueInvariance, UnusedInvariance, IntakeInvariance,
       Invariance, PTL DEF RefinementInv
<1>3. RefinementInv /\ RefinementInv' /\ [Next]_vars => [Queue!Next]_(Queue!queueVars)
  BY QueueStep
<1> QED
  BY <1>1, <1>2, <1>3, PTL DEF Spec, ImplementsQueue, Queue!Spec
=============================================================================
