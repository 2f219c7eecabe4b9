----------------------------- MODULE BudgetProofs ----------------------------
(***************************************************************************)
(* Attempts, requests and the order of settlement: proved for every number *)
(* of workers, endpoints, events, attempts, faults and restarts, first     *)
(* while nobody replays and then, where nothing fails, with replays; and   *)
(* that one worker makes of the relay a queue that loses only what it has  *)
(* in hand.                                                                *)
(***************************************************************************)
EXTENDS QueueProofs

LEMMA BudgetTypes ==
  ASSUME StructureOK
  PROVE  /\ pc \in [Workers -> DispatchPc]
         /\ ev \in [Workers -> 0..MaxEvents]
         /\ attemptNum \in [Workers -> Nat]
         /\ status \in [EventIds -> EventStatus \cup {"NONE"}]
         /\ attempts \in [EventIds -> Nat]
         /\ sends \in [EventIds -> Nat]
         /\ lastEvent \in 0..MaxEvents
         /\ faults \in Nat /\ crashes \in Nat /\ replays \in Nat
         /\ Slack \in Nat
         /\ LeastBudget \in Nat /\ LeastBudget >= MaxAttempts /\ LeastBudget >= 1
         /\ MaxAttempts \in Nat
         /\ \A w \in Workers : InHand(w) => ev[w] \in EventIds /\ ev[w] <= lastEvent
<1>1. faults \in Nat /\ crashes \in Nat
  BY DEF StructureOK, TypeOK, StoreTypeOK
<1>2. Slack \in Nat
  BY <1>1 DEF Slack
<1>3. MaxAttempts \in Nat
  BY DispatchAssumption
<1>4. LeastBudget \in Nat /\ LeastBudget >= MaxAttempts /\ LeastBudget >= 1
  BY <1>3 DEF LeastBudget
<1> QED
  BY <1>1, <1>2, <1>3, <1>4
     DEF StructureOK, TypeOK, StoreTypeOK, DispatchTypeOK, ReplayTypeOK, WorkersOK, InHand

LEMMA SlackType == StructureOK' => Slack' \in Nat
<1>1. TypeOK' => faults' \in Nat /\ crashes' \in Nat
  BY DEF TypeOK, StoreTypeOK
<1>2. ASSUME NEW m \in Nat, NEW n \in Nat
      PROVE  m + n \in Nat
  OBVIOUS
<1>3. ASSUME faults' \in Nat, crashes' \in Nat
      PROVE  faults' + crashes' \in Nat
  BY <1>2, <1>3
<1>4. Slack' = faults' + crashes'
  BY DEF Slack
<1> QED
  BY <1>1, <1>3, <1>4 DEF StructureOK

-----------------------------------------------------------------------------
(* BudgetInv, event by event and worker by worker.                         *)

EventFine(e) ==
  /\ attempts[e] <= sends[e]
  /\ status[e] = "FAILED" => sends[e] >= MaxAttempts
  /\ sends[e] <= LeastBudget + Slack
  /\ status[e] = "RECEIVED" => sends[e] < LeastBudget + Slack
  /\ status[e] # "NONE" => sends[e] <= attempts[e] + 1 + Slack
  /\ status[e] # "NONE" /\ ~OnTheWay(e) => sends[e] <= attempts[e] + Slack

HandFine(w) ==
  /\ pc[w] \in Delivering => status[ev[w]] = "PROCESSING"
  /\ InHand(w) => status[ev[w]] \notin {"RECEIVED", "DELIVERED"}
  /\ pc[w] \in {"admit", "post", "await", "insert"} =>
       attemptNum[w] = attempts[ev[w]] + 1
  /\ pc[w] = "mark" => attemptNum[w] = attempts[ev[w]]
  /\ pc[w] \in {"await", "insert"} => attempts[ev[w]] < sends[ev[w]]
  /\ \/ pc[w] \in {"lookup", "count", "admit", "defer", "post"}
     \/ pc[w] = "requeue" /\ status[ev[w]] # "NONE"
     => sends[ev[w]] < LeastBudget + Slack

Apart == \A v, w \in Workers : InHand(w) /\ InHand(v) /\ ev[v] = ev[w] => v = w

Fine ==
  /\ Apart
  /\ \A e \in EventIds : EventFine(e)
  /\ \A w \in Workers  : HandFine(w)

LEMMA FineIsBudget == BudgetInv <=> (replays = 0 => NobodyReplays /\ Fine)
BY DEF BudgetInv, Fine, Apart, EventFine, HandFine, SingleHand, AttemptsWentOut, SendsAreFew

(* More slack does no harm.                                                *)
LEMMA FineStays ==
  ASSUME StructureOK, StructureOK', Fine, Slack' >= Slack,
         UNCHANGED << pc, ev, attemptNum, status, attempts, sends >>
  PROVE  Fine'
<1> USE BudgetTypes
<1>a. Slack' \in Nat /\ LeastBudget' = LeastBudget
  BY SlackType DEF LeastBudget
<1>1. Apart'
  BY DEF Fine, Apart, InHand
<1>2. \A e \in EventIds : EventFine(e)'
  <2>1. ASSUME NEW e \in EventIds
        PROVE  EventFine(e)'
    <3>1. EventFine(e) /\ (OnTheWay(e)' <=> OnTheWay(e))
      BY DEF Fine, OnTheWay
    <3> QED
      BY <1>a, <3>1 DEF EventFine
  <2> QED
    BY <2>1
<1>3. \A w \in Workers : HandFine(w)'
  <2>1. ASSUME NEW w \in Workers
        PROVE  HandFine(w)'
    <3>1. HandFine(w) /\ (InHand(w)' <=> InHand(w))
      BY DEF Fine, InHand
    <3>2. pc[w] \in {"lookup", "count", "admit", "defer", "post", "requeue"} => ev[w] \in EventIds
      BY DEF InHand
    <3> QED
      BY <1>a, <3>1, <3>2 DEF HandFine
  <2> QED
    BY <2>1
<1> QED
  BY <1>1, <1>2, <1>3 DEF Fine

(* A step of worker w that concerns event c alone.                         *)
Concerns(w, c) ==
  /\ InHand(w) => ev[w] = c
  /\ InHand(w)' => ev'[w] = c
  /\ \A v \in Workers : v # w => /\ pc'[v] = pc[v] /\ ev'[v] = ev[v]
                                 /\ attemptNum'[v] = attemptNum[v]
                                 /\ InHand(v) => ev[v] # c
  /\ \A f \in EventIds : f # c => /\ status'[f] = status[f]
                                  /\ attempts'[f] = attempts[f]
                                  /\ sends'[f] = sends[f]

LEMMA OthersStayFine ==
  ASSUME StructureOK, StructureOK', Fine, NEW w \in Workers, NEW c \in EventIds,
         Concerns(w, c), Slack' >= Slack, EventFine(c)', HandFine(w)'
  PROVE  Fine'
<1> USE BudgetTypes
<1>a. Slack' \in Nat /\ LeastBudget' = LeastBudget
  BY SlackType DEF LeastBudget
<1>b. \A v \in Workers : v # w => (InHand(v)' <=> InHand(v))
  BY DEF Concerns, InHand
<1>1. Apart'
  BY <1>b DEF Fine, Apart, Concerns
<1>2. ASSUME NEW e \in EventIds, e # c
      PROVE  EventFine(e)'
  <2>1. /\ status'[e] = status[e] /\ attempts'[e] = attempts[e] /\ sends'[e] = sends[e]
        /\ EventFine(e)
    BY <1>2 DEF Concerns, Fine
  <2>2. OnTheWay(e) => OnTheWay(e)'
    BY <1>2 DEF Concerns, OnTheWay, InHand
  <2> QED
    BY <1>a, <2>1, <2>2 DEF EventFine
<1>3. ASSUME NEW v \in Workers, v # w
      PROVE  HandFine(v)'
  <2>1. /\ HandFine(v)
        /\ pc'[v] = pc[v] /\ ev'[v] = ev[v] /\ attemptNum'[v] = attemptNum[v]
    BY <1>3 DEF Concerns, Fine
  <2>2. CASE ~InHand(v)
    BY <1>b, <1>3, <2>1, <2>2 DEF HandFine, InHand, Delivering
  <2>3. CASE InHand(v)
    <3>1. /\ ev[v] \in EventIds
          /\ status'[ev[v]] = status[ev[v]] /\ attempts'[ev[v]] = attempts[ev[v]]
          /\ sends'[ev[v]] = sends[ev[v]]
      BY <1>3, <2>3 DEF Concerns
    <3> QED
      BY <1>a, <1>b, <1>3, <2>1, <3>1 DEF HandFine
  <2> QED
    BY <2>2, <2>3
<1> QED
  BY <1>1, <1>2, <1>3 DEF Fine

-----------------------------------------------------------------------------
(* A step of a worker.                                                     *)

(* Beginning and end of a pass, where it has no event.                     *)
LEMMA IdleKeepsFine ==
  ASSUME StructureOK, StructureOK', Fine, NEW w \in Workers, ~InHand(w),
         NEW l \in {"claim", "sleep"}, pc' = [pc EXCEPT ![w] = l],
         \A v \in Workers : v # w => attemptNum'[v] = attemptNum[v],
         UNCHANGED << ev, status, attempts, sends >>, Slack' >= Slack
  PROVE  Fine'
<1> USE BudgetTypes
<1>a. Slack' \in Nat /\ LeastBudget' = LeastBudget
  BY SlackType DEF LeastBudget
<1>b. /\ \A v \in Workers : v # w => pc'[v] = pc[v] /\ attemptNum'[v] = attemptNum[v]
      /\ pc'[w] = l
  OBVIOUS
<1>c. \A v \in Workers : InHand(v)' <=> InHand(v)
  BY <1>b DEF InHand
<1>1. Apart'
  BY <1>c DEF Fine, Apart
<1>2. ASSUME NEW e \in EventIds
      PROVE  EventFine(e)'
  <2>1. EventFine(e) /\ (OnTheWay(e)' <=> OnTheWay(e))
    BY <1>b DEF Fine, OnTheWay, InHand
  <2> QED
    BY <1>a, <2>1 DEF EventFine
<1>3. ASSUME NEW v \in Workers
      PROVE  HandFine(v)'
  <2>1. CASE ~InHand(v)
    BY <1>c, <2>1 DEF HandFine, InHand, Delivering
  <2>2. CASE InHand(v)
    <3>1. v # w /\ HandFine(v) /\ ev[v] \in EventIds
      BY <2>2 DEF Fine
    <3> QED
      BY <1>a, <1>b, <1>c, <3>1 DEF HandFine
  <2> QED
    BY <2>1, <2>2
<1> QED
  BY <1>1, <1>2, <1>3 DEF Fine

LEMMA WorkerStaysFine ==
  ASSUME StructureOK, StructureOK', Fine, NEW w \in Workers, WorkerStep(w),
         UNCHANGED crashes
  PROVE  Fine'
<1> USE BudgetTypes
<1>a. Slack' \in Nat /\ LeastBudget' = LeastBudget
  BY SlackType DEF LeastBudget
<1>b. Slack' = Slack
  BY DEF Slack, WorkerStep, Wake, ClaimNextEvent, FindQueueEmpty, Lookup, CountAttempts,
         CheckBreaker, Defer, Post, Reply, InsertAttempt, MarkDelivered, MarkRetry,
         MarkFailed, Bury, Requeue, storeVars
<1>c. HandFine(w) /\ \A e \in EventIds : EventFine(e)
  BY DEF Fine
<1>d. \A v \in Workers : v # w /\ InHand(v) /\ InHand(w) => ev[v] # ev[w]
  BY DEF Fine, Apart
(* A step within a pass: only the worker's own event is touched.           *)
<1>e. ASSUME InHand(w), ev' = ev,
             \E l : pc' = [pc EXCEPT ![w] = l],
             \E n : attemptNum' = [attemptNum EXCEPT ![w] = n],
             \A f \in EventIds : f # ev[w] => /\ status'[f] = status[f]
                                             /\ attempts'[f] = attempts[f]
                                             /\ sends'[f] = sends[f],
             EventFine(ev[w])', HandFine(w)'
      PROVE  Fine'
  <2>1. PICK c \in EventIds : c = ev[w]
    BY <1>e
  <2>2. Concerns(w, c) /\ EventFine(c)'
    BY <1>d, <1>e, <2>1 DEF Concerns
  <2> QED
    BY <1>a, <1>b, <1>e, <2>2, OthersStayFine
<1>1. CASE Wake(w) \/ FindQueueEmpty(w)
  <2>1. ~InHand(w) /\ UNCHANGED << ev, status, attempts, sends >>
    BY <1>1 DEF Wake, FindQueueEmpty, InHand, storeVars
  <2>2. PICK l \in {"claim", "sleep"} : pc' = [pc EXCEPT ![w] = l]
    BY <1>1 DEF Wake, FindQueueEmpty, Finish, Goto
  <2>3. \A v \in Workers : v # w => attemptNum'[v] = attemptNum[v]
    BY <1>1 DEF Wake, FindQueueEmpty, Finish
  <2>4. Slack' >= Slack
    BY <1>a, <1>b
  <2> QED
    BY <2>1, <2>2, <2>3, <2>4, IdleKeepsFine
<1>2. ASSUME NEW e \in EventIds, ClaimNextEvent(w, e)
      PROVE  Fine'
  <2>1. /\ pc[w] = "claim" /\ status[e] = "RECEIVED"
        /\ pc' = [pc EXCEPT ![w] = "lookup"]
        /\ ev' = [ev EXCEPT ![w] = e]
        /\ status' = [status EXCEPT ![e] = "PROCESSING"]
        /\ UNCHANGED << attempts, sends, attemptNum >>
    BY <1>2 DEF ClaimNextEvent, IsOldestReceived, SetStatus, Goto
  <2>2. \A v \in Workers : InHand(v) => ev[v] # e
    BY <2>1 DEF Fine, HandFine
  <2>3. Concerns(w, e)
    BY <2>1, <2>2 DEF Concerns, InHand
  <2>4. EventFine(e)'
    <3>1. OnTheWay(e) => FALSE
      BY <2>2 DEF OnTheWay, InHand
    <3> QED
      BY <1>a, <1>b, <1>c, <2>1, <3>1 DEF EventFine
  <2>5. HandFine(w)'
    <3>1. pc'[w] = "lookup" /\ ev'[w] = e /\ status'[e] = "PROCESSING" /\ sends'[e] = sends[e]
      BY <2>1
    <3>2. sends[e] < LeastBudget + Slack
      BY <1>c, <2>1 DEF EventFine
    <3> QED
      BY <1>a, <1>b, <3>1, <3>2 DEF HandFine, InHand
  <2> QED
    BY <1>a, <1>b, <2>3, <2>4, <2>5, OthersStayFine
<1>3. CASE Lookup(w)
  <2>1. pc[w] = "lookup" /\ ev[w] \in EventIds /\ status[ev[w]] = "PROCESSING"
    BY <1>3, <1>c DEF Lookup, HandFine, Delivering, InHand
  <2>2. endpoints[endpointOf[ev[w]]] = "live"
    BY <2>1 DEF StructureOK, RowsOK
  <2>3. pc' = [pc EXCEPT ![w] = "count"] /\ UNCHANGED << ev, attemptNum, status, attempts, sends >>
    BY <1>3, <2>1, <2>2 DEF Lookup, Goto, storeVars
  <2>4. OnTheWay(ev[w]) => OnTheWay(ev[w])'
    BY <2>1, <2>3 DEF OnTheWay
  <2>5. EventFine(ev[w])'
    BY <1>a, <1>b, <1>c, <2>1, <2>3, <2>4 DEF EventFine
  <2>6. HandFine(w)'
    BY <1>a, <1>b, <1>c, <2>1, <2>3 DEF HandFine, InHand
  <2> QED
    BY <1>e, <2>1, <2>3, <2>5, <2>6 DEF InHand
<1>4. CASE CountAttempts(w)
  <2>1. /\ pc[w] = "count" /\ ev[w] \in EventIds
        /\ pc' = [pc EXCEPT ![w] = "admit"]
        /\ attemptNum' = [attemptNum EXCEPT ![w] = attempts[ev[w]] + 1]
        /\ UNCHANGED << ev, status, attempts, sends >>
    BY <1>4 DEF CountAttempts, Goto, InHand, storeVars
  <2>2. OnTheWay(ev[w]) => OnTheWay(ev[w])'
    BY <2>1 DEF OnTheWay
  <2>3. EventFine(ev[w])'
    BY <1>a, <1>b, <1>c, <2>1, <2>2 DEF EventFine
  <2>4. HandFine(w)'
    BY <1>a, <1>b, <1>c, <2>1 DEF HandFine, InHand, Delivering
  <2> QED
    BY <1>e, <2>1, <2>3, <2>4 DEF InHand
<1>5. CASE CheckBreaker(w)
  <2>1. /\ pc[w] = "admit" /\ ev[w] \in EventIds
        /\ UNCHANGED << ev, attemptNum, status, attempts, sends >>
    BY <1>5 DEF CheckBreaker, InHand, storeVars
  <2>2. PICK l \in {"post", "defer"} : pc' = [pc EXCEPT ![w] = l]
    BY <1>5 DEF CheckBreaker, Goto
  <2>3. OnTheWay(ev[w]) => OnTheWay(ev[w])'
    BY <2>1, <2>2 DEF OnTheWay
  <2>4. EventFine(ev[w])'
    BY <1>a, <1>b, <1>c, <2>1, <2>3 DEF EventFine
  <2>5. HandFine(w)'
    BY <1>a, <1>b, <1>c, <2>1, <2>2 DEF HandFine, InHand, Delivering
  <2> QED
    BY <1>e, <2>1, <2>2, <2>4, <2>5 DEF InHand
<1>6. CASE Post(w)
  <2>1. /\ pc[w] = "post" /\ ev[w] \in EventIds
        /\ pc' = [pc EXCEPT ![w] = "await"]
        /\ sends' = [sends EXCEPT ![ev[w]] = sends[ev[w]] + 1]
        /\ UNCHANGED << ev, attemptNum, status, attempts >>
    BY <1>6 DEF Post, Goto, InHand
  <2>2. ~OnTheWay(ev[w])
    BY <1>d, <2>1 DEF OnTheWay, InHand
  <2>3. OnTheWay(ev[w])'
    BY <2>1 DEF OnTheWay
  <2>4. /\ status[ev[w]] = "PROCESSING" /\ sends[ev[w]] < LeastBudget + Slack
        /\ attemptNum[w] = attempts[ev[w]] + 1
    BY <1>c, <2>1 DEF HandFine, Delivering
  <2>5. attempts[ev[w]] <= sends[ev[w]] /\ sends[ev[w]] <= attempts[ev[w]] + Slack
    BY <1>c, <2>1, <2>2, <2>4 DEF EventFine
  <2>6. EventFine(ev[w])'
    BY <1>a, <1>b, <2>1, <2>3, <2>4, <2>5 DEF EventFine
  <2>7. HandFine(w)'
    BY <1>a, <1>b, <2>1, <2>4, <2>5 DEF HandFine, InHand, Delivering
  <2> QED
    BY <1>e, <2>1, <2>6, <2>7 DEF InHand
<1>7. ASSUME NEW ok \in BOOLEAN, Reply(w, ok)
      PROVE  Fine'
  <2>1. /\ pc[w] = "await" /\ ev[w] \in EventIds
        /\ pc' = [pc EXCEPT ![w] = "insert"]
        /\ UNCHANGED << ev, attemptNum, status, attempts, sends >>
    BY <1>7 DEF Reply, Goto, InHand, storeVars
  <2>2. OnTheWay(ev[w]) => OnTheWay(ev[w])'
    BY <2>1 DEF OnTheWay
  <2>3. EventFine(ev[w])'
    BY <1>a, <1>b, <1>c, <2>1, <2>2 DEF EventFine
  <2>4. HandFine(w)'
    BY <1>a, <1>b, <1>c, <2>1 DEF HandFine, InHand, Delivering
  <2> QED
    BY <1>e, <2>1, <2>3, <2>4 DEF InHand
<1>8. CASE InsertAttempt(w)
  <2>1. /\ pc[w] = "insert" /\ ev[w] \in EventIds /\ status[ev[w]] = "PROCESSING"
        /\ attemptNum[w] = attempts[ev[w]] + 1
        /\ attempts[ev[w]] < sends[ev[w]]
    BY <1>8, <1>c DEF InsertAttempt, HandFine, Delivering, InHand
  <2>2. /\ pc' = [pc EXCEPT ![w] = "mark"]
        /\ attempts' = [attempts EXCEPT ![ev[w]] = attempts[ev[w]] + 1]
        /\ UNCHANGED << ev, attemptNum, status, sends >>
    BY <1>8, <2>1 DEF InsertAttempt, Goto
  <2>3. EventFine(ev[w])'
    BY <1>a, <1>b, <1>c, <2>1, <2>2 DEF EventFine
  <2>4. HandFine(w)'
    BY <1>a, <1>b, <1>c, <2>1, <2>2 DEF HandFine, InHand, Delivering
  <2> QED
    BY <1>e, <2>1, <2>2, <2>3, <2>4 DEF InHand
(* The worker lets its event go.                                           *)
<1>9. ASSUME InHand(w), ev' = ev, NEW l \in {"claim", "sleep"}, pc' = [pc EXCEPT ![w] = l],
             attemptNum' = [attemptNum EXCEPT ![w] = 0],
             UNCHANGED << attempts, sends >>, ~OnTheWay(ev[w]),
             NEW s \in EventStatus, status' = [status EXCEPT ![ev[w]] = IF @ = "NONE" THEN @ ELSE s],
             s = "FAILED" => status[ev[w]] = "FAILED",
             s = "RECEIVED" => status[ev[w]] = "NONE" \/ sends[ev[w]] < LeastBudget + Slack
      PROVE  Fine'
  <2>1. ev[w] \in EventIds
    BY <1>9
  <2>2. EventFine(ev[w])'
    BY <1>a, <1>b, <1>c, <1>9, <2>1 DEF EventFine, EventStatus
  <2>3. HandFine(w)'
    BY <1>9 DEF HandFine, InHand, Delivering
  <2> QED
    BY <1>e, <1>9, <2>1, <2>2, <2>3
<1>10. ASSUME InHand(w), pc[w] \notin {"await", "insert"}
       PROVE  ~OnTheWay(ev[w])
  BY <1>d, <1>10 DEF OnTheWay, InHand
<1>11. CASE Defer(w)
  <2>1. /\ pc[w] = "defer" /\ SetStatus(ev[w], "RECEIVED")
        /\ UNCHANGED << ev, attempts, sends >>
        /\ pc' = [pc EXCEPT ![w] = "sleep"]
        /\ attemptNum' = [attemptNum EXCEPT ![w] = 0]
    BY <1>11 DEF Defer, Finish, Goto
  <2>2. sends[ev[w]] < LeastBudget + Slack
    BY <1>c, <2>1 DEF HandFine
  <2> QED
    BY <1>9, <1>10, <2>1, <2>2 DEF SetStatus, InHand, EventStatus
<1>12. CASE MarkRetry(w)
  <2>1. /\ pc[w] = "mark" /\ SetStatus(ev[w], "RECEIVED") /\ attemptNum[w] < MaxAttempts
        /\ UNCHANGED << ev, attempts, sends >>
        /\ pc' = [pc EXCEPT ![w] = "claim"]
        /\ attemptNum' = [attemptNum EXCEPT ![w] = 0]
    BY <1>12 DEF MarkRetry, Finish, Goto
  <2>2. ~OnTheWay(ev[w]) /\ ev[w] \in EventIds
    BY <1>10, <2>1 DEF InHand
  <2>3. attemptNum[w] = attempts[ev[w]] /\ status[ev[w]] = "PROCESSING"
    BY <1>c, <2>1 DEF HandFine, Delivering
  <2>4. sends[ev[w]] <= attempts[ev[w]] + Slack
    BY <1>c, <2>2, <2>3 DEF EventFine
  <2>5. sends[ev[w]] < LeastBudget + Slack
    BY <2>1, <2>2, <2>3, <2>4
  <2> QED
    BY <1>9, <2>1, <2>2, <2>5 DEF SetStatus, InHand, EventStatus
<1>13. CASE MarkDelivered(w)
  <2>1. /\ pc[w] = "mark" /\ SetStatus(ev[w], "DELIVERED")
        /\ UNCHANGED << ev, attempts, sends >>
        /\ pc' = [pc EXCEPT ![w] = "claim"]
        /\ attemptNum' = [attemptNum EXCEPT ![w] = 0]
    BY <1>13 DEF MarkDelivered, Finish, Goto
  <2> QED
    BY <1>9, <1>10, <2>1 DEF SetStatus, InHand, EventStatus
<1>14. CASE MarkFailed(w)
  <2>1. /\ pc[w] = "mark" /\ ev[w] \in EventIds /\ attemptNum[w] >= MaxAttempts
        /\ attemptNum[w] = attempts[ev[w]] /\ status[ev[w]] = "PROCESSING"
    BY <1>14, <1>c DEF MarkFailed, HandFine, Delivering, InHand
  <2>2. /\ pc' = [pc EXCEPT ![w] = "bury"]
        /\ status' = [status EXCEPT ![ev[w]] = "FAILED"]
        /\ UNCHANGED << ev, attemptNum, attempts, sends >>
    BY <1>14, <2>1 DEF MarkFailed, Goto, SetStatus
  <2>3. ~OnTheWay(ev[w])
    BY <1>10, <2>1 DEF InHand
  <2>4. EventFine(ev[w])'
    BY <1>a, <1>b, <1>c, <2>1, <2>2, <2>3 DEF EventFine
  <2>5. HandFine(w)'
    BY <1>a, <1>b, <1>c, <2>1, <2>2 DEF HandFine, InHand, Delivering
  <2> QED
    BY <1>e, <2>1, <2>2, <2>4, <2>5 DEF InHand
<1>15. CASE Bury(w)
  <2>1. /\ pc[w] = "bury" /\ ev[w] \in EventIds
        /\ UNCHANGED << ev, status, attempts, sends >>
    BY <1>15 DEF Bury, InHand
  <2>2. ~OnTheWay(ev[w])
    BY <1>10, <2>1 DEF InHand
  <2>3. EventFine(ev[w])'
    BY <1>a, <1>b, <1>c, <2>1, <2>2 DEF EventFine
  <2>4. PICK l \in {"claim", "requeue"} :
          /\ pc' = [pc EXCEPT ![w] = l]
          /\ \E n : attemptNum' = [attemptNum EXCEPT ![w] = n]
          /\ l = "requeue" => status[ev[w]] = "NONE"
    <3>1. CASE status[ev[w]] # "NONE"
      BY <1>15, <3>1 DEF Bury, Finish, Goto
    <3>2. CASE status[ev[w]] = "NONE"
      <4>1. attemptNum' = [attemptNum EXCEPT ![w] = attemptNum[w]]
        BY <1>15, <3>2 DEF Bury
      <4> QED
        BY <1>15, <3>2, <4>1 DEF Bury, Goto
    <3> QED
      BY <3>1, <3>2
  <2>5. HandFine(w)'
    BY <1>c, <2>1, <2>4 DEF HandFine, InHand, Delivering
  <2> QED
    BY <1>e, <2>1, <2>3, <2>4, <2>5 DEF InHand
<1>16. CASE Requeue(w)
  <2>1. /\ pc[w] = "requeue" /\ SetStatus(ev[w], "RECEIVED")
        /\ UNCHANGED << ev, attempts, sends >>
        /\ pc' = [pc EXCEPT ![w] = "sleep"]
        /\ attemptNum' = [attemptNum EXCEPT ![w] = 0]
    BY <1>16 DEF Requeue, Finish, Goto
  <2>2. status[ev[w]] = "NONE" \/ sends[ev[w]] < LeastBudget + Slack
    BY <1>c, <2>1 DEF HandFine
  <2> QED
    BY <1>9, <1>10, <2>1, <2>2 DEF SetStatus, InHand, EventStatus
<1> QED
  BY <1>1, <1>2, <1>3, <1>4, <1>5, <1>6, <1>7, <1>8, <1>11, <1>12, <1>13, <1>14, <1>15, <1>16
     DEF WorkerStep

LEMMA FaultStaysFine ==
  ASSUME StructureOK, StructureOK', Fine, NEW w \in Workers, WorkerFault(w),
         UNCHANGED crashes
  PROVE  Fine'
<1> USE BudgetTypes
<1>a. Slack' \in Nat /\ LeastBudget' = LeastBudget
  BY SlackType DEF LeastBudget
<1>b. Slack' = Slack + 1
  <2>1. faults' = faults + 1
    BY DEF WorkerFault, ClaimFault, DispatchFault, RequeueFault, Fault
  <2>2. Slack' = faults' + crashes'
    BY DEF Slack
  <2> QED
    BY <2>1, <2>2 DEF Slack
<1>c. HandFine(w) /\ \A e \in EventIds : EventFine(e)
  BY DEF Fine
<1>d. \A v \in Workers : v # w /\ InHand(v) /\ InHand(w) => ev[v] # ev[w]
  BY DEF Fine, Apart
<1>1. CASE ClaimFault(w)
  <2>1. ~InHand(w) /\ UNCHANGED << ev, status, attempts, sends >>
    BY <1>1 DEF ClaimFault, InHand
  <2>2. pc' = [pc EXCEPT ![w] = "sleep"] /\ attemptNum' = [attemptNum EXCEPT ![w] = 0]
    BY <1>1 DEF ClaimFault, Finish, Goto
  <2>3. Slack' >= Slack
    BY <1>a, <1>b
  <2> QED
    BY <2>1, <2>2, <2>3, IdleKeepsFine
<1>2. CASE DispatchFault(w) \/ RequeueFault(w)
  <2>1. /\ InHand(w) /\ ev[w] \in EventIds /\ pc[w] # "await"
        /\ UNCHANGED << ev, status, attempts, sends >>
    BY <1>2 DEF DispatchFault, RequeueFault, InHand
  <2>2. PICK l \in {"sleep", "requeue"} :
          /\ pc' = [pc EXCEPT ![w] = l]
          /\ \E n : attemptNum' = [attemptNum EXCEPT ![w] = n]
    <3>1. CASE DispatchFault(w)
      <4>1. attemptNum' = [attemptNum EXCEPT ![w] = attemptNum[w]]
        BY <3>1 DEF DispatchFault
      <4> QED
        BY <3>1, <4>1 DEF DispatchFault, Goto
    <3>2. CASE RequeueFault(w)
      BY <3>2 DEF RequeueFault, Finish, Goto
    <3> QED
      BY <1>2, <3>1, <3>2
  <2>3. EventFine(ev[w])
    BY <1>c, <2>1
  <2>4. /\ EventFine(ev[w])'
        /\ sends'[ev[w]] < LeastBudget + Slack'
    BY <1>a, <1>b, <2>1, <2>3 DEF EventFine
  <2>5. HandFine(w)'
    BY <1>a, <1>c, <2>1, <2>2, <2>4 DEF HandFine, InHand, Delivering
  <2>6. PICK c \in EventIds : c = ev[w]
    BY <2>1
  <2>7. Concerns(w, c) /\ EventFine(c)'
    BY <1>d, <2>1, <2>2, <2>4, <2>6 DEF Concerns
  <2>8. Slack' >= Slack
    BY <1>a, <1>b
  <2> QED
    BY <2>5, <2>7, <2>8, OthersStayFine
<1> QED
  BY <1>1, <1>2 DEF WorkerFault

-----------------------------------------------------------------------------
(* The steps of everybody else.                                            *)

LEMMA IntakeStaysFine ==
  ASSUME StructureOK, StructureOK', Fine, UnusedOK, IngestNext,
         UNCHANGED << dispatchVars, crashes >>
  PROVE  Fine'
<1> USE BudgetTypes
<1>a. Slack' \in Nat /\ LeastBudget' = LeastBudget
  BY SlackType DEF LeastBudget
<1>b. UNCHANGED << pc, ev, attemptNum >>
  BY DEF dispatchVars
<1>c. Slack' = faults' + crashes'
  BY DEF Slack
<1>1. ASSUME NEW i \in Ingesters, AcceptEvent(i)
      PROVE  Fine'
  <2>a. lastEvent + 1 \in EventIds
    BY <1>1, AcceptGrows
  <2>b. PICK n \in EventIds : n = lastEvent + 1
    BY <2>a
  <2>1. /\ status' = [status EXCEPT ![n] = "RECEIVED"]
        /\ UNCHANGED << attempts, sends, faults >>
    BY <1>1, <2>b DEF AcceptEvent, InsertEvent
  <2>2. Slack' = Slack
    BY <1>c, <2>1 DEF Slack
  <2>3. \A w \in Workers : InHand(w) => ev[w] \in EventIds /\ ev[w] # n
    <3>1. ASSUME NEW w \in Workers, InHand(w)
          PROVE  ev[w] \in EventIds /\ ev[w] # n
      <4>1. ev[w] \in EventIds /\ ev[w] <= lastEvent
        BY <3>1
      <4> QED
        BY <2>b, <4>1 DEF EventIds
    <3> QED
      BY <3>1
  <2>4. sends[n] = 0 /\ attempts[n] = 0
    BY <2>b DEF UnusedOK
  <2>5. Apart'
    BY <1>b DEF Fine, Apart, InHand
  <2>6. \A e \in EventIds : EventFine(e)'
    <3>1. ASSUME NEW e \in EventIds
          PROVE  EventFine(e)'
      <4>1. EventFine(e) /\ (OnTheWay(e)' <=> OnTheWay(e))
        BY <1>b DEF Fine, OnTheWay
      <4>2. CASE e = n
        BY <1>a, <2>1, <2>2, <2>4, <4>1, <4>2 DEF EventFine
      <4>3. CASE e # n
        BY <1>a, <2>1, <2>2, <4>1, <4>3 DEF EventFine
      <4> QED
        BY <4>2, <4>3
    <3> QED
      BY <3>1
  <2>7. \A w \in Workers : HandFine(w)'
    <3>1. ASSUME NEW w \in Workers
          PROVE  HandFine(w)'
      <4>1. HandFine(w) /\ (InHand(w)' <=> InHand(w))
        BY <1>b DEF Fine, InHand
      <4>2. CASE InHand(w)
        <5>1. status'[ev[w]] = status[ev[w]]
          BY <2>1, <2>3, <4>2
        <5> QED
          BY <1>a, <1>b, <2>1, <2>2, <4>1, <4>2, <5>1 DEF HandFine
      <4>3. CASE ~InHand(w)
        BY <1>b, <4>1, <4>3 DEF HandFine, InHand, Delivering
      <4> QED
        BY <4>2, <4>3
    <3> QED
      BY <3>1
  <2> QED
    BY <2>5, <2>6, <2>7 DEF Fine
<1>2. ASSUME UNCHANGED << status, attempts, sends >>, faults' >= faults
      PROVE  Fine'
  <2>1. Slack' >= Slack
    <3>1. faults' \in Nat
      BY DEF StructureOK, TypeOK, StoreTypeOK
    <3>2. ASSUME NEW m \in Nat, NEW n \in Nat, NEW p \in Nat, m >= n
          PROVE  m + p >= n + p
      BY <3>2
    <3>3. faults' + crashes >= faults + crashes
      BY <1>2, <3>1, <3>2
    <3> QED
      BY <1>c, <3>3 DEF Slack
  <2> QED
    BY <1>b, <1>2, <2>1, FineStays
<1>3. CASE \E i \in Ingesters : AcceptEvent(i)
  BY <1>1, <1>3
<1>4. CASE \A i \in Ingesters : ~AcceptEvent(i)
  BY <1>2, <1>4
     DEF IngestNext, IngestStep, Receive, LookupEndpoint, RefuseDuplicate, RefuseOrphan,
         IngestFault, HangUp, Fault, storeVars
<1> QED
  BY <1>3, <1>4

LEMMA DeleteStaysFine ==
  ASSUME StructureOK, StructureOK', Fine, EndpointsNext,
         UNCHANGED << dispatchVars, crashes >>
  PROVE  Fine'
<1> USE BudgetTypes
<1>a. Slack' \in Nat /\ LeastBudget' = LeastBudget /\ Slack' = Slack
  BY SlackType DEF LeastBudget, Slack, EndpointsNext, CreateEndpoint, DeleteEndpoint, Cascade
<1>b. UNCHANGED << pc, ev, attemptNum >>
  BY DEF dispatchVars
<1>1. ASSUME NEW ep \in EndpointIds, CreateEndpoint(ep)
      PROVE  Fine'
  BY <1>1, <1>a, <1>b, FineStays DEF CreateEndpoint
<1>2. ASSUME NEW ep \in EndpointIds, DeleteEndpoint(ep)
      PROVE  Fine'
  <2>1. /\ \A e \in EventIds :
             \/ status'[e] = "NONE" /\ attempts'[e] = 0 /\ status[e] # "PROCESSING"
             \/ status'[e] = status[e] /\ attempts'[e] = attempts[e]
        /\ sends' = sends
    BY <1>2 DEF DeleteEndpoint, Cascade, Pending
  <2>2. Apart'
    BY <1>b DEF Fine, Apart, InHand
  <2>3. ASSUME NEW e \in EventIds
        PROVE  EventFine(e)'
    <3>1. EventFine(e) /\ (OnTheWay(e)' <=> OnTheWay(e))
      BY <1>b DEF Fine, OnTheWay
    <3> QED
      BY <1>a, <2>1, <3>1 DEF EventFine
  <2>4. ASSUME NEW w \in Workers
        PROVE  HandFine(w)'
    <3>1. HandFine(w) /\ (InHand(w)' <=> InHand(w))
      BY <1>b DEF Fine, InHand
    <3>2. CASE pc[w] \in Delivering
      <4>1. /\ ev[w] \in EventIds /\ status'[ev[w]] = status[ev[w]]
            /\ attempts'[ev[w]] = attempts[ev[w]]
        BY <2>1, <3>1, <3>2 DEF HandFine, InHand, Delivering
      <4> QED
        BY <1>a, <1>b, <2>1, <3>1, <4>1 DEF HandFine
    <3>3. CASE pc[w] \notin Delivering /\ InHand(w)
      <4>1. ev[w] \in EventIds
        BY <3>3
      <4> QED
        BY <1>a, <1>b, <2>1, <3>1, <3>3, <4>1 DEF HandFine, Delivering
    <3>4. CASE ~InHand(w)
      BY <1>b, <3>1, <3>4 DEF HandFine, InHand, Delivering
    <3> QED
      BY <3>2, <3>3, <3>4
  <2> QED
    BY <2>2, <2>3, <2>4 DEF Fine
<1> QED
  BY <1>1, <1>2 DEF EndpointsNext

LEMMA RestartStaysFine ==
  ASSUME StructureOK, StructureOK', Fine, Restart
  PROVE  Fine'
<1> USE BudgetTypes
<1>a. Slack' \in Nat /\ LeastBudget' = LeastBudget
  BY SlackType DEF LeastBudget
<1>b. Slack' = Slack + 1
  <2>1. faults' = faults /\ crashes' = crashes + 1
    BY DEF Restart, storeVars
  <2>2. Slack' = faults' + crashes'
    BY DEF Slack
  <2> QED
    BY <2>1, <2>2 DEF Slack
<1>c. /\ UNCHANGED << status, attempts, sends >>
      /\ \A w \in Workers : pc'[w] = "claim"
  BY DEF Restart, storeVars
<1>1. Apart' /\ \A w \in Workers : HandFine(w)'
  BY <1>c DEF Apart, HandFine, InHand, Delivering
<1>2. ASSUME NEW e \in EventIds
      PROVE  EventFine(e)'
  <2>1. EventFine(e)
    BY DEF Fine
  <2> QED
    BY <1>a, <1>b, <1>c, <2>1 DEF EventFine
<1> QED
  BY <1>1, <1>2 DEF Fine

-----------------------------------------------------------------------------
(* All steps together.                                                     *)

LEMMA BudgetInvInit == Init => BudgetInv
<1>1. 0 <= LeastBudget + 0 /\ 0 < LeastBudget + 0 /\ 0 <= 0 + 0
  BY DispatchAssumption DEF LeastBudget
<1>2. Init => Slack = 0
  BY DEF Init, StoreInit, Slack
<1> QED
  BY <1>1, <1>2
     DEF Init, StoreInit, DispatchInit, ReplayInit, BudgetInv, NobodyReplays, SingleHand,
         AttemptsWentOut, SendsAreFew, InHand, Delivering, OnTheWay

LEMMA NobodyReplaysStep ==
  ASSUME StructureOK, Next, replays' = 0, replays = 0 => NobodyReplays
  PROVE  replays = 0 /\ NobodyReplays /\ NobodyReplays' /\ ~ReplayNext
<1>a. replays \in Nat /\ rpc \in [Replayers -> {"idle", "update", "clear", "remove"}]
  BY DEF StructureOK, TypeOK, ReplayTypeOK
<1>1. \/ ReplayNext
      \/ replays' = replays /\ (NobodyReplays => NobodyReplays')
  BY DEF Next, Crash, Shutdown, Restart, replayVars, NobodyReplays
<1>2. ASSUME ReplayNext
      PROVE  FALSE
  <2>1. replays' = replays
    BY <1>2, <1>a DEF ReplayNext, ReplayStep, ReplaySelect, ReplayUpdate, ReplayClear,
                      ReplayRemove, ReplayFault
  <2>2. NobodyReplays
    BY <2>1
  <2> QED
    BY <1>2, <1>a, <2>1, <2>2
       DEF ReplayNext, ReplayStep, ReplaySelect, ReplayUpdate, ReplayClear, ReplayRemove,
           ReplayFault, NobodyReplays
<1> QED
  BY <1>1, <1>2

LEMMA BudgetInvStep ==
  ASSUME StructureOK, StructureOK', UnusedOK, BudgetInv, [Next]_vars
  PROVE  BudgetInv'
<1>1. CASE UNCHANGED vars
  <2>1. /\ UNCHANGED << pc, ev, attemptNum, status, attempts, sends, faults, crashes, replays, rpc >>
    BY <1>1 DEF vars, storeVars, dispatchVars, replayVars
  <2> QED
    BY <2>1 DEF BudgetInv, NobodyReplays, SingleHand, AttemptsWentOut, SendsAreFew, InHand,
                OnTheWay, Slack, LeastBudget
<1>2. CASE Next
  <2> SUFFICES ASSUME replays' = 0
               PROVE  NobodyReplays' /\ Fine'
    BY DEF BudgetInv, Fine, Apart, EventFine, HandFine, SingleHand, AttemptsWentOut, SendsAreFew
  <2>a. Fine /\ NobodyReplays' /\ ~ReplayNext
    BY <1>2, FineIsBudget, NobodyReplaysStep
  <2>1. CASE DispatchNext /\ UNCHANGED << replayVars, ingestVars, crashes >>
    <3>1. ASSUME NEW ep \in EndpointIds, RecoveryEnds(ep)
          PROVE  Fine'
      <4>1. UNCHANGED << pc, ev, attemptNum, status, attempts, sends, faults >>
        BY <3>1 DEF RecoveryEnds, storeVars
      <4>2. Slack' = Slack
        BY <2>1, <4>1 DEF Slack
      <4> QED
        BY <2>a, <4>1, <4>2, BudgetTypes, FineStays
    <3> QED
      BY <2>1, <2>a, <3>1, WorkerStaysFine, FaultStaysFine DEF DispatchNext
  <2>2. CASE IngestNext /\ UNCHANGED << dispatchVars, replayVars, crashes >>
    BY <2>2, <2>a, IntakeStaysFine
  <2>3. CASE EndpointsNext /\ UNCHANGED << dispatchVars, replayVars, ingestVars, crashes >>
    BY <2>3, <2>a, DeleteStaysFine
  <2>4. CASE Restart
    BY <2>4, <2>a, RestartStaysFine
  <2> QED
    BY <1>2, <2>1, <2>2, <2>3, <2>4, <2>a DEF Next, Crash, Shutdown
<1> QED
  BY <1>1, <1>2

LEMMA BudgetInvariance == Spec => [](StructureOK /\ UnusedOK /\ BudgetInv)
BY BudgetInvInit, BudgetInvStep, UnusedInvariance, StructureStep, PTL DEF Spec

(* An event that was never replayed is dead-lettered only after            *)
(* max_attempts requests went out (dispatcher.rs:174), for any number of   *)
(* workers, failing database calls and restarts.                           *)
THEOREM BudgetIsUsed == Spec => []FullBudgetUsed
<1>1. BudgetInv => FullBudgetUsed
  BY DEF BudgetInv, AttemptsWentOut, FullBudgetUsed
<1> QED
  BY <1>1, BudgetInvariance, PTL

(* The target sees an event at most max_attempts times, and once more for  *)
(* each database call that failed and each restart (dispatcher.rs:142).    *)
THEOREM SendsAreBounded == Spec => []BoundedSends
<1>1. StructureOK /\ BudgetInv => BoundedSends
  <2> SUFFICES ASSUME StructureOK, BudgetInv, replays = 0, NEW e \in EventIds
               PROVE  \/ sends[e] <= MaxAttempts + faults + crashes
                      \/ sends[e] <= 1 + faults + crashes
    BY DEF BoundedSends
  <2>1. sends[e] <= LeastBudget + Slack
    BY DEF BudgetInv, SendsAreFew
  <2>2. faults \in Nat /\ crashes \in Nat /\ sends[e] \in Nat /\ MaxAttempts \in Nat
    BY BudgetTypes
  <2> QED
    BY <2>1, <2>2 DEF LeastBudget, Slack
<1> QED
  BY <1>1, BudgetInvariance, PTL

-----------------------------------------------------------------------------
(* Events are settled in their order.                                      *)

Waiting == {"RECEIVED", "PROCESSING"}
Settled == {"DELIVERED", "FAILED"}

OldestFirst ==
  \A w \in Workers, e \in EventIds :
    InHand(w) => /\ e < ev[w] => status[e] \notin Waiting
                 /\ e > ev[w] => status[e] \notin Settled

InOrder ==
  \A e, f \in EventIds :
    f < e /\ status[e] \in Settled => status[f] \notin Waiting

Premise == SoleWorker /\ replays = 0 /\ AtMostOneFault

LEMMA OrderParts == /\ OldestInHand <=> (Premise => OldestFirst)
                    /\ SettledInOrder <=> (Premise => InOrder)
BY DEF OldestInHand, SettledInOrder, Premise, OldestFirst, InOrder, Waiting, Settled

(* Whatever the worker makes of the event it has in hand.                  *)
LEMMA OwnEventKeepsOrder ==
  ASSUME StructureOK, OldestFirst, InOrder, NEW w \in Workers, \A v \in Workers : v = w,
         InHand(w), ev' = ev,
         \A f \in EventIds : f # ev[w] => status'[f] = status[f]
  PROVE  OldestFirst' /\ InOrder'
<1>a. ev[w] \in EventIds /\ ev'[w] = ev[w]
  BY BudgetTypes
<1>b. \A e \in EventIds : /\ e < ev[w] => e # ev[w] /\ status[e] \notin Waiting
                          /\ e > ev[w] => e # ev[w] /\ status[e] \notin Settled
  BY <1>a DEF OldestFirst, EventIds
<1>1. OldestFirst'
  BY <1>a, <1>b DEF OldestFirst
<1>2. ASSUME NEW e \in EventIds, NEW f \in EventIds, f < e, status'[e] \in Settled
      PROVE  status'[f] \notin Waiting
  <2>1. CASE e = ev[w]
    BY <1>b, <1>2, <2>1
  <2>2. CASE f = ev[w]
    <3>1. e > ev[w]
      BY <1>2, <2>2 DEF EventIds
    <3> QED
      BY <1>b, <1>2, <3>1
  <2>3. CASE e # ev[w] /\ f # ev[w]
    BY <1>2, <2>3 DEF InOrder
  <2> QED
    BY <2>1, <2>2, <2>3
<1> QED
  BY <1>1, <1>2 DEF InOrder

LEMMA OrderStep ==
  ASSUME StructureOK, ProcessingIsCarried, BudgetInv, OldestInHand, SettledInOrder,
         [Next]_vars
  PROVE  OldestInHand' /\ SettledInOrder'
<1>1. CASE UNCHANGED vars
  <2>1. UNCHANGED << pc, ev, status, faults, crashes, replays >>
    BY <1>1 DEF vars, storeVars, dispatchVars, replayVars
  <2> QED
    BY <2>1 DEF OldestInHand, SettledInOrder, SoleWorker, AtMostOneFault, InHand
<1>2. CASE Next
  <2> SUFFICES ASSUME SoleWorker, replays' = 0, AtMostOneFault'
               PROVE  OldestFirst' /\ InOrder'
    BY DEF OldestInHand, SettledInOrder, OldestFirst, InOrder, Waiting, Settled, SoleWorker
  <2> USE BudgetTypes
  <2>a. replays = 0 /\ ~ReplayNext
    BY <1>2, FineIsBudget, NobodyReplaysStep
  <2>b. AtMostOneFault
    BY <1>2, Monotone
  <2>c. OldestFirst /\ InOrder
    BY <2>a, <2>b, OrderParts DEF Premise
  <2>d. ~Restart
    <3>1. crashes \in Nat /\ crashes' = 0
      BY DEF AtMostOneFault
    <3> QED
      BY <3>1 DEF Restart
  <2>1. ASSUME NEW w \in Workers, NEW e \in EventIds, ClaimNextEvent(w, e)
        PROVE  OldestFirst' /\ InOrder'
    <3>1. /\ pc[w] = "claim" /\ status[e] = "RECEIVED"
          /\ \A f \in EventIds : status[f] = "RECEIVED" => e <= f
          /\ ev' = [ev EXCEPT ![w] = e]
          /\ status' = [status EXCEPT ![e] = "PROCESSING"]
      BY <2>1 DEF ClaimNextEvent, IsOldestReceived, SetStatus
    <3>2. \A v \in Workers : v = w
      BY DEF SoleWorker
    <3>3. \A f \in EventIds : status[f] # "PROCESSING"
      BY <2>b, <3>1, <3>2 DEF ProcessingIsCarried, Uncarried, Carries
    <3>4. \A f \in EventIds : f < e => f # e /\ status[f] \notin Waiting
      BY <3>1, <3>3 DEF Waiting, EventIds
    <3>5. \A f \in EventIds : f > e => f # e /\ status[f] \notin Settled
      BY <2>c, <3>1 DEF InOrder, Waiting, EventIds
    <3>6. OldestFirst'
      BY <3>1, <3>2, <3>4, <3>5 DEF OldestFirst
    <3>7. \A f \in EventIds : status'[f] \in Settled => status'[f] = status[f] /\ f # e
      BY <3>1 DEF Settled
    <3>8. \A f \in EventIds : status'[f] \in Waiting => status[f] \in Waiting
      BY <3>1 DEF Waiting
    <3>9. InOrder'
      BY <2>c, <3>7, <3>8 DEF InOrder
    <3> QED
      BY <3>6, <3>9
  <2>2. ASSUME NEW w \in Workers, WorkerStep(w) \/ WorkerFault(w), InHand(w)
        PROVE  OldestFirst' /\ InOrder'
    <3>1. ev' = ev
      BY <2>2
         DEF WorkerStep, WorkerFault, Wake, ClaimNextEvent, FindQueueEmpty, ClaimFault, Lookup,
             CountAttempts, CheckBreaker, Defer, Post, Reply, InsertAttempt, MarkDelivered,
             MarkRetry, MarkFailed, Bury, DispatchFault, Requeue, RequeueFault, InHand
    <3>2. \A f \in EventIds : f # ev[w] => status'[f] = status[f]
      BY <2>2
         DEF WorkerStep, WorkerFault, Wake, ClaimNextEvent, FindQueueEmpty, ClaimFault, Lookup,
             CountAttempts, CheckBreaker, Defer, Post, Reply, InsertAttempt, MarkDelivered,
             MarkRetry, MarkFailed, Bury, DispatchFault, Requeue, RequeueFault, InHand,
             SetStatus, storeVars
    <3> QED
      BY <2>2, <2>c, <3>1, <3>2, OwnEventKeepsOrder DEF SoleWorker
  <2>3. ASSUME NEW w \in Workers, WorkerStep(w) \/ WorkerFault(w), ~InHand(w),
               \A e \in EventIds : ~ClaimNextEvent(w, e)
        PROVE  OldestFirst' /\ InOrder'
    <3>1. /\ UNCHANGED << ev, status >>
          /\ \E l \in {"claim", "sleep"} : pc' = [pc EXCEPT ![w] = l]
      BY <2>3
         DEF WorkerStep, WorkerFault, Wake, FindQueueEmpty, ClaimFault, Lookup, CountAttempts,
             CheckBreaker, Defer, Post, Reply, InsertAttempt, MarkDelivered, MarkRetry,
             MarkFailed, Bury, DispatchFault, Requeue, RequeueFault, InHand, Finish, Goto,
             storeVars
    <3>2. \A v \in Workers : InHand(v)' => InHand(v)
      BY <3>1 DEF InHand
    <3> QED
      BY <2>c, <3>1, <3>2 DEF OldestFirst, InOrder
  <2>4. ASSUME UNCHANGED << pc, ev, lastEvent >>,
               \A e \in EventIds : status'[e] \in {status[e], "NONE"}
        PROVE  OldestFirst' /\ InOrder'
    <3>1. \A e \in EventIds : /\ status'[e] \in Waiting => status[e] \in Waiting
                              /\ status'[e] \in Settled => status[e] \in Settled
      BY <2>4 DEF Waiting, Settled
    <3> QED
      BY <2>4, <2>c, <3>1 DEF OldestFirst, InOrder, InHand
  <2>5. ASSUME NEW i \in Ingesters, AcceptEvent(i), UNCHANGED dispatchVars
        PROVE  OldestFirst' /\ InOrder'
    <3>1. PICK n \in EventIds : n = lastEvent + 1
      BY <2>5, AcceptGrows
    <3>2. status' = [status EXCEPT ![n] = "RECEIVED"] /\ UNCHANGED << pc, ev >>
      BY <2>5, <3>1 DEF AcceptEvent, InsertEvent, dispatchVars
    <3>3. \A e \in EventIds : e >= n => status[e] = "NONE"
      <4>1. \A e \in EventIds : e >= n => ~(e <= lastEvent)
        BY <3>1 DEF EventIds
      <4> QED
        BY <4>1 DEF StructureOK, RowsOK
    <3>4. \A w \in Workers : InHand(w) => ev[w] \in EventIds /\ ~(n < ev[w])
      <4>1. ASSUME NEW w \in Workers, InHand(w)
            PROVE  ev[w] \in EventIds /\ ~(n < ev[w])
        <5>1. ev[w] \in EventIds /\ ev[w] <= lastEvent
          BY <4>1
        <5> QED
          BY <3>1, <5>1 DEF EventIds
      <4> QED
        BY <4>1
    <3>5. \A e \in EventIds : status'[e] \in Settled => status[e] \in Settled /\ ~(n < e)
      <4>1. \A e \in EventIds : n < e => e >= n
        BY DEF EventIds
      <4> QED
        BY <3>2, <3>3, <4>1 DEF Settled
    <3>6. \A e \in EventIds : status'[e] \in Waiting => status[e] \in Waiting \/ e = n
      BY <3>2 DEF Waiting
    <3>7. OldestFirst'
      BY <2>c, <3>2, <3>4, <3>5, <3>6 DEF OldestFirst, InHand
    <3>8. InOrder'
      BY <2>c, <3>5, <3>6 DEF InOrder
    <3> QED
      BY <3>7, <3>8
  <2>6. CASE DispatchNext /\ UNCHANGED << replayVars, ingestVars, crashes >>
    <3>1. ASSUME NEW ep \in EndpointIds, RecoveryEnds(ep)
          PROVE  OldestFirst' /\ InOrder'
      BY <2>4, <3>1 DEF RecoveryEnds, storeVars, intakeVars
    <3> QED
      BY <2>1, <2>2, <2>3, <2>6, <3>1 DEF DispatchNext
  <2>7. CASE IngestNext /\ UNCHANGED << dispatchVars, replayVars, crashes >>
    <3>1. CASE \E i \in Ingesters : AcceptEvent(i)
      BY <2>5, <2>7, <3>1
    <3>2. CASE \A i \in Ingesters : ~AcceptEvent(i)
      <4>1. UNCHANGED << pc, ev, status, lastEvent >>
        BY <2>7, <3>2
           DEF IngestNext, IngestStep, Receive, LookupEndpoint, RefuseDuplicate, RefuseOrphan,
               IngestFault, HangUp, storeVars, intakeVars, dispatchVars
      <4> QED
        BY <2>4, <4>1
    <3> QED
      BY <3>1, <3>2
  <2>8. CASE EndpointsNext /\ UNCHANGED << dispatchVars, replayVars, ingestVars, crashes >>
    <3>1. /\ UNCHANGED << pc, ev, lastEvent >>
          /\ \A e \in EventIds : status'[e] \in {status[e], "NONE"}
      BY <2>8 DEF EndpointsNext, CreateEndpoint, DeleteEndpoint, Cascade, dispatchVars
    <3> QED
      BY <2>4, <3>1
  <2> QED
    BY <1>2, <2>6, <2>7, <2>8, <2>a, <2>d DEF Next, Crash, Shutdown
<1> QED
  BY <1>1, <1>2

(* With one worker, no replay and at most one failing database call, an    *)
(* event is settled only after all older ones are (runner.rs:65),            *)
(* through every retry, deferral and requeue.                              *)
THEOREM OrderIsKept == Spec => []SettledInOrder
<1>1. Init => OldestInHand /\ SettledInOrder
  BY DEF Init, StoreInit, DispatchInit, OldestInHand, SettledInOrder, InHand
<1>2. IndInv => ProcessingIsCarried
  BY IndInvCarries
<1> QED
  BY <1>1, <1>2, BudgetInvariance, Invariance, OrderStep, PTL DEF Spec

-----------------------------------------------------------------------------
(* The relay is the queue that loses what it has in hand.                  *)

LossyInv ==
  /\ StructureOK
  /\ UnusedOK
  /\ AcceptedOK
  /\ BudgetInv

LEMMA LossyInvariance == Spec => []LossyInv
<1>1. IntakeInv => AcceptedOK
  BY DEF IntakeInv
<1> QED
  BY <1>1, BudgetInvariance, IntakeInvariance, PTL DEF LossyInv

LEMMA StrandedIs ==
  ASSUME NEW e \in EventIds
  PROVE  Stranded(e) <=> status[e] = "PROCESSING" /\ \A w \in Workers : InHand(w) => ev[w] # e
BY DEF Stranded, Holds, InHand

LEMMA LossyPlaceIs ==
  ASSUME StructureOK, NEW e \in EventIds
  PROVE  /\ LossyPlace(e) = "queued" <=> status[e] = "RECEIVED"
         /\ LossyPlace(e) = "in hand" <=> status[e] = "PROCESSING" /\ ~Stranded(e)
         /\ LossyPlace(e) = "lost" <=> Stranded(e)
         /\ LossyPlace(e) = "delivered" <=> status[e] = "DELIVERED"
         /\ LossyPlace(e) = "given up" <=> status[e] = "FAILED"
         /\ LossyPlace(e) = "removed" <=> status[e] = "NONE" /\ e <= lastEvent
         /\ LossyPlace(e) = "nowhere" <=> status[e] = "NONE" /\ e > lastEvent
<1>1. Stranded(e) => status[e] = "PROCESSING"
  BY DEF Stranded
<1> QED
  BY <1>1, PlaceIs DEF LossyPlace

LossyPlaceOf == [e \in EventIds |-> LossyPlace(e)]

(* Nothing is said of an event that keeps its status and its hand.         *)
LEMMA LossyPlaceStays ==
  ASSUME NEW e \in EventIds, UNCHANGED lastEvent, status'[e] = status[e],
         Stranded(e)' <=> Stranded(e)
  PROVE  LossyPlace(e)' = LossyPlace(e)
<1>1. Place(e)' = Place(e)
  BY DEF Place
<1> QED
  BY <1>1 DEF LossyPlace

(* A step that moves one event at most.                                    *)
LEMMA LossyMove ==
  ASSUME NEW e \in EventIds, UNCHANGED << lastEvent, endpointOf >>,
         \A f \in EventIds : f # e => LossyPlace(f)' = LossyPlace(f),
         \/ LossyPlace(e)' = LossyPlace(e)
         \/ /\ LossyPlace(e) = "in hand"
            /\ LossyPlace(e)' \in {"queued", "delivered", "given up", "lost"}
         \/ LossyPlace(e) = "given up" /\ LossyPlace(e)' = "queued"
  PROVE  [Lossy!LossyNext]_(Lossy!queueVars)
<1>a. Lossy!Events = EventIds
  BY DEF Lossy!Events, EventIds
<1>b. LossyPlaceOf[e] = LossyPlace(e)
  BY DEF LossyPlaceOf
<1>c. ASSUME NEW p, LossyPlace(e)' = p
      PROVE  Lossy!Move(e, p)
  <2>1. LossyPlaceOf' = [LossyPlaceOf EXCEPT ![e] = p]
    BY <1>c DEF LossyPlaceOf
  <2> QED
    BY <2>1 DEF Lossy!Move, LossyPlaceOf
<1>1. CASE LossyPlace(e)' = LossyPlace(e)
  <2>1. LossyPlaceOf' = LossyPlaceOf
    BY <1>1 DEF LossyPlaceOf
  <2> QED
    BY <2>1 DEF Lossy!queueVars, LossyPlaceOf
<1>2. CASE LossyPlace(e) = "in hand" /\ LossyPlace(e)' \in {"queued", "delivered", "given up"}
  <2>1. Lossy!LetGo(e)
    BY <1>b, <1>c, <1>2 DEF Lossy!LetGo, LossyPlaceOf
  <2> QED
    BY <1>a, <2>1 DEF Lossy!LossyNext, Lossy!Next
<1>3. CASE LossyPlace(e) = "in hand" /\ LossyPlace(e)' = "lost"
  <2>1. Lossy!Lose(e)
    BY <1>b, <1>c, <1>3 DEF Lossy!Lose, LossyPlaceOf
  <2> QED
    BY <1>a, <2>1 DEF Lossy!LossyNext
<1>4. CASE LossyPlace(e) = "given up" /\ LossyPlace(e)' = "queued"
  <2>1. Lossy!Replay(e)
    BY <1>b, <1>c, <1>4 DEF Lossy!Replay, LossyPlaceOf
  <2> QED
    BY <1>a, <2>1 DEF Lossy!LossyNext, Lossy!Next
<1> QED
  BY <1>1, <1>2, <1>3, <1>4

(* What a worker may do to the event it has in hand.                       *)
LEMMA WorkerMoves ==
  ASSUME StructureOK, Fine, NEW w \in Workers, WorkerStep(w) \/ WorkerFault(w)
  PROVE  \/ \E e \in EventIds : ClaimNextEvent(w, e)
         \/ ~InHand(w) /\ ~InHand(w)' /\ status' = status
         \/ /\ InHand(w) /\ ev' = ev
            /\ \A f \in EventIds : f # ev[w] => status'[f] = status[f]
            /\ \/ status'[ev[w]] = status[ev[w]]
               \/ /\ status[ev[w]] = "PROCESSING"
                  /\ status'[ev[w]] \in {"RECEIVED", "DELIVERED", "FAILED"}
               \/ status[ev[w]] = "FAILED" /\ status'[ev[w]] = "RECEIVED"
<1> USE BudgetTypes
<1>1. CASE \E e \in EventIds : ClaimNextEvent(w, e)
  BY <1>1
<1>2. CASE Wake(w) \/ FindQueueEmpty(w) \/ ClaimFault(w)
  BY <1>2 DEF Wake, FindQueueEmpty, ClaimFault, Finish, Goto, InHand, storeVars
<1>3. CASE \/ Lookup(w) \/ CountAttempts(w) \/ CheckBreaker(w) \/ Post(w)
           \/ \E ok \in BOOLEAN : Reply(w, ok)
           \/ InsertAttempt(w) \/ Bury(w) \/ DispatchFault(w) \/ RequeueFault(w)
  BY <1>3 DEF Lookup, CountAttempts, CheckBreaker, Post, Reply, InsertAttempt, Bury,
              DispatchFault, RequeueFault, InHand, storeVars
<1>4. CASE Defer(w) \/ MarkDelivered(w) \/ MarkRetry(w) \/ MarkFailed(w)
  <2>1. InHand(w) /\ status[ev[w]] = "PROCESSING"
    BY <1>4 DEF Fine, HandFine, Defer, MarkDelivered, MarkRetry, MarkFailed, Delivering, InHand
  <2> QED
    BY <1>4, <2>1 DEF Defer, MarkDelivered, MarkRetry, MarkFailed, SetStatus
<1>5. CASE Requeue(w)
  <2>1. InHand(w)
    BY <1>5 DEF Requeue, InHand
  <2>2. status[ev[w]] \in {"PROCESSING", "FAILED", "NONE"}
    BY <2>1 DEF Fine, HandFine, EventStatus
  <2> QED
    BY <1>5, <2>1, <2>2 DEF Requeue, SetStatus
<1> QED
  BY <1>1, <1>2, <1>3, <1>4, <1>5 DEF WorkerStep, WorkerFault

LEMMA LossyStep ==
  ASSUME SoleWorker, LossyInv, LossyInv', [Next]_vars, replays' = 0
  PROVE  [Lossy!LossyNext]_(Lossy!queueVars)
<1> USE DEF LossyInv
<1> USE BudgetTypes
<1>a. Lossy!Events = EventIds
  BY DEF Lossy!Events, EventIds
<1>b. /\ \A e \in EventIds : LossyPlaceOf[e] = LossyPlace(e)
      /\ \A e \in EventIds : LossyPlaceOf'[e] = LossyPlace(e)'
  BY DEF LossyPlaceOf
(* Nothing to be seen from outside.                                        *)
<1>1. ASSUME UNCHANGED << lastEvent, endpointOf, status >>,
             \A e \in EventIds : Stranded(e)' <=> Stranded(e)
      PROVE  UNCHANGED Lossy!queueVars
  <2>1. \A e \in EventIds : LossyPlace(e)' = LossyPlace(e)
    BY <1>1, LossyPlaceStays
  <2> QED
    BY <1>1, <2>1 DEF Lossy!queueVars
<1>2. ASSUME UNCHANGED << lastEvent, endpointOf, status, pc, ev >>
      PROVE  UNCHANGED Lossy!queueVars
  BY <1>1, <1>2 DEF Stranded, Holds
<1>3. CASE UNCHANGED vars
  BY <1>2, <1>3 DEF vars, storeVars, intakeVars, dispatchVars
<1>4. ASSUME Next
      PROVE  Fine /\ ~ReplayNext
  BY <1>4, FineIsBudget, NobodyReplaysStep
<1>5. ASSUME Next, NEW w \in Workers, NEW e \in EventIds, ClaimNextEvent(w, e),
             UNCHANGED << lastEvent, endpointOf >>
      PROVE  Lossy!LossyNext
  <2>1. /\ pc[w] = "claim" /\ status[e] = "RECEIVED"
        /\ \A f \in EventIds : status[f] = "RECEIVED" => e <= f
        /\ pc' = [pc EXCEPT ![w] = "lookup"]
        /\ ev' = [ev EXCEPT ![w] = e]
        /\ status' = [status EXCEPT ![e] = "PROCESSING"]
    BY <1>5 DEF ClaimNextEvent, IsOldestReceived, SetStatus, Goto
  <2>2. \A v \in Workers : v = w
    BY DEF SoleWorker
  <2>3. ~InHand(w) /\ InHand(w)' /\ ev'[w] = e
    BY <2>1 DEF InHand
  <2>4. \A f \in EventIds : f # e => LossyPlace(f)' = LossyPlace(f)
    <3>1. ASSUME NEW f \in EventIds, f # e
          PROVE  status'[f] = status[f] /\ (Stranded(f)' <=> Stranded(f))
      <4>1. status'[f] = status[f]
        BY <2>1, <3>1
      <4> QED
        BY <2>2, <2>3, <3>1, <4>1 DEF Stranded, Holds, InHand
    <3> QED
      BY <1>5, <3>1, LossyPlaceStays
  <2>5. LossyPlace(e) = "queued" /\ LossyPlace(e)' = "in hand"
    <3>1. status'[e] = "PROCESSING" /\ ~Stranded(e)'
      BY <2>1, <2>3 DEF Stranded, Holds, InHand
    <3>2. LossyPlace(e)' = Place(e)' /\ Place(e)' = "in hand"
      BY <3>1 DEF LossyPlace, Place
    <3> QED
      BY <2>1, <3>2, LossyPlaceIs
  <2>6. \A f \in EventIds : LossyPlace(f) # "in hand"
    <3>1. \A f \in EventIds : status[f] = "PROCESSING" => Stranded(f)
      BY <2>2, <2>3 DEF Stranded, Holds, InHand
    <3> QED
      BY <3>1, LossyPlaceIs
  <2>7. Lossy!Move(e, "in hand")
    <3>1. LossyPlaceOf' = [LossyPlaceOf EXCEPT ![e] = "in hand"]
      BY <2>4, <2>5 DEF LossyPlaceOf
    <3> QED
      BY <3>1 DEF Lossy!Move, LossyPlaceOf
  <2>8. \A f \in EventIds : LossyPlace(f) = "queued" => e <= f
    BY <2>1, LossyPlaceIs
  <2>9. Lossy!Take(e)
    BY <1>5, <1>a, <1>b, <2>5, <2>6, <2>7, <2>8 DEF Lossy!Take, LossyPlaceOf
  <2> QED
    BY <1>a, <2>9 DEF Lossy!LossyNext, Lossy!Next
(* The one worker leaves every other event alone.                          *)
<1>6. ASSUME Next, NEW w \in Workers, WorkerStep(w) \/ WorkerFault(w),
             UNCHANGED << lastEvent, endpointOf >>
      PROVE  [Lossy!LossyNext]_(Lossy!queueVars)
  <2>1. \A v \in Workers : v = w
    BY DEF SoleWorker
  <2>2. CASE ~InHand(w) /\ ~InHand(w)' /\ status' = status
    BY <1>1, <1>6, <2>1, <2>2 DEF Stranded, Holds, InHand
  <2>3. ASSUME NEW e \in EventIds, e = ev[w], InHand(w), ev' = ev,
               \A f \in EventIds : f # e => status'[f] = status[f],
               \/ status'[e] = status[e]
               \/ status[e] = "PROCESSING" /\ status'[e] \in {"RECEIVED", "DELIVERED", "FAILED"}
               \/ status[e] = "FAILED" /\ status'[e] = "RECEIVED"
        PROVE  [Lossy!LossyNext]_(Lossy!queueVars)
    <3>1. \A f \in EventIds : f # e => LossyPlace(f)' = LossyPlace(f)
      <4>1. \A f \in EventIds : f # e => (Stranded(f)' <=> Stranded(f))
        BY <2>1, <2>3 DEF Stranded, Holds
      <4> QED
        BY <1>6, <2>3, <4>1, LossyPlaceStays
    <3>2. ~Stranded(e)
      BY <2>3 DEF Stranded, Holds, InHand
    <3>3. CASE status'[e] = status[e]
      <4>1. CASE Stranded(e)'
        <5>1. status[e] = "PROCESSING" /\ LossyPlace(e)' = "lost"
          BY <3>3, <4>1 DEF Stranded, LossyPlace
        <5>2. LossyPlace(e) = "in hand"
          BY <3>2, <5>1, LossyPlaceIs
        <5> QED
          BY <1>6, <3>1, <5>1, <5>2, LossyMove
      <4>2. CASE ~Stranded(e)'
        BY <1>6, <3>1, <3>2, <3>3, <4>2, LossyPlaceStays, LossyMove
      <4> QED
        BY <4>1, <4>2
    <3>4. CASE status[e] = "PROCESSING" /\ status'[e] \in {"RECEIVED", "DELIVERED", "FAILED"}
      <4>1. LossyPlace(e) = "in hand"
        BY <3>2, <3>4, LossyPlaceIs
      <4>2. ~Stranded(e)'
        BY <3>4 DEF Stranded
      <4>3. LossyPlace(e)' \in {"queued", "delivered", "given up"}
        BY <3>4, <4>2 DEF LossyPlace, Place
      <4> QED
        BY <1>6, <3>1, <4>1, <4>3, LossyMove
    <3>5. CASE status[e] = "FAILED" /\ status'[e] = "RECEIVED"
      <4>1. LossyPlace(e) = "given up"
        BY <3>5, LossyPlaceIs
      <4>2. ~Stranded(e)'
        BY <3>5 DEF Stranded
      <4>3. LossyPlace(e)' = "queued"
        BY <3>5, <4>2 DEF LossyPlace, Place
      <4> QED
        BY <1>6, <3>1, <4>1, <4>3, LossyMove
    <3> QED
      BY <2>3, <3>3, <3>4, <3>5
  <2> QED
    BY <1>4, <1>5, <1>6, <2>2, <2>3, WorkerMoves
<1>7. CASE DispatchNext /\ UNCHANGED << replayVars, ingestVars, crashes >>
  <2>1. UNCHANGED << lastEvent, endpointOf >>
    BY <1>7, DispatchStructure DEF KeepsRows, intakeVars
  <2>2. ASSUME NEW ep \in EndpointIds, RecoveryEnds(ep)
        PROVE  UNCHANGED Lossy!queueVars
    BY <1>2, <2>1, <2>2 DEF RecoveryEnds, storeVars
  <2>3. Next
    BY <1>7 DEF Next
  <2> QED
    BY <1>6, <1>7, <2>1, <2>2, <2>3 DEF DispatchNext
(* A restart drops the event the one worker has in hand.                   *)
<1>8. CASE Restart
  <2>1. /\ UNCHANGED << lastEvent, endpointOf, status >>
        /\ \A v \in Workers : ~InHand(v)'
    BY <1>8 DEF Restart, storeVars, intakeVars, InHand
  <2>2. CASE \A v \in Workers : ~InHand(v)
    <3>1. \A e \in EventIds : Stranded(e)' <=> Stranded(e)
      BY <2>1, <2>2 DEF Stranded, Holds, InHand
    <3> QED
      BY <1>1, <2>1, <3>1
  <2>3. ASSUME NEW w \in Workers, InHand(w)
        PROVE  [Lossy!LossyNext]_(Lossy!queueVars)
    <3>1. PICK e \in EventIds : e = ev[w]
      BY <2>3
    <3>2. \A f \in EventIds : f # e => LossyPlace(f)' = LossyPlace(f)
      <4>1. \A f \in EventIds : f # e => (Stranded(f)' <=> Stranded(f))
        BY <2>1, <3>1 DEF Stranded, Holds, InHand, SoleWorker
      <4> QED
        BY <2>1, <4>1, LossyPlaceStays
    <3>3. ~Stranded(e)
      BY <2>3, <3>1 DEF Stranded, Holds, InHand
    <3>4. CASE status[e] = "PROCESSING"
      <4>1. LossyPlace(e) = "in hand"
        BY <3>3, <3>4, LossyPlaceIs
      <4>2. Stranded(e)'
        BY <2>1, <3>4 DEF Stranded, Holds, InHand
      <4>3. LossyPlace(e)' = "lost"
        BY <4>2 DEF LossyPlace
      <4> QED
        BY <2>1, <3>2, <4>1, <4>3, LossyMove
    <3>5. CASE status[e] # "PROCESSING"
      <4>1. ~Stranded(e)'
        BY <2>1, <3>5 DEF Stranded
      <4>2. LossyPlace(e)' = LossyPlace(e)
        BY <2>1, <3>3, <4>1, LossyPlaceStays
      <4> QED
        BY <2>1, <3>2, <4>2, LossyMove
    <3> QED
      BY <3>4, <3>5
  <2> QED
    BY <2>2, <2>3
<1>9. ASSUME NEW i \in Ingesters, AcceptEvent(i), UNCHANGED dispatchVars
      PROVE  Lossy!LossyNext
  <2>a. request[i].endpoint \in EndpointIds /\ lastEvent + 1 \in EventIds
    BY <1>9, AcceptGrows DEF AcceptEvent, StructureOK, IngestersOK
  <2>b. PICK n \in EventIds, ep \in EndpointIds : n = lastEvent + 1 /\ ep = request[i].endpoint
    BY <2>a
  <2>1. /\ n > lastEvent
        /\ endpoints[ep] = "live"
        /\ lastEvent' = n
        /\ status' = [status EXCEPT ![n] = "RECEIVED"]
        /\ endpointOf' = [endpointOf EXCEPT ![n] = ep]
    BY <1>9, <2>b DEF AcceptEvent, InsertEvent
  <2>2. UNCHANGED << pc, ev >>
    BY <1>9 DEF dispatchVars
  <2>3. status[n] = "NONE"
    BY <2>b DEF StructureOK, RowsOK, EventIds
  <2>4. \A f \in EventIds : f < n <=> f <= lastEvent
    BY <2>b DEF EventIds
  <2>5. ASSUME NEW f \in EventIds, f # n
        PROVE  LossyPlace(f)' = LossyPlace(f)
    <3>1. status'[f] = status[f] /\ (f <= n <=> f <= lastEvent)
      BY <2>1, <2>b, <2>5 DEF EventIds
    <3>2. Stranded(f)' <=> Stranded(f)
      BY <2>2, <3>1 DEF Stranded, Holds
    <3>3. Place(f)' = Place(f)
      BY <2>1, <3>1 DEF Place
    <3> QED
      BY <3>2, <3>3 DEF LossyPlace
  <2>6. LossyPlace(n) = "nowhere" /\ LossyPlace(n)' = "queued"
    <3>1. status'[n] = "RECEIVED" /\ ~Stranded(n)'
      BY <2>1 DEF Stranded
    <3>2. LossyPlace(n)' = "queued"
      BY <3>1 DEF LossyPlace, Place
    <3> QED
      BY <2>1, <2>3, <3>2, LossyPlaceIs
  <2>7. Lossy!Move(n, "queued")
    <3>1. LossyPlaceOf' = [LossyPlaceOf EXCEPT ![n] = "queued"]
      BY <2>5, <2>6 DEF LossyPlaceOf
    <3> QED
      BY <3>1 DEF Lossy!Move, LossyPlaceOf
  <2>8. \A f \in EventIds : f < n => LossyPlace(f) # "nowhere"
    <3>1. \A f \in EventIds : f < n => ~(f > lastEvent)
      BY <2>4 DEF EventIds
    <3> QED
      BY <3>1, LossyPlaceIs
  <2>9. \A f \in EventIds : LossyPlace(f) = "removed" => endpointOf[f] # ep
    <3>1. ASSUME NEW f \in EventIds, LossyPlace(f) = "removed"
          PROVE  endpoints[endpointOf[f]] = "deleted"
      <4>1. status[f] = "NONE" /\ f <= lastEvent
        BY <3>1, LossyPlaceIs
      <4> QED
        BY <4>1 DEF AcceptedOK, EventIds
    <3> QED
      BY <2>1, <3>1
  <2>10. Lossy!Accept(n, ep)
    BY <1>a, <1>b, <2>1, <2>6, <2>7, <2>8, <2>9 DEF Lossy!Accept, LossyPlaceOf
  <2> QED
    BY <1>a, <2>10 DEF Lossy!LossyNext, Lossy!Next
<1>10. ASSUME NEW ep \in EndpointIds, DeleteEndpoint(ep), UNCHANGED dispatchVars
       PROVE  Lossy!LossyNext
  <2>1. /\ endpoints[ep] = "live"
        /\ \A e \in EventIds : endpointOf[e] = ep => status[e] \notin {"RECEIVED", "PROCESSING"}
        /\ UNCHANGED << lastEvent, endpointOf >>
        /\ status' = [e \in EventIds |-> IF endpointOf[e] = ep THEN "NONE" ELSE status[e]]
    BY <1>10 DEF DeleteEndpoint, Cascade, Pending
  <2>2. ASSUME NEW e \in EventIds, endpointOf[e] = ep
        PROVE  LossyPlace(e) \in {"delivered", "given up"} /\ LossyPlace(e)' = "removed"
    <3>1. e <= lastEvent
      <4>1. endpointOf[e] # None
        BY <2>2, StoreAssumption
      <4> QED
        BY <4>1 DEF UnusedOK, EventIds
    <3>2. status[e] # "NONE"
      <4>1. e \in 1..lastEvent /\ endpoints[endpointOf[e]] # "deleted"
        BY <2>1, <2>2, <3>1 DEF EventIds
      <4> QED
        BY <4>1 DEF AcceptedOK
    <3>3. status[e] \in {"DELIVERED", "FAILED"}
      BY <2>1, <2>2, <3>2 DEF EventStatus
    <3>4. LossyPlace(e)' = "removed"
      BY <2>1, <2>2, <3>1 DEF LossyPlace, Stranded, Place
    <3> QED
      BY <3>3, <3>4, LossyPlaceIs
  <2>3. ASSUME NEW e \in EventIds, endpointOf[e] # ep
        PROVE  LossyPlace(e)' = LossyPlace(e)
    <3>1. status'[e] = status[e] /\ (Stranded(e)' <=> Stranded(e))
      BY <1>10, <2>1, <2>3 DEF Stranded, Holds, dispatchVars
    <3> QED
      BY <2>1, <3>1, LossyPlaceStays
  <2>4. LossyPlaceOf' =
          [e \in EventIds |-> IF endpointOf[e] = ep THEN "removed" ELSE LossyPlaceOf[e]]
    BY <1>b, <2>2, <2>3 DEF LossyPlaceOf
  <2>5. Lossy!Remove(ep)
    BY <1>a, <1>b, <2>1, <2>2, <2>4 DEF Lossy!Remove, LossyPlaceOf
  <2> QED
    BY <2>5 DEF Lossy!LossyNext, Lossy!Next
<1>11. CASE IngestNext /\ UNCHANGED << dispatchVars, replayVars, crashes >>
  <2>1. ASSUME \A i \in Ingesters : ~AcceptEvent(i)
        PROVE  UNCHANGED << lastEvent, endpointOf, status >>
    BY <1>11, <2>1
       DEF IngestNext, IngestStep, Receive, LookupEndpoint, RefuseDuplicate, RefuseOrphan,
           IngestFault, HangUp, storeVars, intakeVars
  <2> QED
    BY <1>2, <1>9, <1>11, <2>1 DEF dispatchVars
<1>12. CASE EndpointsNext /\ UNCHANGED << dispatchVars, replayVars, ingestVars, crashes >>
  <2>1. ASSUME NEW ep \in EndpointIds, CreateEndpoint(ep)
        PROVE  UNCHANGED Lossy!queueVars
    BY <1>2, <1>12, <2>1 DEF CreateEndpoint, dispatchVars
  <2> QED
    BY <1>10, <1>12, <2>1 DEF EndpointsNext
<1> QED
  BY <1>3, <1>4, <1>7, <1>8, <1>11, <1>12 DEF Next, Crash, Shutdown

(* With one worker, until the first replay, the relay is a queue that may  *)
(* only lose what its worker has in hand: however many database calls fail *)
(* and however often the process is killed, no event is taken out of turn  *)
(* or by two hands, delivered and then put back by the requeue of          *)
(* run_dispatch_once (runner.rs:123), or left behind by a delete.          *)
THEOREM RelayIsALossyQueue ==
  ASSUME SoleWorker
  PROVE  Spec => ImplementsLossyQueue
<1>1. Init => Lossy!Init
  <2> SUFFICES ASSUME Init
               PROVE  Lossy!Init
    OBVIOUS
  <2>1. \A e \in EventIds : LossyPlace(e) = "nowhere"
    <3>1. \A e \in EventIds : ~(e <= lastEvent) /\ status[e] = "NONE"
      BY DEF Init, StoreInit, EventIds
    <3> QED
      BY <3>1 DEF LossyPlace, Stranded, Place
  <2>2. endpointOf = [e \in EventIds |-> None]
    BY DEF Init, StoreInit
  <2> QED
    BY <2>1, <2>2 DEF Lossy!Init, Lossy!Events, EventIds
<1>2. LossyInv /\ LossyInv' /\ [Next]_vars =>
        [replays' = 0 => Lossy!LossyNext]_(Lossy!queueVars)
  BY LossyStep
<1> QED
  BY <1>1, <1>2, LossyInvariance, PTL DEF Spec, ImplementsLossyQueue

-----------------------------------------------------------------------------
(* The budget of a replayed event.                                         *)

Roomy ==
  /\ \A e \in EventIds : EventHasRoom(e)
  /\ \A w \in Workers  : HandHasRoom(w)

LEMMA LeastBudgetFixed == LeastBudget' = LeastBudget
BY DEF LeastBudget

(* Nothing that counts has changed.                                        *)
LEMMA RoomStays ==
  ASSUME StructureOK, Roomy, UNCHANGED << pc, ev, attemptNum, status, attempts, sends >>,
         \A e \in EventIds : Uncleared(e)' <=> Uncleared(e)
  PROVE  Roomy'
<1> USE BudgetTypes, LeastBudgetFixed
<1>1. ASSUME NEW e \in EventIds
      PROVE  EventHasRoom(e)'
  <2>1. EventHasRoom(e)
    BY DEF Roomy
  <2> QED
    BY <2>1 DEF EventHasRoom, HasRoom
<1>2. ASSUME NEW w \in Workers
      PROVE  HandHasRoom(w)'
  <2>1. HandHasRoom(w)
    BY DEF Roomy
  <2>2. CASE ~InHand(w)
    BY <2>2 DEF HandHasRoom, InHand
  <2>3. CASE InHand(w)
    <3>1. PICK e \in EventIds : e = ev[w]
      BY <2>3
    <3> QED
      BY <2>1, <3>1 DEF HandHasRoom, HasRoom, HadRoom
  <2> QED
    BY <2>2, <2>3
<1> QED
  BY <1>1, <1>2 DEF Roomy

(* A step of worker w that concerns event c alone.                         *)
LEMMA OthersHaveRoom ==
  ASSUME StructureOK, Roomy, NEW w \in Workers, NEW c \in EventIds, Concerns(w, c),
         \A e \in EventIds : Uncleared(e)' <=> Uncleared(e),
         EventHasRoom(c)', HandHasRoom(w)'
  PROVE  Roomy'
<1> USE BudgetTypes, LeastBudgetFixed
<1>1. ASSUME NEW e \in EventIds, e # c
      PROVE  EventHasRoom(e)'
  <2>1. /\ status'[e] = status[e] /\ attempts'[e] = attempts[e] /\ sends'[e] = sends[e]
        /\ EventHasRoom(e)
    BY <1>1 DEF Concerns, Roomy
  <2> QED
    BY <2>1 DEF EventHasRoom, HasRoom
<1>2. ASSUME NEW v \in Workers, v # w
      PROVE  HandHasRoom(v)'
  <2>1. HandHasRoom(v) /\ pc'[v] = pc[v] /\ ev'[v] = ev[v] /\ attemptNum'[v] = attemptNum[v]
    BY <1>2 DEF Concerns, Roomy
  <2>2. CASE ~InHand(v)
    BY <2>1, <2>2 DEF HandHasRoom, InHand
  <2>3. CASE InHand(v)
    <3>1. PICK e \in EventIds : e = ev[v]
      BY <2>3
    <3>2. attempts'[e] = attempts[e] /\ sends'[e] = sends[e]
      BY <1>2, <2>3, <3>1 DEF Concerns
    <3> QED
      BY <2>1, <3>1, <3>2 DEF HandHasRoom, HasRoom, HadRoom
  <2> QED
    BY <2>2, <2>3
<1> QED
  BY <1>1, <1>2 DEF Roomy

LEMMA HandsApart ==
  ASSUME StructureOK, HandsOK, NEW v \in Workers, NEW w \in Workers, v # w, InHand(v),
         \/ pc[w] \in Settling /\ ev[v] = ev[w]
         \/ status[ev[v]] = "RECEIVED"
  PROVE  pc[v] = "requeue" /\ pc[w] = "bury"
<1>1. pc[v] \in Settling \cup {"requeue"}
  BY BudgetTypes DEF InHand, Settling, Delivering, DispatchPc
<1>2. /\ pc[v] \in Delivering => status[ev[v]] = "PROCESSING"
      /\ pc[v] = "bury" => status[ev[v]] \in {"FAILED", "NONE"}
      /\ pc[v] = "requeue" => status[ev[v]] = "NONE"
      /\ pc[w] \in Delivering => status[ev[w]] = "PROCESSING"
      /\ pc[v] \in Settling /\ pc[w] \in Settling /\ ev[v] = ev[w] => v = w
  BY DEF HandsOK
<1> QED
  BY <1>1, <1>2 DEF Settling

LEMMA WorkerLeavesRoom ==
  ASSUME StructureOK, HandsOK, Roomy, NEW w \in Workers, WorkerStep(w),
         UNCHANGED << rpc, letter >>
  PROVE  Roomy'
<1> USE BudgetTypes, LeastBudgetFixed
<1>a. \A e \in EventIds : Uncleared(e)' <=> Uncleared(e)
  BY DEF Uncleared
<1>b. HandHasRoom(w) /\ \A e \in EventIds : EventHasRoom(e)
  BY DEF Roomy
<1>c. pc[w] \in Delivering => /\ ev[w] \in EventIds /\ status[ev[w]] = "PROCESSING"
                              /\ EventHasRoom(ev[w])
                              /\ Uncleared(ev[w])' <=> Uncleared(ev[w])
  <2> SUFFICES ASSUME pc[w] \in Delivering
               PROVE  /\ ev[w] \in EventIds /\ status[ev[w]] = "PROCESSING"
                      /\ EventHasRoom(ev[w])
                      /\ Uncleared(ev[w])' <=> Uncleared(ev[w])
    OBVIOUS
  <2>1. ev[w] \in EventIds /\ status[ev[w]] = "PROCESSING"
    BY DEF HandsOK, Delivering, InHand
  <2>2. EventHasRoom(ev[w])
    BY <1>b, <2>1
  <2>3. ev' = ev
    BY <2>1 DEF WorkerStep, Wake, ClaimNextEvent, FindQueueEmpty, Lookup, CountAttempts,
                CheckBreaker, Defer, Post, Reply, InsertAttempt, MarkDelivered, MarkRetry,
                MarkFailed, Bury, Requeue, Delivering
  <2>4. Uncleared(ev[w])' <=> Uncleared(ev[w])
    BY <2>3 DEF Uncleared
  <2> QED
    BY <2>1, <2>2, <2>4
(* A step within the delivery.                                             *)
<1>d. ASSUME pc[w] \in Delivering, ev' = ev,
             \E l : pc' = [pc EXCEPT ![w] = l],
             \E n : attemptNum' = [attemptNum EXCEPT ![w] = n],
             \A f \in EventIds : f # ev[w] => /\ status'[f] = status[f]
                                             /\ attempts'[f] = attempts[f]
                                             /\ sends'[f] = sends[f],
             EventHasRoom(ev[w])', HandHasRoom(w)'
      PROVE  Roomy'
  <2>1. PICK c \in EventIds : c = ev[w]
    BY <1>c, <1>d
  <2>2. \A v \in Workers : v # w /\ InHand(v) => ev[v] # c
    BY <1>d, <2>1, HandsApart DEF Settling, Delivering
  <2>3. Concerns(w, c) /\ EventHasRoom(c)'
    BY <1>d, <2>1, <2>2 DEF Concerns
  <2> QED
    BY <1>a, <1>d, <2>3, OthersHaveRoom
(* The delivery ends.                                                      *)
<1>e. ASSUME pc[w] \in Delivering, ev' = ev,
             NEW l \in {"claim", "sleep", "bury"}, pc' = [pc EXCEPT ![w] = l],
             \E n : attemptNum' = [attemptNum EXCEPT ![w] = n],
             UNCHANGED << attempts, sends >>,
             NEW s, status' = [status EXCEPT ![ev[w]] = s],
             s = "FAILED" => sends[ev[w]] > 0,
             s = "RECEIVED" => HasRoom(ev[w])
      PROVE  Roomy'
  <2>1. status'[ev[w]] = s
    BY <1>c, <1>e
  <2>2. EventHasRoom(ev[w])'
    BY <1>c, <1>e, <2>1 DEF EventHasRoom, HasRoom
  <2>3. HandHasRoom(w)'
    BY <1>e DEF HandHasRoom
  <2> QED
    BY <1>c, <1>d, <1>e, <2>2, <2>3
(* The ends of a pass, where no event is touched.                          *)
<1>1. CASE Wake(w) \/ FindQueueEmpty(w) \/ Bury(w) \/ Requeue(w)
  <2>1. UNCHANGED << ev, status, attempts, sends >>
    BY <1>1 DEF Wake, FindQueueEmpty, Bury, Requeue, HandsOK, SetStatus, storeVars
  <2>2. /\ \A v \in Workers : v # w => pc'[v] = pc[v] /\ attemptNum'[v] = attemptNum[v]
        /\ pc'[w] \in {"claim", "sleep", "requeue"}
    BY <1>1 DEF Wake, FindQueueEmpty, Bury, Requeue, Finish, Goto
  <2>3. ASSUME NEW v \in Workers
        PROVE  HandHasRoom(v)'
    <3>1. CASE v = w
      BY <2>2, <3>1 DEF HandHasRoom
    <3>2. CASE v # w /\ ~InHand(v)
      BY <2>2, <3>2 DEF HandHasRoom, InHand
    <3>3. CASE v # w /\ InHand(v)
      <4>1. HandHasRoom(v) /\ ev[v] \in EventIds
        BY <3>3 DEF Roomy
      <4> QED
        BY <1>a, <2>1, <2>2, <3>3, <4>1 DEF HandHasRoom, HasRoom, HadRoom
    <3> QED
      BY <3>1, <3>2, <3>3
  <2>4. ASSUME NEW e \in EventIds
        PROVE  EventHasRoom(e)'
    BY <1>a, <1>b, <2>1 DEF EventHasRoom, HasRoom
  <2> QED
    BY <2>3, <2>4 DEF Roomy
<1>2. ASSUME NEW e \in EventIds, ClaimNextEvent(w, e)
      PROVE  Roomy'
  <2>1. /\ pc[w] = "claim" /\ status[e] = "RECEIVED"
        /\ pc' = [pc EXCEPT ![w] = "lookup"]
        /\ ev' = [ev EXCEPT ![w] = e]
        /\ status' = [status EXCEPT ![e] = "PROCESSING"]
        /\ UNCHANGED << attempts, sends, attemptNum >>
    BY <1>2 DEF ClaimNextEvent, IsOldestReceived, SetStatus, Goto
  <2>2. \A v \in Workers : v # w /\ InHand(v) => ev[v] # e
    BY <2>1, HandsApart DEF Settling, Delivering
  <2>3. Concerns(w, e)
    BY <2>1, <2>2 DEF Concerns, InHand
  <2>4. HasRoom(e) /\ sends[e] < 2 * LeastBudget
    BY <1>b, <2>1 DEF EventHasRoom
  <2>5. HasRoom(e)'
    BY <1>a, <2>1, <2>4 DEF HasRoom
  <2>6. EventHasRoom(e)'
    BY <1>a, <1>b, <2>1, <2>4 DEF EventHasRoom
  <2>7. HandHasRoom(w)'
    BY <2>1, <2>5 DEF HandHasRoom
  <2> QED
    BY <1>a, <2>3, <2>6, <2>7, OthersHaveRoom
<1>3. CASE Lookup(w) \/ CheckBreaker(w) \/ \E ok \in BOOLEAN : Reply(w, ok)
  <2>1. /\ pc[w] \in {"lookup", "admit", "await"}
        /\ UNCHANGED << ev, attemptNum, status, attempts, sends >>
        /\ attemptNum' = [attemptNum EXCEPT ![w] = attemptNum[w]]
    BY <1>3 DEF Lookup, CheckBreaker, Reply, storeVars
  <2>2. PICK l : /\ pc' = [pc EXCEPT ![w] = l]
                 /\ pc[w] = "lookup" => l \in {"count", "requeue"}
                 /\ pc[w] = "admit" => l \in {"post", "defer"}
                 /\ pc[w] = "await" => l = "insert"
    BY <1>3 DEF Lookup, CheckBreaker, Reply, Goto
  <2>3. pc[w] \in Delivering
    BY <2>1 DEF Delivering
  <2>4. EventHasRoom(ev[w])'
    BY <1>c, <2>1, <2>3 DEF EventHasRoom, HasRoom
  <2>5. HandHasRoom(w)'
    BY <1>b, <1>c, <2>1, <2>2, <2>3 DEF HandHasRoom, HasRoom, HadRoom
  <2> QED
    BY <1>d, <2>1, <2>2, <2>3, <2>4, <2>5
<1>4. CASE CountAttempts(w)
  <2>1. /\ pc[w] = "count"
        /\ pc' = [pc EXCEPT ![w] = "admit"]
        /\ attemptNum' = [attemptNum EXCEPT ![w] = attempts[ev[w]] + 1]
        /\ UNCHANGED << ev, status, attempts, sends >>
    BY <1>4 DEF CountAttempts, Goto, storeVars
  <2>2. EventHasRoom(ev[w])'
    BY <1>c, <2>1 DEF EventHasRoom, HasRoom, Delivering
  <2>3. HandHasRoom(w)'
    BY <1>b, <1>c, <2>1 DEF HandHasRoom, HasRoom, Delivering
  <2> QED
    BY <1>d, <2>1, <2>2, <2>3 DEF Delivering
<1>5. CASE Post(w)
  <2>1. /\ pc[w] = "post"
        /\ pc' = [pc EXCEPT ![w] = "await"]
        /\ sends' = [sends EXCEPT ![ev[w]] = sends[ev[w]] + 1]
        /\ UNCHANGED << ev, attemptNum, status, attempts >>
        /\ attemptNum' = [attemptNum EXCEPT ![w] = attemptNum[w]]
    BY <1>5 DEF Post, Goto
  <2>2. HasRoom(ev[w])
    BY <1>b, <2>1 DEF HandHasRoom
  <2>3. sends[ev[w]] + 1 < 2 * LeastBudget
    BY <1>c, <2>1, <2>2 DEF HasRoom, Delivering
  <2>4. EventHasRoom(ev[w])'
    BY <1>c, <2>1, <2>3 DEF EventHasRoom, Delivering
  <2>5. HandHasRoom(w)'
    BY <1>b, <1>c, <2>1, <2>2 DEF EventHasRoom, HandHasRoom, HasRoom, HadRoom, Delivering
  <2> QED
    BY <1>d, <2>1, <2>4, <2>5 DEF Delivering
<1>6. CASE InsertAttempt(w)
  <2>1. /\ pc[w] = "insert"
        /\ pc' = [pc EXCEPT ![w] = "mark"]
        /\ attempts' = [attempts EXCEPT ![ev[w]] = attempts[ev[w]] + 1]
        /\ UNCHANGED << ev, attemptNum, status, sends >>
        /\ attemptNum' = [attemptNum EXCEPT ![w] = attemptNum[w]]
    BY <1>6, <1>c DEF InsertAttempt, Goto, Delivering
  <2>2. EventHasRoom(ev[w])'
    BY <1>b, <1>c, <2>1 DEF EventHasRoom, HandHasRoom, Delivering
  <2>3. HandHasRoom(w)'
    BY <1>b, <1>c, <2>1 DEF HandHasRoom, HadRoom, Delivering
  <2> QED
    BY <1>d, <2>1, <2>2, <2>3 DEF Delivering
<1>7. CASE Defer(w)
  <2>1. /\ pc[w] \in Delivering /\ HasRoom(ev[w])
        /\ UNCHANGED << ev, attempts, sends >>
        /\ pc' = [pc EXCEPT ![w] = "sleep"]
        /\ attemptNum' = [attemptNum EXCEPT ![w] = 0]
    BY <1>7, <1>b DEF Defer, Finish, Goto, HandHasRoom, Delivering
  <2>2. status' = [status EXCEPT ![ev[w]] = "RECEIVED"]
    BY <1>7, <1>c, <2>1 DEF Defer, SetStatus
  <2> QED
    BY <1>e, <2>1, <2>2
<1>8. CASE MarkRetry(w)
  <2>1. /\ pc[w] = "mark" /\ attemptNum[w] < MaxAttempts
        /\ UNCHANGED << ev, attempts, sends >>
        /\ pc' = [pc EXCEPT ![w] = "claim"]
        /\ attemptNum' = [attemptNum EXCEPT ![w] = 0]
    BY <1>8 DEF MarkRetry, Finish, Goto
  <2>2. status' = [status EXCEPT ![ev[w]] = "RECEIVED"]
    BY <1>8, <1>c, <2>1 DEF MarkRetry, SetStatus, Delivering
  <2>3. HasRoom(ev[w])
    BY <1>b, <1>c, <2>1 DEF HandHasRoom, HasRoom, Delivering
  <2> QED
    BY <1>e, <2>1, <2>2, <2>3 DEF Delivering
<1>9. CASE MarkDelivered(w)
  <2>1. /\ pc[w] = "mark"
        /\ UNCHANGED << ev, attempts, sends >>
        /\ pc' = [pc EXCEPT ![w] = "claim"]
        /\ attemptNum' = [attemptNum EXCEPT ![w] = 0]
    BY <1>9 DEF MarkDelivered, Finish, Goto
  <2>2. status' = [status EXCEPT ![ev[w]] = "DELIVERED"]
    BY <1>9, <1>c, <2>1 DEF MarkDelivered, SetStatus, Delivering
  <2> QED
    BY <1>e, <2>1, <2>2 DEF Delivering
<1>10. CASE MarkFailed(w)
  <2>1. /\ pc[w] = "mark" /\ sends[ev[w]] > 0
        /\ UNCHANGED << ev, attempts, sends >>
        /\ pc' = [pc EXCEPT ![w] = "bury"]
        /\ attemptNum' = [attemptNum EXCEPT ![w] = attemptNum[w]]
    BY <1>10, <1>b DEF MarkFailed, Goto, HandHasRoom
  <2>2. status' = [status EXCEPT ![ev[w]] = "FAILED"]
    BY <1>10, <1>c, <2>1 DEF MarkFailed, SetStatus, Delivering
  <2> QED
    BY <1>e, <2>1, <2>2 DEF Delivering
<1> QED
  BY <1>1, <1>2, <1>3, <1>4, <1>5, <1>6, <1>7, <1>8, <1>9, <1>10 DEF WorkerStep

(* The hands that count deliver a PROCESSING event.                        *)
LEMMA HandsCount ==
  ASSUME StructureOK, HandsOK, NEW w \in Workers, pc[w] \in Delivering
  PROVE  ev[w] \in EventIds /\ ev[w] <= lastEvent /\ status[ev[w]] = "PROCESSING"
BY BudgetTypes DEF HandsOK, Delivering, InHand

LEMMA ReplayLeavesRoom ==
  ASSUME StructureOK, HandsOK, ReplayIsTimely, Roomy, SoleReplayer, ReplayNext,
         faults' = faults, UNCHANGED dispatchVars
  PROVE  Roomy'
<1> USE BudgetTypes, LeastBudgetFixed
<1>a. UNCHANGED << pc, ev, attemptNum >>
  BY DEF dispatchVars
<1>b. \A q, r \in Replayers : q = r
  BY DEF SoleReplayer
<1>1. ASSUME NEW r \in Replayers,
             \/ \E e \in EventIds : ReplaySelect(r, e)
             \/ ReplayRemove(r)
      PROVE  Roomy'
  <2>1. UNCHANGED << status, attempts, sends >> /\ rpc[r] # "clear" /\ rpc'[r] # "clear"
    BY <1>1 DEF ReplaySelect, ReplayRemove, ReplayDone, storeVars, StructureOK, TypeOK,
                ReplayTypeOK
  <2>2. \A e \in EventIds : Uncleared(e)' <=> Uncleared(e)
    BY <1>b, <2>1 DEF Uncleared
  <2> QED
    BY <1>a, <2>1, <2>2, RoomStays
<1>2. ASSUME NEW r \in Replayers, ReplayUpdate(r)
      PROVE  Roomy'
  <2>1. PICK c \in EventIds : c = letter[r].event
    BY <1>2 DEF ReplayUpdate, StructureOK, ReplayersOK
  <2>2. /\ rpc[r] = "update" /\ rpc' = [rpc EXCEPT ![r] = "clear"]
        /\ UNCHANGED << attempts, letter >>
        /\ sends' = [sends EXCEPT ![c] = 0]
        /\ status' = [status EXCEPT ![c] = IF @ = "NONE" THEN @ ELSE "RECEIVED"]
    BY <1>2, <2>1 DEF ReplayUpdate, SetStatus
  <2>3. status[c] \in {"FAILED", "NONE"}
    BY <2>1, <2>2 DEF ReplayIsTimely
  <2>4. \A e \in EventIds : e # c => (Uncleared(e)' <=> Uncleared(e))
    BY <1>b, <2>1, <2>2 DEF Uncleared
  <2>5. Uncleared(c)'
    <3>1. rpc'[r] = "clear" /\ letter'[r].event = c
      BY <2>1, <2>2 DEF StructureOK, TypeOK, ReplayTypeOK
    <3> QED
      BY <3>1 DEF Uncleared
  <2>6. ASSUME NEW e \in EventIds
        PROVE  EventHasRoom(e)'
    <3>1. EventHasRoom(e)
      BY DEF Roomy
    <3>2. CASE e = c
      BY <2>2, <2>3, <2>5, <3>2 DEF EventHasRoom, HasRoom
    <3>3. CASE e # c
      BY <2>2, <2>4, <3>1, <3>3 DEF EventHasRoom, HasRoom
    <3> QED
      BY <3>2, <3>3
  <2>7. ASSUME NEW w \in Workers
        PROVE  HandHasRoom(w)'
    <3>1. HandHasRoom(w)
      BY DEF Roomy
    <3>2. CASE pc[w] \notin Delivering
      BY <1>a, <3>2 DEF HandHasRoom, Delivering
    <3>3. CASE pc[w] \in Delivering
      <4>1. PICK e \in EventIds : e = ev[w] /\ e # c
        BY <2>3, <3>3, HandsCount
      <4>2. sends'[e] = sends[e] /\ attempts'[e] = attempts[e]
        BY <2>2, <4>1
      <4> QED
        BY <1>a, <2>4, <3>1, <4>1, <4>2 DEF HandHasRoom, HasRoom, HadRoom
    <3> QED
      BY <3>2, <3>3
  <2> QED
    BY <2>6, <2>7 DEF Roomy
<1>3. ASSUME NEW r \in Replayers, ReplayClear(r)
      PROVE  Roomy'
  <2>1. PICK c \in EventIds : c = letter[r].event
    BY <1>3 DEF ReplayClear, StructureOK, ReplayersOK
  <2>2. /\ rpc[r] = "clear" /\ rpc' = [rpc EXCEPT ![r] = "remove"]
        /\ UNCHANGED << status, sends, letter >>
        /\ attempts' = [attempts EXCEPT ![c] = 0]
    BY <1>3, <2>1 DEF ReplayClear
  <2>3. Uncleared(c)
    BY <2>1, <2>2 DEF Uncleared
  <2>4. \A e \in EventIds : e # c => ~Uncleared(e)
    BY <1>b, <2>1, <2>2 DEF Uncleared
  <2>5. \A e \in EventIds : ~Uncleared(e)'
    <3>1. rpc'[r] # "clear"
      BY <2>2 DEF StructureOK, TypeOK, ReplayTypeOK
    <3> QED
      BY <1>b, <3>1 DEF Uncleared
  <2>6. attempts'[c] = 0
    BY <2>2
  <2>7. ASSUME NEW e \in EventIds
        PROVE  EventHasRoom(e)'
    <3>1. EventHasRoom(e)
      BY DEF Roomy
    <3>2. CASE e = c
      BY <2>2, <2>3, <2>5, <2>6, <3>1, <3>2 DEF EventHasRoom, HasRoom
    <3>3. CASE e # c
      BY <2>2, <2>4, <2>5, <3>1, <3>3 DEF EventHasRoom, HasRoom
    <3> QED
      BY <3>2, <3>3
  <2>8. ASSUME NEW w \in Workers
        PROVE  HandHasRoom(w)'
    <3>1. HandHasRoom(w)
      BY DEF Roomy
    <3>2. CASE pc[w] \notin Delivering
      BY <1>a, <3>2 DEF HandHasRoom, Delivering
    <3>3. CASE pc[w] \in Delivering
      <4>1. PICK e \in EventIds : e = ev[w]
        BY <3>3, HandsCount
      <4>2. ev'[w] = e /\ pc'[w] = pc[w] /\ attemptNum'[w] = attemptNum[w]
            /\ sends'[e] = sends[e] /\ ~Uncleared(e)'
        BY <1>a, <2>2, <2>5, <4>1
      <4>3. CASE e # c
        <5>1. attempts'[e] = attempts[e]
          BY <2>2, <4>3
        <5> QED
          BY <2>4, <3>1, <4>1, <4>2, <4>3, <5>1 DEF HandHasRoom, HasRoom, HadRoom
      <4>4. CASE e = c
        <5>1. attempts'[e] = 0 /\ Uncleared(e)
          BY <2>3, <2>6, <4>4
        <5>2. pc[w] \in {"lookup", "count", "admit", "defer", "post"} => HasRoom(e)'
          BY <3>1, <4>1, <4>2, <5>1 DEF HandHasRoom, HasRoom
        <5>3. pc[w] \in {"await", "insert"} => HadRoom(e)' /\ sends[e] > 0
          BY <3>1, <4>1, <4>2, <5>1 DEF HandHasRoom, HadRoom
        <5>4. pc[w] \in {"admit", "post", "await", "insert"} => 0 < attemptNum[w]
          BY <3>1, <4>1, <5>1 DEF HandHasRoom
        <5>5. pc[w] = "mark" =>
                /\ sends[e] > 0
                /\ attemptNum[w] < MaxAttempts => sends[e] < LeastBudget
          BY <3>1, <4>1, <5>1 DEF HandHasRoom
        <5> QED
          BY <4>2, <5>1, <5>2, <5>3, <5>4, <5>5 DEF HandHasRoom
      <4> QED
        BY <4>3, <4>4
    <3> QED
      BY <3>2, <3>3
  <2> QED
    BY <2>7, <2>8 DEF Roomy
<1>4. ASSUME NEW r \in Replayers, ReplayFault(r)
      PROVE  FALSE
  BY <1>4 DEF ReplayFault, Fault
<1> QED
  BY <1>1, <1>2, <1>3, <1>4 DEF ReplayNext, ReplayStep

(* A new event has its whole budget before it.                             *)
LEMMA IntakeLeavesRoom ==
  ASSUME StructureOK, UnusedOK, Roomy, IngestNext, UNCHANGED << dispatchVars, replayVars >>
  PROVE  Roomy'
<1> USE BudgetTypes, LeastBudgetFixed
<1>a. UNCHANGED << pc, ev, attemptNum, rpc, letter >>
  BY DEF dispatchVars, replayVars
<1>b. \A e \in EventIds : Uncleared(e)' <=> Uncleared(e)
  BY <1>a DEF Uncleared
<1>1. ASSUME NEW i \in Ingesters, AcceptEvent(i)
      PROVE  Roomy'
  <2>1. PICK n \in EventIds : n = lastEvent + 1
    BY <1>1, AcceptGrows
  <2>2. /\ status' = [status EXCEPT ![n] = "RECEIVED"]
        /\ UNCHANGED << attempts, sends >>
    BY <1>1, <2>1 DEF AcceptEvent, InsertEvent
  <2>3. sends[n] = 0 /\ attempts[n] = 0
    BY <2>1 DEF UnusedOK
  <2>5. ASSUME NEW e \in EventIds
        PROVE  EventHasRoom(e)'
    <3>1. EventHasRoom(e)
      BY DEF Roomy
    <3>2. CASE e = n
      BY <1>b, <2>2, <2>3, <3>2 DEF EventHasRoom, HasRoom
    <3>3. CASE e # n
      BY <1>b, <2>2, <3>1, <3>3 DEF EventHasRoom, HasRoom
    <3> QED
      BY <3>2, <3>3
  <2>6. ASSUME NEW w \in Workers
        PROVE  HandHasRoom(w)'
    <3>1. HandHasRoom(w)
      BY DEF Roomy
    <3>2. CASE ~InHand(w)
      BY <1>a, <3>2 DEF HandHasRoom, InHand
    <3>3. CASE InHand(w)
      <4>1. PICK e \in EventIds : e = ev[w]
        BY <3>3
      <4> QED
        BY <1>a, <1>b, <2>2, <3>1, <4>1 DEF HandHasRoom, HasRoom, HadRoom
    <3> QED
      BY <3>2, <3>3
  <2> QED
    BY <2>5, <2>6 DEF Roomy
<1>2. CASE \A i \in Ingesters : ~AcceptEvent(i)
  <2>1. UNCHANGED << status, attempts, sends >>
    BY <1>2
       DEF IngestNext, IngestStep, Receive, LookupEndpoint, RefuseDuplicate, RefuseOrphan,
           IngestFault, HangUp, storeVars
  <2> QED
    BY <1>a, <1>b, <2>1, RoomStays
<1> QED
  BY <1>1, <1>2

LEMMA DeleteLeavesRoom ==
  ASSUME StructureOK, HandsOK, Roomy, EndpointsNext, UNCHANGED << dispatchVars, replayVars >>
  PROVE  Roomy'
<1> USE BudgetTypes, LeastBudgetFixed
<1>a. UNCHANGED << pc, ev, attemptNum, rpc, letter >>
  BY DEF dispatchVars, replayVars
<1>b. \A e \in EventIds : Uncleared(e)' <=> Uncleared(e)
  BY <1>a DEF Uncleared
<1>1. ASSUME NEW ep \in EndpointIds, CreateEndpoint(ep)
      PROVE  Roomy'
  BY <1>1, <1>a, <1>b, RoomStays DEF CreateEndpoint
<1>2. ASSUME NEW ep \in EndpointIds, DeleteEndpoint(ep)
      PROVE  Roomy'
  <2>1. /\ \A e \in EventIds :
             \/ status'[e] = "NONE" /\ attempts'[e] = 0 /\ status[e] # "PROCESSING"
             \/ status'[e] = status[e] /\ attempts'[e] = attempts[e]
        /\ sends' = sends
    BY <1>2 DEF DeleteEndpoint, Cascade, Pending
  <2>2. ASSUME NEW e \in EventIds
        PROVE  EventHasRoom(e)'
    <3>1. EventHasRoom(e)
      BY DEF Roomy
    <3> QED
      BY <1>b, <2>1, <3>1 DEF EventHasRoom, HasRoom
  <2>3. ASSUME NEW w \in Workers
        PROVE  HandHasRoom(w)'
    <3>1. HandHasRoom(w)
      BY DEF Roomy
    <3>2. CASE pc[w] \notin Delivering
      BY <1>a, <3>2 DEF HandHasRoom, Delivering
    <3>3. CASE pc[w] \in Delivering
      <4>1. PICK e \in EventIds : e = ev[w] /\ status[e] = "PROCESSING"
        BY <3>3, HandsCount
      <4>2. attempts'[e] = attempts[e]
        BY <2>1, <4>1
      <4> QED
        BY <1>a, <1>b, <2>1, <3>1, <4>1, <4>2 DEF HandHasRoom, HasRoom, HadRoom
    <3> QED
      BY <3>2, <3>3
  <2> QED
    BY <2>2, <2>3 DEF Roomy
<1> QED
  BY <1>1, <1>2 DEF EndpointsNext

LEMMA RoomInvInit == Init => RoomInv
<1> SUFFICES ASSUME Init
             PROVE  RoomInv
  OBVIOUS
<1>1. LeastBudget \in Nat /\ LeastBudget >= 1
  BY DispatchAssumption DEF LeastBudget
<1>2. \A e \in EventIds : EventHasRoom(e)
  BY <1>1 DEF Init, StoreInit, EventHasRoom
<1>3. \A w \in Workers : HandHasRoom(w)
  BY DEF Init, DispatchInit, HandHasRoom
<1> QED
  BY <1>2, <1>3 DEF RoomInv

LEMMA RoomInvStep ==
  ASSUME StructureOK, UnusedOK, QueueInv, RoomInv, [Next]_vars
  PROVE  RoomInv'
<1>1. CASE UNCHANGED vars
  <2> SUFFICES ASSUME SoleReplayer, Undisturbed'
               PROVE  Roomy'
    BY DEF RoomInv, Roomy, SoleReplayer
  <2>1. /\ UNCHANGED << pc, ev, attemptNum, status, attempts, sends, rpc, letter >>
        /\ Undisturbed
    BY <1>1 DEF vars, storeVars, dispatchVars, replayVars, Undisturbed
  <2>2. \A e \in EventIds : Uncleared(e)' <=> Uncleared(e)
    BY <2>1 DEF Uncleared
  <2>3. Roomy
    BY <2>1 DEF RoomInv, Roomy
  <2> QED
    BY <2>1, <2>2, <2>3, RoomStays
<1>2. CASE Next
  <2> SUFFICES ASSUME SoleReplayer, Undisturbed'
               PROVE  Roomy'
    BY DEF RoomInv, Roomy, SoleReplayer
  <2>a. /\ Undisturbed /\ faults' = faults /\ ~Restart
        /\ \A w \in Workers : ~WorkerFault(w)
    BY <1>2, UndisturbedSteps
  <2>b. Roomy /\ HandsOK /\ ReplayIsTimely
    BY <2>a DEF RoomInv, Roomy, QueueInv
  <2>1. CASE DispatchNext /\ UNCHANGED << replayVars, ingestVars, crashes >>
    <3>1. UNCHANGED << rpc, letter >>
      BY <2>1 DEF replayVars
    <3>2. ASSUME NEW ep \in EndpointIds, RecoveryEnds(ep)
          PROVE  Roomy'
      <4>1. UNCHANGED << pc, ev, attemptNum, status, attempts, sends >>
        BY <3>2 DEF RecoveryEnds, storeVars
      <4>2. \A e \in EventIds : Uncleared(e)' <=> Uncleared(e)
        BY <3>1 DEF Uncleared
      <4> QED
        BY <2>b, <4>1, <4>2, RoomStays
    <3> QED
      BY <2>1, <2>a, <2>b, <3>1, <3>2, WorkerLeavesRoom DEF DispatchNext
  <2>2. CASE ReplayNext /\ UNCHANGED << dispatchVars, ingestVars, crashes >>
    BY <2>2, <2>a, <2>b, ReplayLeavesRoom
  <2>3. CASE IngestNext /\ UNCHANGED << dispatchVars, replayVars, crashes >>
    <3>1. UNCHANGED << dispatchVars, replayVars >>
      BY <2>3
    <3> QED
      BY <2>3, <2>b, <3>1, IntakeLeavesRoom
  <2>4. CASE EndpointsNext /\ UNCHANGED << dispatchVars, replayVars, ingestVars, crashes >>
    <3>1. UNCHANGED << dispatchVars, replayVars >>
      BY <2>4
    <3> QED
      BY <2>4, <2>b, <3>1, DeleteLeavesRoom
  <2> QED
    BY <1>2, <2>1, <2>2, <2>3, <2>4, <2>a DEF Next, Crash, Shutdown
<1> QED
  BY <1>1, <1>2

LEMMA RoomInvariance == Spec => []RoomInv
BY StructureInit, StructureStep, QueueInvInit, QueueInvStep, UnusedInvariance, RoomInvInit,
   RoomInvStep, PTL DEF Spec

(* With one replay at a time and nothing failing, an event is dead-lettered *)
(* only after a request since it was last replayed, and gets fewer than    *)
(* twice max_attempts of them (once if that is 0): what the worker sends   *)
(* between the UPDATE and the DELETE of replay_dlq (dlq.rs:78) is at most  *)
(* one budget, for any number of workers, events and replays.              *)
THEOREM ReplaysAreBounded == Spec => []ReplaysAreCharged
<1>1. StructureOK /\ RoomInv => ReplaysAreCharged
  <2> SUFFICES ASSUME StructureOK, RoomInv, SoleReplayer, Undisturbed, NEW e \in EventIds
               PROVE  /\ sends[e] <= 1 \/ sends[e] < 2 * MaxAttempts
                      /\ status[e] = "FAILED" => sends[e] > 0
                      /\ Uncleared(e) \/ attempts[e] <= sends[e]
    BY DEF ReplaysAreCharged, Uncleared
  <2>1. EventHasRoom(e)
    BY DEF RoomInv
  <2>2. sends[e] \in Nat /\ MaxAttempts \in Nat
    BY BudgetTypes
  <2>3. /\ sends[e] < 2 * LeastBudget
        /\ status[e] = "FAILED" => sends[e] > 0
        /\ Uncleared(e) \/ attempts[e] <= sends[e]
    BY <2>1 DEF EventHasRoom
  <2>4. sends[e] <= 1 \/ sends[e] < 2 * MaxAttempts
    BY <2>2, <2>3 DEF LeastBudget
  <2> QED
    BY <2>3, <2>4
<1> QED
  BY <1>1, QueueInvariance, RoomInvariance, PTL

-----------------------------------------------------------------------------
(* Several workers never deliver the same event at once (runner.rs:52):    *)
(* until the first replay whatever fails and is restarted, and with one    *)
(* replay at a time while nothing fails.                                   *)
THEOREM ClaimsAreExclusive == Spec => []ClaimedByOne
<1>1. BudgetInv /\ QueueInv => ClaimedByOne
  BY DEF BudgetInv, SingleHand, QueueInv, HandsOK, ClaimedByOne, InHand, Delivering, Settling
<1> QED
  BY <1>1, BudgetInvariance, QueueInvariance, PTL
=============================================================================
