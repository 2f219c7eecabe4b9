--------------------------- MODULE RelayInvariant ---------------------------
(***************************************************************************)
(* The inductive invariant behind the proofs of RelayProofs. None of the   *)
(* safety properties is inductive as it stands: which worker answers for   *)
(* an event depends on where every worker and replay is, and on what they  *)
(* still remember of rows that have changed since.                         *)
(***************************************************************************)
EXTENDS Relay

(* Rows that exist were accepted, and their endpoint is there.             *)
RowsOK ==
  \A e \in EventIds :
    status[e] # "NONE" =>
      /\ e <= lastEvent
      /\ endpointOf[e] \in EndpointIds
      /\ endpoints[endpointOf[e]] = "live"

(* Dead letter ids are fresh: none is beyond the last one drawn.           *)
LettersOK ==
  \A e \in EventIds : dlq[e] <= dlqSeq[e]

(* A worker in a pass has an accepted event, whatever became of it.        *)
WorkersOK ==
  \A w \in Workers :
    pc[w] \notin {"claim", "sleep"} => ev[w] \in EventIds /\ ev[w] <= lastEvent

(* A replay in flight knows a letter that did exist.                       *)
ReplayersOK ==
  \A r \in Replayers :
    rpc[r] # "idle" =>
      /\ letter[r].event \in EventIds
      /\ letter[r].serial \in 1 .. dlqSeq[letter[r].event]

(* An ingest request in flight names an endpoint.                          *)
IngestersOK ==
  \A i \in Ingesters :
    ipc[i] # "idle" => request[i].endpoint \in EndpointIds /\ request[i].key \in Keys

(* Somebody will still write the status of e. A worker about to write the  *)
(* dead letter will not.                                                   *)
Carries(w, e) == ev[w] = e /\ pc[w] \notin {"claim", "sleep", "bury"}

(* Somebody will still write a dead letter for e, or requeue it.           *)
Buries(w, e) == ev[w] = e /\ pc[w] \in {"bury", "requeue"}

(* A replay past its UPDATE is going to remove the letter in place. If the *)
(* event is FAILED again, its next letter had better be on its way.        *)
LetterIsStale(e) ==
  \E r \in Replayers :
    /\ rpc[r] \in {"clear", "remove"}
    /\ letter[r] = [event |-> e, serial |-> dlq[e]]

(* The event is lost, or will be without anything else going wrong.        *)
Uncarried(e) == status[e] = "PROCESSING" /\ \A w \in Workers : ~Carries(w, e)

Unburied(e) ==
  /\ status[e] = "FAILED"
  /\ dlq[e] = 0 \/ LetterIsStale(e)
  /\ \A w \in Workers : ~Buries(w, e)

Doomed == {e \in EventIds : Uncarried(e) \/ Unburied(e)}

(* A worker about to requeue an event that is there has seen one fault of  *)
(* the two that a loss takes.                                              *)
Requeuers == {w \in Workers : pc[w] = "requeue" /\ status[ev[w]] # "NONE"}

LossesAreFew ==
  2 * Cardinality(Doomed) + Cardinality(Requeuers) <=
    2 * (Cardinality(Workers) * crashes) + faults

StructureOK ==
  /\ TypeOK
  /\ RowsOK
  /\ LettersOK
  /\ WorkersOK
  /\ ReplayersOK
  /\ IngestersOK

IndInv ==
  /\ StructureOK
  /\ LossesAreFew
  /\ ProbeIsOwned

(* What follows while at most one call has failed: nobody is doomed yet.   *)
ProcessingIsCarried == AtMostOneFault => \A e \in EventIds : ~Uncarried(e)

-----------------------------------------------------------------------------
(* What the intake needs on top of the structure.                          *)

(* An accepted event leaves the database only with its endpoint.           *)
AcceptedOK ==
  \A e \in 1..lastEvent :
    /\ endpointOf[e] \in EndpointIds
    /\ keyOf[e] \in Keys
    /\ status[e] = "NONE" => endpoints[endpointOf[e]] = "deleted"

(* A request that was let through found its endpoint.                      *)
AdmittedOK ==
  \A i \in Ingesters :
    ipc[i] = "accept" => endpoints[request[i].endpoint] # "absent"

(* What has been answered was asked of an endpoint.                        *)
AnsweredOK ==
  \A i \in Ingesters : answer[i].code # 0 => request[i].endpoint \in EndpointIds

IntakeInv ==
  /\ StructureOK
  /\ AcceptedOK
  /\ AdmittedOK
  /\ AnsweredOK
  /\ AcceptedOnce
  /\ AnswerIsHonest

-----------------------------------------------------------------------------
(* What the deployment with one worker needs on top of the structure.      *)

Delivering ==
  {"lookup", "count", "admit", "defer", "post", "await", "insert", "mark"}

(* The event under way is one that a delete waits for. A replay that was   *)
(* late may have put it back in the queue already.                         *)
DeliveryIsPending ==
  SoleWorker =>
    \A w \in Workers :
      pc[w] \in Delivering => status[ev[w]] \in {"RECEIVED", "PROCESSING"}

(* A breaker in its recovery window is Open.                               *)
PendingIsOpen ==
  \A ep \in EndpointIds :
    breakers[ep].open_until = "Pending" => breakers[ep].state = "Open"

DeliveryInv ==
  /\ StructureOK
  /\ DeliveryIsPending
  /\ PendingIsOpen
  /\ WithheldWhileOpen

-----------------------------------------------------------------------------
(* What the queue needs on top of the structure: with one replay at a time *)
(* and nothing failing, for any number of workers.                         *)

Settling == Delivering \cup {"bury"}

(* An event is in one hand, and says so.                                   *)
HandsOK ==
  \A w \in Workers :
    /\ pc[w] \in Delivering => status[ev[w]] = "PROCESSING"
    /\ pc[w] = "bury" => status[ev[w]] \in {"FAILED", "NONE"}
    /\ pc[w] = "requeue" => status[ev[w]] = "NONE"
    /\ \A v \in Workers :
         pc[w] \in Settling /\ pc[v] \in Settling /\ ev[v] = ev[w] => v = w

(* An event that is gone took its letter along.                            *)
NoRowNoLetter == \A e \in EventIds : status[e] = "NONE" => dlq[e] = 0

AtBury(e) == \E w \in Workers : ev[w] = e /\ pc[w] = "bury"

(* A replay about to put an event back finds it as its SELECT did.         *)
ReplayIsTimely ==
  \A r \in Replayers :
    LET e == letter[r].event
    IN  /\ rpc[r] # "idle" => e <= lastEvent
        /\ rpc[r] = "update" /\ status[e] # "NONE" =>
             status[e] = "FAILED" /\ dlq[e] = letter[r].serial /\ ~AtBury(e)

(* A letter that is out of date is about to be removed, and it alone.      *)
OldLettersGo ==
  \A e \in EventIds :
    dlq[e] # 0 /\ (status[e] # "FAILED" \/ AtBury(e)) =>
      \E r \in Replayers :
        /\ rpc[r] \in {"clear", "remove"}
        /\ letter[r] = [event |-> e, serial |-> dlq[e]]

QueueInv ==
  SoleReplayer /\ Undisturbed =>
    HandsOK /\ NoRowNoLetter /\ ReplayIsTimely /\ OldLettersGo

(* Nothing is known of an event that was not accepted yet.                 *)
UnusedOK ==
  \A e \in EventIds :
    e > lastEvent => endpointOf[e] = None /\ sends[e] = 0 /\ attempts[e] = 0

-----------------------------------------------------------------------------
(* What the budget needs on top of the structure: that nobody replays.     *)

InHand(w) == pc[w] \notin {"claim", "sleep"}

(* An event in hand is in one hand only, not in the queue and not settled  *)
(* with the target.                                                        *)
SingleHand ==
  \A w \in Workers :
    /\ pc[w] \in Delivering => status[ev[w]] = "PROCESSING"
    /\ InHand(w) => status[ev[w]] \notin {"RECEIVED", "DELIVERED"}
    /\ \A v \in Workers : InHand(w) /\ InHand(v) /\ ev[v] = ev[w] => v = w

NobodyReplays == \A r \in Replayers : rpc[r] = "idle"

(* Every attempt that was recorded went out, and the number of the current *)
(* one is counted right.                                                   *)
AttemptsWentOut ==
  /\ \A e \in EventIds :
       /\ attempts[e] <= sends[e]
       /\ status[e] = "FAILED" => sends[e] >= MaxAttempts
  /\ \A w \in Workers :
       /\ pc[w] \in {"admit", "post", "await", "insert"} =>
            attemptNum[w] = attempts[ev[w]] + 1
       /\ pc[w] = "mark" => attemptNum[w] = attempts[ev[w]]
       /\ pc[w] \in {"await", "insert"} => attempts[ev[w]] < sends[ev[w]]

(* Requests that went out beyond those that were recorded.                 *)
Slack == faults + crashes

LeastBudget == IF MaxAttempts = 0 THEN 1 ELSE MaxAttempts

OnTheWay(e) == \E w \in Workers : ev[w] = e /\ pc[w] \in {"await", "insert"}

SendsAreFew ==
  /\ \A e \in EventIds :
       /\ sends[e] <= LeastBudget + Slack
       /\ status[e] = "RECEIVED" => sends[e] < LeastBudget + Slack
       /\ status[e] # "NONE" => sends[e] <= attempts[e] + 1 + Slack
       /\ status[e] # "NONE" /\ ~OnTheWay(e) => sends[e] <= attempts[e] + Slack
  /\ \A w \in Workers :
       \/ pc[w] \in {"lookup", "count", "admit", "defer", "post"}
       \/ pc[w] = "requeue" /\ status[ev[w]] # "NONE"
       => sends[ev[w]] < LeastBudget + Slack

BudgetInv ==
  replays = 0 =>
    NobodyReplays /\ SingleHand /\ AttemptsWentOut /\ SendsAreFew

(* The event in hand is the oldest that is not settled.                    *)
OldestInHand ==
  SoleWorker /\ replays = 0 /\ AtMostOneFault =>
    \A w \in Workers, e \in EventIds :
      InHand(w) =>
        /\ e < ev[w] => status[e] \notin {"RECEIVED", "PROCESSING"}
        /\ e > ev[w] => status[e] \notin {"DELIVERED", "FAILED"}

-----------------------------------------------------------------------------
(* What the budget of a replayed event needs on top of the queue. Between  *)
(* its UPDATE and its DELETE of the attempts the worker counts with the    *)
(* old attempts, and what it sends then is not charged to the new budget.  *)

Uncleared(e) == \E r \in Replayers : rpc[r] = "clear" /\ letter[r].event = e

(* At least one more request fits, and the attempts that are to come with  *)
(* it. Before the DELETE, every request was charged to the old budget.     *)
HasRoom(e) ==
  /\ Uncleared(e)  => sends[e] <= attempts[e] /\ sends[e] < LeastBudget
  /\ ~Uncleared(e) => sends[e] < attempts[e] + LeastBudget /\ attempts[e] < LeastBudget

(* The same while a request is not charged yet.                            *)
HadRoom(e) ==
  /\ Uncleared(e)  => sends[e] <= attempts[e] + 1 /\ sends[e] <= LeastBudget
  /\ ~Uncleared(e) => sends[e] <= attempts[e] + LeastBudget /\ attempts[e] < LeastBudget

EventHasRoom(e) ==
  /\ sends[e] < 2 * LeastBudget
  /\ Uncleared(e) \/ attempts[e] <= sends[e]
  /\ status[e] = "FAILED" => sends[e] > 0
  /\ status[e] = "RECEIVED" => HasRoom(e)

HandHasRoom(w) ==
  LET e == ev[w]
  IN  /\ pc[w] \in {"lookup", "count", "admit", "defer", "post"} => HasRoom(e)
      /\ pc[w] \in {"await", "insert"} =>
           /\ HadRoom(e) /\ sends[e] > 0
           /\ Uncleared(e) \/ attempts[e] < sends[e]
      /\ pc[w] \in {"admit", "post", "await", "insert"} =>
           /\ attempts[e] < attemptNum[w]
           /\ Uncleared(e) => attemptNum[w] = attempts[e] + 1
      /\ pc[w] = "mark" =>
           /\ sends[e] > 0
           /\ attempts[e] <= attemptNum[w]
           /\ Uncleared(e) => attemptNum[w] = attempts[e] /\ sends[e] <= attempts[e]
           /\ ~Uncleared(e) /\ attemptNum[w] < MaxAttempts =>
                sends[e] < attempts[e] + LeastBudget

RoomInv ==
  SoleReplayer /\ Undisturbed =>
    /\ \A e \in EventIds : EventHasRoom(e)
    /\ \A w \in Workers : HandHasRoom(w)
=============================================================================
