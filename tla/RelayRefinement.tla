-------------------------- MODULE RelayRefinement ---------------------------
(***************************************************************************)
(* The relay as main.rs deploys it, with one replay at a time and nothing  *)
(* failing, implements the delivery queue: where an event is follows from  *)
(* its row alone, whatever the worker, the breakers and the replay handler *)
(* are in the middle of.                                                   *)
(***************************************************************************)
EXTENDS RelayInvariant

Place(e) ==
  CASE status[e] = "RECEIVED"   -> "queued"
    [] status[e] = "PROCESSING" -> "in hand"
    [] status[e] = "DELIVERED"  -> "delivered"
    [] status[e] = "FAILED"     -> "given up"
    [] status[e] = "NONE"       -> IF e <= lastEvent THEN "removed" ELSE "nowhere"

Queue ==
  INSTANCE DeliveryQueue WITH
    Owners <- EndpointIds, Nobody <- None, Size <- MaxEvents,
    place  <- [e \in EventIds |-> Place(e)],
    owner  <- endpointOf

(* Every step of the relay is a step of the queue or changes nothing in    *)
(* it: no event is in two hands, taken out of turn, taken back after its   *)
(* delivery by the unguarded UPDATEs of replay_dlq (dlq.rs:78) and of the  *)
(* worker (dispatcher.rs:170), or left behind by a delete.                 *)
ImplementsQueue == Queue!Spec

(* The queue's promise of settlement: every accepted event is delivered,   *)
(* given up or removed at last, behind open breakers and failing older     *)
(* events of any endpoint, and across one failed database call.            *)
QueueSettles == Queue!Settlement

-----------------------------------------------------------------------------
(* With failing database calls and restarts, an event is in hand only as   *)
(* long as the worker is there that claimed it.                            *)
LossyPlace(e) == IF Stranded(e) THEN "lost" ELSE Place(e)

Lossy ==
  INSTANCE LossyQueue WITH
    Owners <- EndpointIds, Nobody <- None, Size <- MaxEvents,
    place  <- [e \in EventIds |-> LossyPlace(e)],
    owner  <- endpointOf

(* Until the first replay, whatever fails and however often the process is *)
(* restarted, losing what it has in hand is the only thing the relay does  *)
(* that the queue does not: no requeue after a failed statement            *)
(* (runner.rs:123) puts back a delivered event or takes one out of turn.   *)
ImplementsLossyQueue ==
  Lossy!Init /\ [][replays' = 0 => Lossy!LossyNext]_(Lossy!queueVars)
=============================================================================
