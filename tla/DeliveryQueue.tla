--------------------------- MODULE DeliveryQueue ----------------------------
(***************************************************************************)
(* What the relay promises its senders and targets, without a worker, a    *)
(* replay request, a breaker or a database statement in sight: a queue     *)
(* with one consumer, who takes the oldest event, returns it as often as   *)
(* it likes and at last delivers it or gives it up. Only an event that was *)
(* given up is ever put back, and an endpoint leaves only together with    *)
(* its events, none of which is then waiting or in hand.                   *)
(***************************************************************************)
EXTENDS Naturals

CONSTANTS
  Owners,           (* endpoints                                           *)
  Nobody,           (* the owner of an event that was not accepted yet     *)
  Size              (* bound: events ever accepted                         *)

VARIABLES
  place,            (* event -> where it is                                *)
  owner             (* event -> its endpoint                               *)

queueVars == << place, owner >>

Events == 1..Size

Places == {"nowhere", "queued", "in hand", "delivered", "given up", "removed"}

Init ==
  /\ place = [e \in Events |-> "nowhere"]
  /\ owner = [e \in Events |-> Nobody]

Move(e, p) == place' = [place EXCEPT ![e] = p]

(* Events are accepted in the order of their ids, and only for an endpoint *)
(* that was not removed.                                                   *)
Accept(e, ep) ==
  /\ place[e] = "nowhere"
  /\ \A f \in Events : f < e => place[f] # "nowhere"
  /\ \A f \in Events : place[f] = "removed" => owner[f] # ep
  /\ Move(e, "queued")
  /\ owner' = [owner EXCEPT ![e] = ep]

Take(e) ==
  /\ place[e] = "queued"
  /\ \A f \in Events : place[f] = "queued" => e <= f
  /\ \A f \in Events : place[f] # "in hand"
  /\ Move(e, "in hand")
  /\ UNCHANGED owner

(* The consumer lets go of what it has in hand.                            *)
LetGo(e) ==
  /\ place[e] = "in hand"
  /\ \E p \in {"queued", "delivered", "given up"} : Move(e, p)
  /\ UNCHANGED owner

Replay(e) ==
  /\ place[e] = "given up"
  /\ Move(e, "queued")
  /\ UNCHANGED owner

Remove(ep) ==
  /\ \A e \in Events : owner[e] = ep => place[e] \in {"delivered", "given up"}
  /\ place' = [e \in Events |-> IF owner[e] = ep THEN "removed" ELSE place[e]]
  /\ UNCHANGED owner

Next ==
  \/ \E e \in Events :
       \/ \E ep \in Owners : Accept(e, ep)
       \/ Take(e)
       \/ LetGo(e)
       \/ Replay(e)
  \/ \E ep \in Owners : Remove(ep)

Spec == Init /\ [][Next]_queueVars

(* What waits is dealt with at last.                                       *)
Settlement ==
  \A e \in Events :
    place[e] \in {"queued", "in hand"} ~>
      place[e] \in {"delivered", "given up", "removed"}
=============================================================================
