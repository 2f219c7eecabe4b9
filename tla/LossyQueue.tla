----------------------------- MODULE LossyQueue -----------------------------
(***************************************************************************)
(* The delivery queue when things go wrong: the consumer may also lose     *)
(* what it has in hand, and nothing else. What is lost stays where nobody  *)
(* looks for it, and keeps its endpoint from being removed.                *)
(***************************************************************************)
EXTENDS DeliveryQueue

Lose(e) ==
  /\ place[e] = "in hand"
  /\ Move(e, "lost")
  /\ UNCHANGED owner

LossyNext == Next \/ \E e \in Events : Lose(e)
=============================================================================
