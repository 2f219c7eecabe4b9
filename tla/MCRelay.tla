------------------------------ MODULE MCRelay -------------------------------
(* The relay on small instances; the .cfg files give the constants.        *)
EXTENDS RelayRefinement, TLC

(* Requests in flight are interchangeable, and so are endpoints and keys:  *)
(* nothing orders them. Used in safety runs only.                          *)
HandlerSymmetry == Permutations(Ingesters)

KeySymmetry == Permutations(Keys)

EndpointSymmetry == Permutations(EndpointIds)
=============================================================================
