------------------------------ MODULE Endpoints -----------------------------
(***************************************************************************)
(* create_endpoint and delete_endpoint of src/api/endpoints.rs. Each is a  *)
(* single transaction: the delete's COUNT and DELETE run on one snapshot,  *)
(* and a write that commits in between makes SQLite refuse the upgrade, so *)
(* the handler fails without an effect.                                    *)
(***************************************************************************)
EXTENDS Store

(* INSERT INTO endpoints under a fresh UUID.                               *)
CreateEndpoint(ep) ==
  /\ endpoints[ep] = "absent"
  /\ endpoints' = [endpoints EXCEPT ![ep] = "live"]
  /\ UNCHANGED << lastEvent, endpointOf, keyOf, status, attempts, dlq, dlqSeq,
                  sends, faults >>

(* Mutant of Pending: deliveries under way are not waited for.             *)
PendingInQueue(ep) ==
  {e \in EventIds : endpointOf[e] = ep /\ status[e] = "RECEIVED"}

(* The events a delete waits for: it answers 409 while there is one.       *)
Pending(ep) ==
  {e \in EventIds : endpointOf[e] = ep /\ status[e] \in {"RECEIVED", "PROCESSING"}}

(* DELETE FROM endpoints; the foreign keys take the endpoint's events,     *)
(* their attempts and their dead letters along.                            *)
Cascade(ep) ==
  LET Gone(e) == endpointOf[e] = ep
  IN  /\ endpoints' = [endpoints EXCEPT ![ep] = "deleted"]
      /\ status'    = [e \in EventIds |-> IF Gone(e) THEN "NONE" ELSE status[e]]
      /\ attempts'  = [e \in EventIds |-> IF Gone(e) THEN 0 ELSE attempts[e]]
      /\ dlq'       = [e \in EventIds |-> IF Gone(e) THEN 0 ELSE dlq[e]]
      /\ UNCHANGED << lastEvent, endpointOf, keyOf, dlqSeq, sends, faults >>

DeleteEndpoint(ep) ==
  /\ endpoints[ep] = "live"
  /\ Pending(ep) = {}
  /\ Cascade(ep)

EndpointsNext ==
  \E ep \in EndpointIds : CreateEndpoint(ep) \/ DeleteEndpoint(ep)
=============================================================================
