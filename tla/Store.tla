------------------------------- MODULE Store --------------------------------
(***************************************************************************)
(* The SQLite tables that every part of the relay shares, and what the     *)
(* schema of src/db/migrations.rs guarantees about them: primary keys that *)
(* are never reused, UNIQUE(endpoint_id, idempotency_key), at most one     *)
(* dead letter per event, foreign keys with ON DELETE CASCADE.             *)
(*                                                                         *)
(* An event id is its rank in the order of acceptance. created_at and the  *)
(* UUIDv7 are both drawn inside the IMMEDIATE transaction that inserts the *)
(* row, so ORDER BY created_at, id is that order (on a clock that is not   *)
(* set back). A dead letter is named by its event and a serial number,     *)
(* because INSERT OR REPLACE draws a fresh UUID every time.                *)
(***************************************************************************)
EXTENDS Naturals

CONSTANTS
  EndpointIds,      (* endpoint UUIDs that may ever be drawn               *)
  Keys,             (* Idempotency-Key values senders use                  *)
  None,             (* no endpoint, no key                                 *)
  MaxEvents,        (* bound: events ever accepted                         *)
  MaxFaults         (* bound: database calls that fail                     *)

ASSUME StoreAssumption ==
  /\ MaxEvents \in Nat
  /\ MaxFaults \in Nat
  /\ None \notin EndpointIds \cup Keys

VARIABLES
  endpoints,        (* endpoint id -> "absent", "live" or "deleted"        *)
  lastEvent,        (* last event id drawn                                 *)
  endpointOf,       (* incoming_events.endpoint_id                         *)
  keyOf,            (* incoming_events.idempotency_key                     *)
  status,           (* incoming_events.status, "NONE" when there is no row *)
  attempts,         (* number of delivery_attempts rows of an event        *)
  dlq,              (* serial of the event's dead letter, 0 when none      *)
  dlqSeq,           (* serials drawn so far for the event                  *)
  sends,            (* history: POSTs since accepted or last replayed      *)
  faults            (* history: database calls that have failed            *)

EventIds == 1..MaxEvents

EventStatus == {"RECEIVED", "PROCESSING", "DELIVERED", "FAILED"}

(* Written only when an event is accepted or an endpoint comes or goes.    *)
intakeVars == << endpoints, lastEvent, endpointOf, keyOf >>

storeVars ==
  << intakeVars, status, attempts, dlq, dlqSeq, sends, faults >>

StoreTypeOK ==
  /\ endpoints  \in [EndpointIds -> {"absent", "live", "deleted"}]
  /\ lastEvent  \in 0..MaxEvents
  /\ endpointOf \in [EventIds -> EndpointIds \cup {None}]
  /\ keyOf      \in [EventIds -> Keys \cup {None}]
  /\ status     \in [EventIds -> EventStatus \cup {"NONE"}]
  /\ attempts   \in [EventIds -> Nat]
  /\ dlq        \in [EventIds -> Nat]
  /\ dlqSeq     \in [EventIds -> Nat]
  /\ sends      \in [EventIds -> Nat]
  /\ faults     \in Nat

StoreInit ==
  /\ endpoints  = [ep \in EndpointIds |-> "absent"]
  /\ lastEvent  = 0
  /\ endpointOf = [e \in EventIds |-> None]
  /\ keyOf      = [e \in EventIds |-> None]
  /\ status     = [e \in EventIds |-> "NONE"]
  /\ attempts   = [e \in EventIds |-> 0]
  /\ dlq        = [e \in EventIds |-> 0]
  /\ dlqSeq     = [e \in EventIds |-> 0]
  /\ sends      = [e \in EventIds |-> 0]
  /\ faults     = 0

(* Mutant of Existing: a delivered event frees its key.                    *)
ExistingUndelivered(ep, k) ==
  {e \in EventIds : /\ status[e] \notin {"NONE", "DELIVERED"}
                    /\ endpointOf[e] = ep
                    /\ keyOf[e] = k}

(* Rows of incoming_events with a given endpoint and key.                  *)
Existing(ep, k) ==
  {e \in EventIds : /\ status[e] # "NONE"
                    /\ endpointOf[e] = ep
                    /\ keyOf[e] = k}

(* Mutant of IsOldestReceived: the ORDER BY is dropped.                    *)
IsAnyReceived(e) == status[e] = "RECEIVED"

(* Mutant of IsOldestReceived: what was left PROCESSING is claimed too.    *)
IsOldestUnsettled(e) ==
  /\ status[e] \in {"RECEIVED", "PROCESSING"}
  /\ \A f \in EventIds : status[f] \in {"RECEIVED", "PROCESSING"} => e <= f

(* SELECT ... WHERE status = RECEIVED ORDER BY created_at, id LIMIT 1.      *)
IsOldestReceived(e) ==
  /\ status[e] = "RECEIVED"
  /\ \A f \in EventIds : status[f] = "RECEIVED" => e <= f

(* UPDATE incoming_events SET status = s WHERE id = e: no row, no effect.  *)
SetStatus(e, s) ==
  status' = [status EXCEPT ![e] = IF @ = "NONE" THEN @ ELSE s]

(* INSERT INTO incoming_events, under a fresh id.                          *)
InsertEvent(ep, k) ==
  LET e == lastEvent + 1
  IN  /\ lastEvent < MaxEvents
      /\ lastEvent'  = e
      /\ endpointOf' = [endpointOf EXCEPT ![e] = ep]
      /\ keyOf'      = [keyOf EXCEPT ![e] = k]
      /\ status'     = [status EXCEPT ![e] = "RECEIVED"]
      /\ UNCHANGED << endpoints, attempts, dlq, dlqSeq, sends, faults >>

(* A database call answers with an error: the pool hands out no connection *)
(* in time, the busy timeout runs out, or SQLite reports an I/O error.     *)
Fault ==
  /\ faults < MaxFaults
  /\ faults' = faults + 1
=============================================================================
