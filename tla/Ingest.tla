------------------------------- MODULE Ingest -------------------------------
(***************************************************************************)
(* handle_ingest of src/api/ingest.rs and accept_event of                  *)
(* src/core/idempotency.rs. A request is looked at three times, with an    *)
(* await before each: its own checks, the SELECT of its endpoint together  *)
(* with the signature check that needs the secret, and the IMMEDIATE       *)
(* transaction that deduplicates and inserts.                              *)
(***************************************************************************)
EXTENDS Store

CONSTANTS
  Ingesters,        (* ingest requests that may be in flight together      *)
  Defects           (* what may be wrong with a request; a subset of       *)
                    (* RequestDefects                                      *)

RequestDefects == {"body_too_large", "api_key", "idempotency_key", "signature"}

ASSUME IngestAssumption == Defects \subseteq RequestDefects

VARIABLES
  ipc,              (* ingester -> where the handler is                    *)
  request,          (* ingester -> its current or last request             *)
  answer            (* ingester -> HTTP status and event id of the answer; *)
                    (* code 0 while there is none, event 0 when the body   *)
                    (* carries no id                                       *)

ingestVars == << ipc, request, answer >>

Request ==
  [endpoint : EndpointIds \cup {None}, key : Keys \cup {None},
   defects  : SUBSET Defects]

NoRequest == [endpoint |-> None, key |-> None, defects |-> {}]

Answer ==
  [code : {0, 202, 400, 401, 404, 409, 413, 500}, event : 0..MaxEvents]

NoAnswer == [code |-> 0, event |-> 0]

IngestTypeOK ==
  /\ ipc     \in [Ingesters -> {"idle", "lookup", "accept"}]
  /\ request \in [Ingesters -> Request]
  /\ answer  \in [Ingesters -> Answer]

IngestInit ==
  /\ ipc     = [i \in Ingesters |-> "idle"]
  /\ request = [i \in Ingesters |-> NoRequest]
  /\ answer  = [i \in Ingesters |-> NoAnswer]

Respond(i, code, e) ==
  /\ ipc'    = [ipc EXCEPT ![i] = "idle"]
  /\ answer' = [answer EXCEPT ![i] = [code |-> code, event |-> e]]

(* The checks made before the database is asked, in the code's order.      *)
EarlyRefusal(defects) ==
  IF "body_too_large" \in defects THEN 413
  ELSE IF "api_key" \in defects THEN 401
  ELSE IF "idempotency_key" \in defects THEN 400
  ELSE 0

Receive(i, ep, k, defects) ==
  /\ ipc[i] = "idle"
  /\ request' = [request EXCEPT ![i] =
                   [endpoint |-> ep, key |-> k, defects |-> defects]]
  /\ IF EarlyRefusal(defects) # 0
     THEN Respond(i, EarlyRefusal(defects), 0)
     ELSE /\ ipc'    = [ipc EXCEPT ![i] = "lookup"]
          /\ answer' = [answer EXCEPT ![i] = NoAnswer]
  /\ UNCHANGED storeVars

(* SELECT ... FROM endpoints, then verify_signature with its secret.       *)
LookupEndpoint(i) ==
  /\ ipc[i] = "lookup"
  /\ IF endpoints[request[i].endpoint] # "live"
     THEN Respond(i, 404, 0) /\ UNCHANGED request
     ELSE IF "signature" \in request[i].defects
     THEN Respond(i, 401, 0) /\ UNCHANGED request
     ELSE ipc' = [ipc EXCEPT ![i] = "accept"] /\ UNCHANGED << request, answer >>
  /\ UNCHANGED storeVars

(* accept_event finds the key taken: 409, with the status but no event id. *)
RefuseDuplicate(i) ==
  /\ ipc[i] = "accept"
  /\ Existing(request[i].endpoint, request[i].key) # {}
  /\ Respond(i, 409, 0)
  /\ UNCHANGED << storeVars, request >>

(* Mutant of AcceptEvent: the transaction is dropped without a commit.     *)
AcceptEventUncommitted(i) ==
  /\ ipc[i] = "accept"
  /\ Existing(request[i].endpoint, request[i].key) = {}
  /\ endpoints[request[i].endpoint] = "live"
  /\ lastEvent < MaxEvents
  /\ Respond(i, 202, lastEvent + 1)
  /\ UNCHANGED << storeVars, request >>

(* accept_event inserts. An endpoint deleted since the lookup breaks the   *)
(* foreign key, which the handler reports as a database error.             *)
AcceptEvent(i) ==
  LET ep == request[i].endpoint
      k  == request[i].key
  IN  /\ ipc[i] = "accept"
      /\ Existing(ep, k) = {}
      /\ endpoints[ep] = "live"
      /\ InsertEvent(ep, k)
      /\ Respond(i, 202, lastEvent + 1)
      /\ UNCHANGED request

RefuseOrphan(i) ==
  /\ ipc[i] = "accept"
  /\ Existing(request[i].endpoint, request[i].key) = {}
  /\ endpoints[request[i].endpoint] # "live"
  /\ Respond(i, 500, 0)
  /\ UNCHANGED << storeVars, request >>

IngestFault(i) ==
  /\ ipc[i] # "idle"
  /\ Fault
  /\ Respond(i, 500, 0)
  /\ UNCHANGED << intakeVars, status, attempts, dlq, dlqSeq, sends, request >>

(* The sender hangs up and the handler is dropped at an await. A closure   *)
(* that has started still runs: then the step it makes comes first.        *)
HangUp(i) ==
  /\ ipc[i] # "idle"
  /\ ipc' = [ipc EXCEPT ![i] = "idle"]
  /\ UNCHANGED << storeVars, request, answer >>

(* What the handler does once it has a well-formed request.                *)
IngestStep(i) ==
  \/ LookupEndpoint(i)
  \/ RefuseDuplicate(i)
  \/ AcceptEvent(i)
  \/ RefuseOrphan(i)

IngestNext ==
  \E i \in Ingesters :
    \/ \E ep \in EndpointIds, k \in Keys, d \in SUBSET Defects :
         Receive(i, ep, k, d)
    \/ IngestStep(i)
    \/ IngestFault(i)
    \/ HangUp(i)
=============================================================================
