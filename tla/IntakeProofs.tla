---------------------------- MODULE IntakeProofs ----------------------------
(***************************************************************************)
(* What ingestion promises its senders, proved for every number of         *)
(* requests in flight, endpoints, keys, events, faults and restarts: a key *)
(* is accepted once per endpoint, and answers stay true.                   *)
(***************************************************************************)
EXTENDS RelayProofs

(* What no step ever takes back.                                           *)
IntakeGrows ==
  /\ lastEvent <= lastEvent'
  /\ \A e \in 1..lastEvent : endpointOf'[e] = endpointOf[e] /\ keyOf'[e] = keyOf[e]
  /\ \A ep \in EndpointIds :
       /\ endpoints[ep] = "deleted" => endpoints'[ep] = "deleted"
       /\ endpoints[ep] # "absent"  => endpoints'[ep] # "absent"
  /\ faults <= faults'

LEMMA IntakeTypes ==
  ASSUME StructureOK
  PROVE  /\ lastEvent \in 0..MaxEvents /\ MaxEvents \in Nat
         /\ 1..lastEvent \subseteq EventIds
         /\ endpoints \in [EndpointIds -> {"absent", "live", "deleted"}]
         /\ endpointOf \in [EventIds -> EndpointIds \cup {None}]
         /\ keyOf \in [EventIds -> Keys \cup {None}]
         /\ status \in [EventIds -> EventStatus \cup {"NONE"}]
         /\ faults \in Nat
         /\ ipc \in [Ingesters -> {"idle", "lookup", "accept"}]
         /\ request \in [Ingesters -> Request]
         /\ answer \in [Ingesters -> Answer]
BY StoreAssumption
   DEF StructureOK, TypeOK, StoreTypeOK, IngestTypeOK, EventIds

(* Accepting an event draws a fresh id, and the handler is done.           *)
LEMMA AcceptGrows ==
  ASSUME StructureOK, NEW i \in Ingesters, AcceptEvent(i)
  PROVE  /\ lastEvent + 1 \in EventIds
         /\ lastEvent' = lastEvent + 1
         /\ endpointOf'[lastEvent + 1] = request[i].endpoint
         /\ keyOf'[lastEvent + 1] = request[i].key
         /\ status'[lastEvent + 1] = "RECEIVED"
         /\ \A e \in 1..lastEvent : /\ endpointOf'[e] = endpointOf[e]
                                    /\ keyOf'[e] = keyOf[e]
                                    /\ status'[e] = status[e]
         /\ UNCHANGED << endpoints, faults >>
<1>1. lastEvent + 1 \in EventIds
  BY IntakeTypes DEF AcceptEvent, InsertEvent, EventIds
<1> QED
  BY <1>1, IntakeTypes DEF AcceptEvent, InsertEvent

LEMMA IntakeOnlyGrows ==
  ASSUME StructureOK, Next
  PROVE  IntakeGrows
<1>a. lastEvent <= lastEvent /\ faults <= faults /\ faults <= faults'
  BY IntakeTypes, Monotone, StructureStep
     DEF StructureOK, TypeOK, StoreTypeOK
<1>1. ASSUME UNCHANGED intakeVars
      PROVE  IntakeGrows
  BY <1>a, <1>1 DEF IntakeGrows, intakeVars
<1>2. CASE DispatchNext /\ UNCHANGED << replayVars, ingestVars, crashes >>
  BY <1>1, <1>2, DispatchStructure DEF KeepsRows
<1>3. CASE ReplayNext /\ UNCHANGED << dispatchVars, ingestVars, crashes >>
  BY <1>1, <1>3, ReplayStructure DEF KeepsRows
<1>4. CASE IngestNext /\ UNCHANGED << dispatchVars, replayVars, crashes >>
  <2>1. ASSUME NEW i \in Ingesters, AcceptEvent(i)
        PROVE  IntakeGrows
    BY <1>a, <2>1, AcceptGrows, IntakeTypes DEF IntakeGrows
  <2> QED
    BY <1>1, <1>4, <2>1
       DEF IngestNext, IngestStep, Receive, LookupEndpoint, RefuseDuplicate,
           RefuseOrphan, IngestFault, HangUp, storeVars
<1>5. CASE EndpointsNext /\ UNCHANGED << dispatchVars, replayVars, ingestVars, crashes >>
  BY <1>a, <1>5, IntakeTypes
     DEF EndpointsNext, CreateEndpoint, DeleteEndpoint, Cascade, IntakeGrows
<1>6. CASE Restart
  BY <1>1, <1>6 DEF Restart, storeVars
<1> QED
  BY <1>2, <1>3, <1>4, <1>5, <1>6 DEF Next, Crash, Shutdown

-----------------------------------------------------------------------------
(* A row that disappears takes its endpoint with it.                       *)
LEMMA AcceptedStep ==
  ASSUME StructureOK, AcceptedOK, Next
  PROVE  AcceptedOK'
<1>g. IntakeGrows
  BY IntakeOnlyGrows
<1>1. ASSUME UNCHANGED lastEvent,
             \A e \in EventIds :
               status'[e] = "NONE" =>
                 \/ status[e] = "NONE"
                 \/ endpointOf[e] \in EndpointIds => endpoints'[endpointOf[e]] = "deleted"
      PROVE  AcceptedOK'
  BY <1>g, <1>1, IntakeTypes DEF AcceptedOK, IntakeGrows
<1>2. CASE DispatchNext /\ UNCHANGED << replayVars, ingestVars, crashes >>
  BY <1>1, <1>2, DispatchStructure DEF KeepsRows, intakeVars
<1>3. CASE ReplayNext /\ UNCHANGED << dispatchVars, ingestVars, crashes >>
  BY <1>1, <1>3, ReplayStructure DEF KeepsRows, intakeVars
<1>4. CASE IngestNext /\ UNCHANGED << dispatchVars, replayVars, crashes >>
  <2>1. ASSUME NEW i \in Ingesters, AcceptEvent(i)
        PROVE  AcceptedOK'
    <3>1. request[i].endpoint \in EndpointIds /\ request[i].key \in Keys
      BY <2>1 DEF StructureOK, IngestersOK, AcceptEvent, InsertEvent
    <3> QED
      BY <2>1, <3>1, AcceptGrows, IntakeTypes DEF AcceptedOK
  <2> QED
    BY <1>1, <1>4, <2>1
       DEF IngestNext, IngestStep, Receive, LookupEndpoint, RefuseDuplicate,
           RefuseOrphan, IngestFault, HangUp, storeVars, intakeVars
<1>5. CASE EndpointsNext /\ UNCHANGED << dispatchVars, replayVars, ingestVars, crashes >>
  <2>1. ASSUME NEW ep \in EndpointIds, DeleteEndpoint(ep)
        PROVE  AcceptedOK'
    BY <1>1, <2>1, IntakeTypes DEF DeleteEndpoint, Cascade
  <2>2. ASSUME NEW ep \in EndpointIds, CreateEndpoint(ep)
        PROVE  AcceptedOK'
    BY <1>1, <2>2 DEF CreateEndpoint
  <2> QED
    BY <1>5, <2>1, <2>2 DEF EndpointsNext
<1>6. CASE Restart
  BY <1>1, <1>6 DEF Restart, storeVars, intakeVars
<1> QED
  BY <1>2, <1>3, <1>4, <1>5, <1>6 DEF Next, Crash, Shutdown

(* The handler that goes on to accept has just seen a live endpoint.       *)
LEMMA AdmittedStep ==
  ASSUME StructureOK, AdmittedOK, Next
  PROVE  AdmittedOK'
<1>g. IntakeGrows
  BY IntakeOnlyGrows
<1>1. ASSUME NEW i \in Ingesters, ipc'[i] = "accept", ipc[i] = "accept",
             request'[i] = request[i]
      PROVE  endpoints'[request'[i].endpoint] # "absent"
  BY <1>g, <1>1 DEF StructureOK, IngestersOK, AdmittedOK, IntakeGrows
<1>2. CASE UNCHANGED << ipc, request >>
  BY <1>1, <1>2 DEF AdmittedOK
<1>3. CASE IngestNext
  <2>1. ASSUME NEW i \in Ingesters, NEW ep \in EndpointIds, NEW k \in Keys,
               NEW d \in SUBSET Defects, Receive(i, ep, k, d)
        PROVE  AdmittedOK'
    <3>1. \A j \in Ingesters : j # i => ipc'[j] = ipc[j] /\ request'[j] = request[j]
      BY <2>1, IntakeTypes DEF Receive, Respond
    <3>2. ipc'[i] # "accept"
      BY <2>1, IntakeTypes DEF Receive, Respond
    <3> QED
      BY <1>1, <3>1, <3>2 DEF AdmittedOK
  <2>2. ASSUME NEW i \in Ingesters, LookupEndpoint(i)
        PROVE  AdmittedOK'
    <3>1. request' = request /\ endpoints' = endpoints
      BY <2>2 DEF LookupEndpoint, storeVars, intakeVars
    <3>2. \A j \in Ingesters : j # i => ipc'[j] = ipc[j]
      BY <2>2, IntakeTypes DEF LookupEndpoint, Respond
    <3>3. ipc'[i] = "accept" => endpoints[request[i].endpoint] = "live"
      BY <2>2, IntakeTypes DEF LookupEndpoint, Respond
    <3> QED
      BY <1>1, <3>1, <3>2, <3>3 DEF AdmittedOK
  <2>3. ASSUME NEW i \in Ingesters, request' = request,
               ipc' = [ipc EXCEPT ![i] = "idle"]
        PROVE  AdmittedOK'
    BY <1>1, <2>3, IntakeTypes DEF AdmittedOK
  <2> QED
    BY <1>3, <2>1, <2>2, <2>3
       DEF IngestNext, IngestStep, RefuseDuplicate, AcceptEvent, InsertEvent, RefuseOrphan,
           IngestFault, HangUp, Respond
<1>4. CASE Restart
  BY <1>4, IntakeTypes DEF Restart, AdmittedOK
<1> QED
  BY <1>2, <1>3, <1>4
     DEF Next, Crash, Shutdown, ingestVars

(* The row of an accepted event guards its key for as long as its endpoint *)
(* can be named.                                                           *)
LEMMA OnceStep ==
  ASSUME StructureOK, AcceptedOK, AcceptedOnce, Next
  PROVE  AcceptedOnce'
<1>g. IntakeGrows
  BY IntakeOnlyGrows
<1>1. CASE UNCHANGED lastEvent
  BY <1>g, <1>1 DEF AcceptedOnce, IntakeGrows
<1>2. ASSUME NEW i \in Ingesters, AcceptEvent(i)
      PROVE  AcceptedOnce'
  <2>1. ASSUME NEW e \in 1..lastEvent, endpointOf[e] = request[i].endpoint,
               keyOf[e] = request[i].key
        PROVE  FALSE
    <3>1. status[e] # "NONE"
      BY <1>2, <2>1 DEF AcceptEvent, InsertEvent, AcceptedOK
    <3> QED
      BY <1>2, <2>1, <3>1, IntakeTypes DEF AcceptEvent, InsertEvent, Existing
  <2> QED
    BY <1>2, <2>1, AcceptGrows, IntakeTypes DEF AcceptedOnce
<1>3. UNCHANGED lastEvent \/ \E i \in Ingesters : AcceptEvent(i)
  <2>1. CASE DispatchNext /\ UNCHANGED << replayVars, ingestVars, crashes >>
    BY <2>1, DispatchStructure DEF KeepsRows, intakeVars
  <2>2. CASE ReplayNext /\ UNCHANGED << dispatchVars, ingestVars, crashes >>
    BY <2>2, ReplayStructure DEF KeepsRows, intakeVars
  <2>3. CASE IngestNext
    BY <2>3
       DEF IngestNext, IngestStep, Receive, LookupEndpoint, RefuseDuplicate,
           RefuseOrphan, IngestFault, HangUp, storeVars, intakeVars
  <2>4. CASE EndpointsNext
    BY <2>4 DEF EndpointsNext, CreateEndpoint, DeleteEndpoint, Cascade
  <2>5. CASE Restart
    BY <2>5 DEF Restart, storeVars, intakeVars
  <2> QED
    BY <2>1, <2>2, <2>3, <2>4, <2>5 DEF Next, Crash, Shutdown
<1> QED
  BY <1>1, <1>2, <1>3

-----------------------------------------------------------------------------
(* What an answer says about the request it answers.                       *)
Honest(i) ==
  LET ep == request[i].endpoint
      e  == answer[i].event
  IN  /\ answer[i].code = 202 =>
           /\ e \in 1..lastEvent
           /\ endpointOf[e] = ep /\ keyOf[e] = request[i].key
           /\ status[e] # "NONE" \/ endpoints[ep] = "deleted"
      /\ answer[i].code = 409 =>
           \E f \in 1..lastEvent :
             endpointOf[f] = ep /\ keyOf[f] = request[i].key
      /\ answer[i].code = 500 => faults > 0 \/ endpoints[ep] = "deleted"

LEMMA HonestAll == AnswerIsHonest <=> \A i \in Ingesters : Honest(i)
BY DEF AnswerIsHonest, Honest

(* An answer that was true stays true.                                     *)
LEMMA HonestStays ==
  ASSUME StructureOK, StructureOK', AcceptedOK', AnsweredOK, IntakeGrows,
         NEW i \in Ingesters, Honest(i),
         answer'[i] = answer[i], request'[i] = request[i]
  PROVE  Honest(i)'
<1>t. /\ faults \in Nat /\ lastEvent \in Nat
      /\ faults' \in Nat /\ lastEvent' \in Nat
  BY IntakeTypes DEF StructureOK, TypeOK, StoreTypeOK
<1>1. \A e \in 1..lastEvent : e \in 1..lastEvent'
  BY <1>t DEF IntakeGrows
<1>2. faults > 0 => faults' > 0
  BY <1>t DEF IntakeGrows
<1>3. ASSUME answer[i].code = 202
      PROVE  LET e == answer[i].event
             IN  /\ e \in 1..lastEvent'
                 /\ endpointOf'[e] = request[i].endpoint
                 /\ keyOf'[e] = request[i].key
                 /\ status'[e] # "NONE" \/ endpoints'[request[i].endpoint] = "deleted"
  BY <1>1, <1>3 DEF Honest, IntakeGrows, AcceptedOK
<1>4. ASSUME answer[i].code = 409
      PROVE  \E f \in 1..lastEvent' :
               endpointOf'[f] = request[i].endpoint /\ keyOf'[f] = request[i].key
  BY <1>1, <1>4 DEF Honest, IntakeGrows
<1>5. ASSUME answer[i].code = 500
      PROVE  faults' > 0 \/ endpoints'[request[i].endpoint] = "deleted"
  BY <1>2, <1>5 DEF Honest, IntakeGrows, AnsweredOK
<1> QED
  BY <1>3, <1>4, <1>5 DEF Honest

(* Each refusal and the acceptance are true when they are given.           *)
LEMMA HonestAnswers ==
  ASSUME IntakeInv, StructureOK', NEW i \in Ingesters,
         IngestStep(i) \/ IngestFault(i)
  PROVE  Honest(i)' \/ UNCHANGED << answer, request >>
<1>t. /\ answer \in [Ingesters -> Answer]
      /\ StructureOK /\ AdmittedOK
      /\ lastEvent \in 0..MaxEvents /\ 1..lastEvent \subseteq EventIds
      /\ faults \in Nat
  BY IntakeTypes DEF IntakeInv
<1>1. CASE LookupEndpoint(i)
  BY <1>1, <1>t DEF LookupEndpoint, Respond, Honest
<1>2. CASE RefuseDuplicate(i)
  <2>1. PICK f \in EventIds : /\ status[f] # "NONE"
                              /\ endpointOf[f] = request[i].endpoint
                              /\ keyOf[f] = request[i].key
    BY <1>2 DEF RefuseDuplicate, Existing
  <2>2. f \in 1..lastEvent
    BY <1>t, <2>1 DEF StructureOK, RowsOK, EventIds
  <2>3. UNCHANGED << request, lastEvent, endpointOf, keyOf >>
    BY <1>2 DEF RefuseDuplicate, storeVars, intakeVars
  <2>4. answer'[i] = [code |-> 409, event |-> 0]
    BY <1>2, <1>t DEF RefuseDuplicate, Respond
  <2> QED
    BY <2>1, <2>2, <2>3, <2>4 DEF Honest
<1>3. CASE AcceptEvent(i)
  <2>1. answer'[i] = [code |-> 202, event |-> lastEvent + 1] /\ request' = request
    BY <1>3, <1>t DEF AcceptEvent, InsertEvent, Respond
  <2>2. lastEvent + 1 \in 1..lastEvent'
    BY <1>3, <1>t, AcceptGrows
  <2> QED
    BY <1>3, <1>t, <2>1, <2>2, AcceptGrows DEF Honest
<1>4. CASE RefuseOrphan(i)
  <2>1. request[i].endpoint \in EndpointIds
    BY <1>4, <1>t DEF RefuseOrphan, StructureOK, IngestersOK
  <2>2. endpoints[request[i].endpoint] = "deleted"
    BY <1>4, <1>t, <2>1, IntakeTypes DEF RefuseOrphan, AdmittedOK
  <2>3. /\ answer'[i] = [code |-> 500, event |-> 0]
        /\ UNCHANGED << request, endpoints >>
    BY <1>4, <1>t DEF RefuseOrphan, Respond, storeVars, intakeVars
  <2> QED
    BY <2>2, <2>3 DEF Honest
<1>5. CASE IngestFault(i)
  <2>1. answer'[i] = [code |-> 500, event |-> 0] /\ faults' > 0
    BY <1>5, <1>t DEF IngestFault, Respond, Fault
  <2> QED
    BY <2>1 DEF Honest
<1> QED
  BY <1>1, <1>2, <1>3, <1>4, <1>5 DEF IngestStep

LEMMA AnsweredStep ==
  ASSUME StructureOK, AnsweredOK, Next
  PROVE  AnsweredOK'
<1>1. CASE UNCHANGED << answer, request >>
  BY <1>1 DEF AnsweredOK
<1>2. ASSUME NEW i \in Ingesters, NEW ep \in EndpointIds, NEW k \in Keys,
             NEW d \in SUBSET Defects, Receive(i, ep, k, d)
      PROVE  AnsweredOK'
  <2>1. request'[i].endpoint = ep
    BY <1>2, IntakeTypes DEF Receive
  <2>2. \A j \in Ingesters : j # i => answer'[j] = answer[j] /\ request'[j] = request[j]
    BY <1>2, IntakeTypes DEF Receive, Respond
  <2> QED
    BY <2>1, <2>2 DEF AnsweredOK
<1>3. ASSUME NEW i \in Ingesters, IngestStep(i) \/ IngestFault(i)
      PROVE  AnsweredOK'
  <2>1. request[i].endpoint \in EndpointIds
    BY <1>3
       DEF IngestStep, LookupEndpoint, RefuseDuplicate, AcceptEvent, InsertEvent,
           RefuseOrphan, IngestFault, StructureOK, IngestersOK
  <2>2. request' = request
    BY <1>3
       DEF IngestStep, LookupEndpoint, RefuseDuplicate, AcceptEvent, InsertEvent,
           RefuseOrphan, IngestFault, Respond
  <2>3. \A j \in Ingesters : j # i => answer'[j] = answer[j]
    BY <1>3, IntakeTypes
       DEF IngestStep, LookupEndpoint, RefuseDuplicate, AcceptEvent, InsertEvent,
           RefuseOrphan, IngestFault, Respond
  <2> QED
    BY <2>1, <2>2, <2>3 DEF AnsweredOK
<1> QED
  BY <1>1, <1>2, <1>3
     DEF Next, IngestNext, HangUp, Restart, Crash, Shutdown, ingestVars

LEMMA HonestStep ==
  ASSUME IntakeInv, Next
  PROVE  AnswerIsHonest'
<1>a. StructureOK /\ AcceptedOK /\ AnsweredOK /\ \A i \in Ingesters : Honest(i)
  BY HonestAll DEF IntakeInv
<1>b. StructureOK' /\ AcceptedOK' /\ IntakeGrows
  BY <1>a, StructureStep, AcceptedStep, IntakeOnlyGrows
<1>c. ASSUME NEW i \in Ingesters, answer'[i] = answer[i], request'[i] = request[i]
      PROVE  Honest(i)'
  BY <1>a, <1>b, <1>c, HonestStays
<1>1. CASE UNCHANGED << answer, request >>
  BY <1>1, <1>c, HonestAll DEF AnswerIsHonest, Honest
<1>2. ASSUME NEW i \in Ingesters, Honest(i)',
             \A j \in Ingesters : j # i => answer'[j] = answer[j] /\ request'[j] = request[j]
      PROVE  AnswerIsHonest'
  <2>1. ASSUME NEW j \in Ingesters
        PROVE  Honest(j)'
    BY <1>2, <1>c
  <2> QED
    BY <2>1 DEF AnswerIsHonest, Honest
<1>3. ASSUME NEW i \in Ingesters, NEW ep \in EndpointIds, NEW k \in Keys,
             NEW d \in SUBSET Defects, Receive(i, ep, k, d)
      PROVE  AnswerIsHonest'
  <2>1. answer'[i].code \notin {202, 409, 500}
    BY <1>a, <1>3, IntakeTypes DEF Receive, Respond, EarlyRefusal, NoAnswer
  <2>2. \A j \in Ingesters : j # i => answer'[j] = answer[j] /\ request'[j] = request[j]
    BY <1>a, <1>3, IntakeTypes DEF Receive, Respond
  <2>3. Honest(i)'
    BY <2>1 DEF Honest
  <2> QED
    BY <1>2, <2>2, <2>3
<1>4. ASSUME NEW i \in Ingesters, IngestStep(i) \/ IngestFault(i)
      PROVE  AnswerIsHonest'
  <2>1. Honest(i)' \/ UNCHANGED << answer, request >>
    BY <1>4, <1>b, HonestAnswers
  <2>2. request' = request
    BY <1>4
       DEF IngestStep, LookupEndpoint, RefuseDuplicate, AcceptEvent, InsertEvent,
           RefuseOrphan, IngestFault, Respond
  <2>3. \A j \in Ingesters : j # i => answer'[j] = answer[j]
    BY <1>a, <1>4, IntakeTypes
       DEF IngestStep, LookupEndpoint, RefuseDuplicate, AcceptEvent, InsertEvent,
           RefuseOrphan, IngestFault, Respond
  <2> QED
    BY <1>1, <1>2, <2>1, <2>2, <2>3
<1> QED
  BY <1>1, <1>3, <1>4
     DEF Next, IngestNext, HangUp, Restart, Crash, Shutdown, ingestVars

-----------------------------------------------------------------------------

LEMMA IntakeInvInit == Init => IntakeInv
<1>1. Init => lastEvent = 0 /\ \A i \in Ingesters : answer[i] = NoAnswer /\ ipc[i] = "idle"
  BY DEF Init, StoreInit, IngestInit
<1>2. 1..0 = {}
  OBVIOUS
<1> QED
  BY <1>1, <1>2, StructureInit
     DEF IntakeInv, AcceptedOK, AdmittedOK, AnsweredOK, AcceptedOnce,
         AnswerIsHonest, NoAnswer

LEMMA IntakeInvStep ==
  ASSUME IntakeInv, [Next]_vars
  PROVE  IntakeInv'
<1>1. CASE Next
  BY <1>1, StructureStep, AcceptedStep, AdmittedStep, AnsweredStep, OnceStep,
     HonestStep
     DEF IntakeInv
<1>2. CASE UNCHANGED vars
  <2>1. StructureOK'
    BY <1>2, StructureStep DEF IntakeInv
  <2>2. UNCHANGED << intakeVars, status, faults, ipc, request, answer >>
    BY <1>2 DEF vars, storeVars, ingestVars
  <2> QED
    BY <2>1, <2>2
       DEF IntakeInv, AcceptedOK, AdmittedOK, AnsweredOK, AcceptedOnce,
           AnswerIsHonest, intakeVars
<1> QED
  BY <1>1, <1>2

LEMMA IntakeInvariance == Spec => []IntakeInv
BY IntakeInvInit, IntakeInvStep, PTL DEF Spec

(* Deduplication: however many requests race, whatever fails and whenever  *)
(* the process is restarted, an endpoint accepts a key once                *)
(* (idempotency.rs:17).                                                    *)
THEOREM KeysAcceptedOnce == Spec => []AcceptedOnce
<1>1. IntakeInv => AcceptedOnce
  BY DEF IntakeInv
<1> QED
  BY <1>1, IntakeInvariance, PTL

(* Answers stay true: 202 means stored until the endpoint is deleted,      *)
(* also across restarts; 409 and 500 have their cause (ingest.rs:130).     *)
THEOREM AnswersAreHonest == Spec => []AnswerIsHonest
<1>1. IntakeInv => AnswerIsHonest
  BY DEF IntakeInv
<1> QED
  BY <1>1, IntakeInvariance, PTL
=============================================================================
