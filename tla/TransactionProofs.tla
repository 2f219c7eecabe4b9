-------------------------- MODULE TransactionProofs --------------------------
(***************************************************************************)
(* The closures' transactions are atomic and leak nothing, for any number  *)
(* of callers, connections, calls, endpoints and events.                   *)
(***************************************************************************)
EXTENDS Transactions, FiniteSetTheorems, TLAPS

-----------------------------------------------------------------------------
(* The invariant: what a transaction has read is still true as long as it  *)
(* may commit, because it holds the write lock, or can tell that somebody  *)
(* else has committed.                                                     *)

InTransaction == {"read", "write", "commit"}

CallerOK(c) ==
  /\ at[c] \in {"idle", "pool", "begin", "read"} => found[c] = 0
  /\ call[c].op \in {"claim", "accept"} /\ at[c] \in InTransaction => writer = c
  /\ Does(c, "delete", "commit") => writer = c
  /\ call[c].op = "claim" /\ at[c] \in {"write", "commit"} /\ found[c] # 0 =>
       IsOldestReceived(found[c])
  /\ call[c].op = "accept" /\ at[c] \in {"write", "commit"} =>
       Existing(call[c].endpoint, call[c].key) = {}
  /\ Does(c, "accept", "commit") => endpoints[call[c].endpoint] = "live"
  /\ Does(c, "delete", "write") =>
       /\ snapshot[c] <= version
       /\ snapshot[c] = version => Pending(call[c].endpoint) = {}
  /\ Does(c, "delete", "commit") => Pending(call[c].endpoint) = {}

TxInv ==
  /\ StoreTypeOK
  /\ TxTypeOK
  /\ NothingLeaks
  /\ \A c \in Callers : CallerOK(c)

-----------------------------------------------------------------------------
(* Types of the calls.                                                     *)

LEMMA CallTypes ==
  ASSUME NEW x \in Calls \cup {NoCall}
  PROVE  /\ x.op \in {"none", "claim", "accept", "delete", "update"}
         /\ x.op = "accept" => x.endpoint \in EndpointIds /\ x.key \in Keys
         /\ x.op = "delete" => x.endpoint \in EndpointIds
         /\ x.op = "update" => x.event \in EventIds /\ x.to \in {"RECEIVED", "DELIVERED", "FAILED"}
BY DEF Calls, Call, NoCall

LEMMA StoreTypes ==
  ASSUME StoreTypeOK, TxTypeOK, NEW c \in Callers
  PROVE  /\ UNCHANGED storeVars => StoreTypeOK'
         /\ \A e \in EventIds, s \in EventStatus : SetsStatus(e, s) => StoreTypeOK'
         /\ \A ep \in EndpointIds : CreateEndpoint(ep) => StoreTypeOK'
         /\ \A ep \in EndpointIds : Cascade(ep) => StoreTypeOK'
         /\ \A ep \in EndpointIds, k \in Keys : InsertEvent(ep, k) => StoreTypeOK'
<1>1. UNCHANGED storeVars => StoreTypeOK'
  BY DEF storeVars, intakeVars, StoreTypeOK
<1>2. ASSUME NEW e \in EventIds, NEW s \in EventStatus, SetsStatus(e, s)
      PROVE  StoreTypeOK'
  BY <1>2 DEF SetsStatus, SetStatus, StoreTypeOK, intakeVars
<1>3. ASSUME NEW ep \in EndpointIds, CreateEndpoint(ep)
      PROVE  StoreTypeOK'
  BY <1>3 DEF CreateEndpoint, StoreTypeOK
<1>4. ASSUME NEW ep \in EndpointIds, Cascade(ep)
      PROVE  StoreTypeOK'
  BY <1>4 DEF Cascade, StoreTypeOK
<1>5. ASSUME NEW ep \in EndpointIds, NEW k \in Keys, InsertEvent(ep, k)
      PROVE  StoreTypeOK'
  BY <1>5, StoreAssumption DEF InsertEvent, StoreTypeOK, EventIds, EventStatus
<1> QED
  BY <1>1, <1>2, <1>3, <1>4, <1>5

-----------------------------------------------------------------------------
(* Connections and the write lock.                                         *)

Busy == {c \in Callers : at[c] \notin {"idle", "pool"}}

LEMMA BusyFinite == IsFiniteSet(Busy) /\ Cardinality(Busy) \in Nat
BY TransactionsAssumption, FS_Subset, FS_CardinalityType DEF Busy

(* A caller that moves within its use of a connection.                     *)
LEMMA LeaksStay ==
  ASSUME TxTypeOK, NothingLeaks, NEW c \in Callers, NEW l,
         at' = [at EXCEPT ![c] = l], available' = available,
         (at[c] \in {"idle", "pool"}) <=> (l \in {"idle", "pool"}),
         \/ writer' = writer /\ (writer = c => l \in InTransaction)
         \/ writer' = c /\ l \in InTransaction
  PROVE  NothingLeaks'
<1>1. Busy' = Busy
  BY DEF Busy, TxTypeOK
<1>2. writer' # None => at'[writer'] \in InTransaction
  BY DEF NothingLeaks, TxTypeOK, InTransaction
<1> QED
  BY <1>1, <1>2 DEF NothingLeaks, Busy, InTransaction

LEMMA LeaksEnter ==
  ASSUME TxTypeOK, NothingLeaks, NEW c \in Callers, GetConnection(c)
  PROVE  NothingLeaks' /\ available' \in 0..PoolSize
<1>1. Busy' = Busy \cup {c} /\ c \notin Busy
  BY DEF Busy, GetConnection, TxTypeOK
<1>2. Cardinality(Busy') = Cardinality(Busy) + 1
  BY <1>1, BusyFinite, FS_AddElement
<1>3. available = PoolSize - Cardinality(Busy)
  BY DEF NothingLeaks, Busy
<1>4. available' = PoolSize - Cardinality(Busy')
  BY <1>2, <1>3, BusyFinite, TransactionsAssumption DEF GetConnection
<1>5. writer' # None => at'[writer'] \in InTransaction
  <2>1. writer' = writer /\ at[c] = "pool" /\ at' = [at EXCEPT ![c] = at'[c]]
    BY DEF GetConnection, TxTypeOK
  <2>2. writer # None => at[writer] \in InTransaction
    BY DEF NothingLeaks, InTransaction
  <2> QED
    BY <2>1, <2>2 DEF TxTypeOK, InTransaction
<1>6. available' \in 0..PoolSize
  BY TransactionsAssumption DEF GetConnection, TxTypeOK
<1> QED
  BY <1>4, <1>5, <1>6 DEF NothingLeaks, Busy, InTransaction

LEMMA LeaksLeave ==
  ASSUME TxTypeOK, NothingLeaks, NEW c \in Callers, c \in Busy, Release(c)
  PROVE  NothingLeaks' /\ available' \in 0..PoolSize
<1>1. at' = [at EXCEPT ![c] = "idle"]
  BY DEF Release, Forget
<1>2. Busy' = Busy \ {c}
  BY <1>1 DEF Busy, TxTypeOK
<1>3. Cardinality(Busy') = Cardinality(Busy) - 1
  BY <1>2, BusyFinite, FS_RemoveElement
<1>4. available = PoolSize - Cardinality(Busy)
  BY DEF NothingLeaks, Busy
<1>5. Cardinality(Busy') \in Nat
  <2>1. IsFiniteSet(Busy')
    BY <1>2, BusyFinite, FS_Subset
  <2> QED
    BY <2>1, FS_CardinalityType
<1>6. /\ available' = PoolSize - Cardinality(Busy')
      /\ available' \in 0..PoolSize
  BY <1>3, <1>4, <1>5, BusyFinite, TransactionsAssumption DEF Release, TxTypeOK
<1>7. writer' # None => at'[writer'] \in InTransaction
  BY <1>1 DEF Release, NothingLeaks, InTransaction, TxTypeOK
<1> QED
  BY <1>6, <1>7 DEF NothingLeaks, Busy, InTransaction

-----------------------------------------------------------------------------
(* What a caller has read, while another one moves: nothing is committed   *)
(* and the lock stays where it is, or somebody else held it.               *)

LEMMA OthersOK ==
  ASSUME TxTypeOK, NEW d \in Callers, CallerOK(d),
         at'[d] = at[d], call'[d] = call[d], found'[d] = found[d],
         snapshot'[d] = snapshot[d],
         \/ UNCHANGED << storeVars, version >> /\ (writer = d => writer' = d)
         \/ version' = version + 1 /\ writer # d
  PROVE  CallerOK(d)'
<1>1. CASE UNCHANGED << storeVars, version >> /\ (writer = d => writer' = d)
  BY <1>1 DEF CallerOK, Does, IsOldestReceived, Existing, Pending, storeVars, intakeVars
<1>2. CASE version' = version + 1 /\ writer # d
  <2>1. /\ ~(call[d].op \in {"claim", "accept"} /\ at[d] \in InTransaction)
        /\ ~Does(d, "delete", "commit")
    BY <1>2 DEF CallerOK
  <2>2. Does(d, "delete", "write") => snapshot[d] < version'
    BY <1>2 DEF CallerOK, TxTypeOK
  <2> QED
    BY <2>1, <2>2 DEF CallerOK, Does, InTransaction, TxTypeOK
<1> QED
  BY <1>1, <1>2

(* A caller that is done has nothing left to be wrong about.               *)
LEMMA ForgottenOK ==
  ASSUME TxTypeOK, NEW c \in Callers, Forget(c)
  PROVE  /\ CallerOK(c)'
         /\ \A d \in Callers \ {c} :
              /\ at'[d] = at[d] /\ call'[d] = call[d] /\ found'[d] = found[d]
              /\ snapshot'[d] = snapshot[d]
         /\ at' \in [Callers -> {"idle", "pool", "begin", "read", "write", "commit"}]
         /\ call' \in [Callers -> Calls \cup {NoCall}]
         /\ found' \in [Callers -> 0..MaxEvents]
         /\ snapshot' \in [Callers -> Nat]
         /\ calls' = calls
<1>1. at'[c] = "idle" /\ found'[c] = 0
  BY DEF Forget, TxTypeOK
<1>2. CallerOK(c)'
  BY <1>1 DEF CallerOK, Does, InTransaction
<1> QED
  BY <1>2, StoreAssumption DEF Forget, TxTypeOK

LEMMA AbortStep ==
  ASSUME TxInv, NEW c \in Callers, c \in Busy, Abort(c)
  PROVE  TxInv'
<1>1. Forget(c) /\ Release(c) /\ UNCHANGED << storeVars, version >>
  BY DEF Abort, Release
<1>2. NothingLeaks' /\ available' \in 0..PoolSize
  BY <1>1, LeaksLeave DEF TxInv
<1>3. StoreTypeOK'
  BY <1>1, StoreTypes DEF TxInv
<1>4. writer' \in Callers \cup {None} /\ (\A d \in Callers \ {c} : writer = d => writer' = d)
  BY <1>1 DEF Release, TxInv, TxTypeOK
<1>5. TxTypeOK'
  BY <1>1, <1>2, <1>4, ForgottenOK DEF TxInv, TxTypeOK
<1>6. \A d \in Callers : CallerOK(d)'
  BY <1>1, <1>4, ForgottenOK, OthersOK DEF TxInv
<1> QED
  BY <1>2, <1>3, <1>5, <1>6 DEF TxInv

(* A commit by the holder of the lock, or while nobody holds it.           *)
LEMMA CommitStep ==
  ASSUME TxInv, NEW c \in Callers, c \in Busy, Commits(c), StoreTypeOK',
         writer \in {c, None}
  PROVE  TxInv'
<1>1. Forget(c) /\ Release(c) /\ version' = version + 1
  BY DEF Commits, Release
<1>2. NothingLeaks' /\ available' \in 0..PoolSize
  BY <1>1, LeaksLeave DEF TxInv
<1>3. TxTypeOK'
  BY <1>1, <1>2, ForgottenOK DEF TxInv, TxTypeOK, Release
<1>4. \A d \in Callers \ {c} : writer # d
  BY TransactionsAssumption
<1>5. \A d \in Callers : CallerOK(d)'
  BY <1>1, <1>4, ForgottenOK, OthersOK DEF TxInv
<1> QED
  BY <1>2, <1>3, <1>5 DEF TxInv

-----------------------------------------------------------------------------
(* The actions of a caller that keeps its connection.                      *)

LEMMA MoveStep ==
  ASSUME TxInv, NEW c \in Callers, NEW l \in {"begin", "read", "write", "commit"},
         c \in Busy, Step(c, l), UNCHANGED storeVars,
         \/ writer' = writer /\ (writer = c => l \in InTransaction)
         \/ writer = None /\ writer' = c /\ l \in InTransaction,
         found' \in [Callers -> 0..MaxEvents], snapshot' \in [Callers -> Nat],
         \A d \in Callers \ {c} : found'[d] = found[d] /\ snapshot'[d] = snapshot[d],
         CallerOK(c)'
  PROVE  TxInv'
<1>1. at' = [at EXCEPT ![c] = l] /\ UNCHANGED << call, calls, version, available >>
  BY DEF Step
<1>2. NothingLeaks'
  BY <1>1, LeaksStay DEF TxInv, Busy
<1>3. StoreTypeOK'
  BY StoreTypes DEF TxInv
<1>4. TxTypeOK'
  BY <1>1 DEF TxInv, TxTypeOK
<1>5. \A d \in Callers \ {c} : CallerOK(d)'
  <2> TAKE d \in Callers \ {c}
  <2>1. writer = d => writer' = d
    BY TransactionsAssumption
  <2>2. at'[d] = at[d] /\ call'[d] = call[d]
    BY <1>1 DEF TxInv, TxTypeOK
  <2> QED
    BY <1>1, <2>1, <2>2, OthersOK DEF TxInv
<1> QED
  BY <1>2, <1>3, <1>4, <1>5 DEF TxInv

(* Each statement leaves its transaction with what the next one needs.     *)
LEMMA StatementStep ==
  ASSUME TxInv, NEW c \in Callers,
         \/ BeginImmediate(c) \/ BeginDeferred(c) \/ SelectOldest(c) \/ UpdateClaimed(c)
         \/ SelectKey(c) \/ InsertRow(c) \/ CountPending(c) \/ DeleteRow(c)
  PROVE  TxInv'
<1> USE DEF Does, InTransaction, Busy
<1>t. /\ TxTypeOK /\ CallerOK(c)
      /\ writer # None => at[writer] \in InTransaction
  BY DEF TxInv, NothingLeaks
<1>1. CASE BeginImmediate(c)
  <2>1. CallerOK(c)'
    BY <1>1, <1>t DEF BeginImmediate, Step, CallerOK, TxTypeOK
  <2> QED
    BY <1>1, <1>t, <2>1, MoveStep DEF BeginImmediate, TxTypeOK
<1>2. CASE BeginDeferred(c)
  <2>1. CallerOK(c)'
    BY <1>2, <1>t DEF BeginDeferred, Step, CallerOK, TxTypeOK
  <2> QED
    BY <1>2, <1>t, <2>1, MoveStep DEF BeginDeferred, TxTypeOK
<1>3. CASE SelectOldest(c)
  <2>1. PICK l \in {"write", "commit"} : Step(c, l)
    BY <1>3 DEF SelectOldest
  <2>2. /\ found' \in [Callers -> 0..MaxEvents]
        /\ \A d \in Callers \ {c} : found'[d] = found[d]
        /\ found'[c] # 0 => IsOldestReceived(found'[c])
    BY <1>3, <1>t, StoreAssumption DEF SelectOldest, TxTypeOK, CallerOK, EventIds
  <2>3. UNCHANGED << storeVars, snapshot, writer >> /\ Does(c, "claim", "read")
    BY <1>3 DEF SelectOldest
  <2>4. CallerOK(c)'
    BY <1>t, <2>1, <2>2, <2>3
       DEF Step, CallerOK, TxTypeOK, IsOldestReceived, storeVars
  <2> QED
    BY <1>t, <2>1, <2>2, <2>3, <2>4, MoveStep DEF TxTypeOK
<1>4. CASE UpdateClaimed(c)
  <2>1. CallerOK(c)'
    BY <1>4, <1>t
       DEF UpdateClaimed, Step, CallerOK, TxTypeOK, IsOldestReceived, storeVars
  <2> QED
    BY <1>4, <1>t, <2>1, MoveStep DEF UpdateClaimed, TxTypeOK
<1>5. CASE SelectKey(c)
  <2>1. CASE Abort(c)
    BY <1>5, <2>1, AbortStep DEF SelectKey
  <2>2. CASE /\ Existing(call[c].endpoint, call[c].key) = {}
             /\ Step(c, "write")
             /\ UNCHANGED << storeVars, found, snapshot, writer >>
    <3>1. CallerOK(c)'
      BY <1>5, <1>t, <2>2
         DEF SelectKey, Step, CallerOK, TxTypeOK, Existing, storeVars, intakeVars
    <3> QED
      BY <1>5, <1>t, <2>2, <3>1, MoveStep DEF SelectKey, TxTypeOK
  <2> QED
    BY <1>5, <2>1, <2>2 DEF SelectKey
<1>6. CASE InsertRow(c)
  <2>1. CASE Abort(c)
    BY <1>6, <2>1, AbortStep DEF InsertRow
  <2>2. CASE /\ endpoints[call[c].endpoint] = "live"
             /\ Step(c, "commit")
             /\ UNCHANGED << storeVars, found, snapshot, writer >>
    <3>1. CallerOK(c)'
      BY <1>6, <1>t, <2>2
         DEF InsertRow, Step, CallerOK, TxTypeOK, Existing, storeVars, intakeVars
    <3> QED
      BY <1>6, <1>t, <2>2, <3>1, MoveStep DEF InsertRow, TxTypeOK
  <2> QED
    BY <1>6, <2>1, <2>2 DEF InsertRow
<1>7. CASE CountPending(c)
  <2>1. CASE Abort(c)
    BY <1>7, <2>1, AbortStep DEF CountPending
  <2>2. CASE /\ Pending(call[c].endpoint) = {}
             /\ snapshot' = [snapshot EXCEPT ![c] = version]
             /\ Step(c, "write")
             /\ UNCHANGED << storeVars, found, writer >>
    <3>1. CallerOK(c)'
      BY <1>7, <1>t, <2>2
         DEF CountPending, Step, CallerOK, TxTypeOK, Pending, storeVars, intakeVars
    <3> QED
      BY <1>7, <1>t, <2>2, <3>1, MoveStep DEF CountPending, TxTypeOK
  <2> QED
    BY <1>7, <2>1, <2>2 DEF CountPending
<1>8. CASE DeleteRow(c)
  <2>1. CASE Abort(c)
    BY <1>8, <2>1, AbortStep DEF DeleteRow
  <2>2. CASE /\ CanUpgrade(c) /\ writer' = c
             /\ Step(c, "commit")
             /\ UNCHANGED << storeVars, found, snapshot >>
    <3>1. CallerOK(c)'
      BY <1>8, <1>t, <2>2
         DEF DeleteRow, CanUpgrade, Step, CallerOK, TxTypeOK, Pending, storeVars, intakeVars
    <3> QED
      BY <1>8, <1>t, <2>2, <3>1, MoveStep DEF DeleteRow, CanUpgrade, TxTypeOK
  <2> QED
    BY <1>8, <2>1, <2>2 DEF DeleteRow
<1> QED
  BY <1>1, <1>2, <1>3, <1>4, <1>5, <1>6, <1>7, <1>8

-----------------------------------------------------------------------------
(* The commits: what each of them does to the tables is atomic, because    *)
(* what it has read is still true.                                         *)

LEMMA Commitments ==
  ASSUME TxInv, NEW c \in Callers,
         CommitClaim(c) \/ CommitAccept(c) \/ CommitDelete(c) \/ UpdateAlone(c)
  PROVE  AtomicStep /\ StoreTypeOK' /\ Commits(c) /\ c \in Busy /\ writer \in {c, None}
<1> USE DEF Does, InTransaction, Busy
<1>t. /\ StoreTypeOK /\ TxTypeOK /\ CallerOK(c)
      /\ call[c] \in Calls \cup {NoCall}
  BY DEF TxInv, TxTypeOK
<1>1. CASE CommitClaim(c)
  <2>1. /\ found[c] \in EventIds /\ IsOldestReceived(found[c])
        /\ SetsStatus(found[c], "PROCESSING")
        /\ writer = c
    BY <1>1, <1>t DEF CommitClaim, CallerOK, TxTypeOK, EventIds
  <2> QED
    BY <1>1, <1>t, <2>1, StoreTypes DEF CommitClaim, AtomicStep, EventStatus
<1>2. CASE CommitAccept(c)
  <2>1. /\ call[c].endpoint \in EndpointIds /\ call[c].key \in Keys
        /\ Existing(call[c].endpoint, call[c].key) = {}
        /\ endpoints[call[c].endpoint] = "live"
        /\ InsertEvent(call[c].endpoint, call[c].key)
        /\ writer = c
    BY <1>2, <1>t, CallTypes DEF CommitAccept, CallerOK
  <2> QED
    BY <1>2, <1>t, <2>1, StoreTypes DEF CommitAccept, AtomicStep
<1>3. CASE CommitDelete(c)
  <2>1. /\ call[c].endpoint \in EndpointIds
        /\ DeleteEndpoint(call[c].endpoint) /\ Cascade(call[c].endpoint)
        /\ writer = c
    BY <1>3, <1>t, CallTypes DEF CommitDelete, CallerOK, DeleteEndpoint
  <2> QED
    BY <1>3, <1>t, <2>1, StoreTypes DEF CommitDelete, AtomicStep, EndpointsNext
<1>4. CASE UpdateAlone(c)
  <2>1. /\ call[c].event \in EventIds
        /\ call[c].to \in {"RECEIVED", "DELIVERED", "FAILED"}
        /\ SetsStatus(call[c].event, call[c].to)
        /\ writer = None
    BY <1>4, <1>t, CallTypes DEF UpdateAlone
  <2> QED
    BY <1>4, <1>t, <2>1, StoreTypes DEF UpdateAlone, AtomicStep, EventStatus
<1> QED
  BY <1>1, <1>2, <1>3, <1>4

LEMMA TxInvInit == TxInit => TxInv
<1> SUFFICES ASSUME TxInit PROVE TxInv
  OBVIOUS
<1>1. StoreTypeOK
  BY StoreAssumption DEF TxInit, StoreInit, StoreTypeOK
<1>2. TxTypeOK
  BY StoreAssumption, TransactionsAssumption DEF TxInit, TxTypeOK
<1>3. NothingLeaks
  <2>1. {c \in Callers : at[c] \notin {"idle", "pool"}} = {}
    BY DEF TxInit
  <2> QED
    BY <2>1, FS_EmptySet, TransactionsAssumption DEF TxInit, NothingLeaks
<1>4. \A c \in Callers : CallerOK(c)
  BY DEF TxInit, CallerOK, Does, InTransaction
<1> QED
  BY <1>1, <1>2, <1>3, <1>4 DEF TxInv

(* Whatever a step of the closures is, the tables see a transaction of the *)
(* other modules or nothing.                                               *)
LEMMA TxStep ==
  TxInv /\ [TxNext]_allVars => TxInv' /\ [AtomicStep]_storeVars
<1> SUFFICES ASSUME TxInv, [TxNext]_allVars
             PROVE  TxInv' /\ [AtomicStep]_storeVars
  OBVIOUS
<1>t. StoreTypeOK /\ TxTypeOK /\ NothingLeaks /\ \A c \in Callers : CallerOK(c)
  BY DEF TxInv
<1>1. ASSUME NEW ep \in EndpointIds, writer = None, CreateEndpoint(ep),
             version' = version + 1,
             UNCHANGED << at, call, found, snapshot, writer, available, calls >>
      PROVE  TxInv' /\ AtomicStep
  <2>1. StoreTypeOK' /\ AtomicStep
    <3>1. StoreTypeOK'
      BY <1>1, <1>t DEF CreateEndpoint, StoreTypeOK
    <3> QED
      BY <1>1, <3>1 DEF AtomicStep, EndpointsNext
  <2>2. TxTypeOK' /\ NothingLeaks'
    BY <1>1, <1>t DEF TxTypeOK, NothingLeaks
  <2>3. \A d \in Callers : CallerOK(d)'
    BY <1>1, <1>t, OthersOK, TransactionsAssumption
  <2> QED
    BY <2>1, <2>2, <2>3 DEF TxInv
<1>2. ASSUME NEW c \in Callers, NEW x \in Calls, Submit(c, x)
      PROVE  TxInv' /\ UNCHANGED storeVars
  <2>1. /\ UNCHANGED << storeVars, found, snapshot, version, writer, available >>
        /\ at[c] = "idle" /\ at' = [at EXCEPT ![c] = "pool"]
        /\ call' = [call EXCEPT ![c] = x] /\ calls' = calls + 1
    BY <1>2 DEF Submit
  <2>2. StoreTypeOK'
    BY <2>1, <1>t, StoreTypes
  <2>3. TxTypeOK'
    BY <2>1, <1>t DEF TxTypeOK
  <2>4. NothingLeaks'
    BY <2>1, <1>t, LeaksStay DEF NothingLeaks, InTransaction
  <2>5. CallerOK(c)'
    BY <2>1, <1>t DEF CallerOK, Does, InTransaction, TxTypeOK
  <2>6. \A d \in Callers \ {c} : CallerOK(d)'
    BY <2>1, <1>t, OthersOK DEF TxTypeOK
  <2> QED
    BY <2>1, <2>2, <2>3, <2>4, <2>5, <2>6 DEF TxInv
<1>3. ASSUME NEW c \in Callers, GetConnection(c)
      PROVE  TxInv' /\ UNCHANGED storeVars
  <2>1. /\ UNCHANGED << storeVars, call, found, snapshot, version, writer, calls >>
        /\ at[c] = "pool"
        /\ at' = [at EXCEPT ![c] = at'[c]]
        /\ at'[c] = IF call[c].op = "update" THEN "write" ELSE "begin"
    BY <1>3, <1>t DEF GetConnection, TxTypeOK
  <2>2. StoreTypeOK'
    BY <2>1, <1>t, StoreTypes
  <2>3. NothingLeaks' /\ available' \in 0..PoolSize
    BY <1>3, <1>t, LeaksEnter
  <2>4. TxTypeOK'
    BY <2>1, <2>3, <1>t DEF TxTypeOK
  <2>5. CallerOK(c)'
    BY <2>1, <1>t DEF CallerOK, Does, InTransaction, TxTypeOK
  <2>6. \A d \in Callers \ {c} : CallerOK(d)'
    BY <2>1, <1>t, OthersOK DEF TxTypeOK
  <2> QED
    BY <2>1, <2>2, <2>3, <2>4, <2>5, <2>6 DEF TxInv
<1>4. ASSUME NEW c \in Callers, PoolTimesOut(c)
      PROVE  TxInv' /\ UNCHANGED storeVars
  <2>1. /\ UNCHANGED << storeVars, version, writer, available >>
        /\ at[c] = "pool" /\ Forget(c) /\ at' = [at EXCEPT ![c] = "idle"]
    BY <1>4 DEF PoolTimesOut, Forget
  <2>2. StoreTypeOK'
    BY <2>1, <1>t, StoreTypes
  <2>3. TxTypeOK'
    BY <2>1, <1>t, ForgottenOK DEF TxTypeOK
  <2>4. NothingLeaks'
    BY <2>1, <1>t, LeaksStay DEF NothingLeaks, InTransaction
  <2>5. \A d \in Callers : CallerOK(d)'
    BY <2>1, <1>t, ForgottenOK, OthersOK
  <2> QED
    BY <2>1, <2>2, <2>3, <2>4, <2>5 DEF TxInv
<1>5. ASSUME NEW c \in Callers,
             CommitNothing(c) \/ LockTimesOut(c) \/ StatementFails(c)
      PROVE  TxInv' /\ UNCHANGED storeVars
  <2>1. Abort(c) /\ c \in Busy
    BY <1>5 DEF CommitNothing, LockTimesOut, WaitsForLock, StatementFails, Does, Busy
  <2> QED
    BY <2>1, AbortStep DEF Abort
<1>6. ASSUME NEW c \in Callers,
             \/ BeginImmediate(c) \/ BeginDeferred(c) \/ SelectOldest(c)
             \/ UpdateClaimed(c) \/ SelectKey(c) \/ InsertRow(c)
             \/ CountPending(c) \/ DeleteRow(c)
      PROVE  TxInv' /\ UNCHANGED storeVars
  <2>1. UNCHANGED storeVars
    BY <1>6 DEF BeginImmediate, BeginDeferred, SelectOldest, UpdateClaimed,
                SelectKey, InsertRow, CountPending, DeleteRow, Abort
  <2> QED
    BY <1>6, <2>1, StatementStep
<1>7. ASSUME NEW c \in Callers,
             CommitClaim(c) \/ CommitAccept(c) \/ CommitDelete(c) \/ UpdateAlone(c)
      PROVE  TxInv' /\ AtomicStep
  BY <1>7, Commitments, CommitStep
<1>8. ASSUME Kill
      PROVE  TxInv' /\ UNCHANGED storeVars
  <2>1. StoreTypeOK'
    BY <1>8, <1>t DEF Kill, storeVars, intakeVars, StoreTypeOK
  <2>2. TxTypeOK'
    BY <1>8, <1>t, StoreAssumption, TransactionsAssumption DEF Kill, TxTypeOK
  <2>3. NothingLeaks'
    <3>1. {c \in Callers : at'[c] \notin {"idle", "pool"}} = {}
      BY <1>8 DEF Kill
    <3> QED
      BY <1>8, <3>1, FS_EmptySet, TransactionsAssumption DEF Kill, NothingLeaks
  <2>4. \A c \in Callers : CallerOK(c)'
    BY <1>8 DEF Kill, CallerOK, Does, InTransaction
  <2> QED
    BY <1>8, <2>1, <2>2, <2>3, <2>4 DEF TxInv, Kill
<1>9. ASSUME UNCHANGED allVars
      PROVE  TxInv' /\ UNCHANGED storeVars
  <2>1. UNCHANGED storeVars /\ UNCHANGED txVars
    BY <1>9 DEF allVars
  <2>2. StoreTypeOK'
    BY <2>1, <1>t DEF storeVars, intakeVars, StoreTypeOK
  <2>3. TxTypeOK' /\ NothingLeaks'
    BY <2>1, <1>t DEF txVars, TxTypeOK, NothingLeaks
  <2>4. \A c \in Callers : CallerOK(c)'
    BY <2>1, <1>t, OthersOK DEF txVars
  <2> QED
    BY <2>1, <2>2, <2>3, <2>4 DEF TxInv
<1> QED
  BY <1>1, <1>2, <1>3, <1>4, <1>5, <1>6, <1>7, <1>8, <1>9 DEF TxNext, Proceed

(* The tables only change by whole transactions whose SELECTs still hold   *)
(* (runner.rs:52, idempotency.rs:17, endpoints.rs:225): what Dispatch,     *)
(* Ingest and Endpoints take for one action is one.                        *)
THEOREM Atomicity == TxSpec => TransactionsAreAtomic
<1>1. TxInit => StoreInit
  BY DEF TxInit
<1> QED
  BY <1>1, TxInvInit, TxStep, PTL DEF TxSpec, TransactionsAreAtomic

(* No closure keeps a connection or the write lock, however it ends.       *)
THEOREM NoLeaks == TxSpec => []NothingLeaks
<1>1. TxInv => NothingLeaks
  BY DEF TxInv
<1> QED
  BY <1>1, TxInvInit, TxStep, PTL DEF TxSpec

-----------------------------------------------------------------------------
(* The lock is only ever held by a closure that has begun a transaction,   *)
(* never by a lone UPDATE, which takes it and gives it back at once.       *)

LockedInTransaction ==
  writer # None => call[writer].op \in {"claim", "accept", "delete"}

LEMMA LockStep ==
  ASSUME TxInv, LockedInTransaction, [TxNext]_allVars
  PROVE  LockedInTransaction'
<1>t. /\ TxTypeOK /\ None \notin Callers
      /\ writer # None => writer \in Callers /\ at[writer] \in InTransaction
  BY TransactionsAssumption DEF TxInv, NothingLeaks, TxTypeOK, InTransaction
<1>1. ASSUME writer' = writer, writer # None => call'[writer] = call[writer]
      PROVE  LockedInTransaction'
  BY <1>1 DEF LockedInTransaction
<1>2. ASSUME NEW c \in Callers, Release(c)
      PROVE  LockedInTransaction'
  BY <1>2, <1>t DEF Release, Forget, LockedInTransaction, TxTypeOK
<1>3. ASSUME NEW c \in Callers, BeginImmediate(c) \/ (DeleteRow(c) /\ CanUpgrade(c))
      PROVE  LockedInTransaction'
  <2>1. /\ writer' = c /\ call' = call
        /\ call[c].op \in {"claim", "accept", "delete"}
    BY <1>3 DEF BeginImmediate, DeleteRow, Does, Step
  <2> QED
    BY <2>1 DEF LockedInTransaction
<1>4. ASSUME NEW c \in Callers, Proceed(c)
      PROVE  LockedInTransaction'
  <2>1. CASE \/ BeginDeferred(c) \/ SelectOldest(c) \/ UpdateClaimed(c)
             \/ (SelectKey(c) /\ Step(c, "write") /\ writer' = writer)
             \/ (InsertRow(c) /\ Step(c, "commit") /\ writer' = writer)
             \/ (CountPending(c) /\ Step(c, "write") /\ writer' = writer)
             \/ GetConnection(c)
    <3>1. writer' = writer /\ call' = call
      BY <2>1 DEF BeginDeferred, SelectOldest, UpdateClaimed, GetConnection, Step
    <3> QED
      BY <1>1, <3>1
  <2> QED
    BY <1>2, <1>3, <1>4, <2>1
       DEF Proceed, SelectKey, InsertRow, CountPending, DeleteRow, CommitNothing,
           CommitClaim, CommitAccept, CommitDelete, UpdateAlone, Commits, Abort
<1>5. ASSUME NEW c \in Callers,
             (\E x \in Calls : Submit(c, x)) \/ PoolTimesOut(c)
      PROVE  LockedInTransaction'
  <2>1. writer' = writer /\ \A d \in Callers : d # c => call'[d] = call[d]
    BY <1>5, <1>t DEF Submit, PoolTimesOut, Forget, TxTypeOK
  <2>2. writer # c
    BY <1>5, <1>t DEF Submit, PoolTimesOut, InTransaction
  <2> QED
    BY <1>1, <1>t, <2>1, <2>2
<1>6. ASSUME NEW c \in Callers, LockTimesOut(c) \/ StatementFails(c)
      PROVE  LockedInTransaction'
  BY <1>2, <1>6 DEF LockTimesOut, StatementFails, Abort
<1>7. CASE Kill
  BY <1>7 DEF Kill, LockedInTransaction
<1>8. CASE UNCHANGED allVars
  BY <1>1, <1>8 DEF allVars, txVars
<1>9. ASSUME UNCHANGED << writer, call >>
      PROVE  LockedInTransaction'
  BY <1>1, <1>9
<1> QED
  BY <1>4, <1>5, <1>6, <1>7, <1>8, <1>9 DEF TxNext

LEMMA NobodyHoldsUp ==
  ASSUME TxInv, LockedInTransaction
  PROVE  SomebodyProceeds
<1>t. /\ TxTypeOK
      /\ writer # None => writer \in Callers /\ at[writer] \in InTransaction
  BY DEF TxInv, NothingLeaks, TxTypeOK, InTransaction
(* Its holder does not wait for the lock, and has its connection.          *)
<1>1. CASE writer # None
  <2>1. /\ writer \in Callers /\ at[writer] # "idle"
        /\ ~WaitsForConnection(writer) /\ ~WaitsForLock(writer)
    BY <1>1, <1>t
       DEF LockedInTransaction, WaitsForConnection, WaitsForLock, Does, InTransaction
  <2> QED
    BY <2>1 DEF SomebodyProceeds
(* Nobody waits for the lock; if the pool is empty, somebody has one.      *)
<1>2. CASE writer = None
  <2>1. \A c \in Callers : ~WaitsForLock(c)
    BY <1>2 DEF WaitsForLock
  <2>2. CASE available > 0
    <3>1. \A c \in Callers : ~WaitsForConnection(c)
      BY <2>2 DEF WaitsForConnection
    <3> QED
      BY <2>1, <3>1 DEF SomebodyProceeds
  <2>3. CASE ~(available > 0)
    <3>1. available = 0
      BY <2>3, <1>t, TransactionsAssumption DEF TxTypeOK
    <3>2. 0 = PoolSize - Cardinality(Busy)
      BY <3>1 DEF TxInv, NothingLeaks, Busy
    <3>3. Cardinality(Busy) # 0
      BY <3>2, BusyFinite, TransactionsAssumption
    <3>4. PICK c \in Busy : TRUE
      BY <3>3, FS_EmptySet
    <3>5. c \in Callers /\ at[c] # "idle" /\ ~WaitsForConnection(c)
      BY <3>4 DEF Busy, WaitsForConnection
    <3> QED
      BY <2>1, <3>5 DEF SomebodyProceeds
  <2> QED
    BY <2>2, <2>3
<1> QED
  BY <1>1, <1>2

(* Closures never all wait, however small the pool: whoever waits for the  *)
(* lock holds a connection, but the one who holds the lock has got both.   *)
THEOREM NoDeadlock == TxSpec => []SomebodyProceeds
<1>1. TxInit => LockedInTransaction
  BY DEF TxInit, LockedInTransaction
<1>2. TxInv /\ LockedInTransaction => SomebodyProceeds
  BY NobodyHoldsUp
<1> QED
  BY <1>1, <1>2, TxInvInit, TxStep, LockStep, PTL DEF TxSpec
=============================================================================
