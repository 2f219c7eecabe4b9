---------------------------- MODULE Transactions ----------------------------
(***************************************************************************)
(* How the closures of the handlers and of the worker share the database:  *)
(* each takes one connection of the bounded r2d2 pool, runs a statement or *)
(* a transaction on it and gives it back. The other modules take a         *)
(* transaction for one action; this one takes it apart, the way SQLite     *)
(* runs it in WAL mode:                                                    *)
(*   - BEGIN IMMEDIATE and a lone UPDATE wait for the one write lock, up   *)
(*     to busy_timeout;                                                    *)
(*   - a BEGIN of delete_endpoint is DEFERRED: its SELECT fixes a snapshot *)
(*     without any lock, and its DELETE is refused at once if the lock is  *)
(*     taken or somebody has committed since that snapshot;                *)
(*   - a transaction that is dropped rolls back.                           *)
(***************************************************************************)
EXTENDS Endpoints, FiniteSets

CONSTANTS
  Callers,          (* blocking closures that may run together             *)
  PoolSize,         (* database.pool_size                                  *)
  MaxCalls          (* bound: closures ever started                        *)

ASSUME TransactionsAssumption ==
  /\ PoolSize \in Nat \ {0}
  /\ MaxCalls \in Nat
  /\ IsFiniteSet(Callers)
  /\ None \notin Callers

VARIABLES
  at,               (* caller -> what it does next                         *)
  call,             (* caller -> what it was asked for                     *)
  found,            (* caller -> the event its SELECT found, 0 for none    *)
  snapshot,         (* caller -> version its SELECT fixed                  *)
  version,          (* commits so far: what the WAL index header tells     *)
  writer,           (* holder of the write lock                            *)
  available,        (* connections in the pool                             *)
  calls             (* history: closures started                           *)

txVars == << at, call, found, snapshot, version, writer, available, calls >>
allVars == << storeVars, txVars >>

Call(op, ep, k, e, s) ==
  [op |-> op, endpoint |-> ep, key |-> k, event |-> e, to |-> s]

NoCall == Call("none", None, None, 0, "NONE")

(* claim_next_event, accept_event, delete_endpoint, and the UPDATEs with   *)
(* which the worker settles or requeues and replay_dlq puts back: none of  *)
(* them looks at the status it overwrites.                                 *)
Calls ==
       {Call("claim", None, None, 0, "NONE")}
  \cup {Call("accept", ep, k, 0, "NONE") : ep \in EndpointIds, k \in Keys}
  \cup {Call("delete", ep, None, 0, "NONE") : ep \in EndpointIds}
  \cup {Call("update", None, None, e, s) :
          e \in EventIds, s \in {"RECEIVED", "DELIVERED", "FAILED"}}

TxTypeOK ==
  /\ at        \in [Callers -> {"idle", "pool", "begin", "read", "write", "commit"}]
  /\ call      \in [Callers -> Calls \cup {NoCall}]
  /\ found     \in [Callers -> 0..MaxEvents]
  /\ snapshot  \in [Callers -> Nat]
  /\ version   \in Nat
  /\ writer    \in Callers \cup {None}
  /\ available \in 0..PoolSize
  /\ calls     \in Nat

TxInit ==
  /\ StoreInit
  /\ at        = [c \in Callers |-> "idle"]
  /\ call      = [c \in Callers |-> NoCall]
  /\ found     = [c \in Callers |-> 0]
  /\ snapshot  = [c \in Callers |-> 0]
  /\ version   = 0
  /\ writer    = None
  /\ available = PoolSize
  /\ calls     = 0

-----------------------------------------------------------------------------
(* A caller and its connection.                                            *)

Does(c, op, l) == call[c].op = op /\ at[c] = l

Step(c, l) ==
  /\ at' = [at EXCEPT ![c] = l]
  /\ UNCHANGED << call, calls, version, available >>

Submit(c, x) ==
  /\ at[c] = "idle"
  /\ calls < MaxCalls
  /\ at'    = [at EXCEPT ![c] = "pool"]
  /\ call'  = [call EXCEPT ![c] = x]
  /\ calls' = calls + 1
  /\ UNCHANGED << storeVars, found, snapshot, version, writer, available >>

GetConnection(c) ==
  /\ at[c] = "pool"
  /\ available > 0
  /\ available' = available - 1
  /\ at' = [at EXCEPT ![c] = IF call[c].op = "update" THEN "write" ELSE "begin"]
  /\ UNCHANGED << storeVars, call, found, snapshot, version, writer, calls >>

Forget(c) ==
  /\ at'       = [at EXCEPT ![c] = "idle"]
  /\ call'     = [call EXCEPT ![c] = NoCall]
  /\ found'    = [found EXCEPT ![c] = 0]
  /\ snapshot' = [snapshot EXCEPT ![c] = 0]
  /\ UNCHANGED calls

(* pool.get() gives up: AppError::Database, nothing was done.              *)
PoolTimesOut(c) ==
  /\ at[c] = "pool"
  /\ available = 0
  /\ Forget(c)
  /\ UNCHANGED << storeVars, version, writer, available >>

(* Mutant of Release: the transaction is not rolled back.                  *)
ReleaseLocked(c) ==
  /\ Forget(c)
  /\ available' = available + 1
  /\ UNCHANGED writer

(* The closure ends, and drops its transaction and its connection.         *)
Release(c) ==
  /\ Forget(c)
  /\ available' = available + 1
  /\ writer'    = IF writer = c THEN None ELSE writer

(* Mutant of Abort: an error path keeps the connection.                    *)
AbortLeaks(c) ==
  /\ Forget(c)
  /\ writer' = IF writer = c THEN None ELSE writer
  /\ UNCHANGED << storeVars, version, available >>

Abort(c) ==
  /\ Release(c)
  /\ UNCHANGED << storeVars, version >>

-----------------------------------------------------------------------------
(* The transactions, statement by statement.                               *)

BeginImmediate(c) ==
  /\ Does(c, "claim", "begin") \/ Does(c, "accept", "begin")
  /\ writer = None
  /\ writer' = c
  /\ Step(c, "read")
  /\ UNCHANGED << storeVars, found, snapshot >>

BeginDeferred(c) ==
  /\ Does(c, "delete", "begin")
  /\ Step(c, "read")
  /\ UNCHANGED << storeVars, found, snapshot, writer >>

SelectOldest(c) ==
  /\ Does(c, "claim", "read")
  /\ \/ /\ \E e \in EventIds :
             IsOldestReceived(e) /\ found' = [found EXCEPT ![c] = e]
        /\ Step(c, "write")
     \/ /\ \A e \in EventIds : status[e] # "RECEIVED"
        /\ Step(c, "commit")
        /\ UNCHANGED found
  /\ UNCHANGED << storeVars, snapshot, writer >>

UpdateClaimed(c) ==
  /\ Does(c, "claim", "write")
  /\ Step(c, "commit")
  /\ UNCHANGED << storeVars, found, snapshot, writer >>

SelectKey(c) ==
  /\ Does(c, "accept", "read")
  /\ IF Existing(call[c].endpoint, call[c].key) = {}
     THEN /\ Step(c, "write")
          /\ UNCHANGED << storeVars, found, snapshot, writer >>
     ELSE Abort(c)

(* The foreign key is checked by the INSERT.                               *)
InsertRow(c) ==
  /\ Does(c, "accept", "write")
  /\ IF endpoints[call[c].endpoint] = "live"
     THEN /\ Step(c, "commit")
          /\ UNCHANGED << storeVars, found, snapshot, writer >>
     ELSE Abort(c)

CountPending(c) ==
  /\ Does(c, "delete", "read")
  /\ IF Pending(call[c].endpoint) = {}
     THEN /\ snapshot' = [snapshot EXCEPT ![c] = version]
          /\ Step(c, "write")
          /\ UNCHANGED << storeVars, found, writer >>
     ELSE Abort(c)

(* Mutant of CanUpgrade: the count is not in the DELETE's transaction.     *)
CanUpgradeStale(c) == writer = None

(* Whether a transaction that has read may start to write.                 *)
CanUpgrade(c) == writer = None /\ snapshot[c] = version

(* Mutant of DeleteRow: a refused upgrade is waited for, not given up.     *)
DeleteRowWaits(c) ==
  /\ Does(c, "delete", "write")
  /\ CanUpgrade(c)
  /\ writer' = c
  /\ Step(c, "commit")
  /\ UNCHANGED << storeVars, found, snapshot >>

DeleteRow(c) ==
  /\ Does(c, "delete", "write")
  /\ IF CanUpgrade(c)
     THEN /\ writer' = c
          /\ Step(c, "commit")
          /\ UNCHANGED << storeVars, found, snapshot >>
     ELSE Abort(c)

Commits(c) ==
  /\ Release(c)
  /\ version' = version + 1

SetsStatus(e, s) ==
  /\ SetStatus(e, s)
  /\ UNCHANGED << intakeVars, attempts, dlq, dlqSeq, sends, faults >>

(* A transaction that changed nothing leaves nothing in the WAL.           *)
CommitNothing(c) ==
  /\ \/ Does(c, "claim", "commit") /\ found[c] = 0
     \/ Does(c, "delete", "commit") /\ endpoints[call[c].endpoint] # "live"
  /\ Abort(c)

CommitClaim(c) ==
  /\ Does(c, "claim", "commit")
  /\ found[c] # 0
  /\ SetsStatus(found[c], "PROCESSING")
  /\ Commits(c)

CommitAccept(c) ==
  /\ Does(c, "accept", "commit")
  /\ InsertEvent(call[c].endpoint, call[c].key)
  /\ Commits(c)

CommitDelete(c) ==
  /\ Does(c, "delete", "commit")
  /\ endpoints[call[c].endpoint] = "live"
  /\ Cascade(call[c].endpoint)
  /\ Commits(c)

(* A statement outside a transaction is one of its own.                    *)
UpdateAlone(c) ==
  /\ Does(c, "update", "write")
  /\ writer = None
  /\ SetsStatus(call[c].event, call[c].to)
  /\ Commits(c)

-----------------------------------------------------------------------------
(* What goes wrong.                                                        *)

WaitsForLock(c) ==
  /\ writer # None
  /\ \/ Does(c, "claim", "begin")
     \/ Does(c, "accept", "begin")
     \/ Does(c, "update", "write")

(* busy_timeout runs out.                                                  *)
LockTimesOut(c) ==
  /\ WaitsForLock(c)
  /\ Abort(c)

(* A statement fails.                                                      *)
StatementFails(c) ==
  /\ at[c] \notin {"idle", "pool"}
  /\ Abort(c)

(* The process is killed: what was not committed is gone.                  *)
Kill ==
  /\ at'        = [c \in Callers |-> "idle"]
  /\ call'      = [c \in Callers |-> NoCall]
  /\ found'     = [c \in Callers |-> 0]
  /\ snapshot'  = [c \in Callers |-> 0]
  /\ writer'    = None
  /\ available' = PoolSize
  /\ UNCHANGED << storeVars, version, calls >>

-----------------------------------------------------------------------------

Proceed(c) ==
  \/ GetConnection(c)
  \/ BeginImmediate(c)
  \/ BeginDeferred(c)
  \/ SelectOldest(c)
  \/ UpdateClaimed(c)
  \/ SelectKey(c)
  \/ InsertRow(c)
  \/ CountPending(c)
  \/ DeleteRow(c)
  \/ CommitNothing(c)
  \/ CommitClaim(c)
  \/ CommitAccept(c)
  \/ CommitDelete(c)
  \/ UpdateAlone(c)

TxNext ==
  \/ \E ep \in EndpointIds :
       writer = None /\ CreateEndpoint(ep) /\ version' = version + 1
       /\ UNCHANGED << at, call, found, snapshot, writer, available, calls >>
  \/ \E c \in Callers :
       \/ \E x \in Calls : Submit(c, x)
       \/ Proceed(c)
       \/ PoolTimesOut(c)
       \/ LockTimesOut(c)
       \/ StatementFails(c)
  \/ Kill

TxSpec == TxInit /\ [][TxNext]_allVars

(* The blocking threads run; nothing obliges a wait to time out.           *)
TxFairSpec == TxSpec /\ \A c \in Callers : WF_allVars(Proceed(c))

-----------------------------------------------------------------------------
(* What the other modules take for one action each: a claim of the oldest  *)
(* event, the acceptance of a fresh key for a live endpoint, the delete of *)
(* an endpoint nothing is pending for (the very action of Endpoints), and  *)
(* single UPDATEs.                                                         *)
AtomicStep ==
  \/ \E e \in EventIds : IsOldestReceived(e) /\ SetsStatus(e, "PROCESSING")
  \/ \E ep \in EndpointIds, k \in Keys :
       Existing(ep, k) = {} /\ endpoints[ep] = "live" /\ InsertEvent(ep, k)
  \/ EndpointsNext
  \/ \E e \in EventIds, s \in {"RECEIVED", "DELIVERED", "FAILED"} : SetsStatus(e, s)

(* However the closures interleave, time out, fail or are killed, the      *)
(* tables only ever change by whole transactions whose SELECTs are still   *)
(* true when they commit: "two workers can never claim the same row"       *)
(* (runner.rs:52), keys are taken once, and an event that arrives or is    *)
(* replayed between a delete's COUNT and its DELETE is not taken along     *)
(* (endpoints.rs:225).                                                     *)
TransactionsAreAtomic == StoreInit /\ [][AtomicStep]_storeVars

(* No path through a closure keeps a connection or the write lock: the     *)
(* pool has what nobody uses, and the lock is held by somebody who is in   *)
(* a transaction and will leave it.                                        *)
NothingLeaks ==
  /\ available = PoolSize - Cardinality({c \in Callers : at[c] \notin {"idle", "pool"}})
  /\ writer # None => at[writer] \in {"read", "write", "commit"}

WaitsForConnection(c) == at[c] = "pool" /\ available = 0

(* The pool and the write lock never wait for each other: while any        *)
(* closure is under way, some closure is that waits for neither. Those who *)
(* wait for the lock (idempotency.rs:17, runner.rs:59) do hold a           *)
(* connection, so a holder of the lock who had to wait for one, or for     *)
(* the lock a second time, would stop everybody.                           *)
SomebodyProceeds ==
  \/ \A c \in Callers : at[c] = "idle"
  \/ \E c \in Callers :
       at[c] # "idle" /\ ~WaitsForConnection(c) /\ ~WaitsForLock(c)

(* Nobody waits on everybody: whoever has to wait, for a connection or for *)
(* the lock, gets it, however small the pool, without the help of a        *)
(* timeout.                                                                *)
CallsReturn == \A c \in Callers : at[c] # "idle" ~> at[c] = "idle"
=============================================================================
