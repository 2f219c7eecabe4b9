------------------------------ MODULE Startup -------------------------------
(***************************************************************************)
(* From exec to serving: create_pool of src/db/mod.rs, run_migrations of   *)
(* src/db/migrations.rs and the rest of main(). The schema batch is six    *)
(* statements that commit one by one, the version that records it is a     *)
(* seventh, and a kill may fall between any two of them; the next start    *)
(* finds what the last one left. A step that fails ends the process in     *)
(* good order, which for SQLite means that -wal and -shm are removed.      *)
(***************************************************************************)
EXTENDS Integers, Sequences

CONSTANT MaxStops   (* bound: kills, failures and shutdowns                *)

ASSUME StartupAssumption == MaxStops \in Nat

(* SCHEMA_SQL, in its order, and what each statement needs to exist.       *)
Schema ==
  << "endpoints", "incoming_events", "idx_events_status",
     "idx_events_endpoint", "delivery_attempts", "dead_letter_queue" >>

Objects == {Schema[i] : i \in DOMAIN Schema}

SCHEMA_VERSION == 1

(* Mutant of Restricted: the files beside the database are forgotten.      *)
RestrictedMainOnly == << "db" >>

(* restrict_db_permissions, in its order.                                  *)
Restricted == << "db", "wal", "shm" >>

Files == {"db", "wal", "shm"}

VARIABLES
  boot,             (* what main() does next, "down" when it does not run  *)
  i,                (* position in Schema or Restricted                    *)
  objects,          (* tables and indexes in the database                  *)
  user_version,
  mode,             (* file -> "absent", "shared" or "owner" (0600)        *)
  working,          (* the dispatch worker was spawned                     *)
  stops             (* history: ends of the process                        *)

bootVars == << boot, i, objects, user_version, mode, working, stops >>

StartupTypeOK ==
  /\ boot \in {"down", "pool", "version", "schema", "stamp", "restrict",
               "spawn", "bind", "serve"}
  /\ i \in 1 .. Len(Schema)
  /\ objects \subseteq Objects
  /\ user_version \in 0 .. SCHEMA_VERSION
  /\ mode \in [Files -> {"absent", "shared", "owner"}]
  /\ working \in BOOLEAN
  /\ stops \in Nat

(* No database yet, one of a release that did not record a version, or one *)
(* this release has served from, cleanly closed or not.                    *)
StartupInit ==
  /\ boot = "down" /\ i = 1 /\ working = FALSE /\ stops = 0
  /\ \/ /\ objects = {} /\ user_version = 0
        /\ mode = [f \in Files |-> "absent"]
     \/ /\ objects = Objects /\ user_version = 0
        /\ \E rest \in {"absent", "shared"} :
             mode = [f \in Files |-> IF f = "db" THEN "shared" ELSE rest]
     \/ /\ objects = Objects /\ user_version = SCHEMA_VERSION
        /\ \E rest \in {"absent", "owner"} :
             mode = [f \in Files |-> IF f = "db" THEN "owner" ELSE rest]

Proceed(from, to) == boot = from /\ boot' = to

-----------------------------------------------------------------------------

Start ==
  /\ Proceed("down", "pool")
  /\ i' = 1
  /\ UNCHANGED << objects, user_version, mode, working, stops >>

(* Pool::build opens the connections. SQLite creates the database with the *)
(* process's umask, and -wal and -shm with the mode of the database.       *)
BuildPool ==
  LET db == IF mode["db"] = "absent" THEN "shared" ELSE mode["db"]
  IN  /\ Proceed("pool", "version")
      /\ mode' = [f \in Files |-> IF mode[f] = "absent" THEN db ELSE mode[f]]
      /\ UNCHANGED << i, objects, user_version, working, stops >>

ReadVersion ==
  /\ Proceed("version", IF user_version >= SCHEMA_VERSION THEN "restrict" ELSE "schema")
  /\ UNCHANGED << i, objects, user_version, mode, working, stops >>

(* Mutant of CreateObject: without IF NOT EXISTS, the second one fails.    *)
CreateObjectOnce ==
  /\ boot = "schema"
  /\ objects' = objects \cup {Schema[i]}
  /\ IF Schema[i] \in objects THEN i' = 1 /\ boot' = "down"
     ELSE IF i < Len(Schema) THEN i' = i + 1 /\ UNCHANGED boot
                             ELSE i' = 1 /\ boot' = "stamp"
  /\ UNCHANGED << user_version, mode, working, stops >>

(* CREATE TABLE or INDEX IF NOT EXISTS.                                    *)
CreateObject ==
  /\ boot = "schema"
  /\ objects' = objects \cup {Schema[i]}
  /\ IF i < Len(Schema) THEN i' = i + 1 /\ UNCHANGED boot
                        ELSE i' = 1 /\ boot' = "stamp"
  /\ UNCHANGED << user_version, mode, working, stops >>

(* PRAGMA user_version = 1                                                 *)
Stamp ==
  /\ Proceed("stamp", "restrict")
  /\ user_version' = SCHEMA_VERSION
  /\ UNCHANGED << i, objects, mode, working, stops >>

(* set_permissions(0o600) on the next file, if it exists.                  *)
Restrict ==
  /\ boot = "restrict"
  /\ mode' = [mode EXCEPT ![Restricted[i]] = IF @ = "absent" THEN @ ELSE "owner"]
  /\ IF i < Len(Restricted) THEN i' = i + 1 /\ UNCHANGED boot
                            ELSE i' = 1 /\ boot' = "spawn"
  /\ UNCHANGED << objects, user_version, working, stops >>

SpawnWorker ==
  /\ Proceed("spawn", "bind")
  /\ working' = TRUE
  /\ UNCHANGED << i, objects, user_version, mode, stops >>

Bind ==
  /\ Proceed("bind", "serve")
  /\ UNCHANGED << i, objects, user_version, mode, working, stops >>

Stop ==
  /\ boot # "down"
  /\ stops < MaxStops
  /\ stops' = stops + 1
  /\ boot'  = "down"
  /\ working' = FALSE
  /\ UNCHANGED << i, objects, user_version >>

(* kill -9                                                                 *)
Kill == Stop /\ UNCHANGED mode

(* Mutant of Fail: a schema that fails to apply is swallowed.              *)
FailSwallowed ==
  \/ Stop /\ mode' = [mode EXCEPT !["wal"] = "absent", !["shm"] = "absent"]
  \/ /\ boot = "schema"
     /\ boot' = "stamp" /\ i' = 1
     /\ UNCHANGED << objects, user_version, mode, working, stops >>

(* A step returns an error that main() passes on with ?, bind() the last   *)
(* of them; or SIGINT.                                                     *)
Fail == Stop /\ mode' = [mode EXCEPT !["wal"] = "absent", !["shm"] = "absent"]

Boot ==
  \/ Start
  \/ BuildPool
  \/ ReadVersion
  \/ CreateObject
  \/ Stamp
  \/ Restrict
  \/ SpawnWorker
  \/ Bind

StartupNext == Boot \/ Kill \/ Fail

-----------------------------------------------------------------------------
(* "A database that cannot be initialised correctly must stop the process" *)
(* (db/mod.rs:11): the worker and the handlers only ever see the whole     *)
(* schema, and a recorded version that makes later starts skip the batch   *)
(* (migrations.rs:60) is never there without it, wherever a start was      *)
(* killed.                                                                 *)
SchemaIsComplete ==
  working \/ user_version >= SCHEMA_VERSION => objects = Objects

(* "Keep the file readable only by its owner" (db/mod.rs:107): while       *)
(* secrets are read and written, so are the files that "carry the same     *)
(* pages", those left by a killed process and those SQLite created since   *)
(* included.                                                               *)
ServesFromOwnFiles == working => \A f \in Files : mode[f] # "shared"

(* However often a start is cut short, a later one completes it.           *)
EventuallyServes == []<>(boot = "serve")
=============================================================================
