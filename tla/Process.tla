------------------------------ MODULE Process -------------------------------
(***************************************************************************)
(* The life of the process, again and again: main() starts it step by step *)
(* (Startup), the dispatch loop it spawns paces itself (Backoff) until the *)
(* process ends, and a new one begins with a new prev_sleep.               *)
(***************************************************************************)
EXTENDS Startup, Backoff

processVars == << bootVars, backoffVars >>

ProcessInit == StartupInit /\ BackoffInit

(* prev_sleep is a local variable of the loop.                             *)
LoopStarts ==
  /\ prev_sleep' = Base
  /\ delay'   = 0
  /\ ceiling' = Base
  /\ passes'  = 0
  /\ slept'   = 0

ProcessNext ==
  \/ Boot /\ UNCHANGED backoffVars
  \/ working /\ BackoffNext /\ UNCHANGED bootVars
  \/ (Kill \/ Fail) /\ LoopStarts

ProcessSpec == ProcessInit /\ [][ProcessNext]_processVars

(* A supervisor starts the process again, and the process runs.            *)
ProcessFairSpec == ProcessSpec /\ WF_processVars(Boot /\ UNCHANGED backoffVars)
=============================================================================
