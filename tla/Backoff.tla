------------------------------ MODULE Backoff -------------------------------
(***************************************************************************)
(* decorrelated_jitter of src/worker/backoff.rs and the way                *)
(* run_dispatch_loop (src/worker/runner.rs) feeds a delay into the next    *)
(* one. Times are milliseconds in a u64; a random draw is any value of its *)
(* range.                                                                  *)
(***************************************************************************)
EXTENDS Integers

CONSTANTS
  Base,             (* worker.backoff_base_ms                              *)
  Cap,              (* worker.backoff_cap_ms                               *)
  Poll,             (* worker.poll_interval_ms                             *)
  U64Max,           (* largest u64                                         *)
  MaxPasses         (* bound: passes of the loop that do not settle        *)

ASSUME BackoffAssumption ==
  /\ U64Max \in Nat
  /\ Base \in 0..U64Max
  /\ Cap \in 0..U64Max
  /\ Poll \in 0..U64Max
  /\ MaxPasses \in Nat

VARIABLES
  prev_sleep,
  delay,            (* the sleep under way, 0 when there is none           *)
  ceiling,          (* history: Base tripled for every delay since Settled *)
  passes,           (* history: passes deferred or failed                  *)
  slept             (* history: milliseconds slept after those             *)

backoffVars == << prev_sleep, delay, ceiling, passes, slept >>

Smaller(m, n) == IF m <= n THEN m ELSE n
Larger(m, n)  == IF m <= n THEN n ELSE m

(* Mutant of Tripled: wrapping_mul.                                        *)
TripledWraps(ms) == (ms * 3) % (U64Max + 1)

(* prev_ms.saturating_mul(3)                                               *)
Tripled(ms) == Smaller(ms * 3, U64Max)

High(prev) == Larger(Tripled(prev), Base)

(* Mutant of Jitter: the draw is not capped.                               *)
JitterUncapped(prev) == Base .. High(prev)

(* random_range(base..=high), capped.                                      *)
Jitter(prev) == {Smaller(ms, Cap) : ms \in Base .. High(prev)}

BackoffInit ==
  /\ prev_sleep = Base
  /\ delay   = 0
  /\ ceiling = Base
  /\ passes  = 0
  /\ slept   = 0

(* Mutant of Settled: progress does not reset the backoff.                 *)
SettledKeeps ==
  /\ delay = 0
  /\ ceiling' = Base
  /\ UNCHANGED << prev_sleep, delay, passes, slept >>

(* Ok(Settled): straight on to the next event.                             *)
Settled ==
  /\ delay = 0
  /\ prev_sleep' = Base
  /\ ceiling'    = Base
  /\ UNCHANGED << delay, passes, slept >>

(* Ok(Idle): the poll interval is slept, prev_sleep stays what it is.      *)
Idle ==
  /\ delay = 0
  /\ delay' = Poll
  /\ UNCHANGED << prev_sleep, ceiling, passes, slept >>

(* Ok(Deferred) or Err.                                                    *)
BackOff ==
  /\ delay = 0
  /\ passes < MaxPasses
  /\ \E d \in Jitter(prev_sleep) :
       /\ delay'      = d
       /\ prev_sleep' = d
       /\ slept'      = slept + d
  /\ ceiling' = 3 * ceiling
  /\ passes'  = passes + 1

SleepOver ==
  /\ delay # 0
  /\ delay' = 0
  /\ UNCHANGED << prev_sleep, ceiling, passes, slept >>

BackoffNext == Settled \/ Idle \/ BackOff \/ SleepOver

-----------------------------------------------------------------------------
(* "Backing off here is what stops the requeued event from being           *)
(* re-claimed in a tight loop" (runner.rs:160): whatever is drawn, the     *)
(* loop sleeps at least the base and at most the cap for every pass that   *)
(* settled nothing.                                                        *)
LoopIsPaced ==
  /\ passes * Smaller(Base, Cap) <= slept
  /\ slept <= passes * Cap

(* A delay grows from the base, by at most a factor of three for every     *)
(* pass since the last progress: a single deferral after a success is not  *)
(* made to wait for what happened before it.                               *)
GrowsFromBase == prev_sleep <= ceiling

(* The range never closes below the delay it comes from, also where its    *)
(* triple no longer fits: repeated failures do not make the loop faster.   *)
RangeStaysOpen == prev_sleep <= High(prev_sleep)
=============================================================================
