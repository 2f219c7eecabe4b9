------------------------------- MODULE Replay -------------------------------
(***************************************************************************)
(* replay_dlq of src/api/dlq.rs. The handler works on one connection but   *)
(* opens no transaction, so its SELECT, UPDATE and two DELETEs each commit *)
(* alone and the worker, another replay or a crash may come between them.  *)
(***************************************************************************)
EXTENDS Store

CONSTANTS
  Replayers,        (* replay requests that may be in flight together      *)
  MaxReplays        (* bound: replay requests that find a dead letter      *)

ASSUME ReplayAssumption == MaxReplays \in Nat

VARIABLES
  rpc,              (* replayer -> its next statement                      *)
  letter,           (* replayer -> event and serial of the dead letter     *)
  replays           (* history: replay requests that found a dead letter   *)

replayVars == << rpc, letter, replays >>

Letter == [event : 0..MaxEvents, serial : Nat]

NoLetter == [event |-> 0, serial |-> 0]

ReplayTypeOK ==
  /\ rpc     \in [Replayers -> {"idle", "update", "clear", "remove"}]
  /\ letter  \in [Replayers -> Letter]
  /\ replays \in Nat

ReplayInit ==
  /\ rpc     = [r \in Replayers |-> "idle"]
  /\ letter  = [r \in Replayers |-> NoLetter]
  /\ replays = 0

ReplayDone(r) ==
  /\ rpc'    = [rpc EXCEPT ![r] = "idle"]
  /\ letter' = [letter EXCEPT ![r] = NoLetter]

(* SELECT event_id FROM dead_letter_queue WHERE id = ?. An id that is no   *)
(* longer there is answered 404 and changes nothing.                       *)
ReplaySelect(r, e) ==
  /\ rpc[r] = "idle"
  /\ dlq[e] # 0
  /\ replays < MaxReplays
  /\ replays' = replays + 1
  /\ rpc'     = [rpc EXCEPT ![r] = "update"]
  /\ letter'  = [letter EXCEPT ![r] = [event |-> e, serial |-> dlq[e]]]
  /\ UNCHANGED storeVars

(* UPDATE incoming_events SET status = 'RECEIVED', whatever it was.        *)
ReplayUpdate(r) ==
  /\ rpc[r] = "update"
  /\ SetStatus(letter[r].event, "RECEIVED")
  /\ sends' = [sends EXCEPT ![letter[r].event] = 0]
  /\ rpc'   = [rpc EXCEPT ![r] = "clear"]
  /\ UNCHANGED << intakeVars, attempts, dlq, dlqSeq, faults, letter, replays >>

(* DELETE FROM delivery_attempts WHERE event_id = ?                        *)
ReplayClear(r) ==
  /\ rpc[r] = "clear"
  /\ attempts' = [attempts EXCEPT ![letter[r].event] = 0]
  /\ rpc'      = [rpc EXCEPT ![r] = "remove"]
  /\ UNCHANGED << intakeVars, status, dlq, dlqSeq, sends, faults, letter,
                  replays >>

(* Mutant of ReplayRemove: the letter of the event, whichever it is now.   *)
ReplayRemoveByEvent(r) ==
  /\ rpc[r] = "remove"
  /\ dlq' = [dlq EXCEPT ![letter[r].event] = 0]
  /\ ReplayDone(r)
  /\ UNCHANGED << intakeVars, status, attempts, dlqSeq, sends, faults,
                  replays >>

(* Mutant of ReplayRemove: the letter stays.                               *)
ReplayRemoveForgets(r) ==
  /\ rpc[r] = "remove"
  /\ ReplayDone(r)
  /\ UNCHANGED << storeVars, replays >>

(* DELETE FROM dead_letter_queue WHERE id = ?, this very letter.           *)
ReplayRemove(r) ==
  /\ rpc[r] = "remove"
  /\ dlq' = [dlq EXCEPT ![letter[r].event] =
               IF @ = letter[r].serial THEN 0 ELSE @]
  /\ ReplayDone(r)
  /\ UNCHANGED << intakeVars, status, attempts, dlqSeq, sends, faults,
                  replays >>

(* A statement fails: 500, and what was already committed stays.           *)
ReplayFault(r) ==
  /\ rpc[r] # "idle"
  /\ Fault
  /\ ReplayDone(r)
  /\ UNCHANGED << intakeVars, status, attempts, dlq, dlqSeq, sends, replays >>

(* What the handler does once it has found its letter.                     *)
ReplayStep(r) ==
  \/ ReplayUpdate(r)
  \/ ReplayClear(r)
  \/ ReplayRemove(r)

ReplayNext ==
  \E r \in Replayers :
    \/ \E e \in EventIds : ReplaySelect(r, e)
    \/ ReplayStep(r)
    \/ ReplayFault(r)
=============================================================================
