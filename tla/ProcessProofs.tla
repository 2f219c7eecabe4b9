---------------------------- MODULE ProcessProofs ----------------------------
(***************************************************************************)
(* What a start leaves behind and how the dispatch loop paces itself, for  *)
(* any number of kills, failures and passes, and for every base, cap, poll *)
(* interval and width of the integers.                                     *)
(***************************************************************************)
EXTENDS Process, TLAPS

-----------------------------------------------------------------------------
(* How far the schema and the permissions have come, at each step of       *)
(* main(); the database's own record of the schema is never ahead of it.   *)
BootInv ==
  /\ StartupTypeOK
  /\ boot \notin {"down", "schema", "restrict"} => i = 1
  /\ boot = "restrict" => i \in 1..3
  /\ user_version >= SCHEMA_VERSION => objects = Objects
  /\ boot = "schema" => \A j \in 1..(i - 1) : Schema[j] \in objects
  /\ boot \in {"stamp", "restrict", "spawn", "bind", "serve"} => objects = Objects
  /\ boot = "restrict" => \A j \in 1..(i - 1) : mode[Restricted[j]] # "shared"
  /\ boot \in {"spawn", "bind", "serve"} => \A f \in Files : mode[f] # "shared"
  /\ working => boot \in {"bind", "serve"}

LEMMA SchemaFacts ==
  /\ Len(Schema) = 6
  /\ \A j \in 1..6 : Schema[j] \in Objects
  /\ Objects = {Schema[j] : j \in 1..6}
BY DEF Schema, Objects

LEMMA RestrictedFacts ==
  /\ Len(Restricted) = 3
  /\ \A j \in 1..3 : Restricted[j] \in Files
  /\ Files = {Restricted[j] : j \in 1..3}
BY DEF Restricted, Files

LEMMA BootInit == StartupInit => BootInv
<1> SUFFICES ASSUME StartupInit PROVE BootInv
  OBVIOUS
<1>1. /\ boot = "down" /\ i = 1 /\ working = FALSE /\ stops = 0
      /\ objects \in {{}, Objects} /\ user_version \in {0, 1}
      /\ user_version = 1 => objects = Objects
  BY DEF StartupInit, SCHEMA_VERSION
<1>2. mode \in [Files -> {"absent", "shared", "owner"}]
  BY DEF StartupInit
<1>3. i \in 1 .. Len(Schema)
  BY <1>1, SchemaFacts
<1>4. objects \subseteq Objects /\ stops \in Nat /\ working \in BOOLEAN
  BY <1>1
<1>5. StartupTypeOK
  BY <1>1, <1>2, <1>3, <1>4 DEF StartupTypeOK, SCHEMA_VERSION
<1> QED
  BY <1>1, <1>5 DEF BootInv, SCHEMA_VERSION

(* A process that ends keeps its database, as far as it has come.          *)
LEMMA StopStep ==
  ASSUME BootInv, Stop, mode' \in [Files -> {"absent", "shared", "owner"}]
  PROVE  BootInv'
<1>1. StartupTypeOK'
  <2>1. stops' \in Nat
    BY DEF BootInv, StartupTypeOK, Stop
  <2>2. /\ boot' = "down" /\ working' = FALSE
        /\ i' = i /\ objects' = objects /\ user_version' = user_version
    BY DEF Stop
  <2>3. /\ i \in 1 .. Len(Schema) /\ objects \subseteq Objects
        /\ user_version \in 0 .. SCHEMA_VERSION
    BY DEF BootInv, StartupTypeOK
  <2> QED
    BY <2>1, <2>2, <2>3 DEF StartupTypeOK
<1>2. user_version' >= SCHEMA_VERSION => objects' = Objects
  BY DEF BootInv, Stop
<1>3. boot' = "down" /\ working' = FALSE
  BY DEF Stop
<1> QED
  BY <1>1, <1>2, <1>3 DEF BootInv

LEMMA BootStep == BootInv /\ [StartupNext]_bootVars => BootInv'
<1> SUFFICES ASSUME BootInv, [StartupNext]_bootVars
             PROVE  BootInv'
  OBVIOUS
<1> USE SchemaFacts, RestrictedFacts DEF BootInv, StartupTypeOK, SCHEMA_VERSION
<1>1. CASE Start
  BY <1>1 DEF Start, Proceed
<1>2. CASE BuildPool
  BY <1>2 DEF BuildPool, Proceed, Files
<1>3. CASE ReadVersion
  BY <1>3 DEF ReadVersion, Proceed
<1>4. CASE CreateObject
  <2>1. /\ boot = "schema"
        /\ objects' = objects \cup {Schema[i]}
        /\ UNCHANGED << user_version, mode, working, stops >>
    BY <1>4 DEF CreateObject
  <2>2. CASE i < Len(Schema) /\ i' = i + 1 /\ boot' = boot
    BY <2>1, <2>2
  <2>3. CASE i = 6 /\ i' = 1 /\ boot' = "stamp"
    <3>1. objects' = Objects
      <4>1. \A j \in 1..6 : Schema[j] \in objects'
        BY <2>1, <2>3
      <4> QED
        BY <2>1, <4>1
    <3> QED
      BY <2>1, <2>3, <3>1
  <2> QED
    BY <1>4, <2>2, <2>3 DEF CreateObject
<1>5. CASE Stamp
  BY <1>5 DEF Stamp, Proceed
<1>6. CASE Restrict
  <2>1. /\ boot = "restrict"
        /\ mode' = [mode EXCEPT ![Restricted[i]] = IF @ = "absent" THEN @ ELSE "owner"]
        /\ UNCHANGED << objects, user_version, working, stops >>
    BY <1>6 DEF Restrict
  <2>2. Restricted[i] \in Files
    BY <2>1
  <2>3. \A j \in 1..i : mode'[Restricted[j]] # "shared"
    BY <2>1, <2>2
  <2>4. mode' \in [Files -> {"absent", "shared", "owner"}]
    BY <2>1, <2>2
  <2>5. CASE i < 3 /\ i' = i + 1 /\ boot' = boot
    BY <2>1, <2>3, <2>4, <2>5
  <2>6. CASE i = 3 /\ i' = 1 /\ boot' = "spawn"
    <3>1. \A f \in Files : mode'[f] # "shared"
      BY <2>3, <2>6
    <3> QED
      BY <2>1, <2>4, <2>6, <3>1
  <2> QED
    BY <1>6, <2>1, <2>5, <2>6 DEF Restrict
<1>7. CASE SpawnWorker
  BY <1>7 DEF SpawnWorker, Proceed
<1>8. CASE Bind
  BY <1>8 DEF Bind, Proceed
<1>9. CASE Kill
  BY <1>9, StopStep DEF Kill, Stop
<1>10. CASE Fail
  BY <1>10, StopStep DEF Fail, Stop, Files
<1>11. CASE UNCHANGED bootVars
  BY <1>11 DEF bootVars
<1> QED
  BY <1>1, <1>2, <1>3, <1>4, <1>5, <1>6, <1>7, <1>8, <1>9, <1>10, <1>11
     DEF StartupNext, Boot

-----------------------------------------------------------------------------
(* The sleeps so far fit the passes, and the last delay fits the integer,  *)
(* so that the next range is not empty.                                    *)
PacingInv ==
  /\ prev_sleep \in 0..U64Max
  /\ delay \in Nat
  /\ ceiling \in Nat
  /\ Base <= ceiling
  /\ passes \in Nat
  /\ slept \in Nat
  /\ GrowsFromBase
  /\ LoopIsPaced

(* What a draw can be: between the base and the cap, and not more than     *)
(* three times the delay before it (or the base).                          *)
LEMMA DrawBounds ==
  ASSUME NEW prev \in 0..U64Max, NEW d \in Jitter(prev)
  PROVE  /\ d \in Nat
         /\ Smaller(Base, Cap) <= d
         /\ d <= Cap
         /\ d <= 3 * prev \/ d <= Base
<1> USE BackoffAssumption
<1>1. PICK ms \in Base .. High(prev) : d = Smaller(ms, Cap)
  BY DEF Jitter
<1>2. High(prev) \in Nat /\ (High(prev) <= 3 * prev \/ High(prev) <= Base)
  BY DEF High, Tripled, Larger, Smaller
<1>3. ms \in Nat /\ Base <= ms /\ ms <= High(prev)
  BY <1>1, <1>2
<1> QED
  BY <1>1, <1>2, <1>3 DEF Smaller

LEMMA PacingInit == BackoffInit => PacingInv
BY BackoffAssumption DEF BackoffInit, PacingInv, GrowsFromBase, LoopIsPaced, Smaller

LEMMA PacingStep == PacingInv /\ [BackoffNext]_backoffVars => PacingInv'
<1> SUFFICES ASSUME PacingInv, [BackoffNext]_backoffVars
             PROVE  PacingInv'
  OBVIOUS
<1> USE BackoffAssumption
<1>1. CASE Settled
  BY <1>1 DEF Settled, PacingInv, GrowsFromBase, LoopIsPaced
<1>2. CASE Idle
  BY <1>2 DEF Idle, PacingInv, GrowsFromBase, LoopIsPaced
<1>3. CASE BackOff
  <2>1. PICK d \in Jitter(prev_sleep) :
          delay' = d /\ prev_sleep' = d /\ slept' = slept + d
    BY <1>3 DEF BackOff
  <2>2. ceiling' = 3 * ceiling /\ passes' = passes + 1
    BY <1>3 DEF BackOff
  <2>3. /\ d \in Nat
        /\ Smaller(Base, Cap) <= d
        /\ d <= Cap
        /\ d <= 3 * prev_sleep \/ d <= Base
    BY DrawBounds DEF PacingInv
  <2>4. prev_sleep' \in 0..U64Max /\ delay' \in Nat /\ slept' \in Nat
    BY <2>1, <2>3 DEF PacingInv
  <2>5. /\ ceiling' \in Nat /\ Base <= ceiling' /\ passes' \in Nat
        /\ GrowsFromBase'
    BY <2>1, <2>2, <2>3 DEF PacingInv, GrowsFromBase
  <2>6. LoopIsPaced'
    <3> DEFINE low == Smaller(Base, Cap)
    <3>1. low \in Nat
      BY DEF Smaller
    <3>2. (passes + 1) * low = passes * low + low /\ (passes + 1) * Cap = passes * Cap + Cap
      BY <3>1 DEF PacingInv
    <3>3. passes * low \in Nat /\ passes * Cap \in Nat
      BY <3>1 DEF PacingInv
    <3>4. passes * low <= slept /\ slept <= passes * Cap
      BY DEF PacingInv, LoopIsPaced
    <3>5. passes' * low <= slept' /\ slept' <= passes' * Cap
      <4> HIDE DEF low
      <4> QED
        BY <2>1, <2>2, <2>3, <3>1, <3>2, <3>3, <3>4 DEF PacingInv, low
    <3> QED
      BY <3>5 DEF LoopIsPaced
  <2> QED
    BY <2>4, <2>5, <2>6 DEF PacingInv
<1>4. CASE SleepOver
  BY <1>4 DEF SleepOver, PacingInv, GrowsFromBase, LoopIsPaced
<1>5. CASE UNCHANGED backoffVars
  BY <1>5 DEF backoffVars, PacingInv, GrowsFromBase, LoopIsPaced
<1> QED
  BY <1>1, <1>2, <1>3, <1>4, <1>5 DEF BackoffNext

-----------------------------------------------------------------------------
(* The two halves of the process, side by side.                            *)
ProcessInv == BootInv /\ PacingInv

LEMMA LoopStartsPaced == ASSUME LoopStarts PROVE PacingInv'
BY BackoffAssumption DEF LoopStarts, PacingInv, GrowsFromBase, LoopIsPaced, Smaller

LEMMA ProcessInvStep == ProcessInv /\ [ProcessNext]_processVars => ProcessInv'
<1> SUFFICES ASSUME ProcessInv, [ProcessNext]_processVars
             PROVE  ProcessInv'
  OBVIOUS
<1>1. CASE Boot /\ UNCHANGED backoffVars
  BY <1>1, BootStep, PacingStep DEF ProcessInv, StartupNext
<1>2. CASE BackoffNext /\ UNCHANGED bootVars
  BY <1>2, BootStep, PacingStep DEF ProcessInv
<1>3. CASE (Kill \/ Fail) /\ LoopStarts
  BY <1>3, BootStep, LoopStartsPaced DEF ProcessInv, StartupNext
<1>4. CASE UNCHANGED processVars
  BY <1>4, BootStep, PacingStep DEF ProcessInv, processVars
<1> QED
  BY <1>1, <1>2, <1>3, <1>4 DEF ProcessNext

THEOREM ProcessInvariance == ProcessSpec => []ProcessInv
<1>1. ProcessInit => ProcessInv
  BY BootInit, PacingInit DEF ProcessInit, ProcessInv
<1> QED
  BY <1>1, ProcessInvStep, PTL DEF ProcessSpec

(* Whoever serves or delivers sees the whole schema (db/mod.rs:11), and    *)
(* its recorded version is true, wherever earlier starts were cut short.   *)
THEOREM SchemaComplete == ProcessSpec => []SchemaIsComplete
<1>1. ProcessInv => SchemaIsComplete
  BY DEF ProcessInv, BootInv, SchemaIsComplete
<1> QED
  BY ProcessInvariance, <1>1, PTL

(* While the relay works, its files are readable only by their owner       *)
(* (db/mod.rs:107).                                                        *)
THEOREM FilesAreOwn == ProcessSpec => []ServesFromOwnFiles
<1>1. ProcessInv => ServesFromOwnFiles
  BY DEF ProcessInv, BootInv, ServesFromOwnFiles
<1> QED
  BY ProcessInvariance, <1>1, PTL

(* Pacing (runner.rs:157): every pass that settled nothing is slept for,   *)
(* between the base and the cap.                                           *)
THEOREM Pacing == ProcessSpec => []LoopIsPaced
<1>1. ProcessInv => LoopIsPaced
  BY DEF ProcessInv, PacingInv
<1> QED
  BY ProcessInvariance, <1>1, PTL

(* A delay never outgrows the passes since the last progress.              *)
THEOREM DelaysGrow == ProcessSpec => []GrowsFromBase
<1>1. ProcessInv => GrowsFromBase
  BY DEF ProcessInv, PacingInv
<1> QED
  BY ProcessInvariance, <1>1, PTL

(* The range (backoff.rs:10) never closes below the last delay, for every  *)
(* width of the integers: saturation is enough.                            *)
THEOREM RangesStayOpen == ProcessSpec => []RangeStaysOpen
<1>1. ProcessInv => RangeStaysOpen
  BY BackoffAssumption
     DEF ProcessInv, PacingInv, RangeStaysOpen, High, Tripled, Larger, Smaller
<1> QED
  BY ProcessInvariance, <1>1, PTL
=============================================================================
