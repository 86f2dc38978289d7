------------------------- MODULE CalibrationRunProofs -------------------------
(***************************************************************************)
(* Proofs about CalibrationRun, for any budget and number of attempts: no  *)
(* call of the environment is free, a run lives once, and what a terminal  *)
(* record, its seal and the capsule claim was earned.                      *)
(*                                                                         *)
(* The files alone do not carry the invariant.  It divides the places a    *)
(* command may stand at into those before the environment is constructed,  *)
(* those that serve it, those that write the terminal record and those     *)
(* after, and says of each what its process and the files agree on.        *)
(***************************************************************************)
EXTENDS CalibrationRun, FiniteSetTheorems, TLAPS

Stages == {SetupStage, ActionStage, ExitStage}
Phases == {"NONE", "READY", "DECIDED", "TERMINAL", "NO_REQUEST"}
RunFiles ==
    [prepared : 0..3, lock : BOOLEAN, admission : {NoFile, Torn, "admitted"},
     calls : Seq(EnvironmentCalls), marker : {NoFile, Torn} \cup Stages,
     terminal : {NoFile, Torn} \cup TerminalRecords,
     seal : {NoFile, Torn} \cup SealContents, capsule : {NoFile, Torn} \cup SealContents,
     assessments : Nat]
RunDrafts == [attempt : Nat, reset : BOOLEAN]
RunMemories ==
    [calls : Nat, resets : Nat, late : BOOLEAN, phase : Phases, seen : GameStates,
     attempt : Nat, active : RunDrafts, admitted : BOOLEAN, pending : BOOLEAN,
     stuck : {"none", "denied", "unknown"},
     stage : {NoFile} \cup Stages, record : {NoFile} \cup TerminalRecords,
     after : {"none", "server", "constructor", "seal", "pack"}]
RunTypeOK ==
    /\ disk \in RunFiles /\ mem \in RunMemories
    /\ world \in [makes : Nat, calls : Nat, state : GameStates]

\* Where a command may stand.
Away == {"none", "prepare", "checked"}
Reserving == {"checked", "locked", "admission_written", "initial_admitted"}
Serving == {"made", "idle", "admitting", "calling", "acted", "assessed"}
Recording == {"marking", "marked", "recording"}
Recorded == {"recorded", "stored", "closing", "sealing", "packing"}
\* A server that may still answer, if what it writes just now should fail.
Live ==
    \/ at \in Serving
    \/ at \in Recording \cup {"recorded", "stored"} /\ mem.after = "server"

\* Until the environment is made there is nothing to account for, and without
\* an admission it is not made.
UnbegunInv ==
    /\ at \in Away \cup Reserving \cup Serving \cup Recording \cup Recorded
    /\ at \in Away => mem = NoMemory
    /\ at \in Reserving \ Away => mem = [NoMemory EXCEPT !.calls = 1, !.resets = 1]
    /\ at \notin {"none", "prepare", "checked", "locked"} => Whole(disk.admission)
    /\ at \in Reserving \/ ~Whole(disk.admission) =>
        /\ world = [makes |-> 0, calls |-> 0, state |-> "NOT_FINISHED"]
        /\ disk.calls = <<>> /\ disk.assessments = 0
        /\ disk.marker = NoFile /\ disk.terminal = NoFile
    /\ MadeOnce

\* A server's counter is the environment's and it has seen what the environment
\* shows, unless a step is in doubt, which nothing but an interruption follows.
SeesInv ==
    Live => /\ world.makes = 1 /\ disk.seal = NoFile
            /\ IF mem.stuck = "unknown"
               THEN mem.calls \in {world.calls, world.calls + 1}
               ELSE /\ mem.calls = world.calls /\ mem.seen = world.state
                    /\ disk.marker = NoFile

\* Each of its calls was assessed but for the one it still waits with, and while it
\* waits, or cannot be rid of an execution, it has no request to act on.
WaitsInv ==
    Live => /\ mem.stuck # "unknown" =>
                   world.calls = 1 + disk.assessments + IF mem.pending THEN 1 ELSE 0
            /\ mem.pending => disk.calls # <<>> /\ ~disk.calls[LastCall].denied
            /\ mem.pending \/ mem.stuck # "none" \/ at \in {"admitting", "calling", "acted"} =>
                   mem.phase = "DECIDED"
            /\ at \in Serving \ {"idle"} => mem.stuck = "none"
            /\ mem.stuck # "none" \/ at \in {"made", "admitting", "calling", "assessed"} => ~mem.pending
            /\ at = "acted" => mem.pending
            /\ at = "calling" => /\ disk.calls # <<>>
                                 /\ ~disk.calls[LastCall].denied /\ ~disk.calls[LastCall].completed
            /\ at = "made" => disk.terminal = NoFile

\* The admissions are the calls, but for at most one: the one at hand or, for ever,
\* the one after which the server had no request any more.
AccountsInv ==
    /\ world.calls <= InterruptedCalls
    /\ at = "calling" => world.calls < InterruptedCalls
    /\ Whole(disk.admission) => InterruptedCalls <= world.calls + 1
    /\ Live /\ (mem.pending \/ mem.phase = "READY" \/ at \in {"made", "admitting"}) =>
           InterruptedCalls = world.calls
    /\ \A i \in DOMAIN disk.calls : disk.calls[i].denied => ~disk.calls[i].completed

\* What a terminal record says, against the environment and the run directory.
Tells(record) ==
    /\ record.calls <= world.calls + 1
    /\ record.disposition # "partial" => record.calls >= world.calls
    /\ ObservedWin(record) => /\ record.calls = world.calls
                              /\ world.state = "WIN"
                              /\ disk.assessments = world.calls - 1
                              /\ disk.marker = NoFile
\* And against a server that goes on beside it: only after PARTIAL it may act.
Fits(record) ==
    /\ ObservedWin(record) => mem.phase = "TERMINAL"
    /\ record.disposition = "failed_infrastructure" => mem.stuck = "unknown"

RecordInv ==
    /\ at \in Recording => mem.record \in TerminalRecords /\ Tells(mem.record)
    /\ at \in {"marking", "marked"} =>
        /\ ~ObservedWin(mem.record) /\ mem.stage \in Stages
        /\ Whole(disk.terminal) => ~ObservedWin(disk.terminal)
        /\ Live => mem.stuck = "unknown"
    /\ at \in Recorded => Whole(disk.terminal)
    /\ Whole(disk.terminal) => Tells(disk.terminal)
    /\ Live => /\ at \in Recording => Fits(mem.record)
               /\ Whole(disk.terminal) => Fits(disk.terminal)

SealInv ==
    /\ ~Whole(disk.terminal) => disk.seal = NoFile
    /\ ~Whole(disk.seal) => disk.capsule = NoFile
    /\ Whole(disk.seal) => disk.seal = SealOf(disk.terminal)
    /\ Whole(disk.capsule) => disk.capsule = disk.seal
    /\ at = "packing" => Whole(disk.seal)

RunInv ==
    RunTypeOK /\ UnbegunInv /\ SeesInv /\ WaitsInv /\ AccountsInv /\ RecordInv /\ SealInv

-----------------------------------------------------------------------------
\* The admissions that count as calls.
Standing(calls) == {i \in 1..Len(calls) : ~calls[i].denied}
Counts(calls) == 1 + Cardinality(Standing(calls))

\* The source's count is this one.
LEMMA CountsInterrupted ==
    ASSUME disk.calls \in Seq(EnvironmentCalls)
    PROVE  InterruptedCalls = Counts(disk.calls)
<1>1. {i \in DOMAIN disk.calls : Undenied(disk.calls[i])} = Standing(disk.calls)
  BY DEF Undenied, Standing
<1>2. QED
  BY <1>1 DEF InterruptedCalls, Counts

\* A count is a number, and counts the run's own admission.
LEMMA CountsType ==
    ASSUME NEW calls \in Seq(EnvironmentCalls)
    PROVE  /\ Counts(calls) \in Nat \ {0}
           /\ IsFiniteSet(Standing(calls)) /\ Cardinality(Standing(calls)) \in Nat
<1>1. IsFiniteSet(1..Len(calls)) /\ Standing(calls) \subseteq 1..Len(calls)
  BY FS_Interval DEF Standing
<1>2. IsFiniteSet(Standing(calls))
  BY <1>1, FS_Subset
<1>3. QED
  BY <1>2, FS_CardinalityType DEF Counts

\* An admission that no denial revokes is one more.
LEMMA CountsAppend ==
    ASSUME NEW calls \in Seq(EnvironmentCalls), NEW call \in EnvironmentCalls, ~call.denied
    PROVE  Counts(Append(calls, call)) = Counts(calls) + 1
<1>1. Standing(Append(calls, call)) = Standing(calls) \cup {Len(calls) + 1}
  BY DEF Standing
<1>2. Len(calls) + 1 \notin Standing(calls)
  BY DEF Standing
<1>3. Cardinality(Standing(calls) \cup {Len(calls) + 1}) = Cardinality(Standing(calls)) + 1
  BY <1>2, CountsType, FS_AddElement
<1>4. QED
  BY <1>1, <1>3, CountsType DEF Counts

\* A set that lies in another but for one element is larger by at most one.
LEMMA OneFewer ==
    ASSUME NEW S, NEW T, NEW n, IsFiniteSet(T), S \subseteq T \cup {n}
    PROVE  Cardinality(S) <= Cardinality(T) + 1
<1>1. CASE n \in T
  <2>1. S \subseteq T
    BY <1>1
  <2>2. Cardinality(S) <= Cardinality(T) /\ Cardinality(S) \in Nat /\ Cardinality(T) \in Nat
    BY <2>1, FS_Subset, FS_CardinalityType
  <2>3. QED
    BY <2>2
<1>2. CASE n \notin T
  <2>1. IsFiniteSet(T \cup {n}) /\ Cardinality(T \cup {n}) = Cardinality(T) + 1
    BY <1>2, FS_AddElement
  <2>2. Cardinality(S) <= Cardinality(T \cup {n})
    BY <2>1, FS_Subset
  <2>3. QED
    BY <2>1, <2>2
<1>3. QED
  BY <1>1, <1>2

\* What is written beside the last call revokes at most that one.
LEMMA CountsMarked ==
    ASSUME NEW calls \in Seq(EnvironmentCalls), NEW marked \in Seq(EnvironmentCalls),
           Len(marked) = Len(calls),
           \A i \in 1..Len(calls) : i # Len(calls) => marked[i] = calls[i]
    PROVE  /\ Counts(marked) >= Counts(calls) - 1
           /\ marked[Len(calls)].denied => Counts(marked) <= Counts(calls)
           /\ marked[Len(calls)].denied = calls[Len(calls)].denied => Counts(marked) = Counts(calls)
<1>1. Standing(calls) \subseteq Standing(marked) \cup {Len(calls)}
  BY DEF Standing
<1>2. marked[Len(calls)].denied = calls[Len(calls)].denied => Standing(marked) = Standing(calls)
  BY DEF Standing
<1>3. Cardinality(Standing(calls)) <= Cardinality(Standing(marked)) + 1
  BY <1>1, CountsType, OneFewer
<1>4. ASSUME marked[Len(calls)].denied PROVE Cardinality(Standing(marked)) <= Cardinality(Standing(calls))
  <2>1. Standing(marked) \subseteq Standing(calls)
    BY <1>4 DEF Standing
  <2>2. QED
    BY <2>1, CountsType, FS_Subset
<1>5. QED
  BY <1>2, <1>3, <1>4, CountsType DEF Counts

-----------------------------------------------------------------------------
\* What a process starts with is a process's memory.
LEMMA NoMemoryType == NoMemory \in RunMemories
BY DEF NoMemory, NoDraft, RunDrafts, RunMemories, Phases, GameStates

\* An empty run directory fulfils the invariant.
LEMMA Starts == RunInit => RunInv
<1> SUFFICES ASSUME RunInit PROVE RunInv
  OBVIOUS
<1> USE CalibrationAssumption DEF RunInit
<1>1. RunTypeOK
  BY NoMemoryType DEF RunTypeOK, RunFiles, GameStates
<1>2. UnbegunInv
  BY DEF UnbegunInv, Whole, MadeOnce, Away, Reserving
<1>3. SeesInv /\ WaitsInv /\ RecordInv /\ SealInv
  BY DEF SeesInv, WaitsInv, RecordInv, SealInv, Live, Serving, Recording, Recorded, Whole
<1>4. AccountsInv
  <2>1. disk.calls = <<>> /\ disk.calls \in Seq(EnvironmentCalls) /\ world.calls = 0
    OBVIOUS
  <2>2. InterruptedCalls \in Nat
    BY <2>1, CountsInterrupted, CountsType
  <2>3. QED
    BY <2>1, <2>2 DEF AccountsInv, Live, Serving, Recording, Whole
<1>5. QED
  BY <1>1, <1>2, <1>3, <1>4 DEF RunInv
-----------------------------------------------------------------------------
\* What the common endings of a step do to memory, files and records.

\* A file half written is a file.
LEMMA TornType ==
    ASSUME RunTypeOK, Tears("admission") \/ Tears("marker") \/ Tears("terminal")
                      \/ Tears("seal") \/ Tears("capsule")
    PROVE  RunTypeOK'
<1>1. disk' \in RunFiles
  BY DEF RunTypeOK, RunFiles, Tears
<1>2. QED
  BY <1>1, NoMemoryType DEF RunTypeOK, Tears, Dies

\* What a process knows of its calls, beside what it is about to record.
SameMind(m, n) ==
    /\ m.calls = n.calls /\ m.seen = n.seen /\ m.phase = n.phase
    /\ m.pending = n.pending /\ m.stuck = n.stuck

\* An interrupted process holds the record that admits it knows nothing.
LEMMA TerminalizesFacts ==
    ASSUME NEW stage \in Stages, NEW memory \in RunMemories,
           NEW after \in {"server", "constructor", "seal"}, Terminalizes(stage, memory, after)
    PROVE  /\ mem' \in RunMemories /\ at' = "marking" /\ mem'.stage \in Stages
           /\ mem'.after = after /\ SameMind(mem', memory)
           /\ mem'.record \in TerminalRecords /\ mem'.record.calls = memory.calls
           /\ mem'.record.disposition = "failed_infrastructure" /\ ~ObservedWin(mem'.record)
<1> DEFINE r == Interrupted(memory.calls, memory.resets)
<1>1. /\ r \in TerminalRecords /\ r.calls = memory.calls
      /\ r.disposition = "failed_infrastructure" /\ ~ObservedWin(r)
  BY DEF Interrupted, TerminalRecord, TerminalRecords, ObservedWin, RunMemories
<1> HIDE DEF r
<1>2. /\ mem' = [memory EXCEPT !.stage = stage, !.after = after, !.record = r]
      /\ at' = "marking"
  BY DEF Terminalizes, r
<1>3. /\ mem' \in RunMemories /\ mem'.stage = stage /\ mem'.record = r /\ mem'.after = after
      /\ SameMind(mem', memory)
  BY <1>1, <1>2 DEF RunMemories, SameMind
<1>4. QED
  BY <1>1, <1>2, <1>3

\* A finalized one holds the record of its own counter and the state it saw.
LEMMA FinalizesFacts ==
    ASSUME NEW memory \in RunMemories, NEW disposition \in {"partial", "success_observed"},
           Finalizes(disposition, memory)
    PROVE  /\ mem' \in RunMemories /\ at' = "recording"
           /\ mem'.after = "server" /\ SameMind(mem', memory)
           /\ mem'.record \in TerminalRecords /\ mem'.record.calls = memory.calls
           /\ mem'.record.disposition = disposition
           /\ ObservedWin(mem'.record) <=> disposition = "success_observed"
           /\ ObservedWin(mem'.record) => memory.seen = "WIN" /\ memory.phase = "TERMINAL"
<1> DEFINE r == TerminalRecord(memory.calls, memory.resets, memory.seen, disposition)
<1>1. r \in TerminalRecords /\ r.calls = memory.calls /\ r.disposition = disposition
  BY DEF TerminalRecord, TerminalRecords, RunMemories
<1> HIDE DEF r
<1>2. /\ mem' = [memory EXCEPT !.after = "server", !.record = r] /\ at' = "recording"
      /\ (disposition = "success_observed") = Observed(memory)
  BY DEF Finalizes, r
<1>3. mem' \in RunMemories /\ mem'.record = r /\ mem'.after = "server" /\ SameMind(mem', memory)
  BY <1>1, <1>2 DEF RunMemories, SameMind
<1>4. QED
  BY <1>1, <1>2, <1>3 DEF ObservedWin, Observed

\* A contract beside the last admission changes that one entry.
LEMMA MarkFacts ==
    ASSUME RunTypeOK, disk.calls # <<>>, NEW call \in EnvironmentCalls,
           disk.calls' = [disk.calls EXCEPT ![LastCall] = call]
    PROVE  /\ disk.calls' \in Seq(EnvironmentCalls) /\ disk.calls' # <<>>
           /\ LastCall' = LastCall /\ disk.calls'[LastCall'] = call
           /\ InterruptedCalls \in Nat /\ InterruptedCalls' \in Nat
           /\ InterruptedCalls' >= InterruptedCalls - 1
           /\ call.denied => InterruptedCalls' <= InterruptedCalls
           /\ call.denied = disk.calls[LastCall].denied => InterruptedCalls' = InterruptedCalls
           /\ (\A i \in DOMAIN disk.calls : disk.calls[i].denied => ~disk.calls[i].completed)
              /\ (call.denied => ~call.completed)
              => \A i \in DOMAIN disk.calls' : disk.calls'[i].denied => ~disk.calls'[i].completed
<1> DEFINE calls == disk.calls
           marked == [calls EXCEPT ![Len(calls)] = call]
<1>1. calls \in Seq(EnvironmentCalls) /\ Len(calls) \in 1..Len(calls)
  BY DEF RunTypeOK, RunFiles
<1>2. /\ marked \in Seq(EnvironmentCalls) /\ Len(marked) = Len(calls)
      /\ marked[Len(calls)] = call
      /\ \A i \in 1..Len(calls) : i # Len(calls) => marked[i] = calls[i]
  BY <1>1
<1>3. disk.calls' = marked
  BY DEF LastCall
<1> HIDE DEF marked
<1>4. /\ Counts(marked) >= Counts(calls) - 1
      /\ call.denied => Counts(marked) <= Counts(calls)
      /\ call.denied = calls[Len(calls)].denied => Counts(marked) = Counts(calls)
      /\ Counts(marked) \in Nat /\ Counts(calls) \in Nat
  BY <1>1, <1>2, CountsMarked, CountsType
<1>5. InterruptedCalls = Counts(calls)
  BY <1>1, CountsInterrupted
<1>6. InterruptedCalls' = Counts(marked)
  <2>1. (disk.calls \in Seq(EnvironmentCalls) => InterruptedCalls = Counts(disk.calls))'
    BY CountsInterrupted, PTL
  <2>2. QED
    BY <1>2, <1>3, <2>1
<1>7. (\A i \in DOMAIN calls : calls[i].denied => ~calls[i].completed)
      /\ (call.denied => ~call.completed)
      => \A i \in DOMAIN marked : marked[i].denied => ~marked[i].completed
  BY <1>1, <1>2
<1>8. QED
  BY <1>1, <1>2, <1>3, <1>4, <1>5, <1>6, <1>7 DEF LastCall

-----------------------------------------------------------------------------
\* What the invariant says of a place, in the form the steps use it.

\* The interrupted budget is a number, and never zero.
LEMMA CountedType ==
    ASSUME RunInv
    PROVE  InterruptedCalls \in Nat \ {0} /\ InterruptedResets \in Nat
<1> DEFINE R == {i \in 1..Len(disk.calls) : UndeniedReset(disk.calls[i])}
<1>1. disk.calls \in Seq(EnvironmentCalls)
  BY DEF RunInv, RunTypeOK, RunFiles
<1>2. R \subseteq 1..Len(disk.calls) /\ IsFiniteSet(1..Len(disk.calls))
  BY <1>1, FS_Interval
<1>3. Cardinality(R) \in Nat
  BY <1>2, FS_Subset, FS_CardinalityType
<1>4. InterruptedResets = 1 + Cardinality(R)
  <2>1. {i \in DOMAIN disk.calls : UndeniedReset(disk.calls[i])} = R
    BY <1>1
  <2>2. QED
    BY <2>1 DEF InterruptedResets
<1>5. QED
  BY <1>1, <1>3, <1>4, CountsInterrupted, CountsType

\* Before any admission of a call, the one of the construction is all there is.
LEMMA NothingCounted == ASSUME disk.calls = <<>> PROVE InterruptedCalls = 1
<1>1. disk.calls \in Seq(EnvironmentCalls) /\ Standing(disk.calls) = {}
  BY DEF Standing
<1>2. InterruptedCalls = 1 + Cardinality(Standing(disk.calls))
  BY <1>1, CountsInterrupted DEF Counts
<1>3. Cardinality(Standing(disk.calls)) = 0
  BY <1>1, FS_EmptySet
<1>4. QED
  BY <1>2, <1>3

\* A live server has an admitted run that is not sealed, and its environment.
LEMMA LiveFacts ==
    ASSUME RunInv, Live
    PROVE  /\ Whole(disk.admission) /\ at \notin Reserving /\ at \notin Away
           /\ world \in [makes : {1}, calls : Nat, state : GameStates]
           /\ mem \in RunMemories /\ mem.calls \in Nat /\ mem.active \in RunDrafts
           /\ disk \in RunFiles /\ disk.calls \in Seq(EnvironmentCalls)
           /\ disk.assessments \in Nat /\ disk.seal = NoFile /\ disk.capsule = NoFile
           /\ InterruptedCalls \in Nat
           /\ world.calls <= InterruptedCalls /\ InterruptedCalls <= world.calls + 1
<1> USE DEF Whole, Away, Reserving, Serving, Recording
<1>1. /\ at \in Serving \cup Recording \cup {"recorded", "stored"}
      /\ world.makes = 1 /\ disk.seal = NoFile
  BY DEF Live, RunInv, SeesInv
<1>2. Whole(disk.admission) /\ at \notin Reserving /\ at \notin Away
  BY <1>1 DEF RunInv, UnbegunInv
<1>3. /\ mem \in RunMemories /\ mem.calls \in Nat /\ mem.active \in RunDrafts
      /\ disk \in RunFiles /\ disk.calls \in Seq(EnvironmentCalls) /\ disk.assessments \in Nat
  BY DEF RunInv, RunTypeOK, RunFiles, RunMemories
<1>4. world \in [makes : {1}, calls : Nat, state : GameStates]
  BY <1>1 DEF RunInv, RunTypeOK
<1>5. disk.capsule = NoFile
  BY <1>1 DEF RunInv, SealInv
<1>6. InterruptedCalls \in Nat /\ world.calls <= InterruptedCalls
      /\ InterruptedCalls <= world.calls + 1
  BY <1>2, CountedType DEF RunInv, AccountsInv
<1>7. QED
  BY <1>1, <1>2, <1>3, <1>4, <1>5, <1>6

\* One that still waits, acts or is stuck has no success to its name.
LEMMA WaitingFacts ==
    ASSUME RunInv, Live, Whole(disk.terminal)
    PROVE  /\ disk.terminal \in TerminalRecords
           /\ mem.phase # "TERMINAL" => ~ObservedWin(disk.terminal)
           /\ mem.stuck # "unknown" => disk.terminal.disposition # "failed_infrastructure"
           /\ mem.phase # "TERMINAL" /\ mem.stuck # "unknown" =>
                  disk.terminal.disposition = "partial"
BY DEF RunInv, RunTypeOK, RunFiles, RecordInv, Fits, Whole, TerminalRecords, ObservedWin

-----------------------------------------------------------------------------
\* Steps that leave the environment and the files as they are, but for the lock
\* and how far the run is prepared.

Undisturbed ==
    /\ \/ disk' = disk
       \/ \E held \in BOOLEAN : disk' = [disk EXCEPT !.lock = held]
       \/ \E n \in 1..3 : disk' = [disk EXCEPT !.prepared = n]
    /\ world' = world

\* Such a step leaves every file but the preparation and the lock what it was.
LEMMA UndisturbedFacts ==
    ASSUME RunTypeOK, Undisturbed
    PROVE  /\ disk' \in RunFiles /\ disk'.calls = disk.calls /\ disk'.admission = disk.admission
           /\ disk'.marker = disk.marker /\ disk'.terminal = disk.terminal
           /\ disk'.seal = disk.seal /\ disk'.capsule = disk.capsule
           /\ disk'.assessments = disk.assessments /\ world' = world
           /\ InterruptedCalls' = InterruptedCalls
<1> DEFINE Same(d) ==
        /\ d \in RunFiles /\ d.calls = disk.calls /\ d.admission = disk.admission
        /\ d.marker = disk.marker /\ d.terminal = disk.terminal /\ d.seal = disk.seal
        /\ d.capsule = disk.capsule /\ d.assessments = disk.assessments
<1>1. \A held \in BOOLEAN : Same([disk EXCEPT !.lock = held])
  BY DEF RunTypeOK, RunFiles
<1>2. \A n \in 1..3 : Same([disk EXCEPT !.prepared = n])
  BY DEF RunTypeOK, RunFiles
<1>3. Same(disk)
  BY DEF RunTypeOK
<1> HIDE DEF Same
<1>4. Same(disk') /\ world' = world
  BY <1>1, <1>2, <1>3 DEF Undisturbed
<1>5. QED
  BY <1>4 DEF Same, InterruptedCalls

\* A process that is gone answers for nothing but what it left.
LEMMA DeadStep ==
    ASSUME RunInv, Undisturbed, Dies
    PROVE  RunInv'
<1> USE DEF Whole, Away, Reserving, Serving, Recording, Recorded, Dies, Live
<1>1. RunTypeOK'
  BY UndisturbedFacts, NoMemoryType DEF RunInv, RunTypeOK
<1>2. UnbegunInv'
  BY UndisturbedFacts DEF RunInv, UnbegunInv, MadeOnce
<1>3. SeesInv' /\ WaitsInv' /\ AccountsInv'
  BY UndisturbedFacts DEF RunInv, SeesInv, WaitsInv, AccountsInv
<1>4. RecordInv'
  BY UndisturbedFacts DEF RunInv, RecordInv, Tells
<1>5. SealInv'
  BY UndisturbedFacts DEF RunInv, SealInv, SealOf
<1>6. QED
  BY <1>1, <1>2, <1>3, <1>4, <1>5 DEF RunInv

\* One that ends inside the write of a file leaves a run that claims nothing new.
LEMMA TornStep ==
    ASSUME RunInv, Dies, world' = world,
           NEW file \in {"admission", "marker", "terminal", "seal", "capsule"},
           disk' = [disk EXCEPT ![file] = Torn],
           \/ at = "locked" /\ file = "admission"
           \/ at = "marking" /\ file = "marker"
           \/ at = "recording" /\ file = "terminal" /\ disk.terminal = NoFile
           \/ at = "sealing" /\ file = "seal" /\ disk.seal = NoFile
           \/ at = "packing" /\ file = "capsule"
    PROVE  RunInv'
<1> USE DEF Whole, Away, Reserving, Serving, Recording, Recorded, Dies, Live
<1>1. /\ disk' \in RunFiles /\ disk'.calls = disk.calls
      /\ disk'.assessments = disk.assessments /\ InterruptedCalls' = InterruptedCalls
      /\ disk'.admission = IF file = "admission" THEN Torn ELSE disk.admission
      /\ disk'.marker = IF file = "marker" THEN Torn ELSE disk.marker
      /\ disk'.terminal = IF file = "terminal" THEN Torn ELSE disk.terminal
      /\ disk'.seal = IF file = "seal" THEN Torn ELSE disk.seal
      /\ disk'.capsule = IF file = "capsule" THEN Torn ELSE disk.capsule
  BY DEF RunInv, RunTypeOK, RunFiles, InterruptedCalls
<1>2. RunTypeOK'
  BY <1>1, NoMemoryType DEF RunInv, RunTypeOK
<1>3. UnbegunInv'
  BY <1>1 DEF RunInv, RunTypeOK, RunFiles, UnbegunInv, MadeOnce
<1>4. SeesInv' /\ WaitsInv' /\ AccountsInv'
  BY <1>1 DEF RunInv, SeesInv, WaitsInv, AccountsInv
<1>5. RecordInv'
  BY <1>1 DEF RunInv, RecordInv, Tells
<1>6. SealInv'
  BY <1>1 DEF RunInv, SealInv, SealOf, RecordInv
<1>7. QED
  BY <1>2, <1>3, <1>4, <1>5, <1>6 DEF RunInv

\* Before the environment is made a step answers for its place alone.
LEMMA BeforeStep ==
    ASSUME RunInv, Undisturbed, mem' \in RunMemories, UnbegunInv',
           at' \in {"prepare", "checked", "locked", "initial_admitted"}
    PROVE  RunInv'
<1> USE DEF Whole, Away, Reserving, Serving, Recording, Recorded, Live
<1>1. RunTypeOK'
  BY UndisturbedFacts DEF RunInv, RunTypeOK
<1>2. SeesInv' /\ WaitsInv' /\ AccountsInv'
  BY UndisturbedFacts DEF RunInv, SeesInv, WaitsInv, AccountsInv
<1>3. RecordInv'
  BY UndisturbedFacts DEF RunInv, RecordInv, Tells
<1>4. SealInv'
  BY UndisturbedFacts DEF RunInv, SealInv, SealOf
<1>5. QED
  BY <1>1, <1>2, <1>3, <1>4 DEF RunInv

\* A server that goes on with the same mind, beside files that changed only in
\* what marker and terminal record say.
LEMMA GoesOnStep ==
    ASSUME RunInv, Live, disk' \in RunFiles, world' = world, mem' \in RunMemories,
           SameMind(mem', mem), at' \in {"idle", "recorded", "stored"} \cup Recording,
           at' # "idle" => mem'.after = "server",
           disk'.calls = disk.calls, disk'.assessments = disk.assessments,
           disk'.admission = disk.admission, disk'.seal = disk.seal,
           disk'.capsule = disk.capsule,
           disk'.marker = disk.marker \/ mem.stuck = "unknown",
           RecordInv'
    PROVE  RunInv'
<1> USE DEF Whole, Away, Reserving, Serving, Recording, Recorded
<1>1. InterruptedCalls' = InterruptedCalls /\ LastCall' = LastCall
  BY DEF InterruptedCalls, LastCall
<1>2. RunTypeOK'
  BY DEF RunInv, RunTypeOK
<1>3. UnbegunInv'
  BY LiveFacts DEF RunInv, UnbegunInv, MadeOnce
<1>4. SeesInv'
  BY LiveFacts DEF RunInv, SeesInv, SameMind
<1>5. WaitsInv'
  BY <1>1 DEF RunInv, WaitsInv, SameMind
<1>6. AccountsInv'
  BY <1>1 DEF RunInv, AccountsInv, SameMind
<1>7. SealInv'
  BY LiveFacts DEF RunInv, SealInv
<1>8. QED
  BY <1>2, <1>3, <1>4, <1>5, <1>6, <1>7 DEF RunInv

\* A process that no longer serves, or never did, on its way to the ending.
LEMMA EndsStep ==
    ASSUME RunInv, ~Live', disk' \in RunFiles, mem' \in RunMemories,
           at' \in {"recorded", "stored", "closing", "sealing"} \cup Recording,
           Whole(disk.admission), at \notin Reserving \ {"initial_admitted"},
           world' \in [makes : {0, 1}, calls : Nat, state : GameStates],
           world'.calls <= InterruptedCalls, InterruptedCalls <= world'.calls + 1,
           disk'.calls = disk.calls, disk'.assessments = disk.assessments,
           disk'.admission = disk.admission, disk'.seal = disk.seal,
           disk'.capsule = disk.capsule,
           disk'.terminal = disk.terminal \/ ~Whole(disk.terminal),
           RecordInv'
    PROVE  RunInv'
<1> USE DEF Whole, Away, Reserving, Serving, Recording, Recorded
<1>1. InterruptedCalls' = InterruptedCalls
  BY DEF InterruptedCalls
<1>2. RunTypeOK'
  BY DEF RunInv, RunTypeOK
<1>3. UnbegunInv'
  BY DEF RunInv, UnbegunInv, MadeOnce
<1>4. SeesInv' /\ WaitsInv'
  BY DEF SeesInv, WaitsInv
<1>5. AccountsInv'
  BY <1>1 DEF RunInv, AccountsInv
<1>6. SealInv'
  BY DEF RunInv, SealInv, SealOf
<1>7. QED
  BY <1>2, <1>3, <1>4, <1>5, <1>6 DEF RunInv
-----------------------------------------------------------------------------
\* The steps of prepare and of the constructor.

LEMMA PrepareStep == ASSUME RunInv, Prepare PROVE RunInv'
<1> USE DEF Whole, Away, Reserving, Serving, Recording, Recorded
<1>1. Undisturbed
  BY DEF Prepare, InitializeLab, WriteControls, ReceiptControls, Undisturbed
<1>2. CASE ReceiptControls
  BY <1>1, <1>2, DeadStep DEF ReceiptControls
<1>3. CASE InitializeLab \/ WriteControls
  <2>1. at \in Away /\ at' = "prepare" /\ mem' = mem /\ mem = NoMemory
    BY <1>3 DEF InitializeLab, WriteControls, RunInv, UnbegunInv
  <2>2. UnbegunInv'
    BY <1>1, <2>1, UndisturbedFacts DEF RunInv, UnbegunInv, MadeOnce
  <2>3. QED
    BY <1>1, <2>1, <2>2, NoMemoryType, BeforeStep
<1>4. QED
  BY <1>2, <1>3 DEF Prepare

\* A server starts where nothing but the preparation has happened,
LEMMA ServeChecksStep == ASSUME RunInv, ServeChecks PROVE RunInv'
<1> USE DEF Whole, Away, Reserving, Serving, Recording, Recorded
<1>1. /\ Undisturbed /\ at = "none" /\ at' = "checked" /\ mem' = mem /\ mem = NoMemory
      /\ disk.admission = NoFile
  BY DEF ServeChecks, Undisturbed, RunInv, UnbegunInv
<1>2. UnbegunInv'
  BY <1>1, UndisturbedFacts DEF RunInv, UnbegunInv, MadeOnce
<1>3. QED
  BY <1>1, <1>2, NoMemoryType, BeforeStep

\* takes its lock and reserves the initial reset,
LEMMA AcquireLiveLockStep == ASSUME RunInv, AcquireLiveLock PROVE RunInv'
<1> USE DEF Whole, Away, Reserving, Serving, Recording, Recorded
<1>1. /\ Undisturbed /\ at = "checked" /\ at' = "locked"
      /\ mem' = [NoMemory EXCEPT !.calls = 1, !.resets = 1]
  BY DEF AcquireLiveLock, Undisturbed, RunInv, UnbegunInv
<1>2. mem' \in RunMemories
  BY <1>1, NoMemoryType DEF RunMemories
<1>3. UnbegunInv'
  BY <1>1, UndisturbedFacts DEF RunInv, UnbegunInv, MadeOnce
<1>4. QED
  BY <1>1, <1>2, <1>3, BeforeStep

\* and admits it before there is anything to admit.
LEMMA WriteInitialAdmissionStep == ASSUME RunInv, WriteInitialAdmission PROVE RunInv'
<1> USE DEF Whole, Away, Reserving, Serving, Recording, Recorded, Live
<1>1. CASE Tears("admission")
  <2>1. at = "locked" /\ Dies /\ world' = world /\ disk' = [disk EXCEPT !["admission"] = Torn]
    BY <1>1 DEF Tears, WriteInitialAdmission
  <2>2. QED
    BY <2>1, TornStep
<1>2. CASE /\ at = "locked" /\ at' = "admission_written"
           /\ disk' = [disk EXCEPT !.admission = "admitted"]
           /\ UNCHANGED <<receipts, wal, mem, world>>
  <2>1. /\ disk \in RunFiles /\ disk.calls = <<>> /\ disk.assessments = 0
        /\ disk.marker = NoFile /\ disk.terminal = NoFile
        /\ world = [makes |-> 0, calls |-> 0, state |-> "NOT_FINISHED"]
        /\ mem = [NoMemory EXCEPT !.calls = 1, !.resets = 1] /\ InterruptedCalls = 1
    BY <1>2, NothingCounted DEF RunInv, RunTypeOK, UnbegunInv
  <2>2. /\ disk' \in RunFiles /\ disk'.calls = disk.calls
        /\ disk'.assessments = disk.assessments /\ disk'.marker = disk.marker
        /\ disk'.terminal = disk.terminal /\ disk'.seal = disk.seal
        /\ disk'.capsule = disk.capsule /\ disk'.admission = "admitted"
        /\ InterruptedCalls' = InterruptedCalls
    BY <1>2, <2>1 DEF RunFiles, InterruptedCalls
  <2>3. RunTypeOK'
    BY <1>2, <2>2 DEF RunInv, RunTypeOK
  <2>4. UnbegunInv'
    BY <1>2, <2>1, <2>2, ContentsAssumption DEF UnbegunInv, MadeOnce
  <2>5. SeesInv' /\ WaitsInv' /\ RecordInv'
    BY <1>2, <2>1, <2>2 DEF SeesInv, WaitsInv, RecordInv
  <2>6. AccountsInv'
    BY <1>2, <2>1, <2>2 DEF RunInv, AccountsInv
  <2>7. SealInv'
    BY <1>2, <2>1, <2>2 DEF RunInv, SealInv
  <2>8. QED
    BY <2>3, <2>4, <2>5, <2>6, <2>7 DEF RunInv
<1>3. QED
  BY <1>1, <1>2 DEF WriteInitialAdmission

\* If that fails, the command ends.
LEMMA InitialAdmissionFailsStep == ASSUME RunInv, InitialAdmissionFails PROVE RunInv'
<1>1. CASE disk' = [disk EXCEPT !.lock = FALSE]
  <2>1. Undisturbed /\ Dies
    BY <1>1 DEF InitialAdmissionFails, Undisturbed
  <2>2. QED
    BY <2>1, DeadStep
<1>2. CASE disk' = [disk EXCEPT !.admission = Torn]
  <2>1. at = "locked" /\ Dies /\ world' = world /\ disk' = [disk EXCEPT !["admission"] = Torn]
    BY <1>2 DEF InitialAdmissionFails
  <2>2. QED
    BY <2>1, TornStep
<1>3. QED
  BY <1>1, <1>2 DEF InitialAdmissionFails

\* The receipt of the admission is in the ledger, or is not.
LEMMA ReceiptInitialAdmissionStep ==
    ASSUME RunInv, ReceiptInitialAdmission \/ InitialReceiptFails PROVE RunInv'
<1> USE DEF Whole, Away, Reserving, Serving, Recording, Recorded
<1>1. CASE InitialReceiptFails
  <2>1. Undisturbed /\ Dies
    BY <1>1 DEF InitialReceiptFails, Undisturbed
  <2>2. QED
    BY <2>1, DeadStep
<1>2. CASE ReceiptInitialAdmission
  <2>1. /\ Undisturbed /\ at = "admission_written" /\ at' = "initial_admitted" /\ mem' = mem
        /\ mem \in RunMemories
    BY <1>2 DEF ReceiptInitialAdmission, Undisturbed, RunInv, RunTypeOK
  <2>2. UnbegunInv'
    BY <2>1, UndisturbedFacts DEF RunInv, UnbegunInv, MadeOnce
  <2>3. QED
    BY <2>1, <2>2, BeforeStep
<1>3. QED
  BY <1>1, <1>2

\* Interrupted before it serves, a constructor ends with what may have been.
LEMMA SetupEndsStep ==
    ASSUME RunInv, Terminalizes(SetupStage, mem, "constructor"), disk' = disk,
           at \in {"initial_admitted", "made"}, disk.terminal = NoFile,
           world' \in [makes : {0, 1}, calls : Nat, state : GameStates],
           world'.calls <= mem.calls, mem.calls <= world'.calls + 1,
           world'.calls <= InterruptedCalls, InterruptedCalls <= world'.calls + 1
    PROVE  RunInv'
<1> USE DEF Whole, Away, Reserving, Serving, Recording, Recorded
<1>1. mem \in RunMemories /\ disk \in RunFiles /\ Whole(disk.admission)
  BY DEF RunInv, RunTypeOK, UnbegunInv
<1>2. /\ mem' \in RunMemories /\ at' = "marking" /\ mem'.stage \in Stages
      /\ mem'.after = "constructor"
      /\ mem'.record \in TerminalRecords /\ mem'.record.calls = mem.calls
      /\ ~ObservedWin(mem'.record)
  BY <1>1, TerminalizesFacts DEF Stages
<1>3. ~Live'
  BY <1>2 DEF Live
<1>4. RecordInv'
  <2>1. Tells(mem.record)'
    BY <1>2 DEF Tells
  <2>2. QED
    BY <1>2, <1>3, <2>1 DEF RecordInv
<1>5. QED
  BY <1>1, <1>2, <1>3, <1>4, EndsStep

\* The world once the environment has been made.
Made == [world EXCEPT !.makes = @ + 1, !.calls = @ + 1]

\* The two things the environment does, as the world records them.
LEMMA WorldFacts ==
    ASSUME RunInv
    PROVE  /\ Made \in [makes : Nat, calls : Nat, state : GameStates]
           /\ Made.makes = world.makes + 1 /\ Made.calls = world.calls + 1
           /\ Made.state = world.state
           /\ \A state \in GameStates :
                /\ Stepped(state) \in [makes : Nat, calls : Nat, state : GameStates]
                /\ Stepped(state).makes = world.makes
                /\ Stepped(state).calls = world.calls + 1
                /\ Stepped(state).state = state
<1> DEFINE makes == world.makes + 1
           calls == world.calls + 1
<1>1. world \in [makes : Nat, calls : Nat, state : GameStates] /\ makes \in Nat /\ calls \in Nat
  BY DEF RunInv, RunTypeOK
<1>2. /\ Made = [world EXCEPT !.makes = makes, !.calls = calls]
      /\ \A state : Stepped(state) = [world EXCEPT !.calls = calls, !.state = state]
  BY <1>1 DEF Made, Stepped
<1>3. makes = world.makes + 1 /\ calls = world.calls + 1
  OBVIOUS
<1> HIDE DEF makes, calls
<1>4. QED
  BY <1>1, <1>2, <1>3

\* The environment is made behind its admission, or the run is interrupted there.
LEMMA MakeEnvironmentStep == ASSUME RunInv, MakeEnvironment PROVE RunInv'
<1> USE DEF Whole, Away, Reserving, Serving, Recording, Recorded, Live
<1>1. /\ at = "initial_admitted" /\ disk' = disk /\ Whole(disk.admission)
      /\ disk.terminal = NoFile /\ disk.marker = NoFile /\ disk.calls = <<>>
      /\ disk.assessments = 0 /\ disk.seal = NoFile
      /\ world = [makes |-> 0, calls |-> 0, state |-> "NOT_FINISHED"]
      /\ mem = [NoMemory EXCEPT !.calls = 1, !.resets = 1]
      /\ InterruptedCalls = 1
  BY NothingCounted DEF MakeEnvironment, RunInv, UnbegunInv, SealInv
<1>2. /\ mem.calls = 1 /\ ~mem.pending /\ mem.phase = "NONE" /\ mem.stuck = "none"
      /\ mem.seen = "NOT_FINISHED" /\ mem.after = "none"
  BY <1>1 DEF NoMemory
<1>3. "NOT_FINISHED" \in GameStates
  BY DEF GameStates
<1>4. CASE Terminalizes(SetupStage, mem, "constructor")
  <2>1. world' \in {world, Made}
    BY DEF MakeEnvironment, Made
  <2>2. world' \in [makes : {0, 1}, calls : Nat, state : GameStates] /\ world'.calls \in {0, 1}
    BY <1>1, <1>3, <2>1, WorldFacts
  <2>3. QED
    BY <1>1, <1>2, <1>4, <2>2, SetupEndsStep
<1>5. CASE world' = Made /\ at' = "made" /\ mem' = mem
  <2>1. /\ world' \in [makes : Nat, calls : Nat, state : GameStates]
        /\ world'.makes = 1 /\ world'.calls = 1 /\ world'.state = "NOT_FINISHED"
        /\ InterruptedCalls' = InterruptedCalls
    BY <1>1, <1>3, <1>5, WorldFacts DEF InterruptedCalls
  <2>2. RunTypeOK'
    BY <1>1, <1>5, <2>1 DEF RunInv, RunTypeOK
  <2>3. UnbegunInv'
    BY <1>1, <1>5, <2>1 DEF UnbegunInv, MadeOnce
  <2>4. SeesInv' /\ WaitsInv'
    BY <1>1, <1>2, <1>5, <2>1 DEF SeesInv, WaitsInv
  <2>5. AccountsInv'
    BY <1>1, <1>5, <2>1 DEF RunInv, AccountsInv
  <2>6. RecordInv' /\ SealInv'
    BY <1>1, <1>5 DEF RunInv, RecordInv, SealInv
  <2>7. QED
    BY <2>2, <2>3, <2>4, <2>5, <2>6 DEF RunInv
<1>6. QED
  BY <1>4, <1>5 DEF MakeEnvironment, Made

\* The session is set up, or the run ends at its setup.
LEMMA SetUpSessionStep == ASSUME RunInv, SetUpSession PROVE RunInv'
<1> USE DEF Whole, Away, Reserving, Serving, Recording, Recorded
<1>1. at = "made" /\ Live /\ disk' = disk /\ world' = world
  BY DEF SetUpSession, Live
<1>2. /\ disk.terminal = NoFile /\ mem.stuck = "none" /\ ~mem.pending
      /\ mem.calls = world.calls /\ InterruptedCalls = world.calls
      /\ InterruptedCalls' = InterruptedCalls /\ LastCall' = LastCall
  BY <1>1 DEF RunInv, SeesInv, WaitsInv, AccountsInv, InterruptedCalls, LastCall
<1>3. CASE at' = "idle" /\ mem' = [mem EXCEPT !.phase = "READY"]
  <2>1. /\ mem' \in RunMemories /\ mem'.calls = mem.calls /\ mem'.seen = mem.seen
        /\ mem'.stuck = mem.stuck /\ mem'.pending = mem.pending
    BY <1>1, <1>3, LiveFacts DEF RunMemories, Phases
  <2>2. RunTypeOK'
    BY <1>1, <2>1 DEF RunInv, RunTypeOK
  <2>3. UnbegunInv'
    BY <1>1, <1>3, LiveFacts DEF RunInv, UnbegunInv, MadeOnce
  <2>4. SeesInv' /\ WaitsInv'
    BY <1>1, <1>2, <1>3, <2>1 DEF RunInv, SeesInv, WaitsInv
  <2>5. AccountsInv'
    BY <1>1, <1>2, <1>3 DEF RunInv, AccountsInv
  <2>6. RecordInv' /\ SealInv'
    BY <1>1, <1>2, <1>3 DEF RunInv, RecordInv, SealInv, SealOf
  <2>7. QED
    BY <2>2, <2>3, <2>4, <2>5, <2>6 DEF RunInv
<1>4. CASE Terminalizes(SetupStage, mem, "constructor")
  BY <1>1, <1>2, <1>4, LiveFacts, SetupEndsStep
<1>5. QED
  BY <1>3, <1>4 DEF SetUpSession
-----------------------------------------------------------------------------
\* The server's steps that touch neither its files nor the environment.

\* A server that goes on answering leaves its files and records as they stand.
LEMMA StaysStep ==
    ASSUME RunInv, Live, disk' = disk, world' = world, at' = "idle",
           mem' \in RunMemories, SameMind(mem', mem)
    PROVE  RunInv'
<1>1. RecordInv'
  BY DEF RunInv, RecordInv, Tells, Fits, Live, SameMind, Recording, Recorded
<1>2. QED
  BY <1>1, LiveFacts, GoesOnStep

LEMMA ClockRunsOutStep == ASSUME RunInv, ClockRunsOut PROVE RunInv'
<1> USE DEF Whole, Away, Reserving, Serving, Recording, Recorded
<1>1. at \in {"idle", "admitting", "calling", "acted"} /\ Live /\ Live' /\ at' = at
      /\ disk' = disk /\ world' = world /\ mem' = [mem EXCEPT !.late = TRUE]
  BY DEF ClockRunsOut, Live
<1>2. mem' \in RunMemories /\ SameMind(mem', mem)
  BY <1>1, LiveFacts DEF RunMemories, SameMind
<1>3. RunTypeOK' /\ UnbegunInv' /\ SeesInv'
  BY <1>1, <1>2, LiveFacts DEF RunInv, RunTypeOK, UnbegunInv, MadeOnce, SeesInv, SameMind
<1>4. WaitsInv'
  BY <1>1, <1>2 DEF RunInv, WaitsInv, LastCall, SameMind
<1>5. AccountsInv'
  BY <1>1, <1>2 DEF RunInv, AccountsInv, InterruptedCalls, SameMind
<1>6. RecordInv' /\ SealInv'
  BY <1>1, <1>2 DEF RunInv, RecordInv, Tells, Fits, SealInv, SealOf, SameMind
<1>7. QED
  BY <1>3, <1>4, <1>5, <1>6 DEF RunInv

\* A held draft is only remembered, or makes room for its revision.
LEMMA ActHeldStep ==
    ASSUME RunInv, NEW draft \in [attempt : 1..MaxAttempts, reset : BOOLEAN], ActHeld(draft)
    PROVE  RunInv'
<1>1. /\ at = "idle" /\ at' = "idle" /\ Live /\ disk' = disk /\ world' = world
      /\ draft \in RunDrafts
  BY CalibrationAssumption DEF ActHeld, ReadyToAct, Live, Serving, RunDrafts
<1>2. mem' \in RunMemories /\ SameMind(mem', mem)
  <2>1. CASE mem' = [mem EXCEPT !.active = draft]
    BY <1>1, <2>1, LiveFacts DEF RunMemories, SameMind
  <2>2. CASE mem' = [mem EXCEPT !.attempt = @ + 1, !.active = NoDraft]
    <3> DEFINE attempt == mem.attempt + 1
    <3>1. attempt \in Nat /\ NoDraft \in RunDrafts /\ mem \in RunMemories
      BY <1>1, LiveFacts DEF RunMemories, RunDrafts, NoDraft
    <3>2. mem' = [mem EXCEPT !.attempt = attempt, !.active = NoDraft]
      BY <2>2, <3>1 DEF RunMemories
    <3> HIDE DEF attempt
    <3>3. QED
      BY <3>1, <3>2 DEF RunMemories, SameMind
  <2>3. QED
    BY <2>1, <2>2 DEF ActHeld
<1>3. QED
  BY <1>1, <1>2, StaysStep

\* An admitted one closes the request: only now may a call be under way.
LEMMA ActAdmittedStep ==
    ASSUME RunInv, NEW draft \in [attempt : 1..MaxAttempts, reset : BOOLEAN], ActAdmitted(draft)
    PROVE  RunInv'
<1> USE DEF Whole, Away, Reserving, Serving, Recording, Recorded
<1>1. /\ at = "idle" /\ at' \in {"admitting", "idle"} /\ Live /\ Live'
      /\ disk' = disk /\ world' = world
      /\ mem.phase = "READY" /\ ~mem.pending /\ mem.stuck = "none" /\ draft \in RunDrafts
      /\ mem' = [mem EXCEPT !.admitted = TRUE, !.phase = "DECIDED", !.active = draft]
  BY CalibrationAssumption DEF ActAdmitted, ReadyToAct, Live, RunDrafts
<1>2. /\ mem' \in RunMemories /\ mem'.calls = mem.calls /\ mem'.seen = mem.seen
      /\ mem'.stuck = "none" /\ ~mem'.pending /\ mem'.phase = "DECIDED"
  BY <1>1, LiveFacts DEF RunMemories, Phases
<1>3. RunTypeOK' /\ UnbegunInv' /\ SeesInv'
  BY <1>1, <1>2, LiveFacts DEF RunInv, RunTypeOK, UnbegunInv, MadeOnce, SeesInv
<1>4. WaitsInv'
  BY <1>1, <1>2 DEF RunInv, WaitsInv
<1>5. AccountsInv'
  BY <1>1, <1>2 DEF RunInv, AccountsInv, InterruptedCalls
<1>6. RecordInv' /\ SealInv'
  BY <1>1, <1>2 DEF RunInv, RecordInv, Tells, Fits, SealInv, SealOf
<1>7. QED
  BY <1>3, <1>4, <1>5, <1>6 DEF RunInv

\* A process that settles its record tells no more than it has seen.
LEMMA FinalizesStep ==
    ASSUME RunInv, Live, at \in {"idle", "assessed"}, disk' = disk, world' = world,
           NEW memory \in RunMemories, SameMind(memory, mem),
           NEW disposition \in {"partial", "success_observed"}, Finalizes(disposition, memory)
    PROVE  RunInv'
<1> USE DEF Whole, Away, Reserving, Serving, Recording, Recorded
<1>1. /\ mem' \in RunMemories /\ at' = "recording" /\ mem'.after = "server"
      /\ mem'.record \in TerminalRecords /\ mem'.record.calls = memory.calls
      /\ mem'.record.disposition = disposition
      /\ ObservedWin(mem'.record) <=> disposition = "success_observed"
      /\ ObservedWin(mem'.record) => memory.seen = "WIN" /\ memory.phase = "TERMINAL"
      /\ SameMind(mem', memory)
  BY FinalizesFacts
<1>2. SameMind(mem', mem) /\ mem'.record.calls = mem.calls
      /\ (ObservedWin(mem'.record) => mem.seen = "WIN" /\ mem.phase = "TERMINAL")
  BY <1>1 DEF SameMind
<1>3. ObservedWin(mem'.record) =>
         /\ mem.calls = world.calls /\ world.state = "WIN" /\ disk.marker = NoFile
         /\ disk.assessments = world.calls - 1
  BY <1>2, LiveFacts DEF RunInv, SeesInv, WaitsInv
<1>4. mem.calls \in {world.calls, world.calls + 1}
  BY DEF RunInv, SeesInv
<1>5. Tells(mem.record)'
  BY <1>1, <1>2, <1>3, <1>4, LiveFacts DEF Tells
<1>6. Fits(mem.record)'
  BY <1>1, <1>2 DEF Fits, SameMind
<1>7. RecordInv'
  BY <1>1, <1>2, <1>5, <1>6 DEF RunInv, RecordInv, Tells, Fits, SameMind
<1>8. QED
  BY <1>1, <1>2, <1>7, LiveFacts, GoesOnStep

\* A budget that is spent, a WIN assessed and a stop settle the record.
LEMMA ClaimStep ==
    ASSUME RunInv, \/ \E draft \in [attempt : 1..MaxAttempts, reset : BOOLEAN] : ActDenied(draft)
                   \/ ClaimSuccess \/ Stop
    PROVE  RunInv'
<1>1. CASE ClaimSuccess \/ Stop
  <2>1. Live /\ mem \in RunMemories /\ SameMind(mem, mem)
    BY <1>1 DEF ClaimSuccess, Stop, Live, Serving, RunInv, RunTypeOK, SameMind
  <2>2. QED
    BY <1>1, <2>1, FinalizesStep DEF ClaimSuccess, Stop
<1>2. ASSUME NEW draft \in [attempt : 1..MaxAttempts, reset : BOOLEAN], ActDenied(draft)
      PROVE  RunInv'
  <2> DEFINE memory == [mem EXCEPT !.active = draft]
  <2>1. /\ Live /\ at = "idle" /\ disk' = disk /\ world' = world
        /\ Finalizes("partial", memory) /\ draft \in RunDrafts
    BY <1>2, CalibrationAssumption DEF ActDenied, ReadyToAct, Live, Serving, RunDrafts
  <2>2. memory \in RunMemories /\ SameMind(memory, mem)
    BY <2>1, LiveFacts DEF RunMemories, SameMind
  <2> HIDE DEF memory
  <2>3. QED
    BY <2>1, <2>2, FinalizesStep
<1>3. QED
  BY <1>1, <1>2

\* After an unknown effect every act turns to the marker again.
LEMMA ActRefusedStep == ASSUME RunInv, ActRefused PROVE RunInv'
<1> USE DEF Whole, Away, Reserving, Serving, Recording, Recorded
<1>1. /\ Live /\ at = "idle" /\ mem.stuck = "unknown" /\ disk' = disk /\ world' = world
      /\ mem \in RunMemories /\ mem.calls \in {world.calls, world.calls + 1}
      /\ mem.phase = "DECIDED"
  BY DEF ActRefused, Live, RunInv, RunTypeOK, SeesInv, WaitsInv
<1>2. /\ mem' \in RunMemories /\ at' = "marking" /\ mem'.stage \in Stages
      /\ mem'.after = "server" /\ SameMind(mem', mem)
      /\ mem'.record \in TerminalRecords /\ mem'.record.calls = mem.calls
      /\ ~ObservedWin(mem'.record)
  BY <1>1, TerminalizesFacts DEF ActRefused, Stages
<1>3. Tells(mem.record)' /\ Fits(mem.record)'
  BY <1>1, <1>2, LiveFacts DEF Tells, Fits, SameMind
<1>4. Whole(disk.terminal) => ~ObservedWin(disk.terminal)
  BY <1>1, WaitingFacts
<1>5. RecordInv'
  BY <1>1, <1>2, <1>3, <1>4 DEF RunInv, RecordInv, Tells, Fits, SameMind
<1>6. QED
  BY <1>1, <1>2, <1>5, LiveFacts, GoesOnStep

\* A server that closes leaves its lock and its journal behind it.
LEMMA CloseStep == ASSUME RunInv, Close \/ Die PROVE RunInv'
<1>1. Undisturbed /\ Dies
  BY DEF Close, Die, Undisturbed
<1>2. QED
  BY <1>1, DeadStep

-----------------------------------------------------------------------------
\* The server's steps that move the environment.

\* The server reserves a call by counting it.
LEMMA CountedFacts ==
    ASSUME RunInv
    PROVE  /\ Counted \in RunMemories /\ Counted.calls = mem.calls + 1
           /\ Counted.pending = mem.pending /\ Counted.phase = mem.phase
           /\ Counted.stuck = mem.stuck /\ Counted.seen = mem.seen
<1>1. mem \in RunMemories
  BY DEF RunInv, RunTypeOK
<1> DEFINE resets == IF mem.active.reset THEN mem.resets + 1 ELSE mem.resets
           calls == mem.calls + 1
<1>2. Counted = [mem EXCEPT !.calls = calls, !.resets = resets]
  BY <1>1 DEF Counted, RunMemories
<1>3. resets \in Nat /\ calls \in Nat /\ calls = mem.calls + 1
  BY <1>1 DEF RunMemories
<1> HIDE DEF resets, calls
<1>4. QED
  BY <1>1, <1>2, <1>3 DEF RunMemories

\* Where a call is under way the server is not in doubt, and a terminal record
\* beside it is no claim and no confession.
LEMMA CallingFacts ==
    ASSUME RunInv, at = "calling"
    PROVE  /\ Live /\ mem.stuck = "none" /\ ~mem.pending /\ mem.phase = "DECIDED"
           /\ mem.calls = world.calls /\ mem.seen = world.state /\ disk.marker = NoFile
           /\ world.calls = 1 + disk.assessments /\ world.calls < InterruptedCalls
           /\ disk.calls # <<>>
           /\ ~disk.calls[LastCall].denied /\ ~disk.calls[LastCall].completed
           /\ Whole(disk.terminal) =>
                  disk.terminal.disposition = "partial" /\ ~ObservedWin(disk.terminal)
<1> USE DEF Serving
<1>1. Live
  BY DEF Live
<1>2. /\ mem.stuck = "none" /\ ~mem.pending /\ mem.phase = "DECIDED"
      /\ disk.calls # <<>> /\ ~disk.calls[LastCall].denied /\ ~disk.calls[LastCall].completed
      /\ world.calls < InterruptedCalls
  BY <1>1 DEF RunInv, WaitsInv, AccountsInv
<1>3. /\ mem.calls = world.calls /\ mem.seen = world.state /\ disk.marker = NoFile
      /\ world.calls = 1 + disk.assessments
  BY <1>1, <1>2, LiveFacts DEF RunInv, SeesInv, WaitsInv
<1>4. Whole(disk.terminal) =>
         disk.terminal.disposition = "partial" /\ ~ObservedWin(disk.terminal)
  BY <1>1, <1>2, WaitingFacts
<1>5. QED
  BY <1>1, <1>2, <1>3, <1>4

\* A step that raised may have happened: it was admitted and is counted.
LEMMA StepRaisesStep == ASSUME RunInv, StepRaises PROVE RunInv'
<1> USE DEF Whole, Away, Reserving, Serving, Recording, Recorded
<1>1. at = "calling" /\ disk' = disk
  BY DEF StepRaises
<1>2. NextStates \subseteq GameStates
  BY DEF NextStates, GameStates
<1>3. /\ world' \in [makes : {1}, calls : Nat, state : GameStates]
      /\ world'.calls \in {world.calls, world.calls + 1}
  <2>1. CASE world' = world
    BY <1>1, <2>1, LiveFacts, CallingFacts
  <2>2. ASSUME NEW state \in NextStates, world' = Stepped(state)
        PROVE  /\ world' \in [makes : {1}, calls : Nat, state : GameStates]
               /\ world'.calls \in {world.calls, world.calls + 1}
    BY <1>1, <1>2, <2>2, WorldFacts, LiveFacts, CallingFacts
  <2>3. QED
    BY <2>1, <2>2 DEF StepRaises
<1> DEFINE memory == [Counted EXCEPT !.stuck = "unknown"]
<1>4. /\ memory \in RunMemories /\ memory.calls = mem.calls + 1 /\ memory.stuck = "unknown"
      /\ ~memory.pending /\ memory.phase = "DECIDED"
  BY <1>1, CountedFacts, CallingFacts DEF RunMemories
<1>5. Terminalizes(ActionStage, memory, "server")
  BY DEF StepRaises
<1> HIDE DEF memory
<1>6. /\ mem' \in RunMemories /\ at' = "marking" /\ mem'.stage \in Stages
      /\ mem'.after = "server" /\ mem'.calls = mem.calls + 1 /\ mem'.stuck = "unknown"
      /\ ~mem'.pending /\ mem'.phase = "DECIDED"
      /\ mem'.record \in TerminalRecords /\ mem'.record.calls = mem.calls + 1
      /\ ~ObservedWin(mem'.record)
  BY <1>4, <1>5, TerminalizesFacts DEF Stages, SameMind
<1>7. Live' /\ InterruptedCalls' = InterruptedCalls
  BY <1>1, <1>6 DEF Live, InterruptedCalls
<1>8. RunTypeOK' /\ UnbegunInv'
  BY <1>1, <1>3, <1>6, LiveFacts, CallingFacts DEF RunInv, RunTypeOK, UnbegunInv, MadeOnce
<1>9. SeesInv' /\ WaitsInv'
  BY <1>1, <1>3, <1>6, LiveFacts, CallingFacts DEF SeesInv, WaitsInv
<1>10. AccountsInv'
  BY <1>1, <1>3, <1>6, <1>7, LiveFacts, CallingFacts DEF RunInv, AccountsInv
<1>11. RecordInv'
  <2>1. Tells(mem.record)' /\ Fits(mem.record)'
    BY <1>1, <1>3, <1>6, LiveFacts, CallingFacts DEF Tells, Fits
  <2>2. Whole(disk.terminal)' => Tells(disk.terminal)' /\ Fits(disk.terminal)'
    <3>1. Whole(disk.terminal) => disk.terminal \in TerminalRecords /\ Tells(disk.terminal)
      BY DEF RunInv, RunTypeOK, RunFiles, RecordInv
    <3>2. QED
      BY <1>1, <1>3, <1>6, <3>1, LiveFacts, CallingFacts DEF Tells, Fits, TerminalRecords
  <2>3. QED
    BY <1>1, <1>6, <2>1, <2>2, CallingFacts DEF RecordInv
<1>12. SealInv'
  BY <1>1, <1>6, LiveFacts, CallingFacts DEF SealInv
<1>13. QED
  BY <1>8, <1>9, <1>10, <1>11, <1>12 DEF RunInv

\* A step that returned happened, and waits for its assessment.
LEMMA StepCompletesStep == ASSUME RunInv, StepCompletes PROVE RunInv'
<1> USE DEF Whole, Away, Reserving, Serving, Recording, Recorded
<1>1. at = "calling" /\ at' = "acted" /\ disk' = disk /\ Live'
  BY DEF StepCompletes, Live
<1>2. PICK state \in NextStates :
          world' = Stepped(state) /\ mem' = [Counted EXCEPT !.pending = TRUE, !.seen = state]
  BY DEF StepCompletes
<1>3. state \in GameStates
  BY <1>2 DEF NextStates, GameStates
<1>4. /\ mem' \in RunMemories /\ mem'.calls = mem.calls + 1 /\ mem'.pending /\ mem'.seen = state
      /\ mem'.stuck = "none" /\ mem'.phase = "DECIDED"
  BY <1>1, <1>2, <1>3, CountedFacts, CallingFacts DEF RunMemories
<1>5. /\ world' \in [makes : {1}, calls : Nat, state : GameStates]
      /\ world'.calls = world.calls + 1 /\ world'.state = state
      /\ InterruptedCalls' = InterruptedCalls /\ LastCall' = LastCall
  BY <1>1, <1>2, <1>3, WorldFacts, LiveFacts, CallingFacts DEF InterruptedCalls, LastCall
<1>6. RunTypeOK' /\ UnbegunInv'
  BY <1>1, <1>4, <1>5, LiveFacts, CallingFacts DEF RunInv, RunTypeOK, UnbegunInv, MadeOnce
<1>7. SeesInv' /\ WaitsInv'
  BY <1>1, <1>4, <1>5, LiveFacts, CallingFacts DEF SeesInv, WaitsInv
<1>8. AccountsInv'
  BY <1>1, <1>4, <1>5, LiveFacts, CallingFacts DEF RunInv, AccountsInv
<1>9. RecordInv'
  <2>1. Whole(disk.terminal)' => Tells(disk.terminal)' /\ Fits(disk.terminal)'
    <3>1. Whole(disk.terminal) => disk.terminal \in TerminalRecords /\ Tells(disk.terminal)
      BY DEF RunInv, RunTypeOK, RunFiles, RecordInv
    <3>2. QED
      BY <1>1, <1>4, <1>5, <3>1, LiveFacts, CallingFacts DEF Tells, Fits, TerminalRecords
  <2>2. QED
    BY <1>1, <2>1 DEF RecordInv
<1>10. SealInv'
  BY <1>1, LiveFacts, CallingFacts DEF SealInv
<1>11. QED
  BY <1>6, <1>7, <1>8, <1>9, <1>10 DEF RunInv
-----------------------------------------------------------------------------
\* The steps that write beside the calls.

\* A step that writes calls and assessments leaves the other files.
LEMMA CallsWritten ==
    ASSUME RunInv, NEW calls, NEW n \in Nat, calls \in Seq(EnvironmentCalls),
           disk' = [disk EXCEPT !.calls = calls, !.assessments = n]
    PROVE  /\ disk' \in RunFiles /\ disk'.calls = calls /\ disk'.assessments = n
           /\ disk'.admission = disk.admission /\ disk'.marker = disk.marker
           /\ disk'.terminal = disk.terminal /\ disk'.seal = disk.seal
           /\ disk'.capsule = disk.capsule
BY DEF RunInv, RunTypeOK, RunFiles

\* Beside a server, nothing but its own accounts depends on the calls.
LEMMA BesideStep ==
    ASSUME RunInv, Live, disk' \in RunFiles, mem' \in RunMemories, world' = world,
           at' \in Serving \cup Recording \cup {"none"}, at' = "none" => mem' = NoMemory,
           disk'.admission = disk.admission, disk'.marker = disk.marker,
           disk'.terminal = disk.terminal, disk'.seal = disk.seal, disk'.capsule = disk.capsule
    PROVE  RunTypeOK' /\ UnbegunInv' /\ SealInv'
<1> USE DEF Whole, Away, Reserving, Serving, Recording, Recorded
<1>1. RunTypeOK'
  BY DEF RunInv, RunTypeOK
<1>2. UnbegunInv'
  BY LiveFacts DEF RunInv, UnbegunInv, MadeOnce
<1>3. SealInv'
  BY LiveFacts DEF RunInv, SealInv
<1>4. QED
  BY <1>1, <1>2, <1>3

\* A call is admitted, whole or torn, before it is made.
LEMMA WriteCallAdmissionStep == ASSUME RunInv, WriteCallAdmission PROVE RunInv'
<1> USE DEF Whole, Away, Reserving, Serving, Recording, Recorded
<1>1. /\ at = "admitting" /\ Live /\ world' = world
      /\ ~mem.pending /\ mem.stuck = "none" /\ mem.phase = "DECIDED"
      /\ InterruptedCalls = world.calls
  BY DEF WriteCallAdmission, Live, RunInv, WaitsInv, AccountsInv
<1> DEFINE whole == Admission(mem.active.reset)
           torn == [Admission(mem.active.reset) EXCEPT !.torn = TRUE]
<1>2. /\ whole \in EnvironmentCalls /\ ~whole.denied /\ ~whole.completed
      /\ torn \in EnvironmentCalls /\ ~torn.denied /\ ~torn.completed
  BY <1>1, LiveFacts DEF Admission, EnvironmentCalls, RunDrafts
<1> HIDE DEF whole, torn
<1>3. PICK call \in {whole, torn} :
          /\ disk' = [disk EXCEPT !.calls = Append(disk.calls, call)]
          /\ \/ at' \in {"calling", "idle"} /\ mem' = mem
             \/ at' = "none" /\ mem' = NoMemory
  <2>1. \/ /\ disk' = [disk EXCEPT !.calls = Append(disk.calls, whole)]
           /\ at' \in {"calling", "idle"} /\ mem' = mem
        \/ /\ disk' = [disk EXCEPT !.calls = Append(disk.calls, torn)]
           /\ (at' = "none" /\ mem' = NoMemory) \/ (at' = "idle" /\ mem' = mem)
    BY DEF WriteCallAdmission, Dies, whole, torn
  <2>2. QED
    BY <2>1
<1> DEFINE calls == Append(disk.calls, call)
<1>4. /\ calls \in Seq(EnvironmentCalls) /\ Len(calls) = Len(disk.calls) + 1 /\ calls # <<>>
      /\ calls[Len(calls)] = call
      /\ \A i \in 1..Len(calls) : (i <= Len(disk.calls) /\ calls[i] = disk.calls[i]) \/ calls[i] = call
      /\ Counts(calls) = Counts(disk.calls) + 1
  BY <1>1, <1>2, CountsAppend, LiveFacts
<1> HIDE DEF calls
<1>5. disk' = [disk EXCEPT !.calls = calls, !.assessments = disk.assessments]
  BY <1>3 DEF calls, RunInv, RunTypeOK, RunFiles
<1>6. /\ disk' \in RunFiles /\ disk'.calls = calls /\ disk'.assessments = disk.assessments
      /\ disk'.admission = disk.admission /\ disk'.marker = disk.marker
      /\ disk'.terminal = disk.terminal /\ disk'.seal = disk.seal
      /\ disk'.capsule = disk.capsule
  BY <1>1, <1>4, <1>5, CallsWritten, LiveFacts
<1>7. mem' \in RunMemories
  BY <1>1, <1>3, NoMemoryType, LiveFacts
<1>8. RunTypeOK' /\ UnbegunInv' /\ SealInv'
  BY <1>1, <1>3, <1>6, <1>7, BesideStep
<1>9. SeesInv'
  BY <1>1, <1>3, <1>6 DEF RunInv, SeesInv, Live
<1>10. WaitsInv'
  <2>1. disk.calls' # <<>> /\ ~disk.calls'[LastCall'].denied /\ ~disk.calls'[LastCall'].completed
    BY <1>2, <1>4, <1>6 DEF LastCall
  <2>2. QED
    BY <1>1, <1>3, <1>6, <2>1 DEF RunInv, WaitsInv, Live
<1>11. AccountsInv'
  <2>1. InterruptedCalls' = InterruptedCalls + 1 /\ InterruptedCalls \in Nat
    <3>1. (disk.calls \in Seq(EnvironmentCalls) => InterruptedCalls = Counts(disk.calls))'
      BY CountsInterrupted, PTL
    <3>2. InterruptedCalls = Counts(disk.calls)
      BY <1>1, CountsInterrupted, LiveFacts
    <3>3. QED
      BY <1>1, <1>4, <1>6, <3>1, <3>2, LiveFacts
  <2>2. \A i \in DOMAIN calls : calls[i].denied => ~calls[i].completed
    BY <1>1, <1>2, <1>4, LiveFacts DEF RunInv, AccountsInv
  <2>3. QED
    BY <1>1, <1>3, <1>6, <2>1, <2>2, LiveFacts DEF AccountsInv, Live
<1>12. RecordInv'
  BY <1>1, <1>3, <1>6 DEF RunInv, RecordInv, Tells, Fits, Live
<1>13. QED
  BY <1>8, <1>9, <1>10, <1>11, <1>12 DEF RunInv

\* The last call's contract is marked.
LEMMA MarkStep ==
    ASSUME RunInv, Live, disk.calls # <<>>, NEW call \in EnvironmentCalls,
           NEW n \in Nat,
           disk' = [disk EXCEPT !.calls = [disk.calls EXCEPT ![LastCall] = call],
                                !.assessments = n]
    PROVE  /\ disk' \in RunFiles /\ disk'.assessments = n
           /\ disk'.admission = disk.admission /\ disk'.marker = disk.marker
           /\ disk'.terminal = disk.terminal /\ disk'.seal = disk.seal
           /\ disk'.capsule = disk.capsule
           /\ disk.calls' # <<>> /\ disk'.calls[LastCall'] = call
           /\ InterruptedCalls' \in Nat /\ InterruptedCalls' >= InterruptedCalls - 1
           /\ call.denied => InterruptedCalls' <= InterruptedCalls
           /\ call.denied = disk.calls[LastCall].denied => InterruptedCalls' = InterruptedCalls
           /\ (call.denied => ~call.completed)
              => \A i \in DOMAIN disk.calls' : disk.calls'[i].denied => ~disk.calls'[i].completed
<1> DEFINE calls == [disk.calls EXCEPT ![LastCall] = call]
<1>1. calls \in Seq(EnvironmentCalls)
  BY DEF RunInv, RunTypeOK, RunFiles, LastCall
<1>2. disk' = [disk EXCEPT !.calls = calls, !.assessments = n]
  OBVIOUS
<1> HIDE DEF calls
<1>3. /\ disk' \in RunFiles /\ disk'.calls = calls /\ disk'.assessments = n
      /\ disk'.admission = disk.admission /\ disk'.marker = disk.marker
      /\ disk'.terminal = disk.terminal /\ disk'.seal = disk.seal
      /\ disk'.capsule = disk.capsule
  BY <1>1, <1>2, CallsWritten
<1>4. disk.calls' = [disk.calls EXCEPT ![LastCall] = call]
  BY <1>3 DEF calls
<1>5. RunTypeOK /\ \A i \in DOMAIN disk.calls : disk.calls[i].denied => ~disk.calls[i].completed
  BY DEF RunInv, AccountsInv
<1>6. QED
  BY <1>3, <1>4, <1>5, MarkFacts

\* The last call is a call.
LEMMA MarkedTypes ==
    ASSUME RunInv, Live, disk.calls # <<>>
    PROVE  disk.calls[LastCall] \in EnvironmentCalls
<1>1. disk.calls \in Seq(EnvironmentCalls) /\ LastCall \in 1..Len(disk.calls)
  BY LiveFacts DEF LastCall
<1>2. QED
  BY <1>1

\* A call denied had no effect, and is taken from the count; if the denial cannot
\* be recorded, the execution stays with the server and is never made.
LEMMA StepDeniedStep == ASSUME RunInv, StepDenied PROVE RunInv'
<1> USE DEF Whole, Away, Reserving, Serving, Recording, Recorded
<1>1. at = "calling" /\ Live /\ world' = world /\ disk.calls # <<>>
  BY CallingFacts DEF StepDenied
<1>2. disk.calls[LastCall] \in EnvironmentCalls /\ disk \in RunFiles /\ disk.assessments \in Nat
  BY <1>1, MarkedTypes, LiveFacts
<1>3. PICK written \in BOOLEAN :
          /\ disk' = [disk EXCEPT !.calls[LastCall].denied = written]
          /\ \/ Finalizes("partial", mem)
             \/ mem' = [mem EXCEPT !.stuck = "denied"] /\ at' = "idle"
  BY DEF StepDenied
<1> DEFINE call == [disk.calls[LastCall] EXCEPT !.denied = written]
           n == disk.assessments
<1>4. call \in EnvironmentCalls /\ (call.denied => ~call.completed) /\ call.denied = written
  BY <1>1, <1>2, CallingFacts DEF EnvironmentCalls
<1>5. disk' = [disk EXCEPT !.calls = [disk.calls EXCEPT ![LastCall] = call], !.assessments = n]
  BY <1>2, <1>3 DEF RunFiles
<1>0. n = disk.assessments /\ n \in Nat
  BY <1>2
<1> HIDE DEF call, n
<1>6. /\ disk' \in RunFiles /\ disk'.assessments = disk.assessments
      /\ disk'.admission = disk.admission /\ disk'.marker = disk.marker
      /\ disk'.terminal = disk.terminal /\ disk'.seal = disk.seal
      /\ disk'.capsule = disk.capsule
      /\ InterruptedCalls' \in Nat /\ InterruptedCalls' >= InterruptedCalls - 1
      /\ InterruptedCalls' <= InterruptedCalls
      /\ \A i \in DOMAIN disk.calls' : disk.calls'[i].denied => ~disk.calls'[i].completed
  <2>1. /\ disk' \in RunFiles /\ disk'.assessments = n
        /\ disk'.admission = disk.admission /\ disk'.marker = disk.marker
        /\ disk'.terminal = disk.terminal /\ disk'.seal = disk.seal
        /\ disk'.capsule = disk.capsule
        /\ disk.calls' # <<>> /\ disk'.calls[LastCall'] = call
        /\ InterruptedCalls' \in Nat /\ InterruptedCalls' >= InterruptedCalls - 1
        /\ call.denied => InterruptedCalls' <= InterruptedCalls
        /\ call.denied = disk.calls[LastCall].denied => InterruptedCalls' = InterruptedCalls
        /\ (call.denied => ~call.completed)
           => \A i \in DOMAIN disk.calls' : disk.calls'[i].denied => ~disk.calls'[i].completed
    BY <1>0, <1>1, <1>2, <1>4, <1>5, MarkStep
  <2>2. InterruptedCalls' <= InterruptedCalls
    <3>1. CASE call.denied
      BY <2>1, <3>1, CountedType
    <3>2. CASE ~call.denied
      <4>1. call.denied = disk.calls[LastCall].denied
        BY <1>1, <1>2, <1>4, <3>2, CallingFacts DEF EnvironmentCalls, StepDenied
      <4>2. QED
        BY <2>1, <4>1, CountedType
    <3>3. QED
      BY <3>1, <3>2
  <2>3. QED
    BY <1>0, <1>4, <2>1, <2>2
<1>7. /\ mem' \in RunMemories /\ at' \in {"idle", "recording"} /\ Live'
      /\ mem'.calls = mem.calls /\ mem'.seen = mem.seen /\ mem'.phase = "DECIDED"
      /\ ~mem'.pending /\ mem'.stuck \in {"none", "denied"}
      /\ at' = "recording" => /\ mem'.record \in TerminalRecords /\ mem'.record.calls = mem.calls
                              /\ mem'.record.disposition = "partial" /\ ~ObservedWin(mem'.record)
  <2>1. mem \in RunMemories
    BY DEF RunInv, RunTypeOK
  <2>2. CASE Finalizes("partial", mem)
    BY <1>1, <2>1, <2>2, FinalizesFacts, CallingFacts DEF SameMind, Live
  <2>3. CASE mem' = [mem EXCEPT !.stuck = "denied"] /\ at' = "idle"
    BY <1>1, <2>1, <2>3, CallingFacts DEF RunMemories, Live
  <2>4. QED
    BY <1>3, <2>2, <2>3
<1>8. RunTypeOK' /\ UnbegunInv' /\ SealInv'
  BY <1>1, <1>6, <1>7, BesideStep
<1>9. SeesInv' /\ WaitsInv'
  BY <1>1, <1>6, <1>7, LiveFacts, CallingFacts DEF SeesInv, WaitsInv
<1>10. AccountsInv'
  BY <1>1, <1>6, <1>7, LiveFacts, CallingFacts DEF AccountsInv
<1>11. RecordInv'
  <2>1. at' = "recording" => Tells(mem.record)' /\ Fits(mem.record)'
    BY <1>1, <1>6, <1>7, LiveFacts, CallingFacts DEF Tells, Fits
  <2>2. Whole(disk.terminal)' => Tells(disk.terminal)' /\ Fits(disk.terminal)'
    BY <1>1, <1>6, <1>7, CallingFacts DEF RunInv, RecordInv, Tells, Fits
  <2>3. QED
    BY <1>7, <2>1, <2>2 DEF RecordInv
<1>12. QED
  BY <1>8, <1>9, <1>10, <1>11 DEF RunInv

\* Its completion is written, or only warned of.
LEMMA PersistCompletionStep == ASSUME RunInv, PersistCompletion PROVE RunInv'
<1> USE DEF Whole, Away, Reserving, Serving, Recording, Recorded
<1>1. /\ at = "acted" /\ at' = "idle" /\ Live /\ Live' /\ world' = world /\ mem' = mem
      /\ mem.pending /\ mem.phase = "DECIDED" /\ mem.stuck = "none"
      /\ disk.calls # <<>> /\ ~disk.calls[LastCall].denied
  BY DEF PersistCompletion, Live, RunInv, WaitsInv
<1>2. /\ disk.calls[LastCall] \in EnvironmentCalls /\ disk.assessments \in Nat
      /\ disk \in RunFiles /\ mem \in RunMemories
  BY <1>1, MarkedTypes, LiveFacts
<1>3. PICK written \in BOOLEAN : disk' = [disk EXCEPT !.calls[LastCall].completed = written]
  BY DEF PersistCompletion
<1> DEFINE call == [disk.calls[LastCall] EXCEPT !.completed = written]
           n == disk.assessments
<1>4. call \in EnvironmentCalls /\ ~call.denied
  BY <1>1, <1>2 DEF EnvironmentCalls
<1>5. disk' = [disk EXCEPT !.calls = [disk.calls EXCEPT ![LastCall] = call], !.assessments = n]
  BY <1>2, <1>3 DEF RunFiles
<1>0. n = disk.assessments /\ n \in Nat
  BY <1>2
<1> HIDE DEF call, n
<1>6. /\ disk' \in RunFiles /\ disk'.assessments = disk.assessments
      /\ disk'.admission = disk.admission /\ disk'.marker = disk.marker
      /\ disk'.terminal = disk.terminal /\ disk'.seal = disk.seal
      /\ disk'.capsule = disk.capsule
      /\ disk.calls' # <<>> /\ disk'.calls[LastCall'] = call
      /\ InterruptedCalls' = InterruptedCalls
      /\ \A i \in DOMAIN disk.calls' : disk.calls'[i].denied => ~disk.calls'[i].completed
  <2>1. /\ disk' \in RunFiles /\ disk'.assessments = n
        /\ disk'.admission = disk.admission /\ disk'.marker = disk.marker
        /\ disk'.terminal = disk.terminal /\ disk'.seal = disk.seal
        /\ disk'.capsule = disk.capsule
        /\ disk.calls' # <<>> /\ disk'.calls[LastCall'] = call
        /\ InterruptedCalls' \in Nat /\ InterruptedCalls' >= InterruptedCalls - 1
        /\ call.denied => InterruptedCalls' <= InterruptedCalls
        /\ call.denied = disk.calls[LastCall].denied => InterruptedCalls' = InterruptedCalls
        /\ (call.denied => ~call.completed)
           => \A i \in DOMAIN disk.calls' : disk.calls'[i].denied => ~disk.calls'[i].completed
    BY <1>0, <1>1, <1>2, <1>4, <1>5, MarkStep
  <2>2. call.denied = disk.calls[LastCall].denied
    BY <1>1, <1>2, <1>4 DEF EnvironmentCalls
  <2>3. QED
    BY <1>0, <1>4, <2>1, <2>2
<1>7. RunTypeOK' /\ UnbegunInv' /\ SealInv'
  BY <1>1, <1>2, <1>6, BesideStep
<1>8. SeesInv' /\ WaitsInv'
  BY <1>1, <1>4, <1>6 DEF RunInv, SeesInv, WaitsInv
<1>9. AccountsInv'
  BY <1>1, <1>6, LiveFacts DEF RunInv, AccountsInv
<1>10. RecordInv'
  BY <1>1, <1>6 DEF RunInv, RecordInv, Tells, Fits
<1>11. QED
  BY <1>7, <1>8, <1>9, <1>10 DEF RunInv

\* assess writes what is missing and frees the server for the next call.
LEMMA AssessStep == ASSUME RunInv, Assess PROVE RunInv'
<1> USE DEF Whole, Away, Reserving, Serving, Recording, Recorded
<1>1. /\ at = "idle" /\ Live /\ world' = world /\ mem.pending /\ mem.phase = "DECIDED"
      /\ mem.stuck = "none" /\ disk.calls # <<>> /\ ~disk.calls[LastCall].denied
      /\ world.calls = 1 + disk.assessments + 1 /\ InterruptedCalls = world.calls
  BY DEF Assess, Live, RunInv, WaitsInv, AccountsInv
<1>2. disk.calls[LastCall] \in EnvironmentCalls /\ disk.assessments \in Nat /\ disk \in RunFiles
  BY <1>1, MarkedTypes, LiveFacts
<1>3. PICK completed \in BOOLEAN, assessed \in BOOLEAN :
         disk' = [disk EXCEPT !.assessments = @ + 1, !.calls[LastCall] =
                      [@ EXCEPT !.completed = completed, !.assessed = assessed]]
  BY DEF Assess
<1> DEFINE call == [disk.calls[LastCall] EXCEPT !.completed = completed, !.assessed = assessed]
           n == disk.assessments + 1
<1>4. call \in EnvironmentCalls /\ ~call.denied /\ n \in Nat
  <2> DEFINE c == disk.calls[LastCall]
  <2>1. c \in EnvironmentCalls /\ ~c.denied
    BY <1>1, <1>2
  <2> HIDE DEF c
  <2>2. [c EXCEPT !.completed = completed, !.assessed = assessed] \in EnvironmentCalls
        /\ ~[c EXCEPT !.completed = completed, !.assessed = assessed].denied
    BY <2>1 DEF EnvironmentCalls
  <2>3. QED
    BY <1>2, <2>2 DEF c
<1>5. disk' = [disk EXCEPT !.calls = [disk.calls EXCEPT ![LastCall] = call], !.assessments = n]
  BY <1>2, <1>3 DEF RunFiles
<1>6. /\ mem' \in RunMemories /\ mem'.calls = mem.calls /\ mem'.seen = mem.seen
      /\ ~mem'.pending /\ mem'.stuck = "none"
      /\ at' \in {"assessed", "idle"} /\ Live'
  <2>1. mem \in RunMemories /\ NoDraft \in RunDrafts
    BY DEF RunInv, RunTypeOK, RunDrafts, NoDraft
  <2>2. CASE mem.seen = "WIN"
    <3>1. /\ mem' = [mem EXCEPT !.pending = FALSE, !.phase = "TERMINAL"]
          /\ at' \in {"assessed", "idle"}
      BY <2>2 DEF Assess
    <3>2. QED
      BY <1>1, <2>1, <3>1 DEF RunMemories, Phases, Live
  <2>3. CASE mem.seen # "WIN"
    <3>1. PICK phase \in {"READY", "NO_REQUEST"} :
              mem' = [mem EXCEPT !.pending = FALSE, !.attempt = 1, !.active = NoDraft,
                                 !.admitted = FALSE, !.phase = phase]
      BY <2>3 DEF Assess
    <3>2. at' = "idle" /\ phase \in Phases
      BY <2>3, <3>1 DEF Assess, Phases
    <3>3. QED
      BY <1>1, <2>1, <3>1, <3>2 DEF RunMemories, Live
  <2>4. QED
    BY <2>2, <2>3
<1>7. n = disk.assessments + 1
  OBVIOUS
<1> HIDE DEF call, n
<1>8. /\ disk' \in RunFiles /\ disk'.assessments = disk.assessments + 1
      /\ disk'.admission = disk.admission /\ disk'.marker = disk.marker
      /\ disk'.terminal = disk.terminal /\ disk'.seal = disk.seal
      /\ disk'.capsule = disk.capsule
      /\ disk.calls' # <<>> /\ disk'.calls[LastCall'] = call
      /\ InterruptedCalls' = InterruptedCalls
      /\ \A i \in DOMAIN disk.calls' : disk.calls'[i].denied => ~disk.calls'[i].completed
  BY <1>1, <1>2, <1>4, <1>5, <1>7, MarkStep DEF EnvironmentCalls
<1>9. RunTypeOK' /\ UnbegunInv' /\ SealInv'
  BY <1>1, <1>6, <1>8, BesideStep
<1>10. SeesInv' /\ WaitsInv'
  BY <1>1, <1>2, <1>4, <1>6, <1>8 DEF RunInv, SeesInv, WaitsInv
<1>11. AccountsInv'
  BY <1>1, <1>6, <1>8, LiveFacts DEF RunInv, AccountsInv
<1>12. RecordInv'
  <2>1. Whole(disk.terminal) => ~ObservedWin(disk.terminal)
                                /\ disk.terminal.disposition # "failed_infrastructure"
    BY <1>1, WaitingFacts
  <2>2. QED
    BY <1>1, <1>6, <1>8, <2>1 DEF RunInv, RecordInv, Tells, Fits
<1>13. QED
  BY <1>9, <1>10, <1>11, <1>12 DEF RunInv
-----------------------------------------------------------------------------
\* The steps that write the terminal record, the seal and the capsule.

\* Where the record is being written, a run is admitted and its environment counted.
LEMMA EndingFacts ==
    ASSUME RunInv, at \in Recording \cup Recorded
    PROVE  /\ Whole(disk.admission) /\ disk \in RunFiles /\ mem \in RunMemories
           /\ world \in [makes : {0, 1}, calls : Nat, state : GameStates]
           /\ world.calls <= InterruptedCalls /\ InterruptedCalls <= world.calls + 1
           /\ InterruptedCalls \in Nat
           /\ at \notin Reserving
<1> USE DEF Whole, Away, Reserving, Serving, Recording, Recorded
<1>1. /\ Whole(disk.admission) /\ disk \in RunFiles /\ mem \in RunMemories
      /\ world \in [makes : {0, 1}, calls : Nat, state : GameStates]
  BY DEF RunInv, RunTypeOK, UnbegunInv, MadeOnce
<1>2. /\ InterruptedCalls \in Nat
      /\ world.calls <= InterruptedCalls /\ InterruptedCalls <= world.calls + 1
  BY <1>1, CountedType DEF RunInv, AccountsInv
<1>3. QED
  BY <1>1, <1>2

\* The writer goes from file to receipt to file, a server or not.
LEMMA OnwardStep ==
    ASSUME RunInv, mem' = mem, world' = world, disk' \in RunFiles,
           at \in Recording \cup {"recorded", "stored"},
           at' \in Recording \cup {"recorded", "stored"},
           disk'.calls = disk.calls, disk'.assessments = disk.assessments,
           disk'.admission = disk.admission, disk'.seal = disk.seal,
           disk'.capsule = disk.capsule,
           disk'.marker = disk.marker \/ (Live => mem.stuck = "unknown"),
           disk'.terminal = disk.terminal \/ ~Whole(disk.terminal),
           RecordInv'
    PROVE  RunInv'
<1>1. at \in Recording \cup Recorded
  BY DEF Recorded
<1>2. CASE Live
  <2>1. mem'.after = "server" /\ SameMind(mem', mem) /\ mem' \in RunMemories
    BY <1>1, <1>2, EndingFacts DEF Live, Serving, Recording, SameMind
  <2>2. QED
    BY <1>2, <2>1, GoesOnStep
<1>3. CASE ~Live
  <2>1. ~Live' /\ at' \in {"recorded", "stored", "closing", "sealing"} \cup Recording
    BY <1>3 DEF Live, Serving, Recording
  <2>2. QED
    BY <1>1, <2>1, EndingFacts, EndsStep
<1>4. QED
  BY <1>2, <1>3

\* The marker is written where none stood, or stands as it was,
LEMMA WriteMarkerStep == ASSUME RunInv, WriteMarker PROVE RunInv'
<1> USE DEF Recording, Recorded
<1>1. CASE Tears("marker")
  <2>1. at = "marking" /\ Dies /\ world' = world /\ disk' = [disk EXCEPT !["marker"] = Torn]
    BY <1>1 DEF Tears, WriteMarker
  <2>2. QED
    BY <2>1, TornStep
<1>2. CASE /\ at = "marking" /\ at' = "marked" /\ disk' = [disk EXCEPT !.marker = mem.stage]
           /\ mem' = mem /\ world' = world
  <2>1. /\ mem.stage \in Stages /\ ~ObservedWin(mem.record) /\ mem.record \in TerminalRecords
        /\ Whole(disk.terminal) => ~ObservedWin(disk.terminal)
        /\ Live => mem.stuck = "unknown"
        /\ disk \in RunFiles
    BY <1>2, EndingFacts DEF RunInv, RecordInv
  <2>2. /\ disk' \in RunFiles /\ disk'.calls = disk.calls /\ disk'.assessments = disk.assessments
        /\ disk'.admission = disk.admission /\ disk'.terminal = disk.terminal
        /\ disk'.seal = disk.seal /\ disk'.capsule = disk.capsule
    BY <1>2, <2>1 DEF RunFiles
  <2>3. Live' = Live
    BY <1>2 DEF Live, Serving
  <2>4. RecordInv'
    BY <1>2, <2>1, <2>2, <2>3 DEF RunInv, RecordInv, Tells, Fits
  <2>5. QED
    BY <1>2, <2>1, <2>2, <2>4, OnwardStep
<1>3. QED
  BY <1>1, <1>2 DEF WriteMarker

\* and has its receipt; the record has its object.
LEMMA ReceiptsStep == ASSUME RunInv, ReceiptMarker \/ PutTerminalObject PROVE RunInv'
<1> USE DEF Recording, Recorded
<1>1. /\ disk' = disk /\ mem' = mem /\ world' = world /\ disk \in RunFiles
      /\ at \in {"marked", "recorded"} /\ at' \in {"recording", "stored"}
      /\ at' = "recording" => at = "marked"
      /\ at' = "stored" => at = "recorded"
  BY EndingFacts DEF ReceiptMarker, PutTerminalObject
<1>2. Live' = Live
  BY <1>1 DEF Live, Serving
<1>3. RecordInv'
  BY <1>1, <1>2 DEF RunInv, RecordInv, Tells, Fits
<1>4. QED
  BY <1>1, <1>3, OnwardStep

\* The record is written where none stood, or stands as it was.
LEMMA WriteTerminalStep == ASSUME RunInv, WriteTerminal PROVE RunInv'
<1> USE DEF Recording, Recorded
<1>1. CASE disk.terminal = NoFile /\ Tears("terminal")
  <2>1. /\ at = "recording" /\ Dies /\ world' = world
        /\ disk' = [disk EXCEPT !["terminal"] = Torn]
    BY <1>1 DEF Tears, WriteTerminal
  <2>2. QED
    BY <1>1, <2>1, TornStep
<1>2. CASE /\ at = "recording" /\ at' = "recorded" /\ disk' = [disk EXCEPT !.terminal = mem.record]
           /\ disk.terminal \in {NoFile, mem.record} /\ mem' = mem /\ world' = world
  <2>1. mem.record \in TerminalRecords /\ Tells(mem.record) /\ (Live => Fits(mem.record))
        /\ disk \in RunFiles
    BY <1>2, EndingFacts DEF RunInv, RecordInv
  <2>2. Whole(mem.record)
    BY <2>1, ContentsAssumption DEF Whole
  <2>3. /\ disk' \in RunFiles /\ disk'.calls = disk.calls /\ disk'.assessments = disk.assessments
        /\ disk'.admission = disk.admission /\ disk'.terminal = mem.record
        /\ disk'.marker = disk.marker /\ disk'.seal = disk.seal /\ disk'.capsule = disk.capsule
    BY <1>2, <2>1 DEF RunFiles
  <2>4. Live' = Live
    BY <1>2 DEF Live, Serving
  <2>5. RecordInv'
    BY <1>2, <2>1, <2>2, <2>3, <2>4 DEF RunInv, RecordInv, Tells, Fits
  <2>6. disk'.terminal = disk.terminal \/ ~Whole(disk.terminal)
    BY <1>2, <2>3 DEF Whole
  <2>7. QED
    BY <1>2, <2>3, <2>5, <2>6, OnwardStep
<1>3. QED
  BY <1>1, <1>2 DEF WriteTerminal

\* With a terminal record standing a command goes on to its end, or to the seal.
LEMMA ToTheSealStep ==
    ASSUME RunInv, disk' = disk, world' = world, Whole(disk.terminal), mem' \in RunMemories,
           at \in {"none", "stored"}, at' \in {"closing", "sealing"}
    PROVE  RunInv'
<1> USE DEF Whole, Away, Reserving, Serving, Recording, Recorded
<1>1. /\ Whole(disk.admission) /\ disk \in RunFiles
      /\ world \in [makes : {0, 1}, calls : Nat, state : GameStates]
  BY DEF RunInv, RunTypeOK, UnbegunInv, MadeOnce
<1>2. world.calls <= InterruptedCalls /\ InterruptedCalls <= world.calls + 1
  BY <1>1 DEF RunInv, AccountsInv
<1>3. ~Live'
  BY DEF Live
<1>4. RecordInv'
  BY <1>3 DEF RunInv, RecordInv, Tells
<1>5. QED
  BY <1>1, <1>2, <1>3, <1>4, EndsStep

LEMMA ReceiptTerminalStep == ASSUME RunInv, ReceiptTerminal PROVE RunInv'
<1>1. disk' = disk /\ world' = world /\ at = "stored" /\ Whole(disk.terminal) /\ mem \in RunMemories
  BY DEF ReceiptTerminal, RunInv, RunTypeOK, RecordInv, Recorded
<1>2. CASE Dies
  BY <1>1, <1>2, DeadStep DEF Undisturbed
<1>3. CASE at' \in {"closing", "sealing"} /\ mem' = mem
  BY <1>1, <1>3, ToTheSealStep
<1>4. QED
  BY <1>2, <1>3 DEF ReceiptTerminal

LEMMA SealTerminalStep ==
    ASSUME RunInv, NEW command \in {"seal", "pack"}, SealTerminal(command) PROVE RunInv'
<1>1. /\ disk' = disk /\ world' = world /\ at = "none" /\ at' = "sealing" /\ Whole(disk.terminal)
      /\ mem' = [mem EXCEPT !.after = command] /\ mem \in RunMemories
  BY DEF SealTerminal, RunInv, RunTypeOK
<1>2. mem' \in RunMemories
  BY <1>1 DEF RunMemories
<1>3. QED
  BY <1>1, <1>2, ToTheSealStep

\* Without one, seal counts from the files what the process can no longer say.
LEMMA SealInterruptedStep == ASSUME RunInv, SealInterrupted PROVE RunInv'
<1> USE DEF Whole, Away, Reserving, Serving, Recording, Recorded
<1> DEFINE memory == [mem EXCEPT !.calls = InterruptedCalls, !.resets = InterruptedResets]
<1>1. /\ disk' = disk /\ world' = world /\ disk.terminal = NoFile /\ Whole(disk.admission)
      /\ at = "none" /\ Terminalizes(ExitStage, memory, "seal") /\ disk \in RunFiles
  BY DEF SealInterrupted, RunInv, RunTypeOK
<1>2. /\ InterruptedCalls \in Nat /\ InterruptedResets \in Nat
      /\ world \in [makes : {0, 1}, calls : Nat, state : GameStates]
      /\ world.calls <= InterruptedCalls /\ InterruptedCalls <= world.calls + 1
  BY <1>1, CountedType DEF RunInv, RunTypeOK, UnbegunInv, MadeOnce, AccountsInv
<1>3. memory \in RunMemories /\ memory.calls = InterruptedCalls
  BY <1>2 DEF RunInv, RunTypeOK, RunMemories
<1> HIDE DEF memory
<1>4. /\ mem' \in RunMemories /\ at' = "marking" /\ mem'.stage \in Stages /\ mem'.after = "seal"
      /\ mem'.record \in TerminalRecords /\ mem'.record.calls = InterruptedCalls
      /\ ~ObservedWin(mem'.record)
  BY <1>1, <1>3, TerminalizesFacts DEF Stages
<1>5. ~Live'
  BY <1>4 DEF Live
<1>6. RecordInv'
  <2>1. Tells(mem.record)'
    BY <1>1, <1>2, <1>4 DEF Tells
  <2>2. QED
    BY <1>1, <1>4, <1>5, <2>1 DEF RecordInv
<1>7. QED
  BY <1>1, <1>2, <1>4, <1>5, <1>6, EndsStep

\* A write that fails ends a command and lets a server serve on.
LEMMA TerminalizationFailsStep == ASSUME RunInv, TerminalizationFails PROVE RunInv'
<1> USE DEF Recording, Recorded
<1>1. /\ at \in {"marking", "marked", "recording", "recorded", "stored"} /\ world' = world
      /\ \/ disk' = disk
         \/ at = "marking" /\ disk' = [disk EXCEPT !["marker"] = Torn]
         \/ at = "recording" /\ disk.terminal = NoFile /\ disk' = [disk EXCEPT !["terminal"] = Torn]
  BY DEF TerminalizationFails
<1>2. CASE mem.after # "server"
  <2>1. Dies
    BY <1>2 DEF TerminalizationFails
  <2>2. CASE disk' = disk
    BY <1>1, <2>1, <2>2, DeadStep DEF Undisturbed
  <2>3. CASE at = "marking" /\ disk' = [disk EXCEPT !["marker"] = Torn]
    BY <1>1, <2>1, <2>3, TornStep
  <2>4. CASE at = "recording" /\ disk.terminal = NoFile /\ disk' = [disk EXCEPT !["terminal"] = Torn]
    BY <1>1, <2>1, <2>4, TornStep
  <2>5. QED
    BY <1>1, <2>2, <2>3, <2>4
<1>3. CASE mem.after = "server"
  <2>1. /\ at' = "idle" /\ Live /\ Live'
        /\ mem' = [mem EXCEPT !.stage = NoFile, !.record = NoFile, !.after = "none"]
    BY <1>1, <1>3 DEF TerminalizationFails, Live, Serving
  <2>2. mem' \in RunMemories /\ SameMind(mem', mem)
    BY <2>1, LiveFacts DEF RunMemories, SameMind
  <2>3. /\ disk' \in RunFiles /\ disk'.calls = disk.calls /\ disk'.assessments = disk.assessments
        /\ disk'.admission = disk.admission /\ disk'.seal = disk.seal
        /\ disk'.capsule = disk.capsule
        /\ disk'.marker = disk.marker \/ at = "marking"
        /\ disk'.terminal \in {disk.terminal, Torn}
    BY <1>1, <2>1, LiveFacts DEF RunFiles
  <2>4. at = "marking" => mem.stuck = "unknown"
                          /\ (Whole(disk.terminal) => ~ObservedWin(disk.terminal))
    BY <2>1 DEF RunInv, RecordInv
  <2>5. RecordInv'
    BY <1>1, <2>1, <2>2, <2>3, <2>4 DEF RunInv, RecordInv, Tells, Fits, SameMind, Whole
  <2>6. QED
    BY <1>1, <2>1, <2>2, <2>3, <2>4, <2>5, GoesOnStep
<1>4. QED
  BY <1>2, <1>3

\* The seal is a file of the contents it binds, and none of those is blank.
LEMMA SealOfFacts ==
    ASSUME RunInv, Whole(disk.terminal)
    PROVE  /\ SealOf(disk.terminal) \in SealContents /\ Whole(SealOf(disk.terminal))
           /\ disk.terminal \in TerminalRecords
<1>1. SealOf(disk.terminal) \in SealContents /\ disk.terminal \in TerminalRecords
  BY DEF RunInv, RunTypeOK, RunFiles, Whole, SealOf, SealContents
<1>2. QED
  BY <1>1, ContentsAssumption DEF Whole

\* With a terminal record standing, only seal and capsule are left to write.
LEMMA SealedStep ==
    ASSUME RunInv, at \in {"sealing", "packing"}, at' \in {"none", "packing"}, world' = world,
           (at' = "none" /\ mem' = NoMemory) \/ (at' = "packing" /\ mem' = mem),
           NEW seal, NEW capsule, disk' = [disk EXCEPT !.seal = seal, !.capsule = capsule],
           seal = SealOf(disk.terminal),
           capsule \in {disk.capsule, seal},
           disk.seal \in {NoFile, seal}
    PROVE  RunInv'
<1> USE DEF Whole, Away, Reserving, Serving, Recording, Recorded, Live
<1>1. /\ Whole(disk.terminal) /\ Whole(disk.admission) /\ disk \in RunFiles
      /\ mem \in RunMemories
      /\ seal \in SealContents /\ Whole(seal) /\ disk.capsule \in {NoFile, Torn, seal}
  <2>1. Whole(disk.terminal) /\ Whole(disk.admission) /\ disk \in RunFiles /\ mem \in RunMemories
    BY DEF RunInv, RunTypeOK, RecordInv, UnbegunInv
  <2>2. seal \in SealContents /\ Whole(seal)
    BY <2>1, SealOfFacts
  <2>3. Whole(disk.capsule) => disk.capsule = seal
    BY <2>2 DEF RunInv, SealInv
  <2>4. QED
    BY <2>1, <2>2, <2>3
<1>2. capsule \in {NoFile, Torn} \cup SealContents
  BY <1>1
<1>3. /\ disk' \in RunFiles /\ disk'.calls = disk.calls /\ disk'.assessments = disk.assessments
      /\ disk'.admission = disk.admission /\ disk'.terminal = disk.terminal
      /\ disk'.marker = disk.marker /\ disk'.seal = seal /\ disk'.capsule = capsule
  BY <1>1, <1>2 DEF RunFiles
<1>4. RunTypeOK'
  BY <1>1, <1>3, NoMemoryType DEF RunInv, RunTypeOK
<1>5. UnbegunInv'
  BY <1>1, <1>3 DEF RunInv, UnbegunInv, MadeOnce
<1>6. SeesInv' /\ WaitsInv'
  BY DEF SeesInv, WaitsInv
<1>7. AccountsInv'
  BY <1>3 DEF RunInv, AccountsInv, InterruptedCalls
<1>8. RecordInv' /\ SealInv'
  BY <1>1, <1>3 DEF RunInv, RecordInv, SealInv, Tells, SealOf
<1>9. QED
  BY <1>4, <1>5, <1>6, <1>7, <1>8 DEF RunInv

\* The seal binds the record and the calls,
LEMMA SealRunStep == ASSUME RunInv, SealRun PROVE RunInv'
<1>1. CASE disk.seal = NoFile /\ Tears("seal")
  <2>1. at = "sealing" /\ Dies /\ world' = world /\ disk' = [disk EXCEPT !["seal"] = Torn]
    BY <1>1 DEF Tears, SealRun
  <2>2. QED
    BY <1>1, <2>1, TornStep
<1>2. CASE /\ at = "sealing" /\ disk.seal \in {NoFile, SealOf(disk.terminal)}
           /\ disk' = [disk EXCEPT !.seal = SealOf(disk.terminal)]
           /\ world' = world
           /\ \/ at' = "packing" /\ mem' = mem
              \/ at' = "none" /\ mem' = NoMemory
  <2> DEFINE seal == SealOf(disk.terminal)
             capsule == disk.capsule
  <2>1. disk' = [disk EXCEPT !.seal = seal, !.capsule = capsule]
    BY <1>2 DEF RunInv, RunTypeOK, RunFiles
  <2>2. at \in {"sealing", "packing"} /\ at' \in {"none", "packing"} /\ world' = world
    BY <1>2
  <2>3. (at' = "none" /\ mem' = NoMemory) \/ (at' = "packing" /\ mem' = mem)
    BY <1>2
  <2>4. seal = SealOf(disk.terminal) /\ capsule \in {disk.capsule, seal}
        /\ disk.seal \in {NoFile, seal}
    BY <1>2
  <2> HIDE DEF seal, capsule
  <2>5. QED
    BY <2>1, <2>2, <2>3, <2>4, SealedStep
<1>3. QED
  BY <1>1, <1>2 DEF SealRun, Dies

\* and the capsule the seal.
LEMMA PackStep == ASSUME RunInv, PackEvidence \/ PackTears PROVE RunInv'
<1>1. CASE PackTears
  <2>1. at = "packing" /\ Dies /\ world' = world /\ disk' = [disk EXCEPT !["capsule"] = Torn]
    BY <1>1 DEF Tears, PackTears
  <2>2. QED
    BY <2>1, TornStep
<1>2. CASE PackEvidence
  <2> DEFINE seal == disk.seal
             capsule == disk.seal
  <2>1. disk' = [disk EXCEPT !.seal = seal, !.capsule = capsule]
    BY <1>2 DEF PackEvidence, RunInv, RunTypeOK, RunFiles
  <2>2. /\ at \in {"sealing", "packing"} /\ world' = world
        /\ at' \in {"none", "packing"} /\ at' = "none" /\ mem' = NoMemory
        /\ seal = SealOf(disk.terminal) /\ capsule \in {disk.capsule, seal}
        /\ disk.seal \in {NoFile, seal}
    BY <1>2 DEF PackEvidence, Dies, RunInv, SealInv
  <2> HIDE DEF seal, capsule
  <2>3. QED
    BY <2>1, <2>2, SealedStep
<1>3. QED
  BY <1>1, <1>2
-----------------------------------------------------------------------------
\* Every step of every command preserves the invariant.
LEMMA RunStep == ASSUME RunInv, RunNext PROVE RunInv'
<1>1. CASE Prepare
  BY <1>1, PrepareStep
<1>2. CASE Construct
  BY <1>2, ServeChecksStep, AcquireLiveLockStep, WriteInitialAdmissionStep,
     InitialAdmissionFailsStep, ReceiptInitialAdmissionStep, MakeEnvironmentStep, SetUpSessionStep
  DEF Construct
<1>3. CASE Serve
  BY <1>3, ClaimStep, ActHeldStep, ActAdmittedStep, ActRefusedStep, WriteCallAdmissionStep,
     StepCompletesStep, StepRaisesStep, StepDeniedStep, PersistCompletionStep, AssessStep,
     CloseStep, ClockRunsOutStep
  DEF Serve
<1>4. CASE Terminalize
  BY <1>4, WriteMarkerStep, ReceiptsStep, WriteTerminalStep, ReceiptTerminalStep,
     TerminalizationFailsStep
  DEF Terminalize
<1>5. CASE SealAndPack
  BY <1>5, SealInterruptedStep, SealTerminalStep, SealRunStep, PackStep DEF SealAndPack
<1>6. CASE Die
  BY <1>6, CloseStep
<1>7. QED
  BY <1>1, <1>2, <1>3, <1>4, <1>5, <1>6 DEF RunNext

\* So does a step that changes nothing.
LEMMA RunStutter == ASSUME RunInv, UNCHANGED runVars PROVE RunInv'
BY DEF runVars, RunInv, RunTypeOK, UnbegunInv, SeesInv, WaitsInv, AccountsInv, RecordInv, SealInv,
       Live, MadeOnce, Tells, Fits, SealOf, LastCall, InterruptedCalls

\* The invariant of a calibration run, from its preparation to its capsule, over
\* any number of commands, of which any may end at any of its steps, and of which
\* a server answers on when one of its writes fails.
THEOREM RunInvariant == RunSpec => []RunInv
<1>1. RunInit => RunInv
  BY Starts
<1>2. RunInv /\ [RunNext]_runVars => RunInv'
  BY RunStep, RunStutter
<1>3. QED
  BY <1>1, <1>2, PTL DEF RunSpec

\* workflow.py counts every admission of a call that no denial stands beside
\* (_interrupted_budget), before and after a crash or a failed write: what the
\* environment did is never more than that and at most one less, and a terminal
\* record is short of it only where it says PARTIAL.
THEOREM CallsAccounted == RunSpec => []CallsAreAccounted
<1>1. RunInv => CallsAreAccounted
  <2> SUFFICES ASSUME RunInv PROVE CallsAreAccounted
    OBVIOUS
  <2>1. IF Whole(disk.admission)
        THEN world.calls <= InterruptedCalls /\ InterruptedCalls <= world.calls + 1
        ELSE world.calls = 0
    BY DEF RunInv, UnbegunInv, AccountsInv
  <2>2. QED
    BY <2>1 DEF RunInv, AccountsInv, RecordInv, Tells, CallsAreAccounted
<1>2. QED
  BY <1>1, RunInvariant, PTL

\* finalize claims a success for an assessed WIN alone, and seal and capsule
\* repeat it: over every restart a claim stands on a run without a marker whose
\* calls were all assessed, in the state WIN.
THEOREM SuccessEarned == RunSpec => []SuccessIsEarned
<1>1. RunInv => SuccessIsEarned
  BY DEF RunInv, RecordInv, SealInv, Tells, SuccessIsEarned
<1>2. QED
  BY <1>1, RunInvariant, PTL

\* The constructor refuses a run directory in which anything has happened, so
\* that the environment is made once over all servers; once a seal or capsule
\* stands nothing moves it, and of the terminal records only the PARTIAL one
\* does not stop the server that failed to store it.
THEOREM LivesOnce == RunSpec => RunLivesOnce
<1>1. RunInv /\ RunInv' /\ [RunNext]_runVars =>
         [world' # world =>
            /\ {disk.seal, disk.capsule} = {NoFile}
            /\ Whole(disk.terminal) => disk.terminal.disposition = "partial"
            /\ MadeOnce']_runVars
  <2> SUFFICES ASSUME RunInv, RunInv', RunNext, world' # world
               PROVE  /\ {disk.seal, disk.capsule} = {NoFile}
                      /\ Whole(disk.terminal) => disk.terminal.disposition = "partial"
                      /\ MadeOnce'
    BY DEF runVars
  <2>1. MakeEnvironment \/ at = "calling"
    <3>1. CASE Prepare
      BY <3>1 DEF Prepare, InitializeLab, WriteControls, ReceiptControls
    <3>2. CASE Construct
      BY <3>2 DEF Construct, ServeChecks, AcquireLiveLock, WriteInitialAdmission,
         InitialAdmissionFails, ReceiptInitialAdmission, InitialReceiptFails, SetUpSession, Tears
    <3>3. CASE Serve
      BY <3>3 DEF Serve, ActDenied, ActHeld, ActAdmitted, WriteCallAdmission, StepCompletes,
         StepRaises, StepDenied, ActRefused, PersistCompletion, Assess, ClaimSuccess, Stop,
         Close, ClockRunsOut
    <3>4. CASE Terminalize \/ SealAndPack \/ Die
      BY <3>4 DEF Terminalize, WriteMarker, ReceiptMarker, WriteTerminal, PutTerminalObject,
         ReceiptTerminal, TerminalizationFails, SealAndPack, SealInterrupted, SealTerminal,
         SealRun, PackEvidence, PackTears, Die, Tears
    <3>5. QED
      BY <3>1, <3>2, <3>3, <3>4 DEF RunNext
  <2>2. CASE MakeEnvironment
    BY <2>2 DEF MakeEnvironment, RunInv, UnbegunInv, SealInv, Reserving, Whole
  <2>3. CASE at = "calling"
    BY <2>3, LiveFacts, CallingFacts DEF RunInv, UnbegunInv
  <2>4. QED
    BY <2>1, <2>2, <2>3
<1>2. QED
  BY <1>1, RunInvariant, PTL DEF RunSpec, RunLivesOnce
=============================================================================
