---------------------------- MODULE CalibrationRun ----------------------------
(***************************************************************************)
(* One calibration run of calibration/workflow.py, as the processes that   *)
(* prepare, serve, seal and pack it leave it on disk.  Each durable write  *)
(* of the code is a step of its own, and the process may end at any of     *)
(* them: run directory, ledger and environment outlive it, its counters    *)
(* and session do not.                                                     *)
(*                                                                         *)
(* A contract file is written once.  A process that ends inside the write  *)
(* leaves it torn; a later write of other content is refused.  The         *)
(* operator runs one command at a time, and seals only after the server    *)
(* has gone.  A write that fails ends a command, but not a server, which   *)
(* answers with an error and serves on with what it has in memory.  The    *)
(* game, its clock and the choice of what fails are external.              *)
(***************************************************************************)
EXTENDS Naturals, Sequences, FiniteSets

CONSTANTS
    NoFile, Torn,   \* a contract file that is absent, or half written
    MaxCalls,       \* maximum_total_environment_calls
    MaxResets,      \* maximum_resets
    MaxAttempts     \* bound on proposal attempts for one observation

ASSUME CalibrationAssumption ==
    /\ MaxCalls \in Nat \ {0}
    /\ MaxResets \in 1..MaxCalls
    /\ MaxAttempts \in Nat \ {0}
    /\ NoFile # Torn

VARIABLES
    disk,       \* the run directory and the capsule
    receipts,   \* receipts of the run's ledger that the commands look for
    wal,        \* an open or abandoned connection has left its journal behind
    at,         \* where the command at work stands; "none" when there is none
    mem,        \* what its process holds in memory
    world       \* the official environment: constructions, calls and state

runVars == <<disk, receipts, wal, at, mem, world>>

GameStates == {"NOT_FINISHED", "GAME_OVER", "WIN"}
Unknown == "UNKNOWN_EFFECT"

\* The stages at which an interrupted run is terminalized.
SetupStage == "initial_reset_make_or_setup"
ActionStage == "environment_action_execution"
ExitStage == "process_exit_before_terminal_record"

\* RunTerminalRecord, projected to what the seal and its reader rely on.
TerminalRecord(calls, resets, state, disposition) ==
    [calls |-> calls, resets |-> resets, state |-> state, disposition |-> disposition]
Interrupted(calls, resets) ==
    TerminalRecord(calls, resets, Unknown, "failed_infrastructure")
ObservedWin(record) == record.disposition = "success_observed"

\* What the files hold where they are whole, apart from the two that are not.
TerminalRecords ==
    [calls : Nat, resets : Nat, state : GameStates \cup {Unknown},
     disposition : {"failed_infrastructure", "success_observed", "partial"}]
EnvironmentCalls ==
    [reset : BOOLEAN, torn : BOOLEAN, denied : BOOLEAN, completed : BOOLEAN, assessed : BOOLEAN]
SealContents == [terminal : TerminalRecords, calls : Seq(EnvironmentCalls)]
ASSUME ContentsAssumption ==
    \A blank \in {NoFile, Torn} :
        /\ blank \notin {"admitted", SetupStage, ActionStage, ExitStage}
        /\ blank \notin TerminalRecords /\ blank \notin SealContents

Whole(file) == file \notin {NoFile, Torn}

\* One environment call's contract files: an admission, then a denial or a
\* completion and an assessment closure.
Admission(reset) ==
    [reset |-> reset, torn |-> FALSE, denied |-> FALSE, completed |-> FALSE, assessed |-> FALSE]
\* Mutant of Undenied: an admission that was never completed is not a call.
UndeniedCompleted(call) == call.completed
Undenied(call) == ~call.denied
UndeniedReset(call) == ~call.denied /\ call.reset

NoDraft == [attempt |-> 0, reset |-> FALSE]
\* "seen" is the state of the last frame captured, which only a step in doubt lets
\* differ from the world's; "active" the draft supplied for the request; "stuck"
\* a pending execution that is not completed, so never assessed.
NoMemory == [calls |-> 0, resets |-> 0, late |-> FALSE, phase |-> "NONE",
             seen |-> "NOT_FINISHED", attempt |-> 1, active |-> NoDraft,
             admitted |-> FALSE, pending |-> FALSE, stuck |-> "none",
             stage |-> NoFile, record |-> NoFile, after |-> "none"]

RunInit ==
    /\ disk = [prepared |-> 0, lock |-> FALSE, admission |-> NoFile, calls |-> <<>>,
               marker |-> NoFile, terminal |-> NoFile, seal |-> NoFile, capsule |-> NoFile,
               assessments |-> 0]
    /\ receipts = {}
    /\ wal = FALSE
    /\ at = "none"
    /\ mem = NoMemory
    /\ world = [makes |-> 0, calls |-> 0, state |-> "NOT_FINISHED"]

Appends(names) == receipts' = receipts \cup names

\* The process is gone without closing anything: lock and journal stay.
Dies ==
    /\ at' = "none"
    /\ mem' = NoMemory
Die ==
    /\ at # "none"
    /\ Dies
    /\ UNCHANGED <<disk, receipts, wal, world>>

\* It ends inside the write of a contract file.
Tears(file) ==
    /\ disk' = [disk EXCEPT ![file] = Torn]
    /\ Dies
    /\ UNCHANGED <<receipts, wal, world>>

-----------------------------------------------------------------------------
\* prepare: the genesis of an empty lab, then the control objects, then the one
\* receipt that says no environment exists yet.
InitializeLab ==
    /\ at = "none"
    /\ disk.prepared = 0
    /\ disk' = [disk EXCEPT !.prepared = 1]
    /\ at' = "prepare"
    /\ UNCHANGED <<receipts, wal, mem, world>>

WriteControls ==
    /\ at = "prepare"
    /\ disk.prepared = 1
    /\ disk' = [disk EXCEPT !.prepared = 2]
    /\ UNCHANGED <<receipts, wal, at, mem, world>>

ReceiptControls ==
    /\ at = "prepare"
    /\ disk.prepared = 2
    /\ disk' = [disk EXCEPT !.prepared = 3]
    /\ Appends({"prepared"})
    /\ Dies
    /\ UNCHANGED <<wal, world>>

-----------------------------------------------------------------------------
\* serve: the constructor of CalibrationHarness.

\* verify_lab refuses a ledger with a journal beside it, and a seal that does
\* not bind the terminal evidence.
TerminalBound == {"terminal_object", "terminal_receipt"} \subseteq receipts
LabVerifies ==
    /\ disk.prepared >= 1
    /\ ~wal
    /\ disk.seal # Torn
    /\ Whole(disk.seal) => TerminalBound

PreparedRunLoads ==
    /\ disk.prepared >= 2
    /\ LabVerifies

\* Exactly the six control files, and the single receipt of prepare.
PreEnvironmentState ==
    /\ ~disk.lock
    /\ disk.calls = <<>>
    /\ disk.marker = NoFile
    /\ receipts = {"prepared"}

\* Mutant of ServeChecks: only a terminal record or a seal stops a new server.
ServeChecksAgain ==
    /\ at = "none"
    /\ PreparedRunLoads
    /\ disk.seal = NoFile
    /\ disk.terminal = NoFile
    /\ at' = "checked"
    /\ UNCHANGED <<disk, receipts, wal, mem, world>>
ServeChecks ==
    /\ at = "none"
    /\ PreparedRunLoads
    /\ disk.seal = NoFile
    /\ disk.terminal = NoFile
    /\ disk.admission = NoFile
    /\ PreEnvironmentState
    /\ at' = "checked"
    /\ UNCHANGED <<disk, receipts, wal, mem, world>>

\* The lock file, then the ledger connection and the reserved initial reset.
AcquireLiveLock ==
    /\ at = "checked"
    /\ ~disk.lock
    /\ disk' = [disk EXCEPT !.lock = TRUE]
    /\ wal' = TRUE
    /\ at' = "locked"
    /\ mem' = [mem EXCEPT !.calls = 1, !.resets = 1]
    /\ UNCHANGED <<receipts, world>>

WriteInitialAdmission ==
    /\ at = "locked"
    /\ \/ /\ disk' = [disk EXCEPT !.admission = "admitted"]
          /\ at' = "admission_written"
          /\ UNCHANGED <<receipts, wal, mem, world>>
       \/ Tears("admission")

\* The write fails: the lock is given back if the file does not exist.
InitialAdmissionFails ==
    /\ at = "locked"
    /\ disk' \in {[disk EXCEPT !.lock = FALSE], [disk EXCEPT !.admission = Torn]}
    /\ wal' = FALSE
    /\ Dies
    /\ UNCHANGED <<receipts, world>>

ReceiptInitialAdmission ==
    /\ at = "admission_written"
    /\ Appends({"admitted"})
    /\ at' = "initial_admitted"
    /\ UNCHANGED <<disk, wal, mem, world>>

\* The receipt fails with the admission on disk: the lock stays for ever.
InitialReceiptFails ==
    /\ at = "admission_written"
    /\ receipts' \in {receipts, receipts \cup {"admitted"}}
    /\ wal' = FALSE
    /\ Dies
    /\ UNCHANGED <<disk, world>>

\* _terminalize_interrupted_run, with the counter of that memory.
Terminalizes(stage, memory, after) ==
    /\ at' = "marking"
    /\ mem' = [memory EXCEPT !.stage = stage, !.after = after,
                             !.record = Interrupted(memory.calls, memory.resets)]

\* Arcade.make: it may raise with or without an environment behind it.
MakeEnvironment ==
    /\ at = "initial_admitted"
    /\ \/ /\ world' = [world EXCEPT !.makes = @ + 1, !.calls = @ + 1]
          /\ \/ /\ at' = "made"
                /\ UNCHANGED mem
             \/ Terminalizes(SetupStage, mem, "constructor")
       \/ /\ Terminalizes(SetupStage, mem, "constructor")
          /\ UNCHANGED world
    /\ UNCHANGED <<disk, receipts, wal>>

\* Completion contract and receipt, executor, session and first request; any of
\* them may raise, and then the run is terminalized.
SetUpSession ==
    /\ at = "made"
    /\ \/ /\ at' = "idle"
          /\ mem' = [mem EXCEPT !.phase = "READY"]
          /\ Appends({"completed"})
       \/ /\ Terminalizes(SetupStage, mem, "constructor")
          /\ receipts' \in {receipts, receipts \cup {"completed"}}
    /\ UNCHANGED <<disk, wal, world>>

-----------------------------------------------------------------------------
\* The server's commands: status changes nothing, act, assess and stop follow.
\* An exception that is not a budget denial or an unknown effect is only an
\* error reply; what was in memory stays.
Budget(reset) ==
    /\ ~mem.late
    /\ mem.calls < MaxCalls
    /\ IF reset THEN mem.resets < MaxResets ELSE mem.calls - mem.resets < MaxCalls - MaxResets

\* The wall clock runs out at any moment.
ClockRunsOut ==
    /\ at \in {"idle", "admitting", "calling", "acted"}
    /\ ~mem.late
    /\ mem' = [mem EXCEPT !.late = TRUE]
    /\ UNCHANGED <<disk, receipts, wal, at, world>>

\* Mutant of Finalizes: the claim follows the raw state, assessed or not.
FinalizesFrom(disposition, memory) ==
    /\ at' = "recording"
    /\ mem' = [memory EXCEPT !.after = "server",
                  !.record = TerminalRecord(memory.calls, memory.resets, memory.seen,
                                IF memory.seen = "WIN" THEN "success_observed" ELSE disposition)]
\* finalize: an assessed WIN is a success and nothing else is.
Observed(memory) == memory.seen = "WIN" /\ memory.phase = "TERMINAL"
Finalizes(disposition, memory) ==
    /\ (disposition = "success_observed") = Observed(memory)
    /\ at' = "recording"
    /\ mem' = [memory EXCEPT !.after = "server",
                  !.record = TerminalRecord(memory.calls, memory.resets, memory.seen, disposition)]

ReadyToAct ==
    at = "idle" /\ mem.phase = "READY" /\ ~mem.pending /\ mem.stuck = "none"

\* MemoizedProposalDraftBridge.supply: the exact next attempt or the active one
\* again, never after an admission, and after GAME_OVER nothing but RESET.
Supplies(draft) ==
    /\ ~mem.admitted
    /\ draft.attempt = mem.attempt
    /\ mem.active \in {NoDraft, draft}
    /\ mem.seen = "GAME_OVER" => draft.reset

ActDenied(draft) ==
    /\ ReadyToAct
    /\ Supplies(draft)
    /\ ~Budget(draft.reset)
    /\ Finalizes("partial", [mem EXCEPT !.active = draft])
    /\ UNCHANGED <<disk, receipts, wal, world>>

\* A route that selects nothing releases the attempt for one numbered revision; if
\* a receipt fails on the way the draft stays the active one.
ActHeld(draft) ==
    /\ ReadyToAct
    /\ Supplies(draft)
    /\ Budget(draft.reset)
    /\ \/ /\ mem.attempt < MaxAttempts
          /\ mem' = [mem EXCEPT !.attempt = @ + 1, !.active = NoDraft]
       \/ mem' = [mem EXCEPT !.active = draft]
    /\ UNCHANGED <<disk, receipts, wal, at, world>>

\* The proposal is marked admitted and checkpointed before any effect; a receipt
\* that fails here leaves the request closed and nothing pending.
ActAdmitted(draft) ==
    /\ ReadyToAct
    /\ Supplies(draft)
    /\ Budget(draft.reset)
    /\ mem' = [mem EXCEPT !.admitted = TRUE, !.phase = "DECIDED", !.active = draft]
    /\ at' \in {"admitting", "idle"}
    /\ UNCHANGED <<disk, receipts, wal, world>>

WriteCallAdmission ==
    /\ at = "admitting"
    /\ \/ /\ disk' = [disk EXCEPT !.calls = Append(@, Admission(mem.active.reset))]
          /\ at' \in {"calling", "idle"}
          /\ UNCHANGED mem
       \/ /\ disk' = [disk EXCEPT !.calls =
                        Append(@, [Admission(mem.active.reset) EXCEPT !.torn = TRUE])]
          /\ Dies \/ (at' = "idle" /\ UNCHANGED mem)
    /\ UNCHANGED <<receipts, wal, world>>

LastCall == Len(disk.calls)
Counted == [mem EXCEPT !.calls = @ + 1, !.resets = IF mem.active.reset THEN @ + 1 ELSE @]
Stepped(state) == [world EXCEPT !.calls = @ + 1, !.state = state]
NextStates == IF mem.active.reset THEN {"NOT_FINISHED"} ELSE GameStates

\* SingleWriterArcExecutor.execute: the reservation precedes the step.
StepCompletes ==
    /\ at = "calling"
    /\ Budget(mem.active.reset)
    /\ \E state \in NextStates :
        /\ world' = Stepped(state)
        /\ mem' = [Counted EXCEPT !.pending = TRUE, !.seen = state]
    /\ at' = "acted"
    /\ UNCHANGED <<disk, receipts, wal>>

\* The step raises, with or without an effect: terminalized as unknown, and every
\* act after that terminalizes again, should this not have succeeded.
StepRaises ==
    /\ at = "calling"
    /\ Budget(mem.active.reset)
    /\ \/ \E state \in NextStates : world' = Stepped(state)
       \/ UNCHANGED world
    /\ Terminalizes(ActionStage, [Counted EXCEPT !.stuck = "unknown"], "server")
    /\ UNCHANGED <<disk, receipts, wal>>
ActRefused ==
    /\ at = "idle"
    /\ mem.stuck = "unknown"
    /\ Terminalizes(ActionStage, mem, "server")
    /\ UNCHANGED <<disk, receipts, wal, world>>

\* Denied before any effect, by the grant, the executor or the budget: a denial,
\* and the end; if the denial cannot be recorded the execution stays pending.
StepDenied ==
    /\ at = "calling"
    /\ \/ /\ disk' = [disk EXCEPT !.calls[LastCall].denied = TRUE]
          /\ Finalizes("partial", mem)
       \/ /\ \E written \in BOOLEAN : disk' = [disk EXCEPT !.calls[LastCall].denied = written]
          /\ mem' = [mem EXCEPT !.stuck = "denied"]
          /\ at' = "idle"
    /\ UNCHANGED <<receipts, wal, world>>

\* A completion that cannot be written is a warning, and assess writes it again.
PersistCompletion ==
    /\ at = "acted"
    /\ \E written \in BOOLEAN : disk' = [disk EXCEPT !.calls[LastCall].completed = written]
    /\ at' = "idle"
    /\ UNCHANGED <<receipts, wal, mem, world>>

Assess ==
    /\ at = "idle"
    /\ mem.pending
    /\ \E completed, assessed \in BOOLEAN :
        /\ assessed => completed
        /\ disk.calls[LastCall].completed => completed
        /\ disk' = [disk EXCEPT !.assessments = @ + 1, !.calls[LastCall] =
                        [@ EXCEPT !.completed = completed, !.assessed = assessed]]
    /\ IF mem.seen = "WIN"
       THEN /\ mem' = [mem EXCEPT !.pending = FALSE, !.phase = "TERMINAL"]
            /\ at' \in {"assessed", "idle"}
       ELSE /\ \E phase \in {"READY", "NO_REQUEST"} :
                /\ mem.late => phase = "NO_REQUEST"
                /\ mem' = [mem EXCEPT !.pending = FALSE, !.attempt = 1, !.active = NoDraft,
                                      !.admitted = FALSE, !.phase = phase]
            /\ at' = "idle"
    /\ UNCHANGED <<receipts, wal, world>>

ClaimSuccess ==
    /\ at = "assessed"
    /\ Finalizes("success_observed", mem)
    /\ UNCHANGED <<disk, receipts, wal, world>>

Stop ==
    /\ at = "idle"
    /\ Finalizes("partial", mem)
    /\ UNCHANGED <<disk, receipts, wal, world>>

\* The server leaves its loop: after a terminal record, or because a reply
\* could not be written.  Ledger and lock are closed.
Close ==
    /\ at \in {"closing", "idle"}
    /\ disk' = [disk EXCEPT !.lock = FALSE]
    /\ wal' = FALSE
    /\ Dies
    /\ UNCHANGED <<receipts, world>>

-----------------------------------------------------------------------------
\* _interrupted_budget: every admission without a denial counts as a call.
InterruptedCalls ==
    1 + Cardinality({i \in DOMAIN disk.calls : Undenied(disk.calls[i])})
InterruptedResets ==
    1 + Cardinality({i \in DOMAIN disk.calls : UndeniedReset(disk.calls[i])})

\* seal, when no terminal record stands: the interrupted run is terminalized.
SealInterrupted ==
    /\ at = "none"
    /\ disk.terminal = NoFile
    /\ Whole(disk.admission)
    /\ \A i \in DOMAIN disk.calls : ~disk.calls[i].torn
    /\ wal' = TRUE
    /\ Terminalizes(ExitStage, [mem EXCEPT !.calls = InterruptedCalls,
                                           !.resets = InterruptedResets], "seal")
    /\ UNCHANGED <<disk, receipts, world>>

\* _write_contract: the same content again is accepted, other content refused.
MarkerAccepts(stage) == disk.marker \in {NoFile, stage}

WriteMarker ==
    /\ at = "marking"
    /\ MarkerAccepts(mem.stage)
    /\ \/ /\ disk' = [disk EXCEPT !.marker = mem.stage]
          /\ at' = "marked"
          /\ UNCHANGED <<receipts, wal, mem, world>>
       \/ disk.marker = NoFile /\ Tears("marker")

ReceiptMarker ==
    /\ at = "marked"
    /\ Appends({"interrupted"})
    /\ at' = "recording"
    /\ UNCHANGED <<disk, wal, mem, world>>

WriteTerminal ==
    /\ at = "recording"
    /\ \/ /\ disk.terminal \in {NoFile, mem.record}
          /\ disk' = [disk EXCEPT !.terminal = mem.record]
          /\ at' = "recorded"
          /\ UNCHANGED <<receipts, wal, mem, world>>
       \/ disk.terminal = NoFile /\ Tears("terminal")

\* The ledger takes the record's object and its receipt in two transactions.
PutTerminalObject ==
    /\ at = "recorded"
    /\ Appends({"terminal_object"})
    /\ at' = "stored"
    /\ UNCHANGED <<disk, wal, mem, world>>

ReceiptTerminal ==
    /\ at = "stored"
    /\ Appends({"terminal_receipt"})
    /\ \/ /\ mem.after = "server"
          /\ at' = "closing"
          /\ UNCHANGED <<wal, mem>>
       \/ /\ mem.after = "constructor"
          /\ wal' = FALSE
          /\ Dies
       \/ /\ mem.after = "seal"
          /\ wal' = FALSE
          /\ at' = "sealing"
          /\ UNCHANGED mem
    /\ UNCHANGED <<disk, world>>

\* One of these writes is refused or fails, perhaps with a file half written or with
\* the receipt in the ledger.  A server serves on and remembers no terminal record;
\* a constructor or a seal closes its connection and ends.
TerminalizationFails ==
    /\ \/ /\ at \in {"marking", "marked", "recording", "recorded", "stored"}
          /\ UNCHANGED <<disk, receipts>>
       \/ /\ at = "marking" /\ disk.marker = NoFile
          /\ disk' = [disk EXCEPT !.marker = Torn]
          /\ UNCHANGED receipts
       \/ /\ at = "recording" /\ disk.terminal = NoFile
          /\ disk' = [disk EXCEPT !.terminal = Torn]
          /\ UNCHANGED receipts
       \/ at = "marked" /\ Appends({"interrupted"}) /\ UNCHANGED disk
       \/ at = "stored" /\ Appends({"terminal_receipt"}) /\ UNCHANGED disk
    /\ IF mem.after = "server"
       THEN /\ at' = "idle"
            /\ mem' = [mem EXCEPT !.stage = NoFile, !.record = NoFile, !.after = "none"]
            /\ UNCHANGED wal
       ELSE /\ wal' = FALSE
            /\ Dies
    /\ UNCHANGED world

\* seal or pack, when a terminal record stands.
SealTerminal(command) ==
    /\ at = "none"
    /\ Whole(disk.terminal)
    /\ at' = "sealing"
    /\ mem' = [mem EXCEPT !.after = command]
    /\ UNCHANGED <<disk, receipts, wal, world>>

\* seal_run: one immutable seal over a closed ledger that binds the record.
SealOf(record) == [terminal |-> record, calls |-> disk.calls]
SealRun ==
    /\ at = "sealing"
    /\ LabVerifies
    /\ TerminalBound
    /\ \/ /\ disk.seal \in {NoFile, SealOf(disk.terminal)}
          /\ disk' = [disk EXCEPT !.seal = SealOf(disk.terminal)]
          /\ IF mem.after = "pack"
             THEN at' = "packing" /\ UNCHANGED mem
             ELSE Dies
          /\ UNCHANGED <<receipts, wal, world>>
       \/ disk.seal = NoFile /\ Tears("seal")

\* pack_evidence: a destination that exists must hold this very capsule.
PackEvidence ==
    /\ at = "packing"
    /\ disk.capsule \in {NoFile, disk.seal}
    /\ disk' = [disk EXCEPT !.capsule = disk.seal]
    /\ Dies
    /\ UNCHANGED <<receipts, wal, world>>
PackTears == at = "packing" /\ disk.capsule = NoFile /\ Tears("capsule")

-----------------------------------------------------------------------------
Prepare == InitializeLab \/ WriteControls \/ ReceiptControls
Construct ==
    \/ ServeChecks \/ AcquireLiveLock
    \/ WriteInitialAdmission \/ InitialAdmissionFails
    \/ ReceiptInitialAdmission \/ InitialReceiptFails
    \/ MakeEnvironment \/ SetUpSession
Serve ==
    \/ \E draft \in [attempt : 1..MaxAttempts, reset : BOOLEAN] :
        ActDenied(draft) \/ ActHeld(draft) \/ ActAdmitted(draft)
    \/ WriteCallAdmission \/ StepCompletes \/ StepRaises \/ StepDenied \/ ActRefused
    \/ PersistCompletion \/ Assess \/ ClaimSuccess \/ Stop \/ Close \/ ClockRunsOut
Terminalize ==
    \/ WriteMarker \/ ReceiptMarker
    \/ WriteTerminal \/ PutTerminalObject \/ ReceiptTerminal
    \/ TerminalizationFails
SealAndPack ==
    \/ SealInterrupted \/ SealTerminal("seal") \/ SealTerminal("pack")
    \/ SealRun \/ PackEvidence \/ PackTears

RunNext == Prepare \/ Construct \/ Serve \/ Terminalize \/ SealAndPack \/ Die
RunSpec == RunInit /\ [][RunNext]_runVars

-----------------------------------------------------------------------------
\* A call of the environment, the construction included, is never free, whatever
\* write failed or process ended in between: each one that happened has a durable
\* admission that no denial revokes, at most one admission too many stands, and a
\* denied one never had an effect.  A terminal record counts at most one call that
\* did not happen, and no fewer than happened unless it is PARTIAL; of a success it
\* counts exactly those that happened.
CallsAreAccounted ==
    /\ IF Whole(disk.admission)
       THEN world.calls <= InterruptedCalls /\ InterruptedCalls <= world.calls + 1
       ELSE world.calls = 0
    /\ \A i \in DOMAIN disk.calls :
        disk.calls[i].denied => ~disk.calls[i].completed
    /\ Whole(disk.terminal) =>
        /\ disk.terminal.calls <= world.calls + 1
        /\ disk.terminal.disposition # "partial" => disk.terminal.calls >= world.calls
        /\ ObservedWin(disk.terminal) => disk.terminal.calls = world.calls

\* A run lives once: over all restarts the environment is made at most once, and
\* nothing moves it once a seal or a capsule stands, nor once a terminal record
\* does, unless that is the PARTIAL one of a server that could not store it to the end.
MadeOnce == world.makes <= 1
RunLivesOnce ==
    [][world' # world =>
        /\ {disk.seal, disk.capsule} = {NoFile}
        /\ Whole(disk.terminal) => disk.terminal.disposition = "partial"
        /\ MadeOnce']_runVars

\* Success is earned: a record that claims it was written in the WIN state, over
\* calls all of which were assessed, with none denied or in doubt; and what the
\* seal and the capsule say is what the terminal record says.
SuccessIsEarned ==
    /\ Whole(disk.terminal) /\ ObservedWin(disk.terminal) =>
        /\ world.state = "WIN"
        /\ disk.assessments = world.calls - 1
        /\ disk.marker = NoFile
    /\ Whole(disk.seal) => disk.seal = SealOf(disk.terminal)
    /\ Whole(disk.capsule) => disk.capsule = disk.seal

\* workflow.py:1032, "terminal run cannot act": while a terminal record stands no
\* action is under way.
TerminalRunCannotAct ==
    Whole(disk.terminal) => at \notin {"admitting", "calling", "acted"}

\* calibration/README.md:88: if the process ends while an admitted call is open,
\* seal records FAILED_INFRASTRUCTURE with UNKNOWN_EFFECT.  Where every file is
\* whole and no terminal record stands, seal's own marker is therefore accepted.
EndedRunSeals ==
    /\ at = "none"
    /\ disk.terminal = NoFile
    /\ Whole(disk.admission) /\ disk.marker # Torn
    /\ \A i \in DOMAIN disk.calls : ~disk.calls[i].torn
    => MarkerAccepts(ExitStage)
=============================================================================
