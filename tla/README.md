# Strongwiz in TLA+

A verification development for the Python package `strongwiz`: TLA+ modules
translated from `src/strongwiz/`, TLC configurations that model-check them, and
proofs that TLAPS checks. Line numbers refer to the files as they are in this
repository.

## 1. The system

Strongwiz lets a model propose actions, routes them by control-owned guards,
carries out at most what an external grant allows, and keeps a receipt of every
transition. The supported path is

    scan -> decide -> begin -> execute_once -> assess -> (scan | terminal)

and crosses four stateful parts; a fifth, the framed driver, is one of the ways a
model's proposals reach it.

| Part | State it keeps | Operations | Talks to |
|------|----------------|------------|----------|
| `SQLiteLedger` (ledger.py) | two tables in one SQLite file: content objects, hash-chained receipts | `put_object`, `append`, `receipts`, `verify` | SQLite; any number of connections |
| `GrantRegistry` (authority.py) | status of each grant, the current one, invocation and reservation counters, used serial tokens and invocation ids; the permits it handed out carry a `_used` flag | `activate`, `revoke`, `_begin_permit`, `_release_permit` | control (activates, revokes), the coordinator |
| `ExecutionCoordinator` (orchestration.py) | none of its own; its results are opaque objects that die with the process | `begin`, `execute_once` | the registry, the external executor |
| `ReasoningSession` (runtime.py) | phase, current request, pending proposal, failed-action signature, typed histories, refs of its receipts | `scan`, `decide`, `assess`, `checkpoint`, `restore` | the ledger, the model driver, the domain adapter |
| `FramedModelDriver` (modelkit.py, transport.py) | the restart state: next sequence number, window of accepted reply identities | `propose`, under the driver's lock | two byte streams to a worker, the caller's state sink |

None of the registry, coordinator and session code takes a lock: their calls are
meant for one thread and are modelled as uninterrupted, except where they call
out to something that may fail or take time (the executor, the storage).
Concurrency enters between calls (control acts under a live permit or a running
executor), through several SQLite connections, through several session objects
with one `session_id`, and through the death of a process.

Beside that path stand components that keep their own state and call nobody
on it, except through values that callers pass on:

| Part | State it keeps | Operations | Talks to |
|------|----------------|------------|----------|
| Routing and lab rules (routing.py, lab_policy.py) | none: pure functions of proposals, control snapshot and reviews gathered before | `evaluate_proposal`, `select_route`, `evaluate_lab_rules` | `decide` and `begin` |
| `FactStore` (facts.py) | facts, which are active, known subject versions, rules | `issue`, `lookup`, `mutate_subject`, `transfer` | its owner |
| `AccountBook` (accounts.py) | headers and residuals | `open_*`, `register_residual`, `transition_residual` | its owner, who keeps headers as values |
| `MechanicLedger` (learning.py) | mechanic versions | `register`, `revise_implicated`, `support` | assessments that callers keep |
| `ContinuationStore` (feedback.py) | states, branches, the invalidated ones | `put`, `get`, `fork`, `invalidate_producer` | its owner |
| `AdaptiveCurriculumController` (curriculum.py) | completed handoffs, active stage | `start_next`, `finish_active`, `checkpoint`, `restore` | its owner, who keeps checkpoints |
| `EventDrivenHeartbeat` (heartbeat.py) | last state, boundary count, view, liveness ordinal | `observe`, `show_liveness`, `restore` | its owner, who keeps boundaries |
| `bounded_astar` (planning.py) | heap, costs and predecessors of one search | one call | nobody |
| Kevin Speak (shorthand.py) | a registry of codebook revisions and, by workspace, a lineage of receipts in a ledger | proposals, evaluations, promotion, entries, recommendation, review, adoption, transfer, `restore` | the ledger; other workspaces, through exported bundles and transfers |
| `ScribeSession` (scribe.py) | by account, a journal of receipts; it writes to a workspace of Kevin Speak | `ingest`, `run_cycle`, `restore` | the ledger, the workspace, the provider's driver |
| `run_retention_ablation`, `run_trace_use_ablation` (experiments.py) | the process's registry of occurrences, behind a lock | one call per experiment, from any thread | runners that a factory makes |
| `Calibration002LearningSidecar` and the stage transition (calibration_002/) | a learning ledger with the campaign's receipts and a workspace per stage; a review ledger per review | `create`, `open_stage`, `finish_stage`, `restore`; `close_source_stage`, `review_source_recommendation`, `apply_external_control` | the curriculum controller, Kevin Speak workspaces, the run's seal, external control |
| Streaming finalizer (scripts/strongwiz_streaming_postrun.py) | a lock file per capsule destination; the run's seal, capsules and delivery receipts; a staging directory per transaction | `seal_and_pack_run` | the run directory, other finalizers, the operator who clears a lock |
| Lab and calibration run (lab.py, calibration/) | the files of a run directory, a ledger, a lock file | `prepare`, `serve` (act, assess, stop), `seal`, `pack` | the operator, the official environment |

The rest are pure functions and value types (cadence policy, PAL 2.3 profiles,
contracts, canonical encoding, domain adapters), I/O (frozen identity, CLI,
the other scripts) or bookkeeping not modelled yet (goal graph, the wrapper of
calibration_003). `PROJECT.json` lists each with its status.

What makes it hard, and what correctness means for each modelled part:

* **Ledger** - writers race for the tail, processes die around the commit, a
  verifier reads in two statements. It must remain one chain that passes its own
  verification, never bind an occurrence twice, and never lose what it returned.
* **Registry** - control changes under a permit; expiry is a side effect of a
  refused call; grants come back. Counters must stay exact, a permit and a token
  must be good once, a budget must hold over a grant's whole life, and no effect
  may be released on the strength of its admission alone.
* **Coordinator** - the executor acts early, late, never, or raises on either
  side of the effect, and the process restarts. What is reported must be true.
* **Session** - the receipt is written before the memory moves, so a failure or
  a crash leaves the ledger ahead; a checkpoint is the only way back; handles may
  fork the lineage. Memory must always be the replay of its receipts, and only
  the whole, unforked history may be resumed.
* **Framed driver** - replies come late, twice or with their first bytes already
  read; the replay window forgets; the sink persists and then raises; the driver
  is lost in any step. A request identity must be used once, and a reply must
  answer its own call and be returned once.
* **Calibration run** - every durable write may fail in a server that lives on, or be the
  last one the process makes, and the environment's calls do not come back. A run must
  move its environment in one server's life only, a record that falls short of what
  happened must say so, and a success must be assessed.
* **Scribe** - the provider costs something and must not be asked twice for a cycle;
  two ledger accounts are written in turn and must agree again after a stop
  anywhere; what validates a codebook must not have been shown to its author.
* **Kevin Speak** - several handles on one lineage, failed writes, evidence that
  crosses three workspaces. What is inherited must have been evaluated.
* **Facts, continuations, mechanics, accounts** - values are kept by callers and come
  back late; what was derived must fall with its sources, and a lineage must
  still resolve.
* **Curriculum, heartbeat** - checkpoints and boundaries of any age are restored. The
  campaign must stay in order; silence must mean that nothing changed.
* **Learning campaign** - every call appends several receipts to one ledger and some
  to another, and may stop after any of them; a restored campaign repeats what it
  does not remember. A successor must inherit from
  the last closure, and what external control hands out must have been approved.
* **Experiments** - occurrences are reserved across threads and interruptions. None
  may run twice, and nothing unattempted or failed may count as done.
* **Finalizer** - the run may change while it is copied, the domain state file by file;
  finalizers with different locks share the run's seal, and any of them may fail, roll
  back or stop. What was delivered must show the source as it was, and must stand.
* **Planning** - nodes reached again at lower cost, inconsistent estimates, ceilings.
* **Routing** - proposal, observation, grant, reviews and lab decision age separately,
  and a caller passes any of them to `begin`; what begins must be cleared for itself.

## 2. Modules

    GrantRegistry <- Execution <--\
                                   ReasoningLoop (Session, INSTANCE Execution)
    Ledger <- SQLiteLedger      Session      FramedModel

    Curriculum <- LearningCampaign
    EarnedFacts, Continuations, Accounts, Mechanics <- Provenance
    Scribe, KevinSpeak, LearningCampaign <- Lineages
    CalibrationRun  Lineages  Provenance  BoundedSearch                           (all in
    Heartbeat  Experiments  Postrun                                          MCWorkbench)
    Routing

| Module | Models | How |
|--------|--------|-----|
| `GrantRegistry` | `authority.py` | One action per operation and outcome. `statuses`, `activeRef`, `invocations`, `outstanding`, `invocationIds`, `serialTokens` are the private fields; `issued` and `used` are the `DecisionPermit` objects and their flag; `receipts` remembers what was returned. What the aperture compares (action, executor, scope) is one value, a *target*. A call that raises without changing anything is no step. Two refusals change something: expiry (`BeginPermitLapsed`), and an empty invocation identity, which `DecisionPermit` refuses after the counters have moved (`BeginPermitUnbound`). |
| `Ledger` | the promise of `ledger.py` | Objects only grow; receipts form one append-only hash chain; an occurrence is bound once. Digests are injective names; `receipt_hash` is the tuple it commits to. |
| `SQLiteLedger` | `ledger.py` as its connections run it | BEGIN IMMEDIATE, the checks, the inserts, commit or rollback as separate steps of several connections that may die in between; `verify` as its two reads. SQLite is external: one immediate writer, atomic durable commits, locks and uncommitted writes die with the process. |
| `Execution` | `orchestration.py` over the registry | `Call` is the released branch of `execute_once` up to the executor, `Complete` and `Lose` its two ends, `Effect` the executor's external act, at any time after the call, `Block` the quarantined branch. `Restart` empties the process; `sent` and `effects` belong to the world. |
| `Session` | `runtime.py` over a ledger | One receipt log per session. Every recording call either returns (receipt, then memory) or raises with or without the receipt stored, which covers storage failure, a refused occurrence and an interruption after the commit. `assess` into a final state is two steps, `Assess` and `Close`, because it appends twice. `Restore` is the v2 path with every check of the two validators in `Coherent`. |
| `ReasoningLoop` | the supported path | The session's owner admits what is pending, under the control it was decided with, and may present any result it still holds; the process dies as a whole. |
| `FramedModel` | the framed driver over its streams | One action per point where `propose` may stop: reservation, writing, reading, recording the identity, and the end. Frames are whole messages; a frame read in part is the flag `torn`. `memory` is the driver's restart state, `durable` what the sink persisted last, `written` and `returned` what has left in either direction. The worker answers anything it has read, any number of times. |
| `CalibrationRun` | `calibration/workflow.py` with the parts of `lab.py` and `calibration/core.py` it runs on | `disk` is the run directory and the capsule, `receipts` those receipts the commands look for, `wal` the journal of an open or abandoned connection, `at` where the command at work stands, `mem` its process. Each durable write is a step; `Tears` ends the process inside one, `Die` between two, and where a server lives through a write that fails the step has that outcome too: it serves on (`mem.after`) with what it has in memory, perhaps with an execution it cannot be rid of (`mem.stuck`). A contract file is absent, torn or whole. `world` is the environment, with `make` and `step` raising on either side of their effect. |
| `Scribe` | `scribe.py` | `journal` holds the receipts of each session, `kevin` those of the workspace they share, `doing` and `hand` the operation under way. Every write is a step that may fail (`CycleStepFails`, `FailedCycle`) or be the last (`Stops`). `RestoreAccepts` is what `restore` checks. |
| `KevinSpeak` | `shorthand.py` | `lineage` is the ledger by workspace, `handle` each object's memory. A codebook is the sequence of changes that made it. `Records` is `_record` with the occurrence's idempotence and refusal; `Replay` is `restore`. |
| `EarnedFacts` | `facts.py` | Facts by place of first issue; `Implicated` is the closure of `mutate_subject`. The parent a fact names is left out: the store never reads it. |
| `Continuations` | `ContinuationStore` of `feedback.py` | A state holds the parent it names. `put` takes a state with any branch and any parent, in the store or not, invalidated or not; `forked` remembers the states that `fork` returned. |
| `Mechanics` | `learning.py` | Vectors by channel; `Assessment` is `compare_consequences`, of any prediction; assessments live with callers. A version says which call registered it (`by`), `register` itself included, which takes any next version. |
| `Accounts` | `accounts.py` | `AccountId` is the identity, which leaves witnesses out; `Recordable` is `_record`. `Offered` is what callers pass: a header of the book, or a rival's for the same account and version; `exact` remembers which headers were opened from one of the book. |
| `Provenance` | the four stores together | Nothing new: the properties that facts and continuations, and accounts and mechanics, share. |
| `Lineages` | what is replayed from its receipts | Nothing new: the property that Scribe sessions, Kevin Speak workspaces and the learning campaign share. |
| `Curriculum` | `curriculum.py` | Handoffs and starts as records; `CheckpointValid` is the checkpoint's validator. |
| `LearningCampaign` | `calibration_002/learning.py`, `calibration_002/transition.py` | `campaign` is the learning ledger's campaign receipts, `sidecar` the open object, whose controller is that of `Curriculum`; `sources` and `inheritances` are exported artifacts, `reviewLedgers` what each review's ledger holds. A call that appends n receipts takes the parameter `reached`, the number it got to before it raised or the process ended; `ExactInheritance` is the boundary `open_stage` enforces on an inheritance, whether control handed it out or the caller bound it (`CallerInheritances`, as tests/test_calibration_002_learning.py:179-247 does); `CampaignRestorable` what `restore` checks. |
| `Experiments` | `experiments.py` | `reserved` is the registry of the process; `ReserveOccurrences`, `RunArm` and `EndTrial` are the steps of an experiment that others interleave with. `Judged` is what `_execute_isolated_runner` makes of the steps returned. |
| `Postrun` | the streaming finalizer | `finalizer` is the transaction at work in each process, `locks`, `runSeal`, `packed` and `delivered` the files that others see. A file says which transaction made it (`by`), as its inode does. The source is a ledger and a domain of several files, each copied (`CopyFile`) and compared (`RecheckFile`) at its own moment; `moments` remembers what it was. |
| `BoundedSearch` | `planning.py` | One action per outcome of a turn of the loop, over every graph of the instance; `WalkCosts` (what the walks from a node to a goal cost) is the reference definition. |
| `Heartbeat` | `heartbeat.py` | `ObserveFirst`, `ObserveChange` and `ObserveQuiet` are the outcomes of `observe`. |
| `Routing` | `routing.py`, `lab_policy.py`, the checks of `begin` | The guards as operators. Observing, granting, deciding, taking the control snapshot, routing and `Begin` are actions of their own, so each works on values of another time; `Passed` is what a caller may pass to `begin` in place of what was routed. |

`MC*` modules give the constants of the checks; `*Proofs` modules hold the proofs:
one each for `SQLiteLedger`, `FramedModel`, `CalibrationRun` and `Session`, one for
`GrantRegistry` and `Execution` together, one for `ReasoningLoop` (on the session's),
`WorkbenchProofs` for the smaller components, and `LineagesProofs` for Kevin Speak and
for what `Lineages` states.
Definitions whose comment says "Mutant of X" are deliberate faults: replacing X by
one of them must break the property it is listed for in `PROJECT.json`.

## 3. What is checked

| Run | Instance and bounds | Shows |
|-----|---------------------|-------|
| `ledger` | two connections, five receipt contents (a record, a rival for its occurrence, dependents, a dangling one), three objects | chain, idempotency, durability, the refinement of `Ledger`, `verify` racing a writer, and that transactions end |
| `session` | two handles, two requests with different beliefs, two actions, two controls; four receipts, and six while one handle lives and the history is not forked (`Explored`) | racing, forking, failing, crashing and restoring handles; a whole failure cycle or terminal cycle with checkpoints and restarts |
| `execution` | one of three: the registry with three grants, one of which replaces another, budgets one and two, two targets, two invocation ids, three serial tokens, boundaries 0..2; calls with two grants, two tokens, two invocation ids, two boundaries and one restart (`MCFew`); routing with three drafts, eight apertures that lack one thing each, two grants, nine submissions, `MaxObservation` 1 | the registry's counters, budget and chain of control; results and one-use commands against an executor that may do anything; what `begin` lets through, with each guard failing alone and with stale or exchanged proposal, control, grant, decision and reviews, claimed decisions included |
| `loop` | one session, two controls, two invocations, four receipts, one restart | the four parts together |
| `framed` | one request repeated over three sequence numbers, three reply identities, a window of two, two frames in the stream | the framed driver against late, repeated and invalid replies, partial reads, a failing sink and losses |
| `workbench` | thirteen small instances, one for each module beside the supported path but `Routing` (next table) | lifetimes, restores, invalidation, evidence, inheritance and optimality in the components beside the path |
| `session_fault`, `session_repeat`, `loop_earned`, `calibration_seal`, `calibration_terminal`, `postrun_seal` | the smallest instances that reach them | the six disagreements of section 5 |

`workbench` chooses one of its components at the start of a behaviour and lets the
others rest: in the source none of them touches another's state (the campaign holds a curriculum
controller, and its instance runs that one), so their interleavings would add states
and no behaviour. Its state space is the sum of
thirteen, and each of its properties is about one component, or two.

| Component | Instance and bounds | What happens in it |
|-----------|---------------------|--------------------|
| calibration run | `MaxCalls` 4, `MaxResets` 2, `MaxAttempts` 2 | initial reset, two actions and a reset, a revision; a stop, a crash or a torn file at every write, with sealing and packing after it; a write that fails in a server that lives on, and what that server does next |
| scribe | two sessions of one workspace, two payloads, `MaxMaterials` 4, `MaxCycles` 2, `MaxGap` 0, stride 2 with slot 1, `CycleMaterials` 2 | payloads that repeat on both sides, age out of the window and repeat across cycles; overtaking sessions |
| Kevin Speak | two handles, two meanings, `MaxBooks` 3; receipts: `MaxSource` 5, `MaxReview` 6, `MaxSuccessor` 2, `MaxTotal` 6, with both handles `MaxShared` 3 | from a proposal through recommendation, review and refinement to an inherited workspace; forks of a lineage |
| facts | two subjects with versions 0 and 1, `MaxFacts` 3 | chains of two derivations, transfers, reissue |
| continuations | two producers with two snapshots each, one branch, `MaxStates` 3 | forks of forks; states put with any parent before and after |
| mechanics | two channels, `MaxMechanicVersions` 3, `MaxAssessments` 2 | stale assessments, repeated vectors, versions that callers register between repairs |
| accounts | two witnesses, `MaxAccountVersion` 1, `MaxHeaders` 3, `MaxResiduals` 2 | rival openings of one identity, rival headers passed for those of the book, residuals on any version |
| curriculum | a plan of three stages, two stacks, `MaxSaved` 1 | restore of any checkpoint into any later state |
| learning campaign | the same plan, one run seal, `MaxRuns` 3, `MaxReviews` 1, one decision identity, `MaxCampaign` 11 receipts | all three stages, successors out of control's inheritance and of callers' own; one interrupted call in two successor openings, closures and control decisions, with restores and reclosing |
| experiments | two threads, two arms, one experiment identity, `MaxOccurrence` 3, `MaxReserved` 4 (two experiments), a denominator of two, `StepBudget` 2, five step sequences | rival and overlapping reservations, interruption at any arm, every disposition |
| finalizer | two processes, two capsule destinations, one receipt path, `MaxTransactions` 2, two domain files, `MaxMoments` 3 | every interleaving of two transactions over one run, changes of the ledger and of single files between any two steps, a file that changes and comes back included, failure, rollback or stop at every step, cleared locks |
| search | four nodes, six arcs with a cycle, edge costs 1 and 3 or none, nine heuristics, three ceilings | inconsistent and overestimating heuristics, re-expansion, every ceiling |
| heartbeat | two runs, three fields that vary, two snapshots, `MaxBoundaries` 2, `MaxProgress` 1 | quiet changes, other runs, restore |

Bounds, all of them named: `MaxReceipts` (length of a session's log; four is a
full scan-decide-assess cycle with a checkpoint, six a failed cycle followed by
a second decision), `MaxRestarts` (one death is enough to meet the previous
process), `MaxSequence` and `MaxInbox` (three calls fill a window of two and evict
from it, a fourth could read an evicted reply again, which the proof covers; two
frames let a late reply stand before a timely one), the finite sets of tokens, invocation ids and boundaries (a budget of
two under three tokens meets every counter's limit). The constraint `Unforked`
limits `loop` and the violation runs of the session to histories without a
fork; forks are the subject of `session`. Symmetry is declared only for values that
are compared for equality, and never in a run that checks liveness. In `workbench`
handles, sessions, subjects, witnesses, threads and finalizers are permuted by one
permutation, and so are meanings, payloads, capsules and channels: no behaviour moves two components, so this is a
subgroup of what each admits.

`CHECK_DEADLOCK FALSE` stands in `execution`, where a registry with its tokens spent and its
grants superseded has nothing left to do and a routed behaviour ends with the execution
it begins; in `workbench`, where a search ends and bounded books fill up; and in
`calibration_seal`, `calibration_terminal` and `postrun_seal`, where a packed run is
finished.

The type invariants stand in no run, and neither do `SpentGrantOnlySuperseded`,
`SerialReleasedOnce`, `OccurrencesUnique`, `OneResultPerPermit` and
`EffectsWithinBudget`: they are theorems or parts of a proved invariant (section 4).
That of `KevinSpeak` stands with its proof.

Every property is there for a hazard of `PROJECT.json`, each at its line.
Some that deserve a word:

* `ReservationsMatchPermits` is why `_finish_reservation` cannot raise after the
  permit has been consumed, where the exception would destroy the permit and
  lose its receipt. It counts the one reservation of a grant that an empty invocation
  identity may have stranded.
* `MemoryIsReplay` compares a handle's fields with a fold over the receipts it
  stands on: a fault in any order of appending, raising, crashing and restoring
  shows up in it.
* `VerifyRaisesOnlyOvertaken` pins down when `verify` may raise on an intact
  ledger: only when a receipt was committed between its two reads. The code
  makes no stronger promise, and the weaker one is what its callers can rely on.
* `AnswersRemembered` measures the persisted window against the sequence numbers
  used since: a reply a failing sink has recorded ahead of the driver's memory,
  or a driver lost on either side of the sink, must not push a returned reply
  out early. `AnswersAreFresh` covers what comes after: a reply that has left the
  window may be read again and recorded again, but not returned again.
* `CallsAreAccounted` compares what the environment did with what files that survive
  any crash say: an admission without a denial counts, whatever came after it. Only a
  PARTIAL record may fall short, which a server writes that stops with an execution of
  unknown effect, or that could not store it and served on.
* `RunLivesOnce` forbids a second construction, and any move beside a success, a failure
  record, a seal or a capsule. It does not forbid a move beside a PARTIAL record that the
  serving server failed to store; `TerminalRunCannotAct` shows that this happens.
* `SuccessIsEarned` follows a claim of success from the assessed `WIN` into the
  terminal record, the seal and the capsule.
* `LineagesRestore` replays what stands in a ledger at every point where a process
  may have stopped: Scribe sessions, Kevin Speak workspaces, the learning campaign.
  It excludes exactly what the code gives away: an overtaken cycle, a forked
  lineage, and a stage opened (or a campaign begun) without its checkpoint.
* `SuccessorsFollowControl` looks from an opened stage back over its inheritance, the
  outcome, the review and the closure it came from, in two ledgers, wherever calls
  were cut; an inheritance that a caller bound itself has only the closure. That a handoff may be closed twice after a restore does not break it,
  because a doubled closure is refused where it would be inherited from.
* `AttemptsAreWhole` needs the reservation to be of all occurrences or of none: an
  overlap lets two threads start runners for one occurrence.
* `HeldOutStaysHeldOut` is about all cycles of a session together; it holds because
  a payload's lane follows the first ordinal it ever appeared at.
* `TransfersAreEarned` looks from a successor back over three workspaces.
* `SearchIsOptimal` compares with every walk of the whole graph, for admissible
  estimates; for others it only claims that the path costs what is reported.
* `BegunIsCleared` states what an execution stands on in terms of the proposal, the grant
  in force and the reviews passed, not in terms of the guards that were evaluated before.
  It does not say that the observation is the current one, which `begin` never reads.
* `LineagesResolve` claims of a header that names an origin outside the book only what
  the book examines, its account and version; of a mechanic's version that a caller
  registered itself it claims nothing.
* `DeliveriesStand` says of a delivered domain state that each file stood beside the
  ledger shown with it. That all of them stood at one moment it says unless some file
  changed and came back, which two walks cannot tell.
* `UnknownIsNeverAssessed` needs three parts at once: the coordinator's report,
  the serial token that stops a second permit under the same control snapshot,
  and the session's comparison of the route's control.

### Fairness

Only `FairConnectionsSpec` states fairness: weak fairness of a connection's next
transaction step, because `append` runs straight through from BEGIN to commit
or rollback in a process that keeps running. A process that dies takes `Abort`.
Nothing is assumed of callers, of control or of the executor: the executor call
has no timeout, so no liveness can be claimed of it.

## 4. What is proved

TLAPS checks these for every value of the constants that satisfies the assumptions
its module names (`GrantAssumption`, `LedgerAssumption`, `SessionAssumption`,
`CampaignAssumption`, ...). The assumptions state what the validators of the value
types guarantee (budgets and window sizes are positive, a plan has its stages and ends
with the final one), that bounds are natural numbers, and that placeholders such as
`Nothing` are no values; TLC evaluates every one of them in the passing runs. No
bound of a run enters a proof as a number.

The supported path:

* `ExecutionProofs`, the registry. The properties are not inductive alone: that a
  release respects the budget follows only from how receipts relate to used permits,
  used to issued ones, and issued ones to the invocation counter. `IInv` states
  those bonds (`Bookkeeping`, `ReceiptsMatchUsed`) beside the type invariant,
  `OneCurrentGrant`, `ReservationsMatchPermits` and `ExhaustedMeansSpent`. The
  three outcomes of a release share one lemma (`ConcludeStep`); the counting
  steps are `AddPermit` and `RemovePermit`. The budget is an injection from
  releases to permits. `Stranded` is part of the counting throughout. The four properties that
  `execution` checks of the registry are theorems, and so are the type invariant and `SpentGrantOnlySuperseded`.
* `ExecutionProofs`, the coordinator. The registry's invariant carries over, a restart
  being its initial state again. `SentByUsedPermits` binds the commands of the living
  process to its used permits, from which token and budget bounds follow for it;
  for the dead processes they are preserved. The two properties of calls in
  `execution` are theorems, and so are its type invariant, `OneResultPerPermit` and
  `EffectsWithinBudget`.
* `SQLiteLedgerProofs`. The chain invariant is kept by an append to the abstract
  ledger; every step of the connections is a step of `Ledger` or leaves it alone
  (`ConnectionsImplementLedger`), so the ledger's invariants are inherited.
  `OccurrencesUnique` is part of them. `AckedIsDurable` needs that what is staged was
  built from the present tail, which the write lock guarantees. `ReadingInv` follows
  `verify` between its two reads: the receipts are no fewer than when the objects were
  read, and as long as they are no more, those objects are enough.
* `SessionProofs`. `SessionInv` has three parts beside the types: a live handle's
  receipts are one branch of the ledger, its fields are what `Replay` reads in that
  branch, and they cohere as the validators of a checkpoint demand (`Stands`); and each
  receipt was due in the state that its own parent's lineage tells, a checkpoint being
  that state's snapshot (`Written`). A lineage once written never changes, because the
  ledger only grows, so a step has to be looked at for the handle that acts. All five
  properties of `session` are theorems, and so is type correctness.
* `ReasoningLoopProofs`. To `SessionInv` it adds that permits are for decisions that
  stand in the ledger, one for each token (`PermitInv`), and that a call is answered
  once, and as completed only after its effect (`AnswerInv`). When the
  process dies its permits and results go with it; what stays (receipts, effects) is
  bound by `EffectsAreDecided` and `AssessedActionHappened` themselves. The three
  properties of `loop` are theorems.
* `FramedModelProofs`. `IInv` orders everything by sequence numbers: what has
  been written and returned lies below the persisted next number, with the number
  of the call under way on top (`WrittenReserved`, `ReturnedInOrder`), and a
  returned reply is no farther from the window's end than numbers have been used
  since (`Kept`). `RetainedProperties` is the fact about the slice that keeps the
  window. The four properties of `framed` and its type invariant are theorems.

The components beside it:

* `CalibrationRunProofs`. `RunInv` goes by where the command stands and whether its
  server lives on (`Live`): nothing has happened until the environment is made
  (`UnbegunInv`); a live server's counter is the environment's, unless a step is in
  doubt (`SeesInv`), and each call is assessed but the one it waits with (`WaitsInv`);
  the admissions that count are the calls made and at most one more (`AccountsInv`); a
  record tells what happened (`Tells`) and fits the server that goes on beside it
  (`Fits`, in `RecordInv`); and what is sealed and packed is that record (`SealInv`). A
  torn file is a value the invariant speaks of, so every write has all its ends.
* `WorkbenchProofs`, by component:
  * Finalizer. Each transaction's looks at the source, one for each file and walk, are
    behind what the source has become, what it has published stands for as long as it holds its lock, and what
    a receipt names stands (`PostrunInv`).
  * Scribe. `ScribeInv` relates journals, the cycle at hand, the questions put and the
    workspace: a driver was asked only on a journalled request, a payload's lane follows
    its first ordinal, and the workspace holds frozen drafts only.
  * Routing. A decision that evaluates again to a clear effect was made of a satisfied
    review, a crossing and, where required, a release (`ClearEffect`). `BeginsHolds` is
    what the checks of `begin` establish together, whatever is passed; no invariant of
    what was gathered before is needed.
  * Curriculum. The controller and every saved checkpoint hold a lawful prefix of the plan.
  * Learning campaign. The last checkpoint in the ledger lacks at most one opening or one
    closure; its handoffs cover every exported source, so an exported closure is never
    doubled. The sidecar remembers all openings and the last closure. Reviews are of
    exported sources that were closed once, and control's inheritances are of approved ones.
    `CampaignInv` is the conjunction; the two theorems are that successors follow control
    and that the campaign restores, wherever its calls were cut.
  * Heartbeat. What is displayed is the state, and every boundary tells what changed.
  * Experiments. Attempts are of reserved keys, the arms still to run have asked for no
    runner, and experiments at work share no key.
  * Facts, continuations, accounts, mechanics. Active facts stand on active ones, an
    inactive one cannot be issued again, forks lead back to their parents, versions
    follow one another. That `Implicated`, a recursion, reaches everything that depends on
    a subject is proved by a round that adds nothing.
  * Search. `LateIsWorse` is what keeps an admissible search optimal without consistent
    estimates: a node on the path to a queued one, if it may still be reached at a
    lower cost from some queued node, is not estimated above both of them, so it is
    taken up again before the path through it is believed. Together with the fact that
    every walk to the goal leaves the expanded nodes through a queued one (`WalkOpen`),
    no walk costs less than the path kept.

* `LineagesProofs`:
  * Kevin Speak. `KevinInv` has three parts: the types (`KevinTypeOK`); that whatever a
    lineage, a handle, a bundle or a transfer holds stands on earned codebooks and on
    evidence about the lineage it was gathered in, so that a chain of workspaces passes
    on nothing unearned or withheld; and that each handle follows a prefix of its
    lineage (`Follows`), which, as long as it is unbroken, replays to what the handles at
    its end hold (`Reads`). A receipt more extends the replay by one step and leaves
    the steps before it (`Replayed`), so the handle that wrote it is still at the end,
    and the others are behind. `TransfersAreEarned` and `WorkspacesRestore` follow.
  * Scribe. `RestoreInv` adds to `ScribeInv` that every request and material is what
    `restore` expects at its place (`ReceiptsReplay`), that a cycle's receipt declares
    what the workspace holds of it (`CyclesStand`), that at most one cycle is unfinished,
    and that the operation at work holds that one and knows how far the workspace has
    followed it (`HandFollows`). Both ledgers only grow, so what was read at a place is
    read there again (`ReceiptStillReplays`, `KevinGrows`); the rest is that no step puts
    a receipt where it does not belong, whichever write an earlier one stopped at.
  * `LineagesRestored` puts these together with the campaign's theorem: all three
    restore, but for the windows that `LineagesRestore` names.

Two techniques recur. Induction over the naturals is done with sets, through least
elements (`Least` and `Induction` of `SessionProofs`, from the library's fact that `<` is
well-founded), because the library's induction theorems take an operator. And what
a recursive function computes is used only after the function is shown to exist: a
sequence of values for `n` extends to one for `n + 1` (`RoundsExist` is the plainest).
The modules concerned therefore define lineages, replays, walks and rounds as recursive
functions.

The largest inductive invariants were given to TLC as invariants of their component's
instance before they were proved: `RunInv` on 484,201 states, `KevinInv` on 371,265,
`PostrunInv` on 345,737, `CampaignInv` on 122,762, `RestoreInv` on 96,569, `ScribeInv` on
76,964.

Only model-checked: `TransactionsEnd`, which is liveness, and that the violation runs'
properties fail, which TLC's counterexamples show. Every other property of a passing run
is a theorem.

## 5. Where the code and its documentation differ

* `session_fault` - `assess` becomes terminal in memory and then appends the
  terminal checkpoint (runtime.py:1210-1217). If that append fails, the call
  raises with the phase already left, against docs/reasoning-loop.md:58-60. The
  assessment itself is on record; an owner who sees the exception finds the session
  `TERMINAL`, with no checkpoint to restore from, until it calls `checkpoint`.
* `session_repeat` - the guard against repeating a failed action remembers one
  signature (runtime.py:1032, 1182); after a second action has failed, the first
  is admitted again under unchanged beliefs.
* `loop_earned` - a completed result is not consumed by `assess`
  (runtime.py:1085). When the owner scans the same request again and decides
  under the same control snapshot, the old result closes the new action, which
  was never executed. The serial token would have refused a second execution.
* `calibration_seal` - when a failure is terminalized inside the server, its
  interruption marker names that stage (calibration/workflow.py:696); if the
  process ends before the terminal record is written, the marker of a later `seal`
  names another (workflow.py:1602), and the contract file refuses the different
  content (workflow.py:205-214) at every attempt, against
  calibration/README.md:87-90.
* `calibration_terminal` - `act` is guarded by `_terminal_record` (workflow.py:1031-1032,
  "terminal run cannot act"), which is set last (1547), after the terminal record's file
  (1534), its object (1535), its receipt (1538) and the verification (1546). When one of
  the last three raises, server.py:163 answers an error and the server serves on: a later
  `act` steps the environment beside the terminal record.
* `postrun_seal` - the finalizer's lock is named by the capsule destination
  (strongwiz_streaming_postrun.py:245), but the seal lies in the run. A finalizer
  publishes the seal and fails; before it rolls back, a finalizer of another capsule
  accepts that seal as its own content and commits its receipt; the rollback then
  removes the seal (2138-2157), against "receipt-committed outputs are retained"
  (1834-1836). `DeliveriesStand` says what does hold: the capsule always stands, and
  so does a seal that the delivering transaction published itself.

Some behaviours contradict no document, but a reader should know them; the properties
are stated so that they stay visible:

* A scribe cycle that froze its draft before another session of the workspace promoted
  builds its candidate on the workspace's codebook, not on its request's, and from
  then on every verification of that session raises (scribe.py:1235-1249, 1554):
  `Overtaken`.
* Two handles of one Kevin Speak workspace may write receipts of different kinds at
  one index; `restore` refuses the workspace for good.
* A learning campaign whose process ended after a `stage_opened` receipt and before
  its checkpoint is refused by every `restore` (calibration_002/learning.py:545), and
  so is one whose genesis stands without a checkpoint: `OpeningCut`.
* One whose process ended after `stage_closed` and before its checkpoint restores with
  the stage still active; closed again in the same way, its handoff stands in the
  ledger twice and no review of it passes (calibration_002/transition.py:962).
* A control decision interrupted after its adoption cannot be taken again under its
  identity, and the opposite decision may follow it; an inheritance comes only from
  the outcome.
* A terminal record whose object or receipt was not written, because the process ended or
  because the write failed, stops every new server and every seal (lab.py:1393).
* A server whose marker could not be written goes on with an execution of unknown effect;
  stopped later, it records PARTIAL with its own count.
* An admission with an empty invocation identity raises after the counters have moved
  (authority.py:293-297, 181-182): one invocation of the budget is gone, and that grant is
  never `EXHAUSTED`, because its reservation is never concluded.
* `begin` reads neither the current observation nor decisions newer than the one passed:
  a route of an earlier observation begins if grant and reviews still bind it
  (orchestration.py:193-272).
* `put` of the continuation store takes a state whose parent it does not hold or has
  invalidated (feedback.py:116), and `get` serves it; only forks that the store took fall
  with their parents. `issue` of the fact store never looks at the parent named.
* The account book examines account and version of a header that is passed, not the
  header (accounts.py:264), and records the digest of what was passed; `register` of the
  mechanic ledger takes any next version with any status, unassessed (learning.py:289).
* A caller may bind an inheritance of its own out of a closed stage and open the
  successor without a review (calibration_002/learning.py:214, 725-742).
* The finalizer copies and compares the domain state file by file; a file that changes
  and comes back passes both walks (strongwiz_streaming_postrun.py:1046-1063, 1084-1116).

Two behaviours that look alike are documented, and no finding: an action may be
executed again after the process died (docs/adapters.md:73-77), and control may
activate a revoked grant again, with its old counters.

## 6. Not modelled

Inside the modelled parts: frame headers, size limits and the binary encoding, and
the replay guard outside the framed driver; sessions without a ledger and v1
checkpoints; driver, policy and manifest identity checks, which compare values that do not change;
which proposal a route selects inside `Session` (`Decide` takes any, `DecideNothing`
none; `Routing` says which it is); rewriting the SQLite file from outside, which is
what `verify` is for; the read-only opener and the JSONL projection. In the calibration
run: two commands at once, the hashing of trees and ledgers, promotion receipts, trace and image files. In the
scribe and Kevin Speak: the byte codec and the metrics by which a candidate is
eligible, and the policy that leaves promotion to the caller. In the facts: the
economics. In the learning campaign: what a stage's workspace holds and which codebook
a review selects, which are Kevin Speak's, and the tampering checks of
`verify_transition_result`. In the experiments: costs have one component, and
digests, evidence references and the trace design are left out. In the finalizer: the
streaming verification, bounded reading and link checks, whose refusals are failures of
a step, and failures while the lock file itself is written or released. In routing: the router policy's two flags, which stand at their defaults.

Of the other parts, the cadence policy, PAL 2.3 profiles, contracts, canonical
encoding and domain adapters are pure functions and value types without state; the
frozen identity, the command line and the other scripts are I/O; the goal graph keeps a
table without rules between its calls; calibration_003 wraps the calibration run. `PROJECT.json` lists each with its reason.

## 7. Plan

1. Sessions without a ledger, and v1 checkpoints.
2. `Routing` as the decision inside `Session`.
3. The goal graph; what calibration_003 adds to the calibration run.
