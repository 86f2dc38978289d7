-------------------------------- MODULE Session --------------------------------
(***************************************************************************)
(* ReasoningSession of src/strongwiz/runtime.py over an evidence ledger.   *)
(* The session keeps its state in memory and appends a receipt before each *)
(* change of it; a checkpoint receipt is the only way back after the       *)
(* process that held the memory is gone.                                   *)
(*                                                                         *)
(* Several objects ("handles") may carry the same session_id: two          *)
(* processes, or a restored session beside the one it was restored from.   *)
(* They share only the ledger, which is taken here as Ledger promises it:  *)
(* one append at a time, idempotent on the same occurrence and content,    *)
(* refusing other content for a used occurrence.                           *)
(*                                                                         *)
(* The receipts of one session are modelled, in ledger order; a receipt is *)
(* named by its place among them, and 0 stands for "no receipt".  Digests  *)
(* stand for what they name.  Frozen manifest, driver and policy           *)
(* identities do not change and are left out, as are the contents that     *)
(* only decide which proposal a route selects.                             *)
(***************************************************************************)
EXTENDS Naturals, Sequences, SequencesExt

CONSTANTS
    Handles,      \* session objects with one session_id and one ledger
    Requests,     \* reasoning requests: an observation, a goal and beliefs
    Belief,       \* belief_ref of each request: distinctions, facts, goal
    Actions,      \* actions a proposal can carry
    Controls,     \* control snapshots decisions are routed under
    Evidence,     \* what distinguishes execution results: invocation, observation
    Nothing,      \* Python's None
    MaxReceipts   \* bound on the session's receipts

ASSUME SessionAssumption ==
    /\ Requests \subseteq DOMAIN Belief
    /\ MaxReceipts \in Nat

Phases == {"NEEDS_SCAN", "READY_TO_ACT", "AWAITING_ASSESSMENT", "TERMINAL"}
Final == {"SUCCESS", "BLOCKED"}
Authorities == Final \cup {"CONTINUE", "FAILURE"}
CheckpointKinds == {"session_checkpoint", "session_terminal"}

\* A proposal binds the observation and goal of the request it answers.
Proposals == [request : Requests, action : Actions]

\* ExecutionCallResult: the proposal and control it was admitted for, and how it
\* ended.
Executions ==
    [proposal : Proposals, control : Controls, evidence : Evidence,
     disposition : {"COMPLETED", "UNKNOWN_EFFECT", "BLOCKED"}]

\* The failed-action guard: an action digest and a belief digest.
Signature(p) == [action |-> p.action, belief |-> Belief[p.request]]
Signatures == {Signature(p) : p \in Proposals}

\* What the receipts carry: ScanReceipt, DecisionRecord, AssessmentRecord and the
\* checkpoint snapshot SessionCheckpointV2.
Scans == [request : Requests, before : Phases]
Decisions == [request : Requests, control : Controls, selected : Proposals \cup {Nothing}]
Assessments ==
    [proposal : Proposals, evidence : Executions, authority : Authorities, after : Phases]
Snapshots ==
    [phase : Phases, terminal : Final \cup {Nothing}, request : Requests \cup {Nothing},
     pending : Proposals \cup {Nothing}, failed : Signatures \cup {Nothing},
     count : Nat, head : Nat, scans : Nat, decisions : Nat, assessments : Nat, admitted : Nat]
Receipts ==
    [position : Nat, kind : {"scan"}, body : Scans, parent : Nat]
    \cup [position : Nat, kind : {"decision"}, body : Decisions, parent : Nat]
    \cup [position : Nat, kind : {"assessment"}, body : Assessments, parent : Nat]
    \cup [position : Nat, kind : CheckpointKinds, body : Snapshots, parent : Nat]

\* The attributes of a session object.
Memories ==
    [phase : Phases, request : Requests \cup {Nothing}, pending : Proposals \cup {Nothing},
     terminal : Final \cup {Nothing}, failed : Signatures \cup {Nothing}, scans : Seq(Scans),
     decisions : Seq(Decisions), assessments : Seq(Assessments), refs : Seq(Nat)]

\* None is neither a request, a proposal nor a session.
ASSUME NothingAssumption ==
    Nothing \notin Requests /\ Nothing \notin Proposals /\ Nothing \notin Memories

VARIABLES
    log,      \* this session's receipts in ledger order
    memory,   \* attributes of each live handle, Nothing for a dead one
    closing,  \* handles inside assess, between its two receipts
    fault     \* the call that raised in the last step and the phase it met

vars == <<log, memory, closing, fault>>

Fresh ==
    [phase |-> "NEEDS_SCAN", request |-> Nothing, pending |-> Nothing,
     terminal |-> Nothing, failed |-> Nothing, scans |-> <<>>,
     decisions |-> <<>>, assessments |-> <<>>, refs |-> <<>>]

Live(h) == memory[h] # Nothing
Callable(h) == Live(h) /\ h \notin closing

Init ==
    /\ log = <<>>
    /\ memory = [h \in Handles |-> Nothing]
    /\ closing = {}
    /\ fault = Nothing

-----------------------------------------------------------------------------
\* The receipt _record asks for: the occurrence identity is the handle's own
\* count of receipts and the kind, the parent is its own last receipt.
Receipt(m, kind, body) ==
    [position |-> Len(m.refs), kind |-> kind, body |-> body,
     parent |-> IF m.refs = <<>> THEN 0 ELSE Last(m.refs)]

SameOccurrence(e) == {i \in 1..Len(log) : log[i].position = e.position /\ log[i].kind = e.kind}

\* append: the new receipt goes last, or the stored one is returned.
Stored(e) == SelectInSeq(log, LAMBDA r : r = e)
Appended(e) ==
    /\ SameOccurrence(e) = {}
    /\ Len(log) < MaxReceipts
    /\ log' = Append(log, e)
Known(e) == Stored(e) # 0 /\ UNCHANGED log
Place(e) == IF Stored(e) # 0 THEN Stored(e) ELSE Len(log) + 1

\* A recording call runs to its end: the receipt first, then the memory.
Returns(h, e, after) ==
    /\ Appended(e) \/ Known(e)
    /\ memory' = [memory EXCEPT ![h] = [after EXCEPT !.refs = Append(memory[h].refs, Place(e))]]
    /\ fault' = Nothing

\* Or it raises: the ledger refuses another content for the occurrence, the
\* storage fails, or the call is interrupted after the commit.
Raises(h, e, before) ==
    /\ \/ UNCHANGED log
       \/ Appended(e)
    /\ fault' = [handle |-> h, before |-> before]
    /\ UNCHANGED memory

Records(h, e, after) == Returns(h, e, after) \/ Raises(h, e, memory[h].phase)

-----------------------------------------------------------------------------
\* ReasoningSession(...) in a process that holds none under this handle.
New(h) ==
    /\ ~Live(h)
    /\ memory' = [memory EXCEPT ![h] = Fresh]
    /\ fault' = Nothing
    /\ UNCHANGED <<log, closing>>

\* The process dies; what it had appended stays.
Crash(h) ==
    /\ Live(h)
    /\ memory' = [memory EXCEPT ![h] = Nothing]
    /\ closing' = closing \ {h}
    /\ fault' = Nothing
    /\ UNCHANGED log

\* Mutant of Scan: a pending action does not stop a new scan.
ScanOverPending(h, r) ==
    /\ Callable(h)
    /\ memory[h].phase # "TERMINAL"
    /\ LET scan == [request |-> r, before |-> memory[h].phase]
       IN  Records(h, Receipt(memory[h], "scan", scan),
                   [memory[h] EXCEPT !.request = r, !.phase = "READY_TO_ACT",
                                     !.scans = Append(@, scan)])
    /\ UNCHANGED closing

\* scan: before the action of the session, or again before its decision.
Scan(h, r) ==
    /\ Callable(h)
    /\ memory[h].phase \in {"NEEDS_SCAN", "READY_TO_ACT"}
    /\ LET scan == [request |-> r, before |-> memory[h].phase]
       IN  Records(h, Receipt(memory[h], "scan", scan),
                   [memory[h] EXCEPT !.request = r, !.phase = "READY_TO_ACT",
                                     !.scans = Append(@, scan)])
    /\ UNCHANGED closing

\* decide when the route selects no proposal: recorded, the phase stays.
DecideNothing(h, c) ==
    /\ Callable(h)
    /\ memory[h].phase = "READY_TO_ACT"
    /\ LET decision == [request |-> memory[h].request, control |-> c, selected |-> Nothing]
       IN  Records(h, Receipt(memory[h], "decision", decision),
                   [memory[h] EXCEPT !.decisions = Append(@, decision)])
    /\ UNCHANGED closing

\* Mutant of Decide: memory advances even when the append fails.
DecideUnrecorded(h, c, a) ==
    /\ Callable(h)
    /\ memory[h].phase = "READY_TO_ACT"
    /\ LET p == [request |-> memory[h].request, action |-> a]
           decision == [request |-> p.request, control |-> c, selected |-> p]
           after == [memory[h] EXCEPT !.pending = p, !.phase = "AWAITING_ASSESSMENT",
                                      !.decisions = Append(@, decision)]
       IN  \/ Returns(h, Receipt(memory[h], "decision", decision), after)
           \/ /\ memory' = [memory EXCEPT ![h] = after]
              /\ fault' = [handle |-> h, before |-> memory[h].phase]
              /\ UNCHANGED log
    /\ UNCHANGED closing

\* decide when the route selects a proposal the failed-action guard passes; a
\* proposal it blocks raises with nothing recorded.
Decide(h, c, a) ==
    /\ Callable(h)
    /\ memory[h].phase = "READY_TO_ACT"
    /\ LET p == [request |-> memory[h].request, action |-> a]
           decision == [request |-> p.request, control |-> c, selected |-> p]
       IN  /\ Signature(p) # memory[h].failed
           /\ Records(h, Receipt(memory[h], "decision", decision),
                      [memory[h] EXCEPT !.pending = p, !.phase = "AWAITING_ASSESSMENT",
                                        !.decisions = Append(@, decision)])
    /\ UNCHANGED closing

\* Mutant of ExactEvidence: the disposition of the attempt is not looked at.
ExactEvidenceAnyOutcome(m, x) ==
    /\ x.proposal = m.pending
    /\ Last(m.decisions).selected = m.pending
    /\ x.control = Last(m.decisions).control

\* assess accepts the completed execution of exactly the pending decision.
ExactEvidence(m, x) ==
    /\ x.disposition = "COMPLETED"
    /\ x.proposal = m.pending
    /\ Last(m.decisions).selected = m.pending
    /\ x.control = Last(m.decisions).control

\* assess, up to its own receipt and the advance it makes.  A final authority
\* leaves the terminal checkpoint still to be appended inside the same call.
Assess(h, x, authority) ==
    /\ Callable(h)
    /\ memory[h].phase = "AWAITING_ASSESSMENT"
    /\ ExactEvidence(memory[h], x)
    /\ LET p == memory[h].pending
           final == authority \in Final
           phase == IF final THEN "TERMINAL" ELSE "NEEDS_SCAN"
           assessment == [proposal |-> p, evidence |-> x, authority |-> authority, after |-> phase]
           receipt == Receipt(memory[h], "assessment", assessment)
           after == [memory[h] EXCEPT
                        !.pending = Nothing, !.request = Nothing, !.phase = phase,
                        !.terminal = IF final THEN authority ELSE @,
                        !.failed = IF authority = "FAILURE" THEN Signature(p) ELSE @,
                        !.assessments = Append(@, assessment)]
       IN  \/ /\ Returns(h, receipt, after)
              /\ closing' = IF final THEN closing \cup {h} ELSE closing
           \/ /\ Raises(h, receipt, memory[h].phase)
              /\ UNCHANGED closing

\* The proposals a history of decisions admitted.
Admitted(decisions) ==
    LET upTo[n \in 1..Len(decisions)] ==
            LET before == IF n = 1 THEN <<>> ELSE upTo[n - 1]
                p == decisions[n].selected
            IN  IF p # Nothing THEN Append(before, p) ELSE before
    IN  IF decisions = <<>> THEN <<>> ELSE upTo[Len(decisions)]

\* Mutant of Snapshot: decisions that selected nothing count as admitted.
SnapshotAllDecisions(m) ==
    [phase |-> m.phase, terminal |-> m.terminal, request |-> m.request,
     pending |-> m.pending, failed |-> m.failed, count |-> Len(m.refs),
     head |-> IF m.refs = <<>> THEN 0 ELSE Last(m.refs),
     scans |-> Len(m.scans), decisions |-> Len(m.decisions),
     assessments |-> Len(m.assessments), admitted |-> Len(m.decisions)]

\* reference_checkpoint_snapshot: current state and typed history counts.
Snapshot(m) ==
    [phase |-> m.phase, terminal |-> m.terminal, request |-> m.request,
     pending |-> m.pending, failed |-> m.failed, count |-> Len(m.refs),
     head |-> IF m.refs = <<>> THEN 0 ELSE Last(m.refs),
     scans |-> Len(m.scans), decisions |-> Len(m.decisions),
     assessments |-> Len(m.assessments), admitted |-> Len(Admitted(m.decisions))]

\* checkpoint() called by the session's owner.
Checkpoint(h) ==
    /\ Callable(h)
    /\ Records(h, Receipt(memory[h], "session_checkpoint", Snapshot(memory[h])), memory[h])
    /\ UNCHANGED closing

\* checkpoint("session_terminal"), the end of assess.  If it raises, assess
\* raises, with the phase it met at its start already left behind.
Close(h) ==
    /\ h \in closing
    /\ LET receipt == Receipt(memory[h], "session_terminal", Snapshot(memory[h]))
       IN  Returns(h, receipt, memory[h]) \/ Raises(h, receipt, "AWAITING_ASSESSMENT")
    /\ closing' = closing \ {h}

-----------------------------------------------------------------------------
\* What _validate_reference_checkpoint_ledger reads back from the receipts
\* before a checkpoint.
Bodies(entries, kind) ==
    LET upTo[n \in 1..Len(entries)] ==
            LET before == IF n = 1 THEN <<>> ELSE upTo[n - 1]
            IN  IF entries[n].kind = kind THEN Append(before, entries[n].body) ELSE before
    IN  IF entries = <<>> THEN <<>> ELSE upTo[Len(entries)]

\* The receipts 1..n are one predecessor-linked line.
LinearUpTo(n) == \A i \in 1..n : log[i].parent = i - 1

\* The validator of SessionCheckpoint, on the expanded checkpoint c: the
\* histories make sense, and agree with the counts and with the phase.
HistoriesCohere(c, scans, decisions, assessments) ==
    LET selected == Admitted(decisions)
        assessed == [i \in 1..Len(assessments) |-> assessments[i].proposal]
    IN  /\ \A i \in 1..Len(scans) : scans[i].before \in {"NEEDS_SCAN", "READY_TO_ACT"}
        /\ \A i \in 1..Len(decisions) :
              \E j \in 1..Len(scans) : scans[j].request = decisions[i].request
        /\ \A i \in 1..Len(assessments) :
              /\ assessments[i].after \in {"NEEDS_SCAN", "TERMINAL"}
              /\ assessments[i].authority \in Final <=> assessments[i].after = "TERMINAL"
              /\ i < Len(assessments) => assessments[i].after # "TERMINAL"
        /\ IsPrefix(assessed, selected)
        /\ Len(selected) = Len(assessed) + IF c.phase = "AWAITING_ASSESSMENT" THEN 1 ELSE 0
        /\ c.admitted = Len(selected)

StateCoheres(c, scans, decisions, assessments) ==
    /\ c.request # Nothing => scans # <<>> /\ Last(scans).request = c.request
    /\ c.pending # Nothing =>
          /\ c.pending.request = c.request
          /\ decisions # <<>>
          /\ Last(decisions).request = c.request
          /\ Last(decisions).selected = c.pending
    /\ c.request # Nothing <=> c.phase \in {"READY_TO_ACT", "AWAITING_ASSESSMENT"}
    /\ c.pending # Nothing <=> c.phase = "AWAITING_ASSESSMENT"
    /\ c.phase # "TERMINAL" => c.terminal = Nothing
    /\ c.phase = "TERMINAL" =>
          /\ c.terminal \in Final
          /\ assessments # <<>>
          /\ Last(assessments).after = "TERMINAL"
          /\ Last(assessments).authority = c.terminal

\* All that restore demands of the checkpoint receipt at k, except that no
\* receipt of the session is later.
Coherent(k) ==
    LET c == log[k].body
        prior == SubSeq(log, 1, k - 1)
        scans == Bodies(prior, "scan")
        decisions == Bodies(prior, "decision")
        assessments == Bodies(prior, "assessment")
    IN  /\ log[k].kind \in CheckpointKinds
        /\ log[k].position = c.count
        /\ c.count = k - 1 /\ c.head = k - 1
        /\ LinearUpTo(k)
        /\ Len(scans) = c.scans /\ Len(decisions) = c.decisions
        /\ Len(assessments) = c.assessments
        /\ HistoriesCohere(c, scans, decisions, assessments)
        /\ StateCoheres(c, scans, decisions, assessments)

\* Mutant of Restorable: later receipts are not looked for.
RestorableStale(k) == Coherent(k)

\* A checkpoint is restored only while it is the session's last receipt.
Restorable(k) == Coherent(k) /\ k = Len(log)

\* Mutant of Restore: the failed-action guard is left behind.
RestoreUnguarded(h, k) ==
    /\ ~Live(h)
    /\ Restorable(k)
    /\ LET c == log[k].body
           prior == SubSeq(log, 1, k - 1)
       IN  memory' = [memory EXCEPT ![h] =
               [phase |-> c.phase, request |-> c.request, pending |-> c.pending,
                terminal |-> c.terminal, failed |-> Nothing,
                scans |-> Bodies(prior, "scan"),
                decisions |-> Bodies(prior, "decision"),
                assessments |-> Bodies(prior, "assessment"),
                refs |-> [i \in 1..k |-> i]]]
    /\ fault' = Nothing
    /\ UNCHANGED <<log, closing>>

\* restore: memory rebuilt from the checkpoint and the receipts before it.
Restore(h, k) ==
    /\ ~Live(h)
    /\ Restorable(k)
    /\ LET c == log[k].body
           prior == SubSeq(log, 1, k - 1)
       IN  memory' = [memory EXCEPT ![h] =
               [phase |-> c.phase, request |-> c.request, pending |-> c.pending,
                terminal |-> c.terminal, failed |-> c.failed,
                scans |-> Bodies(prior, "scan"),
                decisions |-> Bodies(prior, "decision"),
                assessments |-> Bodies(prior, "assessment"),
                refs |-> [i \in 1..k |-> i]]]
    /\ fault' = Nothing
    /\ UNCHANGED <<log, closing>>

Next ==
    \E h \in Handles :
        \/ New(h)
        \/ Crash(h)
        \/ \E r \in Requests : Scan(h, r)
        \/ \E c \in Controls : DecideNothing(h, c)
        \/ \E c \in Controls, a \in Actions : Decide(h, c, a)
        \/ \E x \in Executions, authority \in Authorities : Assess(h, x, authority)
        \/ Checkpoint(h)
        \/ Close(h)
        \/ \E k \in 1..Len(log) : Restore(h, k)

Spec == Init /\ [][Next]_vars
-----------------------------------------------------------------------------
\* The lineage that ends in each receipt, oldest first.
Lineages ==
    LET lineage[k \in 1..Len(log)] ==
            Append(IF log[k].parent = 0 THEN <<>> ELSE lineage[log[k].parent], log[k])
    IN  lineage
Lineage(k) == IF k = 0 THEN <<>> ELSE Lineages[k]

\* Receipts that move a session: scans, selected decisions, assessments.
Moves(e) ==
    \/ e.kind \in {"scan", "assessment"}
    \/ e.kind = "decision" /\ e.body.selected # Nothing

LastMove(entries) == SelectLastInSeq(entries, Moves)
LastFailure(entries) ==
    SelectLastInSeq(entries, LAMBDA e : e.kind = "assessment" /\ e.body.authority = "FAILURE")

\* The state of a session as its lineage tells it.
Replay(entries) ==
    LET m == LastMove(entries)
        f == LastFailure(entries)
        moved == IF m = 0 THEN "none" ELSE entries[m].kind
        last == entries[m].body
    IN  [phase |-> CASE moved = "scan" -> "READY_TO_ACT"
                     [] moved = "decision" -> "AWAITING_ASSESSMENT"
                     [] moved = "assessment" -> last.after
                     [] OTHER -> "NEEDS_SCAN",
         request |-> IF moved \in {"scan", "decision"} THEN last.request ELSE Nothing,
         pending |-> IF moved = "decision" THEN last.selected ELSE Nothing,
         terminal |-> IF moved = "assessment" /\ last.authority \in Final
                      THEN last.authority ELSE Nothing,
         failed |-> IF f = 0 THEN Nothing ELSE Signature(entries[f].body.proposal),
         scans |-> Bodies(entries, "scan"),
         decisions |-> Bodies(entries, "decision"),
         assessments |-> Bodies(entries, "assessment")]

TypeOK ==
    /\ log \in Seq(Receipts)
    /\ Len(log) <= MaxReceipts
    /\ \A i \in 1..Len(log) : log[i].parent \in 0..(i - 1)
    /\ memory \in [Handles -> Memories \cup {Nothing}]
    /\ \A h \in Handles : Live(h) => memory[h].refs \in Seq(1..Len(log))
    /\ closing \subseteq Handles
    /\ \A h \in closing : Live(h) /\ memory[h].phase = "TERMINAL"

\* Persist before advance: whatever raised, crashed or was restored, and
\* whoever else wrote, what a live handle holds in memory is what the receipts
\* it stands on say.
MemoryIsReplay ==
    \A h \in Handles : Live(h) =>
        LET refs == memory[h].refs
            entries == [i \in 1..Len(refs) |-> log[refs[i]]]
            told == Replay(entries)
        IN  /\ refs = <<>> \/ entries = Lineage(Last(refs))
            /\ \A field \in DOMAIN told : memory[h][field] = told[field]

\* The durable record of every lineage is a lawful session: an action is
\* decided on the latest scan, assessed before anything else happens, and
\* nothing follows a final assessment.
LineageIsLawful ==
    \A k \in 1..Len(log) :
        LET before == Replay(Lineage(log[k].parent))
            e == log[k]
        IN  CASE e.kind = "scan" -> before.phase \in {"NEEDS_SCAN", "READY_TO_ACT"}
              [] e.kind = "decision" ->
                    before.phase = "READY_TO_ACT" /\ e.body.request = before.request
              [] e.kind = "assessment" ->
                    /\ before.phase = "AWAITING_ASSESSMENT"
                    /\ e.body.proposal = before.pending
                    /\ ExactEvidence(before, e.body.evidence)
              [] OTHER -> TRUE

\* An action that just failed is never decided again under the same beliefs,
\* restored sessions included.
FailedActionNotRepeated ==
    \A k \in 1..Len(log) :
        log[k].kind = "decision" /\ log[k].body.selected # Nothing =>
            Signature(log[k].body.selected) # Replay(Lineage(log[k].parent)).failed

\* What checkpoint writes, restore accepts: a checkpoint that closes an
\* unforked history passes every check of the validators, in any phase.
CheckpointsRestore ==
    \A k \in 1..Len(log) :
        log[k].kind \in CheckpointKinds /\ LinearUpTo(k) => Coherent(k)

\* A handle that comes back with a history has the whole of it, and has it
\* only if nobody forked it: no branch is silently preferred, and no stale
\* checkpoint is resumed over later receipts.
RestoredHistoryIsWhole ==
    [][\A h \in Handles :
          ~Live(h) /\ memory'[h] # Nothing /\ memory'[h].refs # <<>> =>
              /\ memory'[h].refs = [i \in 1..Len(log) |-> i]
              /\ LinearUpTo(Len(log))]_vars

-----------------------------------------------------------------------------
\* docs/reasoning-loop.md:58-60 "each actionable transition is durably
\* appended before in-memory state advances. A storage failure therefore
\* leaves the prior phase in force."
StorageFailureKeepsPhase ==
    fault # Nothing => memory[fault.handle].phase = fault.before

\* tests/test_runtime_arc.py:650 "identical failed action is blocked until
\* beliefs change": while every scan since the failure has the same beliefs,
\* the action is not decided again.
BlockedUntilBeliefsChange ==
    \A k \in 1..Len(log) :
        log[k].kind = "decision" /\ log[k].body.selected # Nothing =>
            LET entries == Lineage(k)
                s == Signature(log[k].body.selected)
            IN  \A i \in 1..Len(entries) :
                    /\ entries[i].kind = "assessment"
                    /\ entries[i].body.authority = "FAILURE"
                    /\ Signature(entries[i].body.proposal) = s
                    => \E j \in (i + 1)..Len(entries) :
                           entries[j].kind = "scan" /\ Belief[entries[j].body.request] # s.belief
=============================================================================
