----------------------------- MODULE ReasoningLoop -----------------------------
(***************************************************************************)
(* The supported path from a decision to its assessment, in one process:   *)
(* a ReasoningSession decides, its owner takes the decision's route to the *)
(* ExecutionCoordinator, the coordinator's result goes back to assess, and *)
(* the ledger and the world outlive the process.                           *)
(*                                                                         *)
(* A control snapshot is named by its serial token, a permit's target is   *)
(* the proposal it was admitted for, and the invocation identity tells     *)
(* executions of one proposal apart.  The owner is the caller's code, as   *)
(* in examples/reference_counter_lab.py: it admits what the session has    *)
(* pending under the control the decision was routed with, and may present *)
(* any result it still holds.                                              *)
(***************************************************************************)
EXTENDS Session, FiniteSets

CONSTANTS Grants, None, Replaces, NotBefore, Expires, MaxInvocations, Aperture,
          NoInvocation, Boundaries, MaxRestarts

VARIABLES statuses, activeRef, invocations, outstanding, invocationIds, serialTokens,
          issued, used, receipts, epoch, sent, running, effects, results

X == INSTANCE Execution WITH
        Targets <- Proposals, InvocationIds <- Evidence, SerialTokens <- Controls

executionVars == <<statuses, activeRef, invocations, outstanding, invocationIds,
                   serialTokens, issued, used, receipts, epoch, sent, running,
                   effects, results>>
loopVars == <<vars, executionVars>>

LoopTypeOK == TypeOK /\ X!CallsTypeOK

LoopInit == Init /\ X!ExecutionInit

-----------------------------------------------------------------------------
\* What assess is handed: the coordinator's result, read by the session.
Handed(r) ==
    [proposal |-> r.permit.target, control |-> r.permit.token,
     evidence |-> r.permit.invocation, disposition |-> r.disposition]

\* Calls on the session that involve no coordinator.
SessionCall(h) ==
    /\ \/ New(h) \/ Crash(h)
       \/ \E r \in Requests : Scan(h, r)
       \/ \E c \in Controls : DecideNothing(h, c)
       \/ \E c \in Controls, a \in Actions : Decide(h, c, a)
       \/ Checkpoint(h) \/ Close(h)
       \/ \E k \in 1..Len(log) : Restore(h, k)
    /\ UNCHANGED executionVars

AssessResult(h, r, authority) ==
    /\ Assess(h, Handed(r), authority)
    /\ UNCHANGED executionVars

\* The owner asks for a permit for the pending proposal under its own control.
Admit(h, g, i, b) ==
    /\ Callable(h)
    /\ memory[h].phase = "AWAITING_ASSESSMENT"
    /\ X!Begin(g, i, Last(memory[h].decisions).control, memory[h].pending, b)
    /\ UNCHANGED vars

\* The executor, the coordinator's calls and control act beside the session.
ExecutionCall ==
    /\ \/ X!Control
       \/ \E p \in issued, b \in Boundaries : X!Call(p, b) \/ X!Block(p, b)
       \/ \E command \in sent : X!Effect(command)
       \/ \E p \in running : X!Complete(p) \/ X!Lose(p)
    /\ UNCHANGED vars

\* The process dies with every session, permit and result in it.
Die ==
    /\ X!Restart
    /\ memory' = [h \in Handles |-> Nothing]
    /\ closing' = {}
    /\ fault' = Nothing
    /\ UNCHANGED log

LoopNext ==
    \/ \E h \in Handles : SessionCall(h)
    \/ \E h \in Handles, r \in results, authority \in Authorities : AssessResult(h, r, authority)
    \/ \E h \in Handles, g \in Grants, i \in Evidence, b \in Boundaries : Admit(h, g, i, b)
    \/ ExecutionCall
    \/ Die

LoopSpec == LoopInit /\ [][LoopNext]_loopVars

-----------------------------------------------------------------------------
\* What was recorded as assessed was done: behind every durable assessment
\* there is an effect in the world of that very proposal, under the control
\* snapshot it was decided with, by the invocation it names.
AssessedActionHappened ==
    \A k \in 1..Len(log) : log[k].kind = "assessment" =>
        \E c \in effects : /\ c.permit.target = log[k].body.proposal
                           /\ c.permit.token = log[k].body.evidence.control
                           /\ c.permit.invocation = log[k].body.evidence.evidence

\* The trail never lags the world: nothing is sent to the executor whose
\* decision the ledger does not already hold.
EffectsAreDecided ==
    \A c \in sent : \E k \in 1..Len(log) :
        /\ log[k].kind = "decision"
        /\ log[k].body.selected = c.permit.target
        /\ log[k].body.control = c.permit.token

\* A quarantined or unknown execution is never papered over: in the process
\* that saw it, no assessment under the same control snapshot is recorded.
UnknownIsNeverAssessed ==
    [][\A r \in results : r.disposition # "COMPLETED" /\ Len(log') > Len(log) =>
          LET e == log'[Len(log')]
          IN  e.kind = "assessment" => e.body.evidence.control # r.permit.token]_loopVars

-----------------------------------------------------------------------------
\* src/strongwiz/runtime.py:701 "Enforce no stale action, predicted consequence,
\* and post-action assessment": every admitted action that is assessed has been
\* acted out, so a lineage has no more assessments than the world has effects.
AssessmentsAreEarned ==
    \A k \in 1..Len(log) :
        LET assessed == SelectSeq(Lineages[k], LAMBDA e : e.kind = "assessment")
        IN  Len(assessed) <= Cardinality(effects)
=============================================================================
