------------------------------- MODULE Execution -------------------------------
(***************************************************************************)
(* ExecutionCoordinator of src/strongwiz/orchestration.py over the grant   *)
(* registry: execute_once trades a permit for a release and calls the      *)
(* external executor, and reports how the call ended.  Permits, results    *)
(* and the registry live in one process and die with it; what the executor *)
(* has been sent, and what it did to the world, do not.                    *)
(*                                                                         *)
(* The executor is external: between its call and its return control may   *)
(* change, the effect may happen early, late or never, and it may raise    *)
(* on either side of the effect.                                           *)
(***************************************************************************)
EXTENDS GrantRegistry

CONSTANT MaxRestarts  \* bound on process restarts

ASSUME RestartAssumption == MaxRestarts \in Nat

VARIABLES
    epoch,    \* processes that have died so far
    sent,     \* commands handed to the executor: a permit, and its process
    running,  \* permits whose executor call has not returned
    effects,  \* commands whose effect has happened in the world
    results   \* ExecutionCallResults of this process

callVars == <<epoch, sent, running, effects, results>>
allVars == <<vars, callVars>>

Dispositions == {"COMPLETED", "UNKNOWN_EFFECT", "BLOCKED"}
Result(p, disposition) == [permit |-> p, disposition |-> disposition]
Command(p) == [permit |-> p, epoch |-> epoch]

CallsTypeOK ==
    /\ TypeOK
    /\ epoch \in 0..MaxRestarts
    /\ sent \subseteq [permit : Permit, epoch : 0..epoch]
    /\ running \subseteq used
    /\ effects \subseteq sent
    /\ results \subseteq [permit : used, disposition : Dispositions]

ExecutionInit ==
    /\ Init
    /\ epoch = 0
    /\ sent = {}
    /\ running = {}
    /\ effects = {}
    /\ results = {}

-----------------------------------------------------------------------------
\* Control's side of the registry.
Control ==
    /\ \E g \in Grants : Activate(g) \/ Revoke(g)
    /\ UNCHANGED callVars

\* begin: every identity check of route, lab decision and grant is a refusal
\* without effect; the permit is the registry's.
Begin(g, invocation, token, target, boundary) ==
    /\ \/ BeginPermit(g, invocation, token, target, boundary)
       \/ BeginPermitUnbound(g, token, target, boundary)
       \/ BeginPermitLapsed(g, boundary)
    /\ UNCHANGED callVars

\* execute_once, released: the command goes to the executor.
Call(p, boundary) ==
    /\ ReleasePermit(p, p.target, boundary)
    /\ sent' = sent \cup {Command(p)}
    /\ running' = running \cup {p}
    /\ UNCHANGED <<epoch, effects, results>>

\* execute_once, quarantined: BLOCKED, the executor is not called.  The bindings
\* the coordinator presents are the permit's own; only the boundary can differ.
Block(p, boundary) ==
    /\ \/ QuarantineMismatch(p, p.target, boundary)
       \/ QuarantineControlChanged(p, p.target, boundary)
    /\ results' = results \cup {Result(p, "BLOCKED")}
    /\ UNCHANGED <<epoch, sent, running, effects>>

\* The executor acts, while the call runs or after the caller has given it up.
Effect(command) ==
    /\ command \in sent
    /\ effects' = effects \cup {command}
    /\ UNCHANGED <<vars, epoch, sent, running, results>>

\* The executor returns evidence of what it observed.
Complete(p) ==
    /\ p \in running
    /\ Command(p) \in effects
    /\ running' = running \ {p}
    /\ results' = results \cup {Result(p, "COMPLETED")}
    /\ UNCHANGED <<vars, epoch, sent, effects>>

\* Mutant of Lose: an exception is read as a call that did nothing.
LoseAsBlocked(p) ==
    /\ p \in running
    /\ running' = running \ {p}
    /\ results' = results \cup {Result(p, "BLOCKED")}
    /\ UNCHANGED <<vars, epoch, sent, effects>>

\* The executor raises, or returns nothing that is evidence.
Lose(p) ==
    /\ p \in running
    /\ running' = running \ {p}
    /\ results' = results \cup {Result(p, "UNKNOWN_EFFECT")}
    /\ UNCHANGED <<vars, epoch, sent, effects>>

\* The process dies: a new one starts with an empty registry.
Restart ==
    /\ epoch < MaxRestarts
    /\ epoch' = epoch + 1
    /\ statuses' = [g \in Grants |-> "unknown"]
    /\ activeRef' = None
    /\ invocations' = [g \in Grants |-> 0]
    /\ outstanding' = [g \in Grants |-> 0]
    /\ invocationIds' = {} /\ serialTokens' = {}
    /\ issued' = {} /\ used' = {} /\ receipts' = {}
    /\ running' = {} /\ results' = {}
    /\ UNCHANGED <<sent, effects>>

ExecutionNext ==
    \/ Control
    \/ \E g \in Grants, i \in InvocationIds, t \in SerialTokens, x \in Targets,
          b \in Boundaries : Begin(g, i, t, x, b)
    \/ \E p \in issued, b \in Boundaries : Call(p, b)
    \/ \E p \in issued, b \in Boundaries : Block(p, b)
    \/ \E command \in sent : Effect(command)
    \/ \E p \in running : Complete(p)
    \/ \E p \in running : Lose(p)
    \/ Restart

ExecutionSpec == ExecutionInit /\ [][ExecutionNext]_allVars

-----------------------------------------------------------------------------
CommandsOf(g, e) == {c \in sent : c.permit.grant = g /\ c.epoch = e}

\* What the caller is told is true of the world: COMPLETED only after the
\* effect, BLOCKED only if the effect has not happened and never will.
ResultsAreTrue ==
    \A r \in results :
        /\ r.disposition = "COMPLETED" => Command(r.permit) \in effects
        /\ r.disposition = "BLOCKED" => Command(r.permit) \notin sent

\* One call, one answer: a permit is never reported twice, nor reported while
\* its call still runs.
OneResultPerPermit ==
    /\ \A r, s \in results : r.permit = s.permit => r = s
    /\ \A r \in results : r.permit \notin running

\* A control snapshot's serial token reaches the executor at most once in the
\* life of a process, whichever grants and invocations carry it.
TokenSentOncePerProcess ==
    \A c, d \in sent : c.epoch = d.epoch /\ c.permit.token = d.permit.token => c = d

\* The effects of one process under a grant stay within its budget, the ones
\* that happen after the grant has been revoked or replaced included.
EffectsWithinBudget ==
    \A g \in Grants, e \in 0..MaxRestarts : Cardinality(CommandsOf(g, e)) <= MaxInvocations[g]
=============================================================================
