------------------------------ MODULE Experiments ------------------------------
(***************************************************************************)
(* Ablation experiments (experiments.py): run_retention_ablation and       *)
(* run_trace_use_ablation reserve one occurrence for each arm in the       *)
(* registry of the process, then run the arms one after the other, each    *)
(* under a fixed denominator of steps and a budget.  Experiments may run   *)
(* in several threads, and one may be interrupted at any arm.  What a      *)
(* runner does is its caller's.  Costs have one component here, and the    *)
(* evidence references and digests of the receipts are left out.           *)
(***************************************************************************)
EXTENDS Naturals, FiniteSets, Sequences, SequencesExt

CONSTANTS
    Threads,
    Arms,               \* the arms, in the order they run
    ExperimentIds,
    MaxOccurrence,      \* bound on occurrence identities
    MaxReserved,        \* bound on occurrences reserved, arms counted apart
    Returns,            \* step sequences a runner may return
    Denominator,
    StepBudget

StepType == [attempted : BOOLEAN, valid : BOOLEAN, cost : Nat]
\* StepResult: an unattempted step is neither valid nor has it a cost.
StepLawful(s) == s \in StepType /\ (~s.attempted => ~s.valid /\ s.cost = 0)
ASSUME ExperimentAssumption ==
    /\ Denominator \in Nat \ {0} /\ StepBudget \in Nat /\ MaxOccurrence \in Nat
    /\ MaxReserved \in Nat /\ Arms \in Seq(Range(Arms)) \ {<<>>} /\ IsInjective(Arms)
    /\ \A r \in Returns : r \in Seq(StepType) /\ \A i \in DOMAIN r : StepLawful(r[i])

VARIABLES
    reserved,           \* _OCCURRENCE_REGISTRY of the process
    trials,             \* the experiment of each thread
    factoryCalls        \* how often a runner was asked for, by occurrence

experimentVars == <<reserved, trials, factoryCalls>>

NoTrial == [none |-> TRUE]
Occurrences == 1..MaxOccurrence
ArmKeys == ExperimentIds \X Range(Arms) \X Occurrences
\* AttemptStartReceipts: arms of an experiment do not share an occurrence.
Bindings == {b \in [Range(Arms) -> Occurrences] : IsInjective(b)}
KeysOf(experiment, binding) == {<<experiment, a, binding[a]>> : a \in Range(Arms)}

ExperimentInit ==
    /\ reserved = {}
    /\ trials = [t \in Threads |-> NoTrial]
    /\ factoryCalls = [k \in ArmKeys |-> 0]

-----------------------------------------------------------------------------
Cost(steps) ==
    LET sum[n \in 0..Len(steps)] == IF n = 0 THEN 0 ELSE sum[n - 1] + steps[n].cost
    IN  sum[Len(steps)]
Unattempted == [attempted |-> FALSE, valid |-> FALSE, cost |-> 0]
\* _fixed_steps: what was not returned is kept as unattempted.
FixedSteps(steps) ==
    [i \in 1..Denominator |-> IF i <= Len(steps) THEN steps[i] ELSE Unattempted]
\* _failure_steps: only a failed mechanism counts as attempted.
FailureSteps(disposition) ==
    FixedSteps(<<[Unattempted EXCEPT !.attempted = (disposition = "failed_mechanism")]>>)
Failed(disposition) == [disposition |-> disposition, steps |-> FailureSteps(disposition)]

\* _enforce_componentwise_budget: steps end with the first that is over it, which
\* is kept and invalid.
OverBudget(steps) == {i \in DOMAIN steps : Cost(SubSeq(steps, 1, i)) > StepBudget}
WithinBudget(steps) ==
    IF OverBudget(steps) = {} THEN steps
    ELSE LET first == CHOOSE i \in OverBudget(steps) : \A j \in OverBudget(steps) : i <= j
         IN  [SubSeq(steps, 1, first) EXCEPT ![first].valid = FALSE]

\* _execute_isolated_runner, of steps returned.
Judged(returned) ==
    LET steps == FixedSteps(WithinBudget(returned))
        Of(disposition) == [disposition |-> disposition, steps |-> steps]
    IN  IF Len(returned) > Denominator THEN Failed("failed_assertion")
        ELSE IF OverBudget(returned) # {} THEN Of("failed_assertion")
        ELSE IF \E i \in DOMAIN steps : steps[i].attempted /\ ~steps[i].valid
             THEN Of("failed_mechanism")
        ELSE IF \A i \in DOMAIN steps : steps[i].valid THEN Of("complete")
        ELSE Of("partial")
\* What a factory or a runner raises; an undeclared exception, and steps with an
\* identity twice or a reserved one, are assertions.
RaisedFailures == {"failed_infrastructure", "failed_mechanism", "failed_assertion"}

\* Mutant of Unreserved: one free occurrence is enough.
UnreservedSome(keys) == ~(keys \subseteq reserved)
Unreserved(keys) == keys \cap reserved = {}
\* _reserve_occurrences, under the lock: all of the keys or none.
ReserveOccurrences(thread, experiment, binding) ==
    LET keys == KeysOf(experiment, binding)
    IN  /\ trials[thread] = NoTrial
        /\ Unreserved(keys)
        /\ reserved' = reserved \cup keys
        /\ trials' = [trials EXCEPT ![thread] = [experiment |-> experiment, binding |-> binding,
                                                 arms |-> <<>>, runners |-> 0]]
        /\ UNCHANGED factoryCalls

\* One arm, by so many runner instances not seen before in this experiment.
RunArm(thread, fresh, outcome) ==
    LET trial == trials[thread]
        arm == Arms[Len(trial.arms) + 1]
        key == <<trial.experiment, arm, trial.binding[arm]>>
    IN  /\ Len(trial.arms) < Len(Arms)
        /\ factoryCalls' = [factoryCalls EXCEPT ![key] = @ + 1]
        /\ trials' = [trials EXCEPT ![thread].arms = Append(@, outcome),
                                    ![thread].runners = @ + fresh]
        /\ UNCHANGED reserved
\* The factory gives a new runner, or one that ran before; it raises, or the
\* runner it gave does.
RunArmOnce(thread) ==
    \/ \E returned \in Returns : RunArm(thread, 1, Judged(returned))
    \/ trials[thread].runners > 0 /\ RunArm(thread, 0, Failed("failed_assertion"))
    \/ \E failure \in RaisedFailures, fresh \in 0..1 : RunArm(thread, fresh, Failed(failure))

\* The result is returned, or the experiment interrupted: its occurrences stay
\* reserved.
EndTrial(thread) ==
    /\ trials[thread] # NoTrial
    /\ trials' = [trials EXCEPT ![thread] = NoTrial]
    /\ UNCHANGED <<reserved, factoryCalls>>

\* Occurrence identities are tried in order.
TriedInOrder(keys) == \E n \in Occurrences : {k[3] : k \in keys} = 1..n
ExperimentNext ==
    \E thread \in Threads :
        \/ \E experiment \in ExperimentIds, b \in Bindings :
            /\ TriedInOrder(reserved \cup KeysOf(experiment, b))
            /\ Cardinality(reserved \cup KeysOf(experiment, b)) <= MaxReserved
            /\ ReserveOccurrences(thread, experiment, b)
        \/ trials[thread] # NoTrial /\ RunArmOnce(thread)
        \/ EndTrial(thread)
ExperimentSpec == ExperimentInit /\ [][ExperimentNext]_experimentVars

\* _expected_comparison_status
MechanicallyComplete(trial) ==
    /\ Len(trial.arms) = Len(Arms)
    /\ \A i \in DOMAIN trial.arms : trial.arms[i].disposition = "complete"

\* What an experiment reports was done, once: an occurrence gets one runner in
\* the life of the process, over experiments in other threads and interrupted
\* ones; every arm keeps its denominator, and its budget unless it says that it
\* failed; and a comparison is complete only if each arm did every step with a
\* runner of its own.
AttemptsAreWhole ==
    /\ \A k \in ArmKeys : factoryCalls[k] <= 1
    /\ \A t \in Threads : trials[t] # NoTrial =>
        /\ \A i \in DOMAIN trials[t].arms :
            LET arm == trials[t].arms[i]
            IN  /\ Len(arm.steps) = Denominator
                /\ Cost(arm.steps) > StepBudget => arm.disposition = "failed_assertion"
                /\ arm.disposition \in {"complete", "partial"} =>
                    \A j \in DOMAIN arm.steps : arm.steps[j].attempted => arm.steps[j].valid
        /\ MechanicallyComplete(trials[t]) =>
            /\ trials[t].runners = Len(Arms)
            /\ \A i \in DOMAIN Arms :
                \A j \in 1..Denominator : trials[t].arms[i].steps[j].valid
=============================================================================
