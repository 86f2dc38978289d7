------------------------------ MODULE Curriculum ------------------------------
(***************************************************************************)
(* The adaptive curriculum (curriculum.py): a controller walks the stages  *)
(* of a plan one at a time, each closed by a handoff.  Its owner may save  *)
(* a checkpoint at any time, lose the controller, and restore any of the   *)
(* checkpoints saved.  Handoffs and learned-stack transfers are written by *)
(* the caller; those the contracts refuse are not offered.  A stage's run, *)
(* its seal and its evidence are external.                                 *)
(***************************************************************************)
EXTENDS Naturals, Sequences, FiniteSets, SequencesExt

CONSTANTS
    Plan,           \* the modes of the plan's stages
    Stacks,         \* frozen stacks and seals a caller may name
    MaxSaved        \* bound on checkpoints saved

Modes == {"baseline", "acquire", "deepen", "finish_or_reassess"}
\* AdaptiveCurriculumPlan: from a baseline to a final stage.
PlanAssumption ==
    /\ Plan \in Seq(Modes) /\ Len(Plan) >= 2
    /\ Head(Plan) = "baseline" /\ Last(Plan) = "finish_or_reassess"
ASSUME CurriculumAssumption == PlanAssumption /\ MaxSaved \in Nat

VARIABLES
    handoffs,       \* the controller's completed handoffs
    stage,          \* its active start
    saved           \* checkpoints that somebody keeps

curriculumVars == <<handoffs, stage, saved>>

NoStage == [none |-> TRUE]
\* Only a baseline may not inherit; every other stage of the plan may.
MayInherit(mode) == mode # "baseline"
Decisions == {"advance", "finish", "reassess"}

\* CurriculumStageHandoff: completion observed and "finish" go together.
Handoffs(start) ==
    {h \in [start : {start}, seal : Stacks, observed : BOOLEAN, next : Decisions] :
        h.observed <=> h.next = "finish"}
\* LearnedStackTransfer, from the handoff and seal it names to a stage.
StackTransfers ==
    [handoff : {Last(handoffs)}, seal : Stacks, target : DOMAIN Plan, shorthand : BOOLEAN]

CurriculumInit ==
    /\ handoffs = <<>>
    /\ stage = NoStage
    /\ saved = {}

\* Mutant of Continues: a stage that did not finish may be followed.
ContinuesUnfinished == handoffs # <<>> => Last(handoffs).next # "finish"
Continues == handoffs # <<>> => Last(handoffs).next = "advance"

\* start_next: the first stage inherits nothing; a later one needs a transfer out
\* of the exact predecessor into this stage.
MayStart(transfer) ==
    /\ stage = NoStage
    /\ Len(handoffs) < Len(Plan)
    /\ Continues
    /\ IF handoffs = <<>> THEN transfer = NoStage
       ELSE /\ transfer \in StackTransfers
            /\ transfer.seal = Last(handoffs).seal
            /\ transfer.target = Len(handoffs) + 1
            /\ transfer.shorthand => MayInherit(Plan[Len(handoffs) + 1])
StartOf(stack, transfer) ==
    [ordinal |-> Len(handoffs) + 1, stack |-> stack, transfer |-> transfer]
StartNext(stack, transfer) ==
    /\ MayStart(transfer)
    /\ stage' = StartOf(stack, transfer)
    /\ UNCHANGED <<handoffs, saved>>

\* finish_active: of the active occurrence; the final stage does not advance.
MayFinish(handoff) ==
    /\ stage # NoStage
    /\ handoff.start = stage
    /\ Plan[stage.ordinal] = "finish_or_reassess" =>
        handoff.next = IF handoff.observed THEN "finish" ELSE "reassess"
FinishActive(handoff) ==
    /\ MayFinish(handoff)
    /\ handoffs' = Append(handoffs, handoff)
    /\ stage' = NoStage
    /\ UNCHANGED saved

\* checkpoint, with what its validator demands of a history.
Checkpoint == [handoffs |-> handoffs, stage |-> stage]
CheckpointValid(point) ==
    /\ Len(point.handoffs) <= Len(Plan)
    /\ \A i \in DOMAIN point.handoffs :
        /\ point.handoffs[i].start.ordinal = i
        /\ i < Len(point.handoffs) => point.handoffs[i].next = "advance"
    /\ point.stage # NoStage =>
        /\ Len(point.handoffs) < Len(Plan)
        /\ point.stage.ordinal = Len(point.handoffs) + 1
SaveCheckpoint ==
    /\ CheckpointValid(Checkpoint)
    /\ saved' = (IF Cardinality(saved) < MaxSaved THEN saved ELSE {}) \cup {Checkpoint}
    /\ UNCHANGED <<handoffs, stage>>

RestoreController(point) ==
    /\ handoffs' = point.handoffs
    /\ stage' = point.stage
    /\ UNCHANGED saved

CurriculumNext ==
    \/ \E stack \in Stacks :
        StartNext(stack, NoStage) \/ (handoffs # <<>> /\ \E t \in StackTransfers : StartNext(stack, t))
    \/ stage # NoStage /\ \E h \in Handoffs(stage) : FinishActive(h)
    \/ SaveCheckpoint
    \/ \E point \in saved : RestoreController(point)
CurriculumSpec == CurriculumInit /\ [][CurriculumNext]_curriculumVars

\* The campaign is one lawful line, whatever is restored: every checkpoint can be
\* written, each stage follows an advance, inherits from the handoff before it
\* and from nothing else, nothing follows a finish or a reassessment, and the
\* final stage ends the campaign.
CampaignInOrder ==
    LET Started(start, history) ==
            /\ start.ordinal = Len(history) + 1
            /\ IF history = <<>> THEN start.transfer = NoStage
               ELSE /\ Last(history).next = "advance"
                    /\ start.transfer.handoff = Last(history)
                    /\ start.transfer.seal = Last(history).seal
    IN  /\ CheckpointValid(Checkpoint)
        /\ stage # NoStage => Started(stage, handoffs)
        /\ \A i \in DOMAIN handoffs : Started(handoffs[i].start, SubSeq(handoffs, 1, i - 1))
        /\ Len(handoffs) = Len(Plan) => Last(handoffs).next # "advance"
=============================================================================
