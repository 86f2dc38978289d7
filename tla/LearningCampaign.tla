---------------------------- MODULE LearningCampaign ----------------------------
(***************************************************************************)
(* The learning campaign of calibration_002 (learning.py, transition.py):  *)
(* a sidecar walks the stages of the curriculum and keeps its history in   *)
(* the learning ledger; a closed stage becomes a source transition, which  *)
(* is reviewed in a ledger of its own, decided by external control, and    *)
(* then gives the successor stage its inheritance.                         *)
(*                                                                         *)
(* Every call appends several receipts; it may raise, or its process end,  *)
(* after any of them, and `reached' says after which.  The sidecar's       *)
(* controller is the one of Curriculum.  What a workspace holds, and what  *)
(* a review selects, is in KevinSpeak.  One process at a time holds a      *)
(* sidecar.  Run seals are external.                                       *)
(***************************************************************************)
EXTENDS Curriculum

CONSTANTS
    RunSeals,           \* seals of the stages' runs
    MaxRuns,            \* bound on run identities
    MaxReviews,         \* bound on review ledgers
    DecisionIds,        \* decision identities of external control
    MaxCampaign         \* bound on the receipts of the campaign
ASSUME CampaignAssumption ==
    RunSeals \subseteq Stacks /\ MaxRuns \in Nat /\ MaxReviews \in Nat /\ MaxCampaign \in Nat

VARIABLES
    campaign,           \* the campaign's receipts in the learning ledger
    workspaces,         \* stage workspaces with a genesis in it
    sidecar,            \* the open sidecar, beside its controller
    sources,            \* source transitions that were exported
    reviewLedgers,      \* what each review ledger holds
    inheritances        \* inheritances that external control handed out

campaignVars == <<handoffs, stage, saved, campaign, workspaces, sidecar, sources,
                  reviewLedgers, inheritances>>
transitionVars == <<sources, reviewLedgers, inheritances>>

NoSidecar == [none |-> TRUE]
NoReview == [none |-> TRUE]
WorkspaceOf(start) == <<start.ordinal, start.stack>>
\* The places in a ledger of the campaign's receipts of a kind.
CampaignReceipts(log, kind) == {i \in DOMAIN log : log[i].kind = kind}

CampaignInit ==
    /\ CurriculumInit
    /\ campaign = <<>>
    /\ workspaces = {}
    /\ sidecar = NoSidecar
    /\ sources = {}
    /\ reviewLedgers = [l \in 1..MaxReviews |-> NoReview]
    /\ inheritances = {}

-----------------------------------------------------------------------------
\* _persist_checkpoint: the controller, the stage bindings and the active one.
CheckpointReceipt(history, start, bindings, working) ==
    [kind |-> "checkpoint", handoffs |-> history, stage |-> start,
     bindings |-> bindings, working |-> working]
\* The first receipts of a call that reached so many of them.
Stores(calls, reached) ==
    /\ Len(campaign) + reached <= MaxCampaign
    /\ campaign' = campaign \o SubSeq(calls, 1, reached)

\* create: on an empty ledger; only whole does it return a sidecar.
CreateCampaign(reached) ==
    LET record == CheckpointReceipt(<<>>, NoStage, <<>>, FALSE)
    IN  /\ sidecar = NoSidecar /\ campaign = <<>>
        /\ Stores(<<[kind |-> "genesis"], record>>, reached)
        /\ sidecar' = IF reached < 2 THEN NoSidecar
                      ELSE [bindings |-> <<>>, working |-> FALSE, record |-> record]
        /\ UNCHANGED <<handoffs, stage, saved, workspaces, transitionVars>>

\* verify: memory agrees with the last checkpoint, there is a binding for each
\* stage, and each successor inherits out of the handoff and workspace before it.
LineageVerifies(history, bindings, working) ==
    /\ Len(bindings) = Len(history) + (IF working THEN 1 ELSE 0)
    /\ \A i \in DOMAIN bindings :
        /\ bindings[i].start.ordinal = i
        /\ IF i = 1 THEN bindings[i].inheritance = NoStage
           ELSE /\ bindings[i].inheritance.transfer.handoff = history[i - 1]
                /\ bindings[i].inheritance.transfer.target = i
                /\ bindings[i].inheritance.workspace = WorkspaceOf(bindings[i - 1].start)
SidecarVerifies ==
    /\ sidecar.record = CheckpointReceipt(handoffs, stage, sidecar.bindings, sidecar.working)
    /\ LineageVerifies(handoffs, sidecar.bindings, sidecar.working)

\* restore: from the last checkpoint, which must name every stage opened, in order.
OpenedBindings(log) ==
    LET opened[n \in 0..Len(log)] ==
            IF n = 0 THEN <<>>
            ELSE IF log[n].kind = "opened" THEN Append(opened[n - 1], log[n].binding)
            ELSE opened[n - 1]
    IN opened[Len(log)]
LastCheckpoint(log) ==
    LET checkpoints == CampaignReceipts(log, "checkpoint")
    IN  log[CHOOSE i \in checkpoints : \A j \in checkpoints : j <= i]
CampaignRestorable ==
    /\ CampaignReceipts(campaign, "checkpoint") # {}
    /\ LET record == LastCheckpoint(campaign)
       IN  /\ record.bindings = OpenedBindings(campaign)
           /\ record.working => WorkspaceOf(Last(record.bindings).start) \in workspaces
           /\ LineageVerifies(record.handoffs, record.bindings, record.working)
RestoreSidecar ==
    LET record == LastCheckpoint(campaign)
    IN  /\ sidecar = NoSidecar
        /\ CampaignRestorable
        /\ sidecar' = [bindings |-> record.bindings, working |-> record.working, record |-> record]
        /\ handoffs' = record.handoffs
        /\ stage' = record.stage
        /\ UNCHANGED <<saved, campaign, workspaces, transitionVars>>

\* close, or the end of the process.
LoseSidecar ==
    /\ sidecar # NoSidecar
    /\ sidecar' = NoSidecar
    /\ handoffs' = <<>>
    /\ stage' = NoStage
    /\ UNCHANGED <<saved, campaign, workspaces, transitionVars>>

\* An inheritance out of a closed stage for a target.  `ledger' is history: the
\* review ledger whose control handed it out, or none.
Inheritance(ledger, handoff, workspace, target) ==
    [ledger |-> ledger, workspace |-> workspace,
     transfer |-> [handoff |-> handoff, seal |-> handoff.seal, target |-> target,
                   shorthand |-> TRUE]]
\* Calibration002Inheritance.bind: a caller makes its own, out of any closed stage.
CallerInheritances ==
    {Inheritance(0, campaign[i].handoff, w, target) :
        i \in CampaignReceipts(campaign, "closed"), w \in workspaces, target \in 2..Len(Plan)}

\* open_stage: the first stage blank, a successor out of an exact inheritance,
\* whoever made it.
ExactInheritance(inheritance) ==
    IF handoffs = <<>> THEN inheritance = NoStage
    ELSE /\ inheritance # NoStage
         /\ inheritance.transfer.handoff = Last(handoffs)
         /\ inheritance.transfer.seal = Last(handoffs).seal
         /\ inheritance.transfer.target = Len(handoffs) + 1
         /\ inheritance.workspace = WorkspaceOf(Last(sidecar.bindings).start)
\* Workspace genesis, stage_opened, memory, checkpoint.
OpenStage(run, inheritance, reached) ==
    LET start == StartOf(run, IF inheritance = NoStage THEN NoStage ELSE inheritance.transfer)
        bindings == Append(sidecar.bindings, [start |-> start, inheritance |-> inheritance])
        record == CheckpointReceipt(handoffs, start, bindings, TRUE)
    IN  /\ sidecar # NoSidecar /\ ~sidecar.working
        /\ \A i \in DOMAIN sidecar.bindings : sidecar.bindings[i].start.stack # run
        /\ ExactInheritance(inheritance)
        /\ MayStart(start.transfer)
        /\ WorkspaceOf(start) \notin workspaces
        /\ workspaces' = workspaces \cup {WorkspaceOf(start)}
        /\ Stores(<<[kind |-> "opened", binding |-> Last(bindings)], record>>, reached)
        /\ IF reached = 0 THEN UNCHANGED <<sidecar, stage>>
           ELSE /\ stage' = start
                /\ sidecar' = [bindings |-> bindings, working |-> TRUE,
                               record |-> IF reached = 2 THEN record ELSE sidecar.record]
        /\ UNCHANGED <<handoffs, saved, transitionVars>>

\* Mutant of FinishedRecord: the checkpoint is made while the stage is still active.
FinishedRecordActive(handoff) ==
    CheckpointReceipt(Append(handoffs, handoff), NoStage, sidecar.bindings, TRUE)
FinishedRecord(handoff) ==
    CheckpointReceipt(Append(handoffs, handoff), NoStage, sidecar.bindings, FALSE)
\* finish_stage: stage_closed, memory, checkpoint.
Finishes(handoff, reached) ==
    /\ sidecar # NoSidecar /\ sidecar.working
    /\ MayFinish(handoff)
    /\ Stores(<<[kind |-> "closed", handoff |-> handoff], FinishedRecord(handoff)>>, reached)
FinishStage(handoff, reached) ==
    /\ Finishes(handoff, reached)
    /\ handoffs' = Append(handoffs, handoff)
    /\ stage' = NoStage
    /\ sidecar' = [sidecar EXCEPT !.working = FALSE,
                                  !.record = IF reached = 2 THEN FinishedRecord(handoff) ELSE @]
    /\ UNCHANGED <<saved, workspaces, transitionVars>>

-----------------------------------------------------------------------------
\* _next_stage: what a sealed run decides.
SealedHandoff(seal, observed) ==
    [start |-> stage, seal |-> seal, observed |-> observed,
     next |-> IF observed THEN "finish"
              ELSE IF stage.ordinal = Len(Plan) THEN "reassess" ELSE "advance"]

\* close_source_stage: the stage is finished, the sidecar closed whatever
\* happens, and the source transition exported from the reopened ledger.
CloseSource(handoff, reached) ==
    /\ sidecar # NoSidecar /\ SidecarVerifies
    /\ Finishes(handoff, IF reached < 2 THEN reached ELSE 2)
    /\ sources' = IF reached < 3 THEN sources
                  ELSE sources \cup {[handoff |-> handoff, workspace |-> WorkspaceOf(stage)]}
    /\ sidecar' = NoSidecar
    /\ handoffs' = <<>>
    /\ stage' = NoStage
    /\ UNCHANGED <<saved, workspaces, reviewLedgers, inheritances>>

\* _verify_source_ledger: one durable closure with the source's handoff.
ClosuresWith(log, handoff) == {i \in CampaignReceipts(log, "closed") : log[i].handoff = handoff}
SourceVerifies(source) == Cardinality(ClosuresWith(campaign, source.handoff)) = 1

\* review_source_recommendation: into a ledger that does not exist yet; the
\* review stands when its last receipt does.
ReviewSource(source, ledger, disposition, reached) ==
    /\ source.handoff.next = "advance"
    /\ reviewLedgers[ledger] = NoReview
    /\ SourceVerifies(source)
    /\ reviewLedgers' = [reviewLedgers EXCEPT ![ledger] =
                    [source |-> source, reviewed |-> IF reached = 2 THEN disposition ELSE "cut",
                     adopted |-> {}, outcome |-> NoReview]]
    /\ UNCHANGED <<handoffs, stage, saved, campaign, workspaces, sidecar, sources, inheritances>>

\* Mutant of ControlBinds: control may approve what the review did not accept.
ControlBindsAny(review, ruling) == ruling.by = "control"
\* Who recommended or reviewed does not decide, and only an accepted review may
\* be approved.
ControlBinds(review, ruling) ==
    /\ ruling.by = "control"
    /\ ruling.approve => review.reviewed = "accept"

\* apply_external_control: the adoption, of a decision not taken before, then the
\* outcome, of which a transition has one, then the inheritance.
ApplyControl(ledger, ruling, reached) ==
    LET review == reviewLedgers[ledger]
    IN  /\ review # NoReview /\ review.reviewed # "cut"
        /\ ControlBinds(review, ruling)
        /\ SourceVerifies(review.source)
        /\ ruling \notin review.adopted
        /\ reached >= 2 => review.outcome = NoReview
        /\ reviewLedgers' = [reviewLedgers EXCEPT ![ledger].adopted = @ \cup {ruling},
                                      ![ledger].outcome = IF reached < 2 THEN @ ELSE ruling]
        /\ inheritances' =
            IF reached < 3 \/ ~ruling.approve THEN inheritances
            ELSE inheritances \cup
                 {Inheritance(ledger, review.source.handoff, review.source.workspace,
                              review.source.handoff.start.ordinal + 1)}
        /\ UNCHANGED <<handoffs, stage, saved, campaign, workspaces, sidecar, sources>>

ControlDecisions ==
    [id : DecisionIds, by : {"control", "model"}, approve : BOOLEAN]
\* Run identities are tried, and review ledgers made, in order.  A review that
\* defers binds control like one that rejects.
RunsTried == {w[2] : w \in workspaces}
ReviewsMade == {l \in 1..MaxReviews : reviewLedgers[l] # NoReview}
FirstNew(S, bound) == {n \in 1..bound : n <= Cardinality(S) + 1}
CampaignNext ==
    \/ \E reached \in 1..2 : CreateCampaign(reached)
    \/ RestoreSidecar
    \/ LoseSidecar
    \/ \E run \in FirstNew(RunsTried, MaxRuns), n \in 0..2,
          i \in inheritances \cup CallerInheritances \cup {NoStage} : OpenStage(run, i, n)
    \/ \E seal \in RunSeals, observed \in BOOLEAN, n \in 1..3 :
        stage # NoStage /\ CloseSource(SealedHandoff(seal, observed), n)
    \/ \E seal \in RunSeals, observed \in BOOLEAN, n \in 1..2 :
        stage # NoStage /\ FinishStage(SealedHandoff(seal, observed), n)
    \/ \E source \in sources, l \in FirstNew(ReviewsMade, MaxReviews), n \in 1..2,
          d \in {"accept", "reject"} : ReviewSource(source, l, d, n)
    \/ \E l \in ReviewsMade, ruling \in ControlDecisions, n \in 1..3 :
        ApplyControl(l, ruling, n)
CampaignSpec == CampaignInit /\ [][CampaignNext]_campaignVars

-----------------------------------------------------------------------------
\* "Restore the last exact controller and active workspace from its ledger"
\* (learning.py:505): wherever calls were cut, the ledger restores.  The two
\* exceptions are the windows the code leaves: a genesis or a stage_opened
\* receipt behind which no checkpoint was stored.
OpeningCut ==
    \/ CampaignReceipts(campaign, "checkpoint") = {}
    \/ LastCheckpoint(campaign).bindings # OpenedBindings(campaign)
CampaignRestores == CampaignRestorable \/ OpeningCut

\* The last of the first n receipts that closes a stage closes it with this handoff.
ClosedLast(log, handoff, n) ==
    \E i \in ClosuresWith(log, handoff) :
        i <= n /\ \A j \in CampaignReceipts(log, "closed") : j <= n => j <= i

\* A successor stage opens only out of the last closed stage, under the handoff
\* that the restored campaign goes on from, whoever made its inheritance; and one
\* that external control handed out stands on a durable approval by control of an
\* accepted review of the source that this stage, closed once, was exported as.
SuccessorsFollowControl ==
    \A i \in CampaignReceipts(campaign, "opened") :
        campaign[i].binding.start.ordinal > 1 =>
            LET inheritance == campaign[i].binding.inheritance
                review == reviewLedgers[inheritance.ledger]
            IN  /\ ClosedLast(campaign, inheritance.transfer.handoff, i)
                /\ inheritance.ledger # 0 =>
                    /\ review # NoReview /\ review.reviewed = "accept"
                    /\ review.outcome # NoReview
                    /\ review.outcome.approve /\ review.outcome.by = "control"
                    /\ review.source.handoff = inheritance.transfer.handoff
                    /\ SourceVerifies(review.source)
=============================================================================
