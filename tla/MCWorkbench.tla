----------------------------- MODULE MCWorkbench -----------------------------
(***************************************************************************)
(* The components that keep to themselves, side by side on small           *)
(* instances: the calibration run, the Scribe, the Kevin Speak workspaces, *)
(* facts, continuations, mechanics, accounts, the curriculum, the learning *)
(* campaign, the search, the heartbeat, the experiments and the finalizer. *)
(* In the source none of them touches another's state, but for the         *)
(* campaign, whose controller is the curriculum's; so each behaviour       *)
(* exercises one of them, chosen at the start, and the others stay as they *)
(* began.                                                                  *)
(***************************************************************************)
EXTENDS CalibrationRun, Lineages, Provenance, BoundedSearch, Heartbeat, Experiments, Postrun

VARIABLE part       \* the component this behaviour exercises

mcVars == <<part, disk, receipts, wal, at, mem, world, journal, kevin, entries, doing, hand, asked,
            lineage, handle, bundles, transfers, facts, active, subjectVersion, rule, states,
            invalid, forked, mechanic, assessments, headers, exact, residuals, handoffs, stage, saved, campaign,
            workspaces, sidecar, sources, reviewLedgers, inheritances, problem, frontier, bestCost,
            cameFrom, expanded, found, steering, boundaries, lastView, progress, reserved, trials, factoryCalls,
            moments, locks, runSeal, packed, delivered, finalizer, transactions>>
MCParts == {"run", "scribe", "kevin", "facts", "continuations", "mechanics", "accounts",
            "curriculum", "campaign", "search", "heartbeat", "experiments", "postrun"}

MCInit ==
    /\ part \in MCParts
    /\ RunInit /\ ScribeInit /\ KevinInit /\ FactInit /\ ContinuationInit /\ MechanicInit
    /\ AccountInit /\ CampaignInit /\ SearchInit /\ HeartbeatInit
    /\ ExperimentInit /\ PostrunInit
    /\ part # "search" =>
         problem = CHOOSE p \in [cost : {[a \in Arcs |-> 0]}, estimate : Heuristics,
                                 ceiling : Ceilings] : TRUE
    /\ part # "postrun" => delivered = [r \in ReceiptPaths |-> NoArtifact]

\* Only the component exercised moves.
MCOnly(name) == part = name /\ UNCHANGED part
MCIdle(name) ==
    /\ name # "run" => UNCHANGED runVars
    /\ name # "scribe" => UNCHANGED scribeVars
    /\ name # "kevin" => UNCHANGED kevinVars
    /\ name # "facts" => UNCHANGED factVars
    /\ name # "continuations" => UNCHANGED continuationVars
    /\ name # "mechanics" => UNCHANGED mechanicVars
    /\ name # "accounts" => UNCHANGED accountVars
    /\ name \notin {"curriculum", "campaign"} => UNCHANGED curriculumVars
    /\ name # "campaign" => UNCHANGED <<campaign, workspaces, sidecar, transitionVars>>
    /\ name # "search" => UNCHANGED searchVars
    /\ name # "heartbeat" => UNCHANGED heartbeatVars
    /\ name # "experiments" => UNCHANGED experimentVars
    /\ name # "postrun" => UNCHANGED postrunVars
MCNext ==
    \/ MCOnly("run") /\ RunNext /\ MCIdle("run")
    \/ MCOnly("scribe") /\ ScribeNext /\ MCIdle("scribe")
    \/ MCOnly("kevin") /\ KevinNext /\ MCIdle("kevin")
    \/ MCOnly("facts") /\ FactNext /\ MCIdle("facts")
    \/ MCOnly("continuations") /\ ContinuationNext /\ MCIdle("continuations")
    \/ MCOnly("mechanics") /\ MechanicNext /\ MCIdle("mechanics")
    \/ MCOnly("accounts") /\ AccountNext /\ MCIdle("accounts")
    \/ MCOnly("curriculum") /\ CurriculumNext /\ MCIdle("curriculum")
    \/ MCOnly("campaign") /\ CampaignNext /\ MCIdle("campaign")
    \/ MCOnly("search") /\ SearchNext /\ MCIdle("search")
    \/ MCOnly("heartbeat") /\ HeartbeatNext /\ MCIdle("heartbeat")
    \/ MCOnly("experiments") /\ ExperimentNext /\ MCIdle("experiments")
    \/ MCOnly("postrun") /\ PostrunNext /\ MCIdle("postrun")
MCSpec == MCInit /\ [][MCNext]_mcVars

\* Handles, sessions, subjects, witnesses, threads and finalizers are interchangeable, and so
\* are meanings, payloads, capsules and channels; as no behaviour moves two components, the sets of a
\* row are permuted together.
MCMoves(f) == \E x \in DOMAIN f : f[x] # x
MCTogether(f, S) == {f @@ g : g \in {p \in Permutations(S) : MCMoves(p) = MCMoves(f)}}
MCSwapActors ==
    UNION {UNION {UNION {UNION {UNION {MCTogether(j, Finalizers)
                                         : j \in MCTogether(i, Threads)}
                                  : i \in MCTogether(h, Witnesses)}
                            : h \in MCTogether(g, Subjects)}
                     : g \in MCTogether(f, Sessions)} : f \in Permutations(Handles)}
MCSwapWords ==
    UNION {UNION {UNION {MCTogether(h, Channels) : h \in MCTogether(g, Capsules)}
                     : g \in MCTogether(f, Payloads)} : f \in Permutations(Meanings)}
MCSymmetry == {f @@ g : f \in MCSwapActors, g \in MCSwapWords}

-----------------------------------------------------------------------------
MCArms == <<"discard", "earned_receipt">>
MCStep(valid, cost) == [attempted |-> TRUE, valid |-> valid, cost |-> cost]
\* All done, nothing, over the budget, one wrong, too many.
MCReturns ==
    {<<MCStep(TRUE, 1), MCStep(TRUE, 1)>>, <<>>, <<MCStep(TRUE, 1), MCStep(TRUE, 2)>>,
     <<MCStep(TRUE, 1), MCStep(FALSE, 1)>>, <<MCStep(TRUE, 0), MCStep(TRUE, 0), MCStep(TRUE, 0)>>}

MCPlan == <<"baseline", "acquire", "finish_or_reassess">>

MCArcs == {<<0, 1>>, <<0, 2>>, <<1, 2>>, <<2, 1>>, <<1, 3>>, <<2, 3>>}
MCHeuristics == {[n \in 0..3 |-> CASE n = 1 -> a [] n = 2 -> b [] OTHER -> 0] : a, b \in {0, 1, 4}}
MCCeilings == {[expansions |-> 4, neighbors |-> 2], [expansions |-> 2, neighbors |-> 2],
               [expansions |-> 4, neighbors |-> 1]}
=============================================================================
