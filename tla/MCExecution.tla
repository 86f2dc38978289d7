----------------------------- MODULE MCExecution -----------------------------
(***************************************************************************)
(* The registry and the two halves of the coordinator, each in behaviours  *)
(* of its own.  The registry: g1 is an initial grant whose window closes   *)
(* before the last boundary; g2 replaces it, has a budget of two and       *)
(* admits both targets; g3 is another initial grant.  Calls: one executor  *)
(* and one target, under g1 and g2.  Routing: three proposals, one of      *)
(* which reopens an account with a material delta, apertures that lack one *)
(* thing each, and a grant that requires a release review beside one that  *)
(* does not.                                                               *)
(***************************************************************************)
EXTENDS Execution, Routing, TLC

CONSTANTS g1, g2, g3, t1, t2, t3, i1, i2, x1, x2

VARIABLE part       \* what this behaviour exercises

mcVars == <<part, allVars, routingVars>>

\* Calls are explored for two grants, two tokens, one target and two boundaries.
MCFew ==
    /\ statuses[g3] = "unknown"
    /\ Cardinality(serialTokens \cup {c.permit.token : c \in sent}) <= 2
    /\ \A p \in issued : p.target = x1 /\ p.boundary >= 1
    /\ \A r \in receipts : r.boundary >= 1

MCInit ==
    /\ part \in {"registry", "calls", "routing"}
    /\ ExecutionInit /\ RoutingInit
    /\ part # "routing" => grant = CHOOSE g \in TaskGrants : TRUE
MCNext ==
    /\ UNCHANGED part
    /\ \/ part = "registry" /\ Next /\ UNCHANGED <<callVars, routingVars>>
       \/ part = "calls" /\ ExecutionNext /\ MCFew' /\ UNCHANGED routingVars
       \/ part = "routing" /\ RoutingNext /\ UNCHANGED allVars
MCSpec == MCInit /\ [][MCNext]_mcVars

MCReplaces == (g1 :> None) @@ (g2 :> g1) @@ (g3 :> None)
MCNotBefore == (g1 :> 0) @@ (g2 :> 1) @@ (g3 :> 0)
MCExpires == (g1 :> 1) @@ (g2 :> 2) @@ (g3 :> 2)
MCMaxInvocations == (g1 :> 1) @@ (g2 :> 2) @@ (g3 :> 1)
MCAperture == (g1 :> {x1}) @@ (g2 :> {x1, x2}) @@ (g3 :> {x2})

\* Serial tokens and invocation identities are only ever compared for equality.
MCSymmetry == Permutations({t1, t2, t3}) \cup Permutations({i1, i2})

-----------------------------------------------------------------------------
MCDraft(id, action, output, account, deltas, traces, cost) ==
    [id |-> id, observation |-> 0, action |-> action, goal |-> "goal", output |-> output,
     account |-> account, deltas |-> deltas, evidence |-> {"e"}, traces |-> traces,
     cost |-> cost, gain |-> id, progress |-> 4 - id, risk |-> 0, reversible |-> TRUE]
MCDrafts == {MCDraft(1, "a", FALSE, NoAccount, {}, {}, 1),
             MCDraft(2, "a", TRUE, NoAccount, {}, {}, 1),
             MCDraft(3, "b", FALSE, "old", {"d"}, {"t"}, 2)}
MCWide == [evidence |-> {"e"}, traces |-> {"t"}, deltas |-> {"d"}, accounts |-> {"old"},
               goals |-> {"goal"}, actions |-> {"a", "b"}, budget |-> 2]
MCApertures ==
    {MCWide, [MCWide EXCEPT !.evidence = {}], [MCWide EXCEPT !.traces = {}],
     [MCWide EXCEPT !.deltas = {}], [MCWide EXCEPT !.accounts = {}],
     [MCWide EXCEPT !.goals = {}], [MCWide EXCEPT !.actions = {"a"}],
     [MCWide EXCEPT !.budget = 1]}

\* Outside reviews: all in order, with or without a release, and each with one
\* thing wrong.
MCReview == [verdict |-> "satisfied", grantBound |-> TRUE, contextBound |-> TRUE]
MCCrossing == [stage |-> "authorization", bound |-> TRUE]
MCRelease == [bound |-> TRUE, withinAttention |-> TRUE, releasable |-> TRUE]
MCClear == [effectRequested |-> TRUE, releaseRequested |-> FALSE, pea |-> MCReview,
            crossing |-> MCCrossing, release |-> Unreviewed]
MCReleased == [MCClear EXCEPT !.releaseRequested = TRUE, !.release = MCRelease]
MCSubmissions ==
    {MCClear, MCReleased}
    \cup {[MCClear EXCEPT !.pea = fault] : fault \in
            {Unreviewed, [MCReview EXCEPT !.verdict = "unresolved"], [MCReview EXCEPT !.contextBound = FALSE]}}
    \cup {[MCClear EXCEPT !.crossing = fault] : fault \in
            {Unreviewed, [MCCrossing EXCEPT !.stage = "permission"]}}
    \cup {[MCReleased EXCEPT !.release = fault] : fault \in
            {Unreviewed, [MCRelease EXCEPT !.releasable = FALSE]}}
MCTaskGrants == {[id |-> 1, releaseReview |-> FALSE], [id |-> 2, releaseReview |-> TRUE]}
=============================================================================
