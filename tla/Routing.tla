------------------------------- MODULE Routing -------------------------------
(***************************************************************************)
(* From proposals to an execution begun: the laboratory rules              *)
(* (lab_policy.py) decide on one proposal under outside reviews, a control *)
(* snapshot takes the decision in, the router (routing.py) selects among   *)
(* proposals under that control, and ExecutionCoordinator.begin            *)
(* (orchestration.py) holds proposal, route, control, decision and reviews *)
(* against each other, whatever the caller passes.  Observations and the   *)
(* active grant move on between these steps; begin reads the grant, not    *)
(* the observation.  A reference is the thing it names; costs have one     *)
(* dimension; there is one scope.  Of the grant registry only the check    *)
(* that the grant is the active one is here.                               *)
(***************************************************************************)
EXTENDS Naturals, Sequences, FiniteSets

CONSTANTS
    Drafts,         \* proposals a driver makes, the observation aside
    Apertures,      \* what a control snapshot makes available
    TaskGrants,     \* grants, each with its releaseReview, whether it requires one
    Submissions,    \* outside reviews, each or Unreviewed, and what they are asked for
    Unreviewed, NoAccount,
    MaxObservation  \* bound on observations

\* What a review can say: PEAReview, its statuses taken together; then
\* ConsequentialCrossing and SEEDReleaseReview.
PEAReviews ==
    [verdict : {"satisfied", "refused", "unresolved"}, grantBound : BOOLEAN, contextBound : BOOLEAN]
Crossings ==
    [stage : {"description", "recommendation", "permission", "authorization"}, bound : BOOLEAN]
SEEDReleases == [bound : BOOLEAN, withinAttention : BOOLEAN, releasable : BOOLEAN]
Submitted ==
    [effectRequested : BOOLEAN, releaseRequested : BOOLEAN, pea : PEAReviews \cup {Unreviewed},
     crossing : Crossings \cup {Unreviewed}, release : SEEDReleases \cup {Unreviewed}]

ASSUME RoutingAssumption == MaxObservation \in Nat /\ Submissions \subseteq Submitted

VARIABLES
    observation,    \* the current observation
    grant,          \* the active grant
    decision,       \* the lab decision last made or claimed
    control,        \* the control snapshot last made since
    route,          \* the proposal routed under it, if one was eligible
    begun           \* the execution begun: each of these is Unreviewed at first

routingVars == <<observation, grant, decision, control, route, begun>>

RoutingInit ==
    /\ observation = 0
    /\ grant \in TaskGrants
    /\ decision = Unreviewed /\ control = Unreviewed /\ route = Unreviewed
    /\ begun = Unreviewed

-----------------------------------------------------------------------------
\* LabBoundaryContext of one proposal under one grant.
LabContext(p, g) == [proposal |-> p, grant |-> g]

\* pea_gate, with the reviews' statuses taken together: any refused is a
\* refusal, any unresolved or open concern a hold.
PEAGate(pea) ==
    IF pea = Unreviewed THEN "hold"
    ELSE IF ~pea.grantBound \/ ~pea.contextBound \/ pea.verdict = "refused" THEN "refuse"
    ELSE IF pea.verdict = "unresolved" THEN "hold"
    ELSE "clear"

EffectStatus(requested, pea, crossing) ==
    IF ~requested THEN "not_requested"
    ELSE IF PEAGate(pea) # "clear" THEN PEAGate(pea)
    ELSE IF crossing = Unreviewed THEN "hold"
    ELSE IF ~crossing.bound THEN "refuse"
    ELSE IF crossing.stage # "authorization" THEN "hold"
    ELSE "clear"

ReleaseStatus(requested, pea, release) ==
    IF ~requested THEN "not_requested"
    ELSE IF PEAGate(pea) # "clear" THEN PEAGate(pea)
    ELSE IF release = Unreviewed THEN "hold"
    ELSE IF ~release.bound \/ ~release.withinAttention \/ ~release.releasable THEN "refuse"
    ELSE "clear"

\* evaluate_lab_rules: no layer implies another.
EvaluateLabRules(context, s) ==
    [context |-> context, pea |-> s.pea, crossing |-> s.crossing,
     effect |-> EffectStatus(s.effectRequested, s.pea, s.crossing),
     release |-> ReleaseStatus(s.releaseRequested, s.pea, s.release)]

\* A decision is a value, and whoever passes one may claim that all is clear.
Claimed(d) ==
    [d EXCEPT !.effect = "clear", !.release = IF @ = "not_requested" THEN @ ELSE "clear"]

\* external_effect_binding and clears_requested_boundaries
HasBinding(d) == d # Unreviewed /\ d.effect # "not_requested"
ClearsRequested(d) == {d.effect, d.release} \subseteq {"clear", "not_requested"}

-----------------------------------------------------------------------------
\* The guards of evaluate_proposal, of p under control c.
IdentityHolds(p, c) == p.observation = c.observation
MissingWitnesses(p, c) ==
    (p.evidence \ c.evidence) \cup (p.deltas \ c.deltas) \cup (p.traces \ c.traces)
ScopeHolds(p, c) == p.goal \in c.goals

AuthorityStatus(p, c) ==
    IF c.shadow THEN "not_applicable"
    ELSE IF c.lab = Unreviewed THEN "unresolved"
    ELSE IF c.lab.context # LabContext(p, c.grant) THEN "fail"
    ELSE IF c.lab.effect = "clear" THEN "pass"
    ELSE IF c.lab.effect = "refuse" THEN "fail"
    ELSE "unresolved"

ConsequenceHolds(p, c) == p.action \in c.actions
ResourceHolds(p, c) == p.cost <= c.budget
ReentryStatus(p, c) ==
    IF p.account = NoAccount THEN "not_applicable"
    ELSE IF p.account \notin c.accounts THEN "unresolved"
    ELSE IF p.deltas # {} /\ p.deltas \subseteq c.deltas THEN "pass"
    ELSE "unresolved"

\* evaluate_proposal under the default policy: hard failures, then witnesses,
\* then what is unresolved.
Disposition(p, c) ==
    IF \/ ~IdentityHolds(p, c) \/ ~ScopeHolds(p, c)
       \/ AuthorityStatus(p, c) = "fail" \/ ~ConsequenceHolds(p, c)
    THEN "reject"
    ELSE IF MissingWitnesses(p, c) # {} THEN "request_witness"
    ELSE IF \/ AuthorityStatus(p, c) = "unresolved" \/ ~ResourceHolds(p, c)
            \/ ReentryStatus(p, c) = "unresolved"
    THEN "hold"
    ELSE IF p.account # NoAccount THEN "reopen"
    ELSE "admit"

Precedes(a, b) == \E i \in DOMAIN a : a[i] < b[i] /\ \A j \in 1..(i - 1) : a[j] = b[j]

RouteKey(p, c, preferInformation) ==
    <<IF Disposition(p, c) = "reopen" THEN 0 ELSE 1,
      IF preferInformation THEN p.gain ELSE p.progress,
      p.risk,
      IF p.reversible THEN 0 ELSE 1,
      p.cost,
      IF preferInformation THEN p.progress ELSE p.gain,
      p.id>>

\* select_route, when some proposal is eligible: the least.
Eligible(proposals, c) ==
    {p \in proposals : Disposition(p, c) \in {"admit", "reopen"}}
SelectRoute(proposals, c, preferInformation) ==
    {p \in Eligible(proposals, c) : \A q \in Eligible(proposals, c) \ {p} :
        Precedes(RouteKey(p, c, preferInformation), RouteKey(q, c, preferInformation))}

-----------------------------------------------------------------------------
\* The surface and control's choice of grant move on; what was made stays behind.
Observe ==
    /\ observation < MaxObservation
    /\ observation' = observation + 1
    /\ UNCHANGED <<grant, decision, control, route>>
Regrant(g) ==
    /\ grant' = g
    /\ UNCHANGED <<observation, decision, control, route>>

\* Proposals made against this observation or an earlier one.
ProposalsOf(drafts) == {[d EXCEPT !.observation = o] : d \in drafts, o \in 0..observation}

\* A decision is made, or only claimed.  What was made from an earlier one is out
\* of hand; BeginRouted is offered what may be passed in its place.
DecideBoundary(p, submission, claimed) ==
    LET d == EvaluateLabRules(LabContext(p, grant), submission) IN
    /\ decision' = IF claimed THEN Claimed(d) ELSE d
    /\ control' = Unreviewed /\ route' = Unreviewed
    /\ UNCHANGED <<observation, grant>>

\* The control snapshot a decision is routed under; a shadow one has no lab
\* boundary.
ControlSnapshot(aperture, shadow) ==
    [goals |-> aperture.goals, actions |-> aperture.actions, budget |-> aperture.budget,
     accounts |-> aperture.accounts, evidence |-> aperture.evidence,
     deltas |-> aperture.deltas, traces |-> aperture.traces,
     observation |-> observation, grant |-> grant, shadow |-> shadow,
     lab |-> IF ~shadow /\ HasBinding(decision) THEN decision ELSE Unreviewed]
TakeControl(aperture, shadow) ==
    /\ control' = ControlSnapshot(aperture, shadow)
    /\ route' = Unreviewed
    /\ UNCHANGED <<observation, grant, decision>>

\* select_route over one batch; identities in it are unique.  A route that is not
\* eligible, which begin refuses first of all, is not kept.
Route(batch, preferInformation) ==
    /\ control # Unreviewed
    /\ \A p, q \in batch : p.id = q.id => p = q
    /\ \E p \in SelectRoute(batch, control, preferInformation) :
        route' = [proposal |-> p, control |-> control]
    /\ UNCHANGED <<observation, grant, decision, control>>

\* Mutant of ReleaseRequired: the grant's own requirement is overlooked.
ReleaseRequiredByOutput(p, g) == p.output
ReleaseRequired(p, g) == g.releaseReview \/ p.output

\* begin: the route is the one that the configured guards give this proposal under
\* this control; the decision is the one in the control, evaluates again to what it
\* says from the reviews passed, with what this grant and proposal require, clears
\* it, and is of exactly this grant and proposal.  The registry then requires the
\* grant to be active.
Begins(p, c, d, reviews) ==
    /\ route.control = c /\ route.proposal = p
    /\ Disposition(p, c) \in {"admit", "reopen"}
    /\ ~c.shadow
    /\ d # Unreviewed
    /\ d = EvaluateLabRules(d.context, [reviews EXCEPT !.effectRequested = TRUE,
                                            !.releaseRequested = ReleaseRequired(p, c.grant)])
    /\ d.effect = "clear" /\ c.lab = d /\ ClearsRequested(d)
    /\ IdentityHolds(p, c) /\ ScopeHolds(p, c)
    /\ d.context = LabContext(p, c.grant)
    /\ c.grant = grant
BeginRouted(p, c, d, reviews) ==
    /\ route # Unreviewed
    /\ Begins(p, c, d, reviews)
    /\ begun' = [proposal |-> p, control |-> c, reviews |-> reviews]
    /\ UNCHANGED <<observation, grant, decision, control, route>>

\* What is passed: the routed proposal or another, the control it was routed under or
\* one for the present grant or observation, its decision or one newly made or claimed.
Passed(reviews) ==
    LET c == route.control
        d == EvaluateLabRules(LabContext(route.proposal, grant), reviews)
    IN  ProposalsOf({route.proposal})
            \X {c, [c EXCEPT !.grant = grant], [c EXCEPT !.observation = observation]}
            \X {c.lab, d, Claimed(d)}

RoutingNext ==
    /\ begun = Unreviewed
    /\ \/ /\ begun' = begun
          /\ \/ Observe
             \/ \E g \in TaskGrants : Regrant(g)
             \/ \E p \in ProposalsOf(Drafts), submission \in Submissions, claimed \in BOOLEAN :
                    DecideBoundary(p, submission, claimed)
             \/ \E aperture \in Apertures, shadow \in BOOLEAN : TakeControl(aperture, shadow)
             \/ \E batch \in SUBSET ProposalsOf(Drafts), preferInformation \in BOOLEAN :
                    Route(batch, preferInformation)
       \/ route # Unreviewed /\ \E reviews \in Submissions :
            \E passed \in Passed(reviews) : BeginRouted(passed[1], passed[2], passed[3], reviews)

RoutingSpec == RoutingInit /\ [][RoutingNext]_routingVars

-----------------------------------------------------------------------------
\* An execution begins only under the grant that is active then, for a proposal of
\* the observation its control was made of, inside the control's goals, actions and
\* budget and with every witness it cites, cleared for this very proposal and grant
\* by the reviews passed: a protective review of that same context, a crossing
\* authorised for it outside, and a release review where the proposal outputs or the
\* grant requires one; one that reopens brings an accepted material delta.  This
\* holds whatever was routed, decided or only claimed before, and whichever parts of
\* it are passed together.
BegunIsCleared ==
    begun # Unreviewed =>
        LET p == begun.proposal
            c == begun.control
            s == begun.reviews IN
        /\ c.grant = grant /\ c.lab.context = [proposal |-> p, grant |-> grant]
        /\ p.observation = c.observation
        /\ p.goal \in c.goals /\ p.action \in c.actions /\ p.cost <= c.budget
        /\ p.evidence \subseteq c.evidence /\ p.traces \subseteq c.traces
        /\ s.pea.verdict = "satisfied" /\ s.pea.grantBound /\ s.pea.contextBound
        /\ s.crossing.stage = "authorization" /\ s.crossing.bound
        /\ p.output \/ grant.releaseReview =>
                /\ s.release # Unreviewed
                /\ s.release.bound /\ s.release.withinAttention /\ s.release.releasable
        /\ p.account # NoAccount =>
               p.account \in c.accounts /\ p.deltas # {} /\ p.deltas \subseteq c.deltas
=============================================================================
