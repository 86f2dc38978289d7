---------------------------- MODULE GrantRegistry ----------------------------
(***************************************************************************)
(* The in-process grant registry of src/strongwiz/authority.py: control    *)
(* activates, replaces and revokes task grants; the execution coordinator  *)
(* reserves a one-use permit under the current grant and, immediately      *)
(* before the effect, trades it for a release receipt.  Work goes on       *)
(* between the two, so control may change under a live permit.             *)
(*                                                                         *)
(* A grant is identified by its digest (grant_ref).  What its aperture     *)
(* compares (action name and content, executor identity, scope) is one     *)
(* value, a target; a boundary is the caller's logical clock, which        *)
(* nothing forces to advance.                                              *)
(***************************************************************************)
EXTENDS Naturals, FiniteSets

CONSTANTS
    Grants,          \* the grants control may activate
    None,            \* no grant
    Replaces,        \* replaces_grant_ref of each grant
    NotBefore,       \* not_before_boundary of each grant
    Expires,         \* expires_boundary of each grant
    MaxInvocations,  \* maximum_invocations of each grant
    Aperture,        \* the targets each grant admits
    Targets,         \* action, executor and scope of a proposed effect
    InvocationIds,   \* invocation identities callers may use
    NoInvocation,    \* the empty one, which nothing refuses before the counters move
    SerialTokens,    \* serial tokens of control snapshots
    Boundaries       \* boundaries callers may pass

\* What TaskGrant's validator and content addressing guarantee: a digest cannot
\* contain itself, and the window is not inverted.
ASSUME GrantAssumption ==
    /\ None \notin Grants
    /\ Replaces \in [Grants -> Grants \cup {None}]
    /\ \A g \in Grants : Replaces[g] # g
    /\ NotBefore \in [Grants -> Nat]
    /\ Expires \in [Grants -> Nat]
    /\ \A g \in Grants : NotBefore[g] <= Expires[g]
    /\ MaxInvocations \in [Grants -> Nat \ {0}]
    /\ Aperture \in [Grants -> SUBSET Targets]
    /\ Boundaries \subseteq Nat
    /\ NoInvocation \notin InvocationIds

Statuses == {"unknown", "active", "expired", "exhausted", "revoked", "superseded"}

\* DecisionPermit: the bindings fixed when it was issued.
Permit == [grant : Grants, invocation : InvocationIds, token : SerialTokens,
           target : Targets, boundary : Boundaries]

\* ReleaseReceipt: RELEASED hands the effect to the executor, QUARANTINED does not.
Receipt == [permit : Permit, status : {"released", "quarantined"}, boundary : Boundaries]

VARIABLES
    statuses,      \* _statuses, "unknown" when the grant was never activated
    activeRef,     \* _active_ref
    invocations,   \* _invocations: permits ever reserved under a grant
    outstanding,   \* _outstanding: permits reserved and not yet finished
    invocationIds, \* _invocation_ids: pairs of grant and invocation identity
    serialTokens,  \* _serial_tokens
    issued,        \* the DecisionPermit objects handed out
    used,          \* those whose _used flag is set
    receipts       \* every ReleaseReceipt returned so far

vars == <<statuses, activeRef, invocations, outstanding, invocationIds,
          serialTokens, issued, used, receipts>>

TypeOK ==
    /\ statuses \in [Grants -> Statuses]
    /\ activeRef \in Grants \cup {None}
    /\ invocations \in [Grants -> Nat]
    /\ outstanding \in [Grants -> Nat]
    /\ invocationIds \subseteq Grants \X (InvocationIds \cup {NoInvocation})
    /\ serialTokens \subseteq SerialTokens
    /\ issued \subseteq Permit
    /\ used \subseteq issued
    /\ receipts \subseteq Receipt

Init ==
    /\ statuses = [g \in Grants |-> "unknown"]
    /\ activeRef = None
    /\ invocations = [g \in Grants |-> 0]
    /\ outstanding = [g \in Grants |-> 0]
    /\ invocationIds = {}
    /\ serialTokens = {}
    /\ issued = {}
    /\ used = {}
    /\ receipts = {}

-----------------------------------------------------------------------------
\* Mutant of Activate: the replaced grant keeps its status.
ActivateBeside(g) ==
    /\ Replaces[g] = activeRef
    /\ statuses' = [statuses EXCEPT ![g] = "active"]
    /\ activeRef' = g
    /\ UNCHANGED <<invocations, outstanding, invocationIds, serialTokens,
                   issued, used, receipts>>

\* Mutant of Activate: a grant that comes back starts with a fresh budget.
ActivateAfresh(g) ==
    /\ Replaces[g] = activeRef
    /\ statuses' = [h \in Grants |-> IF h = g THEN "active"
                                     ELSE IF h = activeRef THEN "superseded"
                                     ELSE statuses[h]]
    /\ activeRef' = g
    /\ invocations' = [invocations EXCEPT ![g] = 0]
    /\ UNCHANGED <<outstanding, invocationIds, serialTokens, issued, used, receipts>>

\* activate: an initial grant, or the exact successor of the current one.  The
\* counters of a grant that comes back are kept (setdefault).
Activate(g) ==
    /\ Replaces[g] = activeRef
    /\ statuses' = [h \in Grants |-> IF h = g THEN "active"
                                     ELSE IF h = activeRef THEN "superseded"
                                     ELSE statuses[h]]
    /\ activeRef' = g
    /\ UNCHANGED <<invocations, outstanding, invocationIds, serialTokens,
                   issued, used, receipts>>

\* revoke: only an ACTIVE grant can be revoked.
Revoke(g) ==
    /\ statuses[g] = "active"
    /\ statuses' = [statuses EXCEPT ![g] = "revoked"]
    /\ activeRef' = IF activeRef = g THEN None ELSE activeRef
    /\ UNCHANGED <<invocations, outstanding, invocationIds, serialTokens,
                   issued, used, receipts>>

\* The checks of _require_active, in the code's order: currency, window, aperture.
Current(g) == activeRef = g /\ statuses[g] = "active"

RequireActive(g, boundary, target) ==
    /\ Current(g)
    /\ NotBefore[g] <= boundary /\ boundary <= Expires[g]
    /\ target \in Aperture[g]

\* The side effect of _require_active: a late boundary expires the grant, and
\* does so before the aperture is looked at.
Lapses(g, boundary) ==
    /\ Current(g)
    /\ NotBefore[g] <= boundary
    /\ boundary > Expires[g]

\* Mutant of Reserve: a control snapshot admits any number of permits.
ReserveUnserialized(g, invocation, token, target, boundary) ==
    /\ RequireActive(g, boundary, target)
    /\ <<g, invocation>> \notin invocationIds
    /\ invocations[g] < MaxInvocations[g]
    /\ serialTokens' = serialTokens \cup {token}
    /\ invocationIds' = invocationIds \cup {<<g, invocation>>}
    /\ invocations' = [invocations EXCEPT ![g] = @ + 1]
    /\ outstanding' = [outstanding EXCEPT ![g] = @ + 1]
    /\ UNCHANGED <<statuses, activeRef, used, receipts>>

\* What _begin_permit does before it builds the permit: the refusals, the two
\* identities burned and the two counters moved.
Reserve(g, invocation, token, target, boundary) ==
    /\ RequireActive(g, boundary, target)
    /\ token \notin serialTokens
    /\ <<g, invocation>> \notin invocationIds
    /\ invocations[g] < MaxInvocations[g]
    /\ serialTokens' = serialTokens \cup {token}
    /\ invocationIds' = invocationIds \cup {<<g, invocation>>}
    /\ invocations' = [invocations EXCEPT ![g] = @ + 1]
    /\ outstanding' = [outstanding EXCEPT ![g] = @ + 1]
    /\ UNCHANGED <<statuses, activeRef, used, receipts>>

\* _begin_permit, admitted.
BeginPermit(g, invocation, token, target, boundary) ==
    /\ Reserve(g, invocation, token, target, boundary)
    /\ issued' = issued \cup {[grant |-> g, invocation |-> invocation, token |-> token,
                               target |-> target, boundary |-> boundary]}

\* _begin_permit for an empty invocation identity: DecisionPermit refuses it, but
\* only after the counters have moved.  No permit will ever end this reservation.
BeginPermitUnbound(g, token, target, boundary) ==
    /\ Reserve(g, NoInvocation, token, target, boundary)
    /\ UNCHANGED issued

\* _begin_permit, refused because the grant has expired; the refusals that are not
\* an action here leave the registry as it was.
BeginPermitLapsed(g, boundary) ==
    /\ Lapses(g, boundary)
    /\ statuses' = [statuses EXCEPT ![g] = "expired"]
    /\ UNCHANGED <<activeRef, invocations, outstanding, invocationIds, serialTokens,
                   issued, used, receipts>>

\* Mutant of FinishReservation: exhausted although permits are still live.
FinishReservationEarly(g, now) ==
    /\ outstanding[g] > 0
    /\ outstanding' = [outstanding EXCEPT ![g] = @ - 1]
    /\ statuses' = IF activeRef = g /\ now[g] = "active" /\ invocations[g] >= MaxInvocations[g]
                   THEN [now EXCEPT ![g] = "exhausted"]
                   ELSE now

\* _finish_reservation, from the statuses the release check left behind.
FinishReservation(g, now) ==
    /\ outstanding[g] > 0
    /\ outstanding' = [outstanding EXCEPT ![g] = @ - 1]
    /\ statuses' = IF /\ activeRef = g
                      /\ now[g] = "active"
                      /\ invocations[g] >= MaxInvocations[g]
                      /\ outstanding[g] = 1
                   THEN [now EXCEPT ![g] = "exhausted"]
                   ELSE now

\* permit.consume() followed by the reservation's end and the receipt.
Conclude(p, status, boundary, now) ==
    /\ used' = used \cup {p}
    /\ FinishReservation(p.grant, now)
    /\ receipts' = receipts \cup {[permit |-> p, status |-> status, boundary |-> boundary]}
    /\ UNCHANGED <<activeRef, invocations, invocationIds, serialTokens, issued>>

\* The release presents the admitted target, at no earlier boundary.
BindingsMatch(p, target, boundary) == target = p.target /\ p.boundary <= boundary

\* _release_permit: an unused permit always ends here, released or quarantined.
ReleasePermit(p, target, boundary) ==
    /\ p \in issued
    /\ p \notin used
    /\ BindingsMatch(p, target, boundary)
    /\ RequireActive(p.grant, boundary, p.target)
    /\ Conclude(p, "released", boundary, statuses)

\* Mutant of QuarantineMismatch: the permit is consumed, the reservation kept.
QuarantineMismatchLeaks(p, target, boundary) ==
    /\ p \in issued
    /\ p \notin used
    /\ ~BindingsMatch(p, target, boundary)
    /\ used' = used \cup {p}
    /\ receipts' = receipts \cup {[permit |-> p, status |-> "quarantined", boundary |-> boundary]}
    /\ UNCHANGED <<statuses, activeRef, invocations, outstanding, invocationIds,
                   serialTokens, issued>>

\* _release_permit, other bindings or an earlier boundary than the admitted.
QuarantineMismatch(p, target, boundary) ==
    /\ p \in issued
    /\ p \notin used
    /\ ~BindingsMatch(p, target, boundary)
    /\ Conclude(p, "quarantined", boundary, statuses)

\* _release_permit, control no longer admits what it admitted.
QuarantineControlChanged(p, target, boundary) ==
    /\ p \in issued
    /\ p \notin used
    /\ BindingsMatch(p, target, boundary)
    /\ ~RequireActive(p.grant, boundary, p.target)
    /\ Conclude(p, "quarantined", boundary,
                IF Lapses(p.grant, boundary)
                THEN [statuses EXCEPT ![p.grant] = "expired"]
                ELSE statuses)

Next ==
    \/ \E g \in Grants : Activate(g)
    \/ \E g \in Grants : Revoke(g)
    \/ \E g \in Grants, i \in InvocationIds, t \in SerialTokens, x \in Targets,
          b \in Boundaries : BeginPermit(g, i, t, x, b)
    \/ \E g \in Grants, t \in SerialTokens, x \in Targets, b \in Boundaries :
          BeginPermitUnbound(g, t, x, b)
    \/ \E g \in Grants, b \in Boundaries : BeginPermitLapsed(g, b)
    \/ \E p \in issued, x \in Targets, b \in Boundaries : ReleasePermit(p, x, b)
    \/ \E p \in issued, x \in Targets, b \in Boundaries : QuarantineMismatch(p, x, b)
    \/ \E p \in issued, x \in Targets, b \in Boundaries : QuarantineControlChanged(p, x, b)

Spec == Init /\ [][Next]_vars

-----------------------------------------------------------------------------
\* The permits of a set that were issued under one grant.
Under(g, permits) == {p \in permits : p.grant = g}

PermitsOf(g) == Under(g, issued)
LivePermitsOf(g) == Under(g, issued \ used)

\* The reservation an empty invocation identity has cost a grant: one at most,
\* since the pair of grant and identity is burned with it.
Stranded(g) == IF <<g, NoInvocation>> \in invocationIds THEN 1 ELSE 0

ReleasesOf(g) == {r \in receipts : r.permit.grant = g /\ r.status = "released"}

\* The registry's pointer and the status table agree: a grant is active, expired
\* or exhausted exactly while it is the current one, so at most one grant is in
\* force whatever the order of activations, expiries and revocations.
OneCurrentGrant ==
    \A g \in Grants : statuses[g] \in {"active", "expired", "exhausted"} <=> activeRef = g

\* The reservation counter of a grant is the number of its unused permits, also
\* of grants replaced or revoked meanwhile, and of the one reservation that may be
\* stranded without a permit.  Hence _finish_reservation never raises after
\* permit.consume(), which would destroy the permit and lose its receipt.
ReservationsMatchPermits ==
    \A g \in Grants : outstanding[g] = Cardinality(LivePermitsOf(g)) + Stranded(g)

\* A grant's budget bounds the effects released under it over its whole life,
\* through quarantines, replacement, revocation and reactivation by control.
BudgetRespected ==
    \A g \in Grants : Cardinality(ReleasesOf(g)) <= MaxInvocations[g]

\* EXHAUSTED is only ever said of a grant whose budget is spent and whose every
\* permit has been concluded.
ExhaustedMeansSpent ==
    \A g \in Grants : statuses[g] = "exhausted" =>
        /\ invocations[g] = MaxInvocations[g]
        /\ LivePermitsOf(g) = {}

\* A permit is good for one release, and a control snapshot's serial token for
\* one permit: no two receipts share a token, even across grants.
SerialReleasedOnce ==
    \A r, s \in receipts : r.permit.token = s.permit.token => r = s

\* A grant that lapsed or spent its budget stays in the chain: it cannot be
\* revoked, reactivated or forgotten, only replaced by its exact successor.
SpentGrantOnlySuperseded ==
    [][\A g \in Grants : statuses[g] \in {"expired", "exhausted"} =>
          \/ statuses'[g] = statuses[g]
          \/ statuses'[g] = "superseded" /\ Replaces[activeRef'] = g]_vars
=============================================================================
