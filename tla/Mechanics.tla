------------------------------- MODULE Mechanics -------------------------------
(***************************************************************************)
(* Mechanic versions and their repair (learning.py).  A mechanic predicts  *)
(* a consequence, channel by channel; an assessment compares a prediction  *)
(* with what was observed and finds channels wrong; a revision replaces    *)
(* what was found wrong and keeps the rest.  Assessments are values that   *)
(* callers keep, so an old one may come back at any time, and they bind    *)
(* the predicted vector, not the version.  A caller may also register any  *)
(* next version itself, without an assessment.  The components that        *)
(* channels implicate, which no call here reads back, are left out.        *)
(***************************************************************************)
EXTENDS Naturals, Sequences, FiniteSets

CONSTANTS
    Channels,
    Atoms,              \* what a channel may assert
    MaxMechanicVersions,
    MaxAssessments      \* bound on assessments kept by callers

ASSUME MechanicsAssumption == MaxMechanicVersions \in Nat /\ MaxAssessments \in Nat

VARIABLES
    mechanic,       \* the versions of one mechanic, and the call each was registered by
    assessments     \* the assessments that callers keep

mechanicVars == <<mechanic, assessments>>

\* A channel is unknown, or known to carry some atoms, perhaps none.
ChannelUnknown == "unknown"
ChannelValues == {[known |-> a] : a \in SUBSET Atoms} \cup {[unknown |-> ChannelUnknown]}
IsKnown(value) == "known" \in DOMAIN value
Vectors == [Channels -> ChannelValues]

\* compare_consequences
Unscored(expected) == {c \in Channels : ~IsKnown(expected[c])}
Matched(expected, observed) ==
    {c \in Channels \ Unscored(expected) : expected[c] = observed[c]}
ResidualKindOf(expected, observed) ==
    CASE ~IsKnown(observed) -> "unobserved"
      [] IsKnown(observed) /\ observed.known = {} -> "missing_expected"
      [] IsKnown(observed) /\ expected.known = {} -> "unexpected"
      [] OTHER -> "mismatch"
Residual(expected, observed) == Channels \ (Unscored(expected) \cup Matched(expected, observed))
Assessment(expected, observed) ==
    [prediction |-> expected,
     residuals |-> {[channel |-> c, kind |-> ResidualKindOf(expected[c], observed[c])]
                        : c \in Residual(expected, observed)},
     unscored |-> Unscored(expected)]
ImplicatedChannels(assessment) == {r.channel : r \in assessment.residuals}
ExactMatch(assessment) == assessment.residuals = {} /\ assessment.unscored = {}

CurrentMechanic == mechanic[Len(mechanic)]
MechanicInit == mechanic = <<>> /\ assessments = {}

\* register: the next version, bound to the one before it.
Registers(vector, by) ==
    /\ Len(mechanic) < MaxMechanicVersions
    /\ mechanic' = Append(mechanic, [vector |-> vector, by |-> by])
    /\ UNCHANGED assessments

\* Called by a caller itself, register takes any prediction and any status.
RegisterMechanic(vector) == Registers(vector, "register")

\* assess of the current version, or compare_consequences of any prediction.
AssessMechanic(expected, observed) ==
    /\ Cardinality(assessments) < MaxAssessments
    /\ assessments' = assessments \cup {Assessment(expected, observed)}
    /\ UNCHANGED mechanic

\* Mutant of BindsCurrent: any assessment of this mechanic will do.
BindsAny(assessment) == assessment \in assessments
BindsCurrent(assessment) == assessment.prediction = CurrentMechanic.vector

\* revise_implicated: replacements for exactly the channels with a residual.
ReviseImplicated(assessment, replacements) ==
    /\ mechanic # <<>>
    /\ BindsCurrent(assessment)
    /\ assessment.residuals # {}
    /\ DOMAIN replacements = ImplicatedChannels(assessment)
    /\ Registers([c \in Channels |->
            IF c \in DOMAIN replacements THEN replacements[c] ELSE CurrentMechanic.vector[c]],
            "revise")

SupportMechanic(assessment) ==
    /\ mechanic # <<>>
    /\ BindsCurrent(assessment)
    /\ ExactMatch(assessment)
    /\ Registers(CurrentMechanic.vector, "support")

MechanicNext ==
    \/ \E v \in Vectors :
        \/ RegisterMechanic(v)
        \/ \E expected \in Vectors : AssessMechanic(expected, v)
    \/ \E a \in assessments :
        \/ SupportMechanic(a)
        \/ \E r \in [ImplicatedChannels(a) -> ChannelValues] : ReviseImplicated(a, r)
MechanicSpec == MechanicInit /\ [][MechanicNext]_mechanicVars

\* A repair changes a mechanic only where evidence spoke, whatever versions were
\* registered around it: what revise_implicated registered differs from the version
\* before it only in channels that an assessment of that very prediction found
\* wrong, and what support registered repeats a prediction that was observed whole.
ChangesAreImplicated ==
    \A n \in 1..Len(mechanic) :
        mechanic[n].by # "register" =>
            /\ n # 1
            /\ LET new == mechanic[n]
                   old == mechanic[n - 1]
                   changed == {c \in Channels : new.vector[c] # old.vector[c]}
               IN  \E a \in assessments :
                    /\ a.prediction = old.vector
                    /\ changed \subseteq ImplicatedChannels(a)
                    /\ new.by = "support" <=> ExactMatch(a)
=============================================================================
