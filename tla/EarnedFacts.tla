------------------------------ MODULE EarnedFacts ------------------------------
(***************************************************************************)
(* The fact store (facts.py): what was derived may be used again until     *)
(* something it stands on is invalidated.  A fact is named by its place in *)
(* the order of first issue, in the code by its digest.  There is one      *)
(* predicate, and what the operations cost is left out.  So is the parent  *)
(* a fact names: issue accepts any, and the store never reads it; what     *)
(* binds a transferred fact to its source is that the source is among its  *)
(* dependencies.                                                           *)
(***************************************************************************)
EXTENDS Integers, Sequences

CONSTANTS
    Subjects,
    MaxSubjectVersion,  \* bound on subject versions
    MaxFacts            \* bound on distinct facts

ASSUME EarnedFactsAssumption == MaxSubjectVersion \in Nat /\ MaxFacts \in Nat

VARIABLES
    facts,          \* the facts ever issued
    active,         \* the places of those in force
    subjectVersion, \* the version each subject is known at; -1 when it is unknown
    rule            \* the registered transfer rule

factVars == <<facts, active, subjectVersion, rule>>

FactStatuses == {"lower_bound", "exact", "exact_negative"}
SubjectVersions == 0..MaxSubjectVersion
NoRule == [allowed |-> {}, preserves |-> FALSE, validates |-> FALSE]
\* A rule that allows a negative to be transferred must claim to preserve it.
TransferRules ==
    {r \in [allowed : SUBSET FactStatuses \ {{}}, preserves : BOOLEAN, validates : BOOLEAN] :
        "exact_negative" \in r.allowed => r.preserves}

FactInit ==
    /\ facts = <<>>
    /\ active = {}
    /\ subjectVersion = [s \in Subjects |-> -1]
    /\ rule = NoRule

-----------------------------------------------------------------------------
RegisterTransferRule(r) ==
    /\ rule \in {NoRule, r}
    /\ rule' = r
    /\ UNCHANGED <<facts, active, subjectVersion>>

\* issue: refused for a stale version or an inactive dependency; the same
\* content again is the same fact.
Issuable(fact) ==
    /\ fact.version >= subjectVersion[fact.subject]
    /\ fact.deps \subseteq active
Places(fact) == {i \in DOMAIN facts : facts[i] = fact}
Issues(fact) ==
    /\ Issuable(fact)
    /\ \/ \E i \in Places(fact) : active' = active \cup {i} /\ UNCHANGED facts
       \/ /\ Places(fact) = {}
          /\ Len(facts) < MaxFacts
          /\ facts' = Append(facts, fact)
          /\ active' = active \cup {Len(facts) + 1}
    /\ subjectVersion' = [subjectVersion EXCEPT ![fact.subject] = fact.version]
Issue(subject, version, status, deps, transferable) ==
    /\ Issues([subject |-> subject, version |-> version, status |-> status, deps |-> deps,
               transferable |-> transferable])
    /\ UNCHANGED rule

\* lookup: the latest active fact of the exact version.
Matching(subject, version) ==
    {i \in DOMAIN facts : facts[i].subject = subject /\ facts[i].version = version}
Lookup(subject, version) ==
    LET found == Matching(subject, version) \cap active
        stale == subjectVersion[subject] \notin {-1, version}
    IN  IF found # {} THEN [kind |-> "hit", fact |-> CHOOSE i \in found : \A j \in found : j <= i]
        ELSE IF stale \/ Matching(subject, version) # {} THEN [kind |-> "invalid"]
        ELSE [kind |-> "miss"]

\* Mutant of Implicated: one pass over the dependents.
ImplicatedOnce(subject) ==
    LET direct == {i \in active : facts[i].subject = subject}
    IN  direct \cup {i \in active : facts[i].deps \cap direct # {}}
\* mutate_subject: every active fact of the subject, and what depends on them.
Implicated(subject) ==
    LET reached[n \in 0..MaxFacts] ==
            IF n = 0 THEN {i \in active : facts[i].subject = subject}
            ELSE reached[n - 1] \cup {i \in active : facts[i].deps \cap reached[n - 1] # {}}
    IN  reached[MaxFacts]
KnownVersion(subject) == IF subjectVersion[subject] = -1 THEN 0 ELSE subjectVersion[subject]
MutateSubject(subject, version) ==
    /\ version > KnownVersion(subject)
    /\ active' = active \ Implicated(subject)
    /\ subjectVersion' = [subjectVersion EXCEPT ![subject] = version]
    /\ UNCHANGED <<facts, rule>>

\* transfer: an active fact that declares the rule, under what the rule allows,
\* issued for the target with the source among its dependencies.
Transfer(i, subject, version, validated) ==
    /\ i \in active
    /\ rule # NoRule
    /\ facts[i].transferable
    /\ facts[i].status \in rule.allowed
    /\ facts[i].status = "exact_negative" => rule.preserves
    /\ rule.validates => validated
    /\ Issues([facts[i] EXCEPT !.subject = subject, !.version = version,
                               !.deps = @ \cup {i}])
    /\ UNCHANGED rule

-----------------------------------------------------------------------------
\* Statuses vary where they can matter, in facts that declare the rule; the rule
\* is for exact facts, and claims to preserve negatives or does not.
FactNext ==
    \/ \E r \in {t \in TransferRules : t.allowed \ {"exact_negative"} = {"exact"}} : RegisterTransferRule(r)
    \/ \E s \in Subjects, v \in SubjectVersions :
        \/ \E deps \in {{}} \cup {{i} : i \in active} :
            \/ Issue(s, v, "lower_bound", deps, FALSE)
            \/ \E status \in {"exact", "exact_negative"} : Issue(s, v, status, deps, TRUE)
        \/ MutateSubject(s, v)
        \/ \E i \in DOMAIN facts, validated \in BOOLEAN : Transfer(i, s, v, validated)
FactSpec == FactInit /\ [][FactNext]_factVars

\* Nothing in force stands on what was invalidated, and what was invalidated
\* cannot come back: an active fact's dependencies are active, an inactive fact
\* is no longer issuable, and what a lookup returns is of the version asked for and in
\* force with everything it was derived from or transferred from.
FactsStandOnActive ==
    /\ \A i \in active : facts[i].deps \subseteq active
    /\ \A i \in DOMAIN facts \ active : ~Issuable(facts[i])
    /\ \A s \in Subjects, v \in SubjectVersions :
        Lookup(s, v).kind = "hit" =>
            LET i == Lookup(s, v).fact
            IN  facts[i].version = v /\ {i} \cup facts[i].deps \subseteq active
=============================================================================
