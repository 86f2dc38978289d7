-------------------------------- MODULE Scribe --------------------------------
(***************************************************************************)
(* Scribe sessions (scribe.py) that share one Kevin Speak workspace and    *)
(* one ledger.  A session journals what it does: materials, the request of *)
(* a cycle before the provider is asked, the frozen draft before the       *)
(* workspace is touched, and the cycle's receipt.  Every durable write is  *)
(* a step, may fail, and may be the last one the process makes.  The       *)
(* sessions share one serial writer: one operation runs at a time.         *)
(*                                                                         *)
(* A codebook is the sequence of cycles whose drafts made it.  Payloads    *)
(* are names, a material is named by its ordinal, and whether a candidate  *)
(* passes the byte gates is external.  Between operations a session holds  *)
(* in memory what its journal says (_record appends first and assigns      *)
(* after), so a live session and a restored one behave alike; what restore *)
(* accepts is RestoreAccepts.                                              *)
(***************************************************************************)
EXTENDS Naturals, Sequences, FiniteSets, SequencesExt, FiniteSetsExt

CONSTANTS
    Sessions,
    Payloads,           \* contents of derived summaries
    MaxGap,             \* bound on the ordinals a session skips
    MaxMaterials,       \* bound on the materials of all sessions
    MaxCycles,          \* bound on the cycles of all sessions
    Stride, Slot,       \* validation_stride, validation_slot
    CycleMaterials,     \* maximum_materials_per_cycle
    MinAdaptation, MinValidation

ASSUME ScribeAssumption ==
    /\ MaxGap \in Nat /\ MaxMaterials \in Nat /\ MaxCycles \in Nat
    /\ Stride \in Nat \ {0} /\ Slot \in 0..(Stride - 1)
    /\ MinAdaptation \in Nat \ {0} /\ MinValidation \in Nat \ {0}
    /\ CycleMaterials >= MinAdaptation + MinValidation

VARIABLES
    journal,    \* the receipts of each session's account
    kevin,      \* the workspace's candidate, evaluation and promotion receipts
    entries,    \* the workspace's entries, by session and material
    doing,      \* where the operation at work stands; "rest" when there is none
    hand,       \* its session and what it holds in memory
    asked       \* provider calls made for a cycle

scribeVars == <<journal, kevin, entries, doing, hand, asked>>

Nothing == [none |-> TRUE]
CycleIds == 1..MaxCycles
Closing == {"NO_CANDIDATE", "NOT_EARNED", "PROMOTED"}

ScribeInit ==
    /\ journal = [s \in Sessions |-> <<>>]
    /\ kevin = <<>>
    /\ entries = {}
    /\ doing = "rest"
    /\ hand = Nothing
    /\ asked = [call \in Sessions \X CycleIds |-> 0]

-----------------------------------------------------------------------------
\* What a journal says.
Receipts(s, kind) == {i \in DOMAIN journal[s] : journal[s][i].kind = kind}
Values(s, kind) == {journal[s][i].value : i \in Receipts(s, kind)}
Materials(s) == Values(s, "material")
Request(s, c) == CHOOSE r \in Values(s, "request") : r.cycle = c
Requested(s) == {r.cycle : r \in Values(s, "request")}
Frozen(s) == {f.cycle : f \in Values(s, "frozen")}
Finished(s) == {y.cycle : y \in Values(s, "cycle")}
Unfinished(s) == Requested(s) \ Finished(s)
RequiresReentry(s) == \E y \in Values(s, "cycle") : y.reentry
Processed(cycles) ==
    UNION {y.adaptation \cup y.validation : y \in {x \in cycles : x.status \in Closing}}

\* The account grows by one receipt; "before" is the workspace's history then.
Journals(s, kind, value) ==
    journal' = [journal EXCEPT ![s] =
        Append(@, [kind |-> kind, value |-> value, before |-> Len(kevin)])]

-----------------------------------------------------------------------------
\* The workspace's side.
IsPromotion(receipt) == receipt.kind = "promotion"
ActiveAfter(history) ==
    LET promotions == SelectSeq(history, IsPromotion)
    IN  IF promotions = <<>> THEN <<>> ELSE Last(promotions).book
Active == ActiveAfter(kevin)

OfCycle(s, c, kind) == {i \in DOMAIN kevin : kevin[i].kind = kind /\ kevin[i].by = <<s, c>>}
\* _kevin_lineage: the candidate, evaluation and promotion of a cycle's draft.
Lineage(s, c) == {k \in {"candidate", "evaluation", "promotion"} : OfCycle(s, c, k) # {}}
\* It raises when the candidate was not built on the codebook of the request.
LineageBinds(s, c) ==
    \A i \in OfCycle(s, c, "candidate") : kevin[i].book = Append(Request(s, c).active, <<s, c>>)

-----------------------------------------------------------------------------
\* _split_materials: a payload's lane follows the ordinal it first appeared at.
Pending(materials, processed) ==
    LET open == materials \ processed
    IN  {m \in open : Cardinality({n \in open : n.ordinal > m.ordinal}) < CycleMaterials}
FirstOrdinal(materials, payload) ==
    Min({m.ordinal : m \in {n \in materials : n.payload = payload}})
\* Mutant of Validation: the lane follows the material's own ordinal.
ValidationByOwn(materials, processed) ==
    {m \in Pending(materials, processed) : m.ordinal % Stride = Slot}
Validation(materials, processed) ==
    {m \in Pending(materials, processed) :
        FirstOrdinal(materials, m.payload) % Stride = Slot}
Adaptation(materials, processed) ==
    Pending(materials, processed) \ Validation(materials, processed)
PayloadsOf(materials) == {m.payload : m \in materials}

-----------------------------------------------------------------------------
Goes(where, holding) ==
    /\ doing' = where
    /\ hand' = holding
Starts(s) ==
    /\ doing = "rest"
    /\ journal[s] # <<>>
    /\ ~RequiresReentry(s)

Open(s) ==
    /\ doing = "rest"
    /\ journal[s] = <<>>
    /\ Journals(s, "genesis", Nothing)
    /\ UNCHANGED <<kevin, entries, doing, hand, asked>>

\* ingest: first the workspace's entry, then the session's material.  An entry
\* left by an interrupted ingest is adopted if it has this very content.
Ingest(s, ordinal, payload) ==
    /\ Starts(s)
    /\ Unfinished(s) = {}
    /\ \A m \in Materials(s) : m.ordinal < ordinal
    /\ ordinal <= Cardinality(Materials(s)) + MaxGap
    /\ \A e \in entries : e.s = s /\ e.ordinal = ordinal => e.payload = payload
    /\ entries' = entries \cup {[s |-> s, ordinal |-> ordinal, payload |-> payload]}
    /\ Cardinality(entries') <= MaxMaterials
    /\ Goes("ingesting", [s |-> s, material |-> [ordinal |-> ordinal, payload |-> payload]])
    /\ UNCHANGED <<journal, kevin, asked>>

IngestMaterial ==
    /\ doing = "ingesting"
    /\ Journals(hand.s, "material", hand.material)
    /\ Goes("rest", Nothing)
    /\ UNCHANGED <<kevin, entries, asked>>

\* run_cycle with a new identity: the request comes first.  (Sessions may use
\* equal cycle identities; here they are told apart, and bounded together.)
NewCycle == Cardinality(UNION {Requested(s) : s \in Sessions}) + 1
RequestCycle(s) ==
    /\ Starts(s)
    /\ Unfinished(s) = {}
    /\ NewCycle \in CycleIds
    /\ LET done == Processed(Values(s, "cycle"))
           adaptation == Adaptation(Materials(s), done)
           validation == Validation(Materials(s), done)
       IN  /\ Journals(s, "request", [cycle |-> NewCycle, active |-> Active,
                        adaptation |-> adaptation, validation |-> validation])
           /\ Goes(IF \/ Cardinality(adaptation) < MinAdaptation
                      \/ Cardinality(validation) < MinValidation
                   THEN "deferring" ELSE "asking", [s |-> s, cycle |-> NewCycle])
    /\ UNCHANGED <<kevin, entries, asked>>

\* A cycle's receipt, with the lineage it declares.
CycleReceipt(s, c, status, lineage) ==
    [cycle |-> c, status |-> status, lineage |-> lineage, frozen |-> c \in Frozen(s),
     adaptation |-> Request(s, c).adaptation, validation |-> Request(s, c).validation,
     reentry |-> status = "FAILED" /\ lineage # {}]
Concludes(status, lineage) ==
    /\ Journals(hand.s, "cycle", CycleReceipt(hand.s, hand.cycle, status, lineage))
    /\ Goes("rest", Nothing)
    /\ UNCHANGED <<kevin, entries, asked>>

DeferCycle == doing = "deferring" /\ Concludes("DEFERRED", {})

\* Mutant of FailedCycle: the receipt forgets what the workspace already holds.
FailedCycleBare == doing = "failing" /\ Concludes("FAILED", {})
\* _failed_cycle declares what the workspace holds of this cycle; over a lineage
\* that does not bind it raises instead.
FailedCycle ==
    /\ doing = "failing"
    /\ LineageBinds(hand.s, hand.cycle)
    /\ Concludes("FAILED", Lineage(hand.s, hand.cycle))

\* driver.propose: an empty draft, one citing what was shown, one citing all there
\* is, or an exception.
AskProvider ==
    /\ doing = "asking"
    /\ asked' = [asked EXCEPT ![<<hand.s, hand.cycle>>] = @ + 1]
    /\ \/ \E cited \in {{}, PayloadsOf(Request(hand.s, hand.cycle).adaptation), Payloads} :
            Goes("drafted", [s |-> hand.s, cycle |-> hand.cycle, cited |-> cited])
       \/ Goes("failing", hand)
    /\ UNCHANGED <<journal, kevin, entries>>

FreezeDraft ==
    /\ doing = "drafted"
    /\ Journals(hand.s, "frozen", [cycle |-> hand.cycle, cited |-> hand.cited])
    /\ Goes("frozen", hand)
    /\ UNCHANGED <<kevin, entries, asked>>

\* _finish_frozen: a draft without proposals ends the cycle; one that cites only
\* adaptation sources goes to the workspace as it stands now.
NoCandidate ==
    /\ doing = "frozen"
    /\ hand.cited = {}
    /\ Concludes("NO_CANDIDATE", {})

Writes(receipt, where) ==
    /\ kevin' = Append(kevin, receipt)
    /\ Goes(where, hand)
    /\ UNCHANGED <<journal, entries, asked>>
Own == <<hand.s, hand.cycle>>
ProposeCycleRevision ==
    /\ doing = "frozen"
    /\ hand.cited # {}
    /\ hand.cited \subseteq PayloadsOf(Request(hand.s, hand.cycle).adaptation)
    /\ Writes([kind |-> "candidate", by |-> Own, book |-> Append(Active, Own)], "proposed")
EvaluateCycleCandidate ==
    /\ doing = "proposed"
    /\ \E eligible \in BOOLEAN :
        Writes([kind |-> "evaluation", by |-> Own,
                held |-> PayloadsOf(Request(hand.s, hand.cycle).validation)],
               IF eligible THEN "eligible" ELSE "not_earned")
PromoteCycleCandidate ==
    /\ doing = "eligible"
    /\ Writes([kind |-> "promotion", by |-> Own, book |-> Append(Active, Own)], "promoted")
ConcludeNotEarned ==
    doing = "not_earned" /\ Concludes("NOT_EARNED", {"candidate", "evaluation"})
ConcludePromoted ==
    doing = "promoted" /\ Concludes("PROMOTED", {"candidate", "evaluation", "promotion"})

\* An inadmissible draft, or a write that fails, in the part of run_cycle that
\* answers every exception with a failed cycle.
CycleStepFails ==
    /\ doing \in {"drafted", "frozen", "proposed", "not_earned", "eligible", "promoted"}
    /\ Goes("failing", hand)
    /\ UNCHANGED <<journal, kevin, entries, asked>>

\* The exception reaches the caller, or the process ends.
Stops ==
    /\ doing # "rest"
    /\ Goes("rest", Nothing)
    /\ UNCHANGED <<journal, kevin, entries, asked>>

\* Mutant of ResumeCycle: a request without a frozen draft is asked again.
ResumeCycleAsking(s, c) ==
    /\ Starts(s)
    /\ c \in Unfinished(s)
    /\ Goes(IF c \in Frozen(s) THEN "failing" ELSE "asking", [s |-> s, cycle |-> c])
    /\ UNCHANGED <<journal, kevin, entries, asked>>
\* run_cycle with the identity of an unfinished request: a frozen draft that the
\* workspace has not seen is finished, everything else fails.
ResumeCycle(s, c) ==
    /\ Starts(s)
    /\ c \in Unfinished(s)
    /\ IF c \in Frozen(s) /\ Lineage(s, c) = {}
       THEN \E f \in Values(s, "frozen") :
                f.cycle = c /\ Goes("frozen", [s |-> s, cycle |-> c, cited |-> f.cited])
       ELSE Goes("failing", [s |-> s, cycle |-> c])
    /\ UNCHANGED <<journal, kevin, entries, asked>>

-----------------------------------------------------------------------------
\* restore: each receipt is checked against the ones before it and against the
\* workspace's history at its place, then every cycle against the workspace.
Upto(s, kind, i) == {journal[s][j].value : j \in {k \in Receipts(s, kind) : k < i}}
RequestReplays(s, i) ==
    LET request == journal[s][i].value
        processed == Processed(Upto(s, "cycle", i))
    IN  /\ {r.cycle : r \in Upto(s, "request", i)} = {y.cycle : y \in Upto(s, "cycle", i)}
        /\ request.adaptation = Adaptation(Upto(s, "material", i), processed)
        /\ request.validation = Validation(Upto(s, "material", i), processed)
        /\ request.active = ActiveAfter(SubSeq(kevin, 1, journal[s][i].before))
MaterialReplays(s, i) ==
    LET material == journal[s][i].value
    IN  /\ {r.cycle : r \in Upto(s, "request", i)} = {y.cycle : y \in Upto(s, "cycle", i)}
        /\ \A m \in Upto(s, "material", i) : m.ordinal < material.ordinal
        /\ [s |-> s, ordinal |-> material.ordinal, payload |-> material.payload] \in entries
CycleReplays(s, y) ==
    /\ y.frozen = (y.cycle \in Frozen(s))
    /\ y.frozen => LineageBinds(s, y.cycle) /\ Lineage(s, y.cycle) = y.lineage
    /\ ~y.frozen => y.lineage = {}
    /\ y.status = "DEFERRED" =>
        \/ Cardinality(y.adaptation) < MinAdaptation
        \/ Cardinality(y.validation) < MinValidation
    /\ y.status = "PROMOTED" => "promotion" \in y.lineage
RestoreAccepts(s) ==
    /\ journal[s] # <<>>
    /\ \A i \in Receipts(s, "request") : RequestReplays(s, i)
    /\ \A i \in Receipts(s, "material") : MaterialReplays(s, i)
    /\ \A y \in Values(s, "cycle") : CycleReplays(s, y)
    /\ Cardinality(Unfinished(s)) <= 1

ScribeNext ==
    \/ \E s \in Sessions :
        \/ Open(s)
        \/ \E ordinal \in 0..(MaxMaterials + MaxGap), payload \in Payloads : Ingest(s, ordinal, payload)
        \/ RequestCycle(s)
        \/ \E c \in CycleIds : ResumeCycle(s, c)
    \/ IngestMaterial \/ DeferCycle \/ AskProvider \/ FreezeDraft
    \/ NoCandidate \/ ProposeCycleRevision \/ EvaluateCycleCandidate \/ PromoteCycleCandidate
    \/ ConcludeNotEarned \/ ConcludePromoted
    \/ CycleStepFails \/ FailedCycle \/ Stops

ScribeSpec == ScribeInit /\ [][ScribeNext]_scribeVars

-----------------------------------------------------------------------------
\* docs/scribe.md: a provider call is never silently repeated.  Over all crashes
\* and resumptions a cycle asks at most once, never without a durable request,
\* and what reaches the workspace is the draft that was frozen.
ProviderAskedOnce ==
    \A s \in Sessions, c \in CycleIds :
        /\ asked[<<s, c>>] <= 1
        /\ asked[<<s, c>>] = 1 => c \in Requested(s)
        /\ Lineage(s, c) # {} => c \in Frozen(s)

\* Over all the cycles of a session, a payload the driver was shown is never one
\* that an evaluation holds out, however materials repeat and age out of a cycle.
HeldOutStaysHeldOut ==
    \A s \in Sessions, c \in CycleIds :
        asked[<<s, c>>] > 0 =>
            \A i \in DOMAIN kevin :
                kevin[i].kind = "evaluation" /\ kevin[i].by[1] = s =>
                    PayloadsOf(Request(s, c).adaptation) \cap kevin[i].held = {}

\* Whatever a session wrote, and wherever it stopped, it restores - unless the
\* other session's promotion came between its request and its candidate: then
\* the candidate is built on a codebook the request does not name.
Overtaken(s) == \E c \in Requested(s) : ~LineageBinds(s, c)
SessionsRestore ==
    \A s \in Sessions : journal[s] = <<>> \/ Overtaken(s) \/ RestoreAccepts(s)
=============================================================================
