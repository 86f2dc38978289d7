------------------------------ MODULE KevinSpeak ------------------------------
(***************************************************************************)
(* Kevin Speak workspaces (shorthand.py): a source run adapts a codebook,  *)
(* a review workspace judges its sealed recommendation, and a successor    *)
(* inherits what was adopted.  Each workspace is a lineage of receipts; a  *)
(* handle is the object a process holds on it.                             *)
(*                                                                         *)
(* There is one token.  A codebook is the sequence of changes that made    *)
(* it - a meaning given to the token, or its retirement - so codebooks     *)
(* with equal digests are equal sequences, and a predecessor is a prefix.  *)
(* The byte gates of an evaluation, the drivers and the sealing of a run   *)
(* are external.                                                           *)
(***************************************************************************)
EXTENDS Naturals, Sequences, FiniteSets, SequencesExt, FiniteSetsExt

CONSTANTS
    Handles,
    Meanings,           \* expansions proposed for the token
    Configurations,
    EntryIds,
    MaxBooks,           \* bound on the codebooks of a registry
    MaxSource, MaxReview, MaxSuccessor, \* bounds on receipts, by workspace
    MaxTotal,           \* over all of them, after the geneses
    MaxShared           \* and while two handles are live

ASSUME KevinAssumption ==
    {MaxBooks, MaxSource, MaxReview, MaxSuccessor, MaxTotal, MaxShared} \subseteq Nat

VARIABLES
    lineage,    \* the receipts of each workspace, in ledger order
    handle,     \* what each handle holds in memory
    bundles,    \* sealed recommendations, as exported
    transfers   \* exported transfers

kevinVars == <<lineage, handle, bundles, transfers>>

Workspaces == {"source", "review", "successor"}
MaxReceipts == [source |-> MaxSource, review |-> MaxReview, successor |-> MaxSuccessor]
Absent == [none |-> TRUE]
Retire == "retire"
Blankbook == <<>>

\* The definition a codebook resolves its token to: the meanings since the last
\* retirement, each superseding the one before; and all those of its lineage.
Effective(book) ==
    LET after == Max({0} \cup {i \in DOMAIN book : book[i] = Retire})
    IN  {d \in {SubSeq(book, after + 1, Len(book))} : d # <<>>}
Books(book) == {SubSeq(book, 1, n) : n \in 0..Len(book)}
LineageDefinitions(book) == UNION {Effective(b) : b \in Books(book)}
Historical(book) == LineageDefinitions(book) \ Effective(book)
Known(books) == UNION {Effective(b) : b \in books}

KevinInit ==
    /\ lineage = [w \in Workspaces |-> <<>>]
    /\ handle = [h \in Handles |-> Absent]
    /\ bundles = {}
    /\ transfers = {}

-----------------------------------------------------------------------------
\* _record: the receipt's occurrence is its place in the handle's own count and
\* its kind, its parent the handle's last receipt.  The ledger returns a receipt
\* it already holds and refuses an occurrence with other content.  A run whose
\* recommendation was exported is sealed and its ledger closed.
\* What the bounds still allow: receipts after the geneses, fewer of them once two
\* handles are live.
Written == Len(lineage["source"]) + Len(lineage["review"]) + Len(lineage["successor"])
           - Cardinality({w \in Workspaces : lineage[w] # <<>>})
Shared == Cardinality({g \in Handles : handle[g] # Absent}) > 1
WithinBounds(w) ==
    /\ Len(lineage[w]) < MaxReceipts[w]
    /\ Written < IF Shared THEN MaxShared ELSE MaxTotal
\* A second handle is opened early or not at all.
Joins(h) == handle[h] # Absent \/ Written <= MaxShared
Occurs(w, receipt) ==
    {i \in DOMAIN lineage[w] :
        lineage[w][i].index = receipt.index /\ lineage[w][i].kind = receipt.kind}
Records(h, kind, value, after) ==
    LET m == handle[h]
        receipt == [kind |-> kind, index |-> Len(m.refs), value |-> value,
                    parent |-> IF m.refs = <<>> THEN 0 ELSE Last(m.refs)]
        stored == Occurs(m.ws, receipt)
    IN  \/ /\ stored = {}
           /\ \A b \in bundles : b.ws # m.ws
           /\ WithinBounds(m.ws)
           /\ lineage' = [lineage EXCEPT ![m.ws] = Append(@, receipt)]
           /\ handle' = [handle EXCEPT ![h] =
                [after EXCEPT !.refs = Append(@, Len(lineage[m.ws]) + 1)]]
        \/ \E i \in stored :
           /\ lineage[m.ws][i] = receipt
           /\ handle' = [handle EXCEPT ![h] = [after EXCEPT !.refs = Append(@, i)]]
           /\ UNCHANGED lineage

Workspace(w, config, active, evaluations, recommendations, carried, reviews, adoptions) ==
    [ws |-> w, config |-> config, active |-> active, books |-> Books(active),
     evaluations |-> evaluations, recommendations |-> recommendations, bundles |-> carried,
     reviews |-> reviews, adoptions |-> adoptions, entries |-> {}, refs |-> <<>>]

\* open_blank, open_review and open_inherited refuse a workspace that exists.
Opens(h, mode, value, opened) ==
    /\ lineage[opened.ws] = <<>>
    /\ Joins(h)
    /\ lineage' = [lineage EXCEPT ![opened.ws] =
            <<[kind |-> "genesis", index |-> 0, parent |-> 0,
               value |-> [mode |-> mode, from |-> value, config |-> opened.config]]>>]
    /\ handle' = [handle EXCEPT ![h] = [opened EXCEPT !.refs = <<1>>]]
    /\ UNCHANGED <<bundles, transfers>>

Blank(config) == Workspace("source", config, Blankbook, {}, {}, {}, {}, {})
ReviewOf(bundle, config) ==
    Workspace("review", config, bundle.book, bundle.evaluations, {bundle}, {bundle}, {}, {})
Inherited(t) ==
    Workspace("successor", t.config, t.book, t.bundle.evaluations \cup t.evaluations,
              {t.bundle}, {t.bundle},
              IF t.review = Absent THEN {} ELSE {t.review}, {t.adoption})

OpenBlank(h, config) == Opens(h, "blank", Absent, Blank(config))
OpenReview(h, bundle, config) == Opens(h, "review", bundle, ReviewOf(bundle, config))
OpenInherited(h, t) == Opens(h, "inherited", t, Inherited(t))

-----------------------------------------------------------------------------
Live(h) == handle[h] # Absent
Extends(book, active) == Len(book) = Len(active) + 1 /\ IsPrefix(active, book)

Returned(w) == {lineage[w][i].value : i \in {j \in DOMAIN lineage[w] : lineage[w][j].kind = "candidate"}}

\* propose_revision registers in memory before it records; a failed write leaves
\* the registry ahead of the lineage.
Proposed(h, change) == Append(handle[h].active, change)
Registered(h, book) == [handle[h] EXCEPT !.books = @ \cup {book}]
Admissible(h, change) ==
    /\ Live(h)
    /\ Cardinality(handle[h].books \cup {Proposed(h, change)}) <= MaxBooks
    /\ change = Retire => Effective(handle[h].active) # {}
ProposeRevision(h, change) ==
    /\ Admissible(h, change)
    /\ Records(h, "candidate", Proposed(h, change), Registered(h, Proposed(h, change)))
    /\ UNCHANGED <<bundles, transfers>>
ProposeFails(h, change) ==
    /\ Admissible(h, change)
    /\ handle[h].books \subseteq Books(handle[h].active) \cup Returned(handle[h].ws)
    /\ handle' = [handle EXCEPT ![h] = Registered(h, Proposed(h, change))]
    /\ UNCHANGED <<lineage, bundles, transfers>>

\* evaluate_candidate, of a revision that propose_revision returned to somebody.
EvaluateCandidate(h, book, eligible) ==
    /\ Live(h)
    /\ book \in handle[h].books \cap Returned(handle[h].ws)
    /\ Extends(book, handle[h].active)
    /\ LET evaluation == [book |-> book, eligible |-> eligible]
       IN  /\ book \notin {e.book : e \in handle[h].evaluations}
           /\ Records(h, "evaluation", evaluation,
                      [handle[h] EXCEPT !.evaluations = @ \cup {evaluation}])
    /\ UNCHANGED <<bundles, transfers>>

\* Mutant of Promote: the handle moves on before the receipt is written.
PromoteEarly(h, evaluation) ==
    /\ Live(h)
    /\ evaluation \in handle[h].evaluations
    /\ evaluation.eligible
    /\ evaluation.book \in handle[h].books
    /\ Extends(evaluation.book, handle[h].active)
    /\ handle' = [handle EXCEPT ![h].active = evaluation.book]
    /\ UNCHANGED <<lineage, bundles, transfers>>
Promote(h, evaluation) ==
    /\ Live(h)
    /\ evaluation \in handle[h].evaluations
    /\ evaluation.eligible
    /\ evaluation.book \in handle[h].books
    /\ Extends(evaluation.book, handle[h].active)
    /\ Records(h, "promotion", [book |-> evaluation.book, from |-> handle[h].active],
               [handle[h] EXCEPT !.active = evaluation.book])
    /\ UNCHANGED <<bundles, transfers>>

AppendEntry(h, id) ==
    /\ Live(h)
    /\ id \notin {e.id : e \in handle[h].entries}
    /\ LET entry == [id |-> id, book |-> handle[h].active]
       IN  Records(h, "entry", entry, [handle[h] EXCEPT !.entries = @ \cup {entry}])
    /\ UNCHANGED <<bundles, transfers>>

\* Mutant of EligibleEvidence: a refinement needs no evaluation of its own.
EligibleEvidenceAny(h, evaluations, book, own) ==
    \A e \in evaluations : e.eligible /\ e.book \in Books(book)
\* _eligible_evaluations: each earned a codebook of the lineage, and one of them
\* the refinement itself where it differs from what was recommended.
EligibleEvidence(h, evaluations, book, own) ==
    /\ evaluations \subseteq handle[h].evaluations
    /\ \A e \in evaluations : e.eligible /\ e.book \in Books(book)
    /\ own => book \in {e.book : e \in evaluations}

\* recommend_next_round.  One recommendation identity is used per workspace: a
\* second request under it either returns the first or is refused.
Recommend(h, evaluations) ==
    /\ Live(h)
    /\ LET m == handle[h]
           recommendation == [ws |-> m.ws, config |-> m.config, book |-> m.active,
                              boundary |-> Last(m.refs), evaluations |-> evaluations]
       IN  /\ EligibleEvidence(h, evaluations, m.active, FALSE)
           /\ m.active # Blankbook => evaluations # {}
           /\ \A r \in m.recommendations : r.ws # m.ws
           /\ Records(h, "recommendation", recommendation,
                      [m EXCEPT !.recommendations = @ \cup {recommendation}])
    /\ UNCHANGED <<bundles, transfers>>

\* export_recommendation_bundle, after the run has been sealed.
ExportBundle(h, recommendation) ==
    /\ Live(h)
    /\ recommendation \in handle[h].recommendations
    /\ recommendation.ws = handle[h].ws
    /\ bundles' = bundles \cup {recommendation}
    /\ UNCHANGED <<lineage, handle, transfers>>

Alternatives(h, book) == Known(handle[h].books) \ LineageDefinitions(book)
\* review_next_round: withheld definitions are alternatives outside the lineage.
Review(h, recommendation, book, evaluations, withheld) ==
    /\ Live(h)
    /\ recommendation \in handle[h].recommendations
    /\ book \in handle[h].books
    /\ IsPrefix(recommendation.book, book)
    /\ EligibleEvidence(h, evaluations, book, book # recommendation.book)
    /\ withheld \subseteq Alternatives(h, book)
    /\ LET review == [of |-> recommendation, book |-> book, config |-> handle[h].config,
                      evaluations |-> evaluations, withheld |-> withheld]
       IN  /\ review \notin handle[h].reviews
           /\ Records(h, "review", review, [handle[h] EXCEPT !.reviews = @ \cup {review}])
    /\ UNCHANGED <<bundles, transfers>>

\* decide_next_round_adoption: an approval with definitions to decide on must
\* approve at least one effective definition.
Decide(h, recommendation, review, approve, config) ==
    /\ Live(h)
    /\ recommendation \in handle[h].recommendations
    /\ review # Absent => review \in handle[h].reviews /\ review.of = recommendation
    /\ LET book == IF review = Absent THEN recommendation.book ELSE review.book
           withheld == IF review = Absent THEN {} ELSE review.withheld
           adoption == [of |-> recommendation, review |-> review, book |-> book,
                        approve |-> approve, config |-> config]
       IN  /\ approve /\ Effective(book) = {} => LineageDefinitions(book) \cup withheld = {}
           /\ adoption \notin handle[h].adoptions
           /\ Records(h, "adoption", adoption,
                      [handle[h] EXCEPT !.adoptions = @ \cup {adoption}])
    /\ UNCHANGED <<bundles, transfers>>

\* export_transfer, with the transfer's validator: an approved adoption of a
\* recommendation that came in as a bundle, reviewed under this configuration.
ExportTransfer(h, adoption) ==
    /\ Live(h)
    /\ adoption \in handle[h].adoptions
    /\ adoption.approve
    /\ adoption.of \in handle[h].bundles
    /\ adoption.review # Absent => adoption.review.config = handle[h].config
    /\ LET t == [bundle |-> adoption.of, review |-> adoption.review, adoption |-> adoption,
                 book |-> adoption.book, config |-> adoption.config,
                 evaluations |-> IF adoption.review = Absent THEN {}
                                 ELSE adoption.review.evaluations]
       IN  /\ t \notin transfers
           /\ Records(h, "transfer", t, handle[h])
           /\ transfers' = transfers \cup {t}
    /\ UNCHANGED bundles

-----------------------------------------------------------------------------
\* restore: an unbroken sequence from a genesis, replayed receipt by receipt.
Unbroken(w) ==
    /\ lineage[w] # <<>>
    /\ \A i \in DOMAIN lineage[w] :
        lineage[w][i].index = i - 1 /\ lineage[w][i].parent = i - 1
Genesis(log) ==
    LET genesis == log[1].value
        state == CASE genesis.mode = "blank" -> Blank(genesis.config)
                   [] genesis.mode = "review" -> ReviewOf(genesis.from, genesis.config)
                   [] genesis.mode = "inherited" -> Inherited(genesis.from)
    IN  [ok |-> TRUE, state |-> [state EXCEPT !.refs = <<1>>]]

ReceiptHolds(m, receipt) ==
    LET v == receipt.value
    IN  CASE receipt.kind = "candidate" -> Front(v) \in m.books
          [] receipt.kind = "evaluation" -> v.book \in m.books
          [] receipt.kind = "promotion" ->
                /\ v.from = m.active
                /\ v.book \in m.books
                /\ [book |-> v.book, eligible |-> TRUE] \in m.evaluations
          [] receipt.kind = "entry" -> v.book \in m.books /\ v.id \notin {e.id : e \in m.entries}
          [] receipt.kind = "recommendation" ->
                /\ v.ws = m.ws /\ v.config = m.config
                /\ v.boundary = receipt.parent
                /\ v.book \in m.books /\ v.evaluations \subseteq m.evaluations
          [] receipt.kind = "review" ->
                /\ v.of \in m.recommendations /\ v.config = m.config
                /\ v.book \in m.books /\ v.evaluations \subseteq m.evaluations
          [] receipt.kind = "adoption" ->
                /\ v.of \in m.recommendations /\ v.review \in m.reviews \cup {Absent}
                /\ v.book \in m.books
          [] receipt.kind = "transfer" -> v.adoption \in m.adoptions
ReceiptApplied(m, receipt) ==
    LET v == receipt.value
    IN  CASE receipt.kind = "candidate" -> [m EXCEPT !.books = @ \cup {v}]
          [] receipt.kind = "evaluation" -> [m EXCEPT !.evaluations = @ \cup {v}]
          [] receipt.kind = "promotion" -> [m EXCEPT !.active = v.book]
          [] receipt.kind = "entry" -> [m EXCEPT !.entries = @ \cup {v}]
          [] receipt.kind = "recommendation" -> [m EXCEPT !.recommendations = @ \cup {v}]
          [] receipt.kind = "review" -> [m EXCEPT !.reviews = @ \cup {v}]
          [] receipt.kind = "adoption" -> [m EXCEPT !.adoptions = @ \cup {v}]
          [] receipt.kind = "transfer" -> m
ReplayStep(replay, receipt) ==
    IF replay.ok /\ ReceiptHolds(replay.state, receipt)
    THEN [ok |-> TRUE, state |-> [ReceiptApplied(replay.state, receipt)
                                    EXCEPT !.refs = Append(@, Len(@) + 1)]]
    ELSE [replay EXCEPT !.ok = FALSE]
Replayed(log) ==
    LET replayed[n \in 1..Len(log)] ==
            IF n = 1 THEN Genesis(log) ELSE ReplayStep(replayed[n - 1], log[n])
    IN replayed
Replay(w) == Replayed(lineage[w])[Len(lineage[w])]

RestoreWorkspace(h, w) ==
    /\ Unbroken(w)
    /\ Joins(h)
    /\ Replay(w).ok
    /\ handle' = [handle EXCEPT ![h] = Replay(w).state]
    /\ UNCHANGED <<lineage, bundles, transfers>>

\* What a recommendation or a review may cite: nothing, or all that fits.  One
\* review, one decision and one transfer are made in a workspace that inherited a
\* recommendation; a review workspace makes none of its own, and
\* entries are appended in a successor.
Cited(h, book) ==
    {{}, {e \in handle[h].evaluations : e.eligible /\ e.book \in Books(book)}}
First(h, kind) == handle[h].bundles # {} /\ \A i \in DOMAIN lineage[handle[h].ws] : lineage[handle[h].ws][i].kind # kind

KevinNext ==
    \E h \in Handles :
        \/ \E c \in Configurations :
            OpenBlank(h, c) \/ \E b \in bundles : OpenReview(h, b, c)
        \/ \E t \in transfers : OpenInherited(h, t)
        \/ \E w \in Workspaces : RestoreWorkspace(h, w)
        \/ \E change \in Meanings \cup {Retire} :
            ProposeRevision(h, change) \/ ProposeFails(h, change)
        \/ Live(h) /\
            \/ \E book \in handle[h].books, eligible \in BOOLEAN :
                EvaluateCandidate(h, book, eligible)
            \/ \E e \in handle[h].evaluations : Promote(h, e)
            \/ handle[h].ws = "successor" /\ \E id \in EntryIds : AppendEntry(h, id)
            \/ /\ handle[h].ws # "review"
               /\ \E evaluations \in Cited(h, handle[h].active) : Recommend(h, evaluations)
            \/ \E r \in handle[h].recommendations :
                \/ ExportBundle(h, r)
                \/ /\ First(h, "review")
                   /\ \E book \in handle[h].books :
                      \E evaluations \in Cited(h, book), withheld \in {{}, Alternatives(h, book)} :
                        Review(h, r, book, evaluations, withheld)
                \/ /\ First(h, "adoption")
                   /\ \E review \in handle[h].reviews \cup {Absent},
                         approve \in BOOLEAN, c \in Configurations :
                        Decide(h, r, review, approve, c)
            \/ \E a \in handle[h].adoptions : First(h, "transfer") /\ ExportTransfer(h, a)

KevinSpec == KevinInit /\ [][KevinNext]_kevinVars

-----------------------------------------------------------------------------
\* What handles write, restore accepts: an unbroken lineage always replays, and
\* a handle that has seen all of it holds what the replay says - its registry
\* at most ahead by revisions whose receipt failed.
WorkspacesRestore ==
    /\ \A w \in Workspaces : Unbroken(w) => Replay(w).ok
    /\ \A h \in Handles :
        Live(h) /\ Unbroken(handle[h].ws) /\ Len(handle[h].refs) = Len(lineage[handle[h].ws]) =>
            LET replayed == Replay(handle[h].ws).state
            IN  /\ [handle[h] EXCEPT !.books = {}] = [replayed EXCEPT !.books = {}]
                /\ replayed.books \subseteq handle[h].books

\* Nothing unearned crosses into a successor: each revision of a transferred
\* codebook passed an evaluation against its exact predecessor in some run, and
\* no definition that a review withheld is in its lineage.
EvaluatedSomewhere(book) ==
    \E w \in Workspaces : \E i \in DOMAIN lineage[w] :
        /\ lineage[w][i].kind = "evaluation"
        /\ lineage[w][i].value = [book |-> book, eligible |-> TRUE]
TransfersAreEarned ==
    \A t \in transfers :
        /\ \A b \in Books(t.book) \ {Blankbook} : EvaluatedSomewhere(b)
        /\ t.review # Absent => t.review.withheld \cap LineageDefinitions(t.book) = {}
=============================================================================
