---------------------------- MODULE LineagesProofs ----------------------------
(***************************************************************************)
(* Proofs about what is restored from its receipts.  Of Kevin Speak, for   *)
(* any workspaces, handles, meanings and bounds, the invariant has three   *)
(* parts: the types; what workspaces, bundles and transfers hold stands on *)
(* earned codebooks and on evidence about their own lineage; and every     *)
(* handle follows a prefix of its lineage, which, as long as it is         *)
(* unbroken, replays to what the handles at its end hold.  Of the Scribe,  *)
(* for any sessions, materials and cycles, it adds to the invariant of     *)
(* WorkbenchProofs that every receipt is what restore expects at its       *)
(* place, that every cycle's receipt declares what the workspace holds of  *)
(* it, and how far the operation at work has taken the one cycle that is   *)
(* unfinished.                                                             *)
(***************************************************************************)
EXTENDS Lineages, WorkbenchProofs
-----------------------------------------------------------------------------
\* Kevin Speak workspaces.

\* What is recorded, by kind, and what a handle holds.
Changes == Meanings \cup {Retire}
Codebooks == Seq(Changes)
Evaluations == [book : Codebooks, eligible : BOOLEAN]
Recommendations ==
    [ws : Workspaces, config : Configurations, book : Codebooks, boundary : Nat,
     evaluations : SUBSET Evaluations]
Judgements ==
    [of : Recommendations, book : Codebooks, config : Configurations,
     evaluations : SUBSET Evaluations, withheld : SUBSET Codebooks]
Adoptions ==
    [of : Recommendations, review : Judgements \cup {Absent}, book : Codebooks,
     approve : BOOLEAN, config : Configurations]
Exports ==
    [bundle : Recommendations, review : Judgements \cup {Absent}, adoption : Adoptions,
     book : Codebooks, config : Configurations, evaluations : SUBSET Evaluations]
Memories ==
    [ws : Workspaces, config : Configurations, active : Codebooks, books : SUBSET Codebooks,
     evaluations : SUBSET Evaluations, recommendations : SUBSET Recommendations,
     bundles : SUBSET Recommendations, reviews : SUBSET Judgements,
     adoptions : SUBSET Adoptions, entries : SUBSET [id : EntryIds, book : Codebooks],
     refs : Seq(Nat)]
Geneses ==
    [mode : {"blank"}, from : {Absent}, config : Configurations]
    \cup [mode : {"review"}, from : Recommendations, config : Configurations]
    \cup [mode : {"inherited"}, from : Exports, config : Configurations]
\* A value of its kind.
ValueFits(kind, v) ==
    \/ kind = "candidate" /\ v \in Codebooks
    \/ kind = "evaluation" /\ v \in Evaluations
    \/ kind = "promotion" /\ v \in [book : Codebooks, from : Codebooks]
    \/ kind = "entry" /\ v \in [id : EntryIds, book : Codebooks]
    \/ kind = "recommendation" /\ v \in Recommendations
    \/ kind = "review" /\ v \in Judgements
    \/ kind = "adoption" /\ v \in Adoptions
    \/ kind = "transfer" /\ v \in Exports
ReceiptFits(receipt) ==
    /\ receipt = [kind |-> receipt.kind, index |-> receipt.index, value |-> receipt.value,
                  parent |-> receipt.parent]
    /\ receipt.index \in Nat /\ receipt.parent \in Nat
    /\ ValueFits(receipt.kind, receipt.value)
LineageFits(log) ==
    /\ Listed(log) /\ Len(log) \in Nat /\ DOMAIN log = 1..Len(log)
    /\ Len(log) > 0 =>
         log[1] = [kind |-> "genesis", index |-> 0, value |-> log[1].value, parent |-> 0]
         /\ log[1].value \in Geneses
    /\ \A i \in 2..Len(log) : ReceiptFits(log[i])

\* A codebook is earned if every revision of its lineage passed an evaluation, and what
\* workspaces hold is good if it stands on earned codebooks and on evidence about its own
\* lineage.
Earned(book) == \A b \in Books(book) \ {Blankbook} : EvaluatedSomewhere(b)
EvaluationHolds(e) == e.eligible => Earned(e.book)
Evidence(evaluations, book) ==
    \A e \in evaluations : EvaluationHolds(e) /\ e.book \in Books(book)
RecommendationHolds(r) == Earned(r.book) /\ Evidence(r.evaluations, r.book)
JudgementHolds(v) ==
    /\ Earned(v.book) /\ Evidence(v.evaluations, v.book)
    /\ RecommendationHolds(v.of) /\ Books(v.of.book) \subseteq Books(v.book)
    /\ v.withheld \cap LineageDefinitions(v.book) = {}
AdoptionHolds(a) ==
    /\ RecommendationHolds(a.of)
    /\ a.review = Absent => a.book = a.of.book
    /\ a.review # Absent => JudgementHolds(a.review) /\ a.review.of = a.of /\ a.book = a.review.book
ExportHolds(t) ==
    /\ AdoptionHolds(t.adoption)
    /\ t.bundle = t.adoption.of /\ t.review = t.adoption.review /\ t.book = t.adoption.book
    /\ t.review = Absent => t.evaluations = {}
    /\ t.review # Absent => t.evaluations = t.review.evaluations
WorkspaceHolds(m) ==
    /\ Earned(m.active)
    /\ \A e \in m.evaluations : EvaluationHolds(e)
    /\ \A r \in m.recommendations \cup m.bundles : RecommendationHolds(r)
    /\ \A v \in m.reviews : JudgementHolds(v)
    /\ \A a \in m.adoptions : AdoptionHolds(a)
ReceiptSound(receipt) ==
    /\ receipt.kind = "evaluation" => EvaluationHolds(receipt.value)
    /\ receipt.kind = "promotion" => Earned(receipt.value.book)
    /\ receipt.kind = "recommendation" => RecommendationHolds(receipt.value)
    /\ receipt.kind = "review" => JudgementHolds(receipt.value)
    /\ receipt.kind = "adoption" => AdoptionHolds(receipt.value)
    /\ receipt.kind = "genesis" /\ receipt.value.mode = "review" =>
         RecommendationHolds(receipt.value.from)
    /\ receipt.kind = "genesis" /\ receipt.value.mode = "inherited" =>
         ExportHolds(receipt.value.from)

LineagesFit == DOMAIN lineage = Workspaces /\ \A w \in Workspaces : LineageFits(lineage[w])
KevinTypeOK ==
    /\ LineagesFit
    /\ lineage = [w \in Workspaces |-> lineage[w]]
    /\ DOMAIN handle = Handles
    /\ handle = [h \in Handles |-> handle[h]]
    /\ \A h \in Handles : Live(h) => handle[h] \in Memories
    /\ bundles \in SUBSET Recommendations
    /\ transfers \in SUBSET Exports
EarnedInv ==
    /\ \A w \in Workspaces : \A i \in DOMAIN lineage[w] : ReceiptSound(lineage[w][i])
    /\ \A h \in Handles : Live(h) => WorkspaceHolds(handle[h])
    /\ \A b \in bundles : RecommendationHolds(b)
    /\ \A t \in transfers : ExportHolds(t)

\* A handle stands at a prefix of its lineage, and an unbroken lineage replays to what the
\* handles at its end hold.
Consistent(m) ==
    /\ m.active \in m.books
    /\ \A e \in m.evaluations : e.book \in m.books
    /\ \A r \in m.recommendations : r.book \in m.books
    /\ \A v \in m.reviews : v.book \in m.books
Whole(log) ==
    /\ Len(log) > 0
    /\ \A i \in 1..Len(log) : log[i].index = i - 1 /\ log[i].parent = i - 1
Reads(w, log, n) ==
    LET replay == Replayed(log)[n]
    IN  /\ replay = [ok |-> TRUE, state |-> replay.state]
        /\ replay.state.ws = w
        /\ replay.state \in Memories
        /\ replay.state.refs = [i \in 1..n |-> i]
        /\ Consistent(replay.state)
        /\ \A i \in 1..n : log[i].kind = "candidate" => log[i].value \in replay.state.books
Matches(m, state) == m = [state EXCEPT !.books = m.books] /\ state.books \subseteq m.books
Follows(m, log) ==
    /\ Len(m.refs) \in 1..Len(log)
    /\ Matches(m, Replayed(log)[Len(m.refs)].state)
ReplayInv ==
    \A w \in Workspaces :
        /\ \A h \in Handles : Live(h) /\ handle[h].ws = w => lineage[w] # <<>> /\ handle[h].refs # <<>>
        /\ Whole(lineage[w]) =>
             /\ \A n \in 1..Len(lineage[w]) : Reads(w, lineage[w], n)
             /\ \A h \in Handles : Live(h) /\ handle[h].ws = w => Follows(handle[h], lineage[w])
KevinInv == KevinTypeOK /\ EarnedInv /\ ReplayInv

-----------------------------------------------------------------------------
\* What a sequence of receipts replays to.
ReplaysAt(f, log, n) ==
    f[n] = IF n = 1 THEN Genesis(log) ELSE ReplayStep(f[n - 1], log[n])
Replays(f, log, N) == f = [n \in 1..N |-> f[n]] /\ \A n \in 1..N : ReplaysAt(f, log, n)

\* There is such a function for every number of receipts.
LEMMA ReplaysExist == ASSUME NEW log, NEW N \in Nat PROVE \E f : Replays(f, log, N)
<1> DEFINE T == {M \in Nat : ~ \E f : Replays(f, log, M)}
<1> SUFFICES ASSUME T # {} PROVE FALSE
    OBVIOUS
<1>1. PICK M \in T : \A y \in T : M <= y
    BY LeastOf
<1>2. CASE M = 0
    <2>1. Replays([n \in 1..0 |-> 0], log, 0)
        BY DEF Replays
    <2> QED
        BY <1>2, <2>1
<1>3. CASE M # 0
    <2>1. PICK L \in Nat : M = L + 1
        BY <1>3
    <2>2. PICK f : Replays(f, log, L)
        BY <1>1, <2>1
    <2> DEFINE last == IF L = 0 THEN Genesis(log) ELSE ReplayStep(f[L], log[L + 1])
               g == [n \in 1..(L + 1) |-> IF n <= L THEN f[n] ELSE last]
    <2>3. ASSUME NEW n \in 1..(L + 1) PROVE ReplaysAt(g, log, n)
        <3>1. CASE n <= L
            <4>4. n \in 1..L
                BY <3>1
            <4>1. ReplaysAt(f, log, n)
                <5> HIDE DEF g, last, T
                <5> QED
                    BY <2>2, <4>4 DEF Replays
            <4>3. g[n] = f[n]
                BY <3>1
            <4>2. n # 1 => g[n - 1] = f[n - 1]
                BY <3>1
            <4> HIDE DEF g
            <4> QED
                BY <4>1, <4>2, <4>3 DEF ReplaysAt
        <3>2. CASE n = L + 1
            <4>1. g[L + 1] = last /\ (L # 0 => g[L] = f[L]) /\ (L + 1) - 1 = L
                OBVIOUS
            <4> HIDE DEF g
            <4> QED
                BY <3>2, <4>1 DEF ReplaysAt
        <3> QED
            BY <3>1, <3>2
    <2>4. Replays(g, log, L + 1)
        <3>1. g = [n \in 1..(L + 1) |-> g[n]]
            OBVIOUS
        <3> HIDE DEF g
        <3> QED
            BY <2>3, <3>1 DEF Replays
    <2> QED
        BY <2>1, <2>4
<1> QED
    BY <1>2, <1>3

\* Replayed is that function.
LEMMA ReplayedIs ==
    ASSUME NEW log, Len(log) \in Nat
    PROVE  \A n \in 1..Len(log) : ReplaysAt(Replayed(log), log, n)
<1>1. PICK f : Replays(f, log, Len(log))
    BY ReplaysExist
<1> DEFINE F == CHOOSE h : h =
                    [n \in 1..Len(log) |->
                        IF n = 1 THEN Genesis(log) ELSE ReplayStep(h[n - 1], log[n])]
<1>2. f = [n \in 1..Len(log) |-> IF n = 1 THEN Genesis(log) ELSE ReplayStep(f[n - 1], log[n])]
    BY <1>1 DEF Replays, ReplaysAt
<1>3. F = [n \in 1..Len(log) |-> IF n = 1 THEN Genesis(log) ELSE ReplayStep(F[n - 1], log[n])]
    BY <1>2
<1>4. Replayed(log) = F
    BY DEF Replayed
<1> HIDE DEF F
<1> QED
    BY <1>3, <1>4 DEF ReplaysAt

\* A receipt more leaves what the receipts before it replay to, and is read on top of it.
LEMMA ReplayedNext ==
    ASSUME NEW log, NEW more, NEW e, Grown(more, log, e), Len(log) > 0
    PROVE  /\ \A n \in 1..Len(log) : Replayed(more)[n] = Replayed(log)[n]
           /\ Replayed(more)[Len(more)] = ReplayStep(Replayed(log)[Len(log)], e)
<1> DEFINE T == {n \in Nat : n \in 1..Len(log) /\ Replayed(more)[n] # Replayed(log)[n]}
<1>0. Len(log) \in Nat /\ Len(more) = Len(log) + 1 /\ more[Len(more)] = e
      /\ \A i \in 1..Len(log) : more[i] = log[i]
    BY DEF Grown
<1>1. T = {}
    <2> SUFFICES ASSUME T # {} PROVE FALSE
        OBVIOUS
    <2>1. PICK n \in T : \A y \in T : n <= y
        BY LeastOf
    <2>2. n \in 1..Len(log) /\ n \in 1..Len(more) /\ more[n] = log[n] /\ more[1] = log[1]
        BY <1>0
    <2>3. ReplaysAt(Replayed(more), more, n) /\ ReplaysAt(Replayed(log), log, n)
        BY <1>0, <2>2, ReplayedIs
    <2>4. n # 1 => n - 1 \in 1..Len(log) /\ n - 1 \notin T
        BY <2>1, <2>2
    <2>5. n # 1 => Replayed(more)[n - 1] = Replayed(log)[n - 1]
        BY <2>4
    <2>6. Genesis(more) = Genesis(log)
        BY <2>2 DEF Genesis
    <2>7. Replayed(more)[n] = Replayed(log)[n]
        BY <2>2, <2>3, <2>5, <2>6 DEF ReplaysAt
    <2> QED
        BY <2>1, <2>7
<1>2. \A n \in 1..Len(log) : Replayed(more)[n] = Replayed(log)[n]
    BY <1>0, <1>1
<1>3. Len(more) \in 1..Len(more) /\ Len(more) # 1 /\ Len(more) - 1 = Len(log)
    BY <1>0
<1>4. ReplaysAt(Replayed(more), more, Len(more))
    BY <1>0, <1>3, ReplayedIs
<1>5. Replayed(more)[Len(log)] = Replayed(log)[Len(log)]
    BY <1>0, <1>2
<1> HIDE DEF T
<1> QED
    BY <1>0, <1>2, <1>3, <1>4, <1>5 DEF ReplaysAt

-----------------------------------------------------------------------------
\* Codebooks and their lineages.

\* A codebook is of its own lineage (Codebook.lineage, shorthand.py).
LEMMA BooksOf ==
    ASSUME NEW book \in Codebooks
    PROVE  Books(book) \in SUBSET Codebooks /\ book \in Books(book)
<1>1. Len(book) \in Nat
    BY DEF Codebooks
<1>2. \A n \in 0..Len(book) : SubSeq(book, 1, n) \in Codebooks
    BY <1>1 DEF Codebooks
<1>3. SubSeq(book, 1, Len(book)) = book
    BY DEF Codebooks
<1>4. Books(book) \in SUBSET Codebooks
    BY <1>2 DEF Books
<1>5. Len(book) \in 0..Len(book)
    BY <1>1
<1>6. book \in Books(book)
    BY <1>3, <1>5 DEF Books
<1> QED
    BY <1>4, <1>6

\* The empty codebook has no revisions.
LEMMA BooksBlank == Books(Blankbook) = {Blankbook} /\ Blankbook \in Codebooks
<1>1. Len(<<>>) = 0 /\ 0..0 = {0}
    OBVIOUS
<1>2. SubSeq(<<>>, 1, 0) = <<>>
    OBVIOUS
<1>3. <<>> \in Seq(Changes)
    OBVIOUS
<1> QED
    BY <1>1, <1>2, <1>3 DEF Books, Blankbook, Codebooks

\* A prefix of a codebook is of its lineage with all of its own.
LEMMA BooksPrefix ==
    ASSUME NEW a \in Codebooks, NEW b \in Codebooks, IsPrefix(a, b)
    PROVE  Books(a) \subseteq Books(b)
<1>1. Len(a) \in Nat /\ Len(b) \in Nat /\ Len(a) <= Len(b)
    BY DEF Codebooks, IsPrefix
<1>2. \A i \in 1..Len(a) : a[i] = b[i]
    <2>1. SubSeq(a, 1, Len(a)) = SubSeq(b, 1, Len(a))
        BY DEF IsPrefix
    <2>2. \A i \in 1..Len(a) : SubSeq(a, 1, Len(a))[i] = a[i] /\ SubSeq(b, 1, Len(a))[i] = b[i]
        BY <1>1 DEF Codebooks
    <2> QED
        BY <2>1, <2>2
<1>3. ASSUME NEW n \in 0..Len(a) PROVE SubSeq(a, 1, n) = SubSeq(b, 1, n)
    <2>1. SubSeq(a, 1, n) = [i \in 1..n |-> a[i]] /\ SubSeq(b, 1, n) = [i \in 1..n |-> b[i]]
        BY <1>1 DEF Codebooks
    <2> QED
        BY <1>1, <1>2, <2>1
<1> QED
    BY <1>1, <1>3 DEF Books

\* What extends a codebook adds itself to its lineage.
LEMMA BooksExtend ==
    ASSUME NEW a \in Codebooks, NEW b \in Codebooks, Extends(b, a)
    PROVE  Books(b) \subseteq Books(a) \cup {b}
<1>1. Len(a) \in Nat /\ Len(b) = Len(a) + 1
    BY DEF Codebooks, Extends
<1>2. \A i \in 1..Len(a) : a[i] = b[i]
    <2>1. SubSeq(a, 1, Len(a)) = SubSeq(b, 1, Len(a))
        BY DEF IsPrefix, Extends
    <2>2. \A i \in 1..Len(a) : SubSeq(a, 1, Len(a))[i] = a[i] /\ SubSeq(b, 1, Len(a))[i] = b[i]
        BY <1>1 DEF Codebooks
    <2> QED
        BY <2>1, <2>2
<1>3. ASSUME NEW n \in 0..Len(a) PROVE SubSeq(a, 1, n) = SubSeq(b, 1, n)
    <2>1. SubSeq(a, 1, n) = [i \in 1..n |-> a[i]] /\ SubSeq(b, 1, n) = [i \in 1..n |-> b[i]]
        BY <1>1 DEF Codebooks
    <2> QED
        BY <1>1, <1>2, <2>1
<1>4. SubSeq(b, 1, Len(b)) = b
    BY DEF Codebooks
<1>5. \A n \in 0..Len(b) : n \in 0..Len(a) \/ n = Len(b)
    BY <1>1
<1> QED
    BY <1>3, <1>4, <1>5 DEF Books

\* Definitions are pieces of codebooks.
LEMMA EffectiveTyped ==
    ASSUME NEW book \in Codebooks PROVE Effective(book) \in SUBSET Codebooks
<1> DEFINE I == {i \in DOMAIN book : book[i] = Retire}
           after == Max({0} \cup I)
<1>1. Len(book) \in Nat /\ I \in SUBSET (1..Len(book))
    BY DEF Codebooks
<1>2. \E k \in {0} \cup I : \A j \in {0} \cup I : k >= j
    <2>1. CASE I = {}
        BY <2>1
    <2>2. CASE I # {}
        <3>1. PICK k \in I : \A j \in I : j <= k
            <4> HIDE DEF I
            <4> QED
                BY <1>1, <2>2, GreatestOf
        <3> QED
            BY <1>1, <3>1
    <2> QED
        BY <2>1, <2>2
<1>3. after \in {0} \cup I
    BY <1>2 DEF Max
<1>4. after \in 0..Len(book)
    BY <1>1, <1>3
<1> HIDE DEF after, I
<1>5. SubSeq(book, after + 1, Len(book)) \in Codebooks
    BY <1>1, <1>4 DEF Codebooks
<1>6. Effective(book) = {d \in {SubSeq(book, after + 1, Len(book))} : d # <<>>}
    BY DEF Effective, after, I
<1> QED
    BY <1>5, <1>6

-----------------------------------------------------------------------------
\* What was evaluated stays evaluated, and what holds stays.
LineagesGrow ==
    \A w \in Workspaces :
        DOMAIN lineage[w] \subseteq DOMAIN lineage'[w]
        /\ \A i \in DOMAIN lineage[w] : lineage'[w][i] = lineage[w][i]

\* Evaluation receipts are never taken back, so an earned codebook stays earned ...
LEMMA EarnedStays ==
    ASSUME LineagesGrow, NEW book, Earned(book) PROVE Earned(book)'
<1>1. \A b : EvaluatedSomewhere(b) => EvaluatedSomewhere(b)'
    BY DEF LineagesGrow, EvaluatedSomewhere
<1> QED
    BY <1>1 DEF Earned

\* ... and a recommendation that stands on it stays good,
LEMMA RecommendationStays ==
    ASSUME LineagesGrow, NEW r, RecommendationHolds(r) PROVE RecommendationHolds(r)'
BY EarnedStays DEF RecommendationHolds, Evidence, EvaluationHolds

\* a review,
LEMMA JudgementStays ==
    ASSUME LineagesGrow, NEW v, JudgementHolds(v) PROVE JudgementHolds(v)'
BY EarnedStays, RecommendationStays DEF JudgementHolds, Evidence, EvaluationHolds

\* an adoption,
LEMMA AdoptionStays ==
    ASSUME LineagesGrow, NEW a, AdoptionHolds(a) PROVE AdoptionHolds(a)'
BY RecommendationStays, JudgementStays DEF AdoptionHolds

\* a transfer,
LEMMA ExportStays ==
    ASSUME LineagesGrow, NEW t, ExportHolds(t) PROVE ExportHolds(t)'
BY AdoptionStays DEF ExportHolds

\* what a handle holds,
LEMMA MemoryStays ==
    ASSUME LineagesGrow, NEW m, WorkspaceHolds(m) PROVE WorkspaceHolds(m)'
<1>1. Earned(m.active)'
    BY EarnedStays DEF WorkspaceHolds
<1>2. (\A e \in m.evaluations : EvaluationHolds(e))'
    BY EarnedStays DEF WorkspaceHolds, EvaluationHolds
<1>3. (\A r \in m.recommendations \cup m.bundles : RecommendationHolds(r))'
    BY RecommendationStays DEF WorkspaceHolds
<1>4. (\A v \in m.reviews : JudgementHolds(v))'
    BY JudgementStays DEF WorkspaceHolds
<1>5. (\A a \in m.adoptions : AdoptionHolds(a))'
    BY AdoptionStays DEF WorkspaceHolds
<1> QED
    BY <1>1, <1>2, <1>3, <1>4, <1>5 DEF WorkspaceHolds

\* and what is on record.
LEMMA ReceiptStays ==
    ASSUME LineagesGrow, NEW e, ReceiptSound(e) PROVE ReceiptSound(e)'
<1>1. e.kind = "evaluation" => EvaluationHolds(e.value)'
    BY EarnedStays DEF ReceiptSound, EvaluationHolds
<1>2. e.kind = "promotion" => Earned(e.value.book)'
    BY EarnedStays DEF ReceiptSound
<1>3. e.kind = "recommendation" => RecommendationHolds(e.value)'
    BY RecommendationStays DEF ReceiptSound
<1>4. e.kind = "review" => JudgementHolds(e.value)'
    BY JudgementStays DEF ReceiptSound
<1>5. e.kind = "adoption" => AdoptionHolds(e.value)'
    BY AdoptionStays DEF ReceiptSound
<1>6. e.kind = "genesis" /\ e.value.mode = "review" => RecommendationHolds(e.value.from)'
    BY RecommendationStays DEF ReceiptSound
<1>7. e.kind = "genesis" /\ e.value.mode = "inherited" => ExportHolds(e.value.from)'
    BY ExportStays DEF ReceiptSound
<1> QED
    BY <1>1, <1>2, <1>3, <1>4, <1>5, <1>6, <1>7 DEF ReceiptSound

-----------------------------------------------------------------------------
\* What a workspace opens with, by how it is opened.

\* An absent value is none of the records.
LEMMA AbsentIsNone ==
    /\ Absent \notin Judgements /\ Absent \notin Exports /\ Absent \notin Recommendations
    /\ Absent \notin Memories
<1>1. DOMAIN Absent = {"none"}
    BY DEF Absent
<1>2. \A m \in Memories : "ws" \in DOMAIN m
    BY DEF Memories
<1>3. \A v \in Judgements : "of" \in DOMAIN v
    BY DEF Judgements
<1>4. \A t \in Exports : "bundle" \in DOMAIN t
    BY DEF Exports
<1>5. \A r \in Recommendations : "ws" \in DOMAIN r
    BY DEF Recommendations
<1> QED
    BY <1>1, <1>2, <1>3, <1>4, <1>5

\* A workspace opened blank, for review or by inheritance.
LEMMA BlankOpens ==
    ASSUME NEW config \in Configurations
    PROVE  Blank(config) \in Memories /\ WorkspaceHolds(Blank(config)) /\ Consistent(Blank(config))
           /\ Blank(config).ws = "source"
<1>1. Blank(config) =
        [ws |-> "source", config |-> config, active |-> Blankbook, books |-> {Blankbook},
         evaluations |-> {}, recommendations |-> {}, bundles |-> {}, reviews |-> {},
         adoptions |-> {}, entries |-> {}, refs |-> <<>>]
    BY BooksBlank DEF Blank, Workspace
<1>2. <<>> \in Seq(Nat)
    OBVIOUS
<1>3. Blank(config) \in Memories
    BY <1>1, <1>2, BooksBlank DEF Memories, Workspaces
<1>4. Earned(Blankbook)
    BY BooksBlank DEF Earned
<1>5. WorkspaceHolds(Blank(config))
    BY <1>1, <1>4 DEF WorkspaceHolds
<1> QED
    BY <1>1, <1>3, <1>5 DEF Consistent

\* For review it starts with the codebook recommended (open_review).
LEMMA ReviewOpens ==
    ASSUME NEW config \in Configurations, NEW r \in Recommendations, RecommendationHolds(r)
    PROVE  /\ ReviewOf(r, config) \in Memories /\ WorkspaceHolds(ReviewOf(r, config))
           /\ Consistent(ReviewOf(r, config)) /\ ReviewOf(r, config).ws = "review"
<1>1. ReviewOf(r, config) =
        [ws |-> "review", config |-> config, active |-> r.book, books |-> Books(r.book),
         evaluations |-> r.evaluations, recommendations |-> {r}, bundles |-> {r}, reviews |-> {},
         adoptions |-> {}, entries |-> {}, refs |-> <<>>]
    BY DEF ReviewOf, Workspace
<1>2. <<>> \in Seq(Nat)
    OBVIOUS
<1>3. r.book \in Codebooks /\ r.evaluations \in SUBSET Evaluations
    BY DEF Recommendations
<1>4. Books(r.book) \in SUBSET Codebooks /\ r.book \in Books(r.book)
    BY <1>3, BooksOf
<1>5. ReviewOf(r, config) \in Memories
    BY <1>1, <1>2, <1>3, <1>4 DEF Memories, Workspaces
<1>6. WorkspaceHolds(ReviewOf(r, config))
    BY <1>1 DEF WorkspaceHolds, RecommendationHolds, Evidence
<1>7. Consistent(ReviewOf(r, config))
    BY <1>1, <1>4 DEF Consistent, RecommendationHolds, Evidence
<1> QED
    BY <1>1, <1>5, <1>6, <1>7

\* By inheritance it starts with what was adopted, and with the evidence of the review.
LEMMA InheritedOpens ==
    ASSUME NEW t \in Exports, ExportHolds(t)
    PROVE  /\ Inherited(t) \in Memories /\ WorkspaceHolds(Inherited(t))
           /\ Consistent(Inherited(t)) /\ Inherited(t).ws = "successor"
<1> DEFINE R == IF t.review = Absent THEN {} ELSE {t.review}
<1>1. Inherited(t) =
        [ws |-> "successor", config |-> t.config, active |-> t.book, books |-> Books(t.book),
         evaluations |-> t.bundle.evaluations \cup t.evaluations, recommendations |-> {t.bundle},
         bundles |-> {t.bundle}, reviews |-> R,
         adoptions |-> {t.adoption}, entries |-> {}, refs |-> <<>>]
    BY DEF Inherited, Workspace
<1>2. <<>> \in Seq(Nat)
    OBVIOUS
<1>3. /\ t.book \in Codebooks /\ t.evaluations \in SUBSET Evaluations /\ t.bundle \in Recommendations
      /\ t.review \in Judgements \cup {Absent} /\ t.adoption \in Adoptions /\ t.config \in Configurations
    BY DEF Exports
<1>4. /\ t.bundle.evaluations \in SUBSET Evaluations /\ t.bundle.book \in Codebooks
    BY <1>3 DEF Recommendations
<1>5. Books(t.book) \in SUBSET Codebooks /\ t.book \in Books(t.book)
    BY <1>3, BooksOf
<1>6. /\ AdoptionHolds(t.adoption) /\ RecommendationHolds(t.bundle)
      /\ t.review # Absent => JudgementHolds(t.review) /\ t.review.of = t.bundle
                              /\ t.book = t.review.book /\ t.evaluations = t.review.evaluations
      /\ t.review = Absent => t.book = t.bundle.book /\ t.evaluations = {}
    BY DEF ExportHolds, AdoptionHolds
<1>7. Books(t.bundle.book) \subseteq Books(t.book) /\ t.bundle.book \in Books(t.bundle.book)
    BY <1>4, <1>6, BooksOf DEF JudgementHolds
<1>8. R \in SUBSET Judgements /\ (\A v \in R : JudgementHolds(v) /\ v.book = t.book)
    BY <1>3, <1>6
<1>9. Earned(t.book) /\ Evidence(t.evaluations, t.book) /\ Evidence(t.bundle.evaluations, t.book)
    BY <1>6, <1>7 DEF JudgementHolds, RecommendationHolds, Evidence
<1> HIDE DEF R
<1>10. Inherited(t) \in Memories
    BY <1>1, <1>2, <1>3, <1>4, <1>5, <1>8 DEF Memories, Workspaces
<1>11. WorkspaceHolds(Inherited(t))
    BY <1>1, <1>6, <1>8, <1>9 DEF WorkspaceHolds, Evidence
<1>12. Consistent(Inherited(t))
    BY <1>1, <1>5, <1>7, <1>8, <1>9 DEF Consistent, Evidence
<1> QED
    BY <1>1, <1>10, <1>11, <1>12

\* What a memory keeps when only its references change.
LEMMA RefsChanged ==
    ASSUME NEW m \in Memories, NEW refs \in Seq(Nat)
    PROVE  LET c == [m EXCEPT !.refs = refs] IN
           /\ c \in Memories /\ c.refs = refs /\ c.ws = m.ws /\ c.books = m.books
           /\ WorkspaceHolds(m) => WorkspaceHolds(c)
           /\ Consistent(m) => Consistent(c)
<1> DEFINE c == [m EXCEPT !.refs = refs]
<1>1. /\ c = [ws |-> m.ws, config |-> m.config, active |-> m.active, books |-> m.books,
              evaluations |-> m.evaluations, recommendations |-> m.recommendations,
              bundles |-> m.bundles, reviews |-> m.reviews, adoptions |-> m.adoptions,
              entries |-> m.entries, refs |-> refs]
      /\ c \in Memories
    BY DEF Memories
<1> HIDE DEF c
<1>2. /\ c \in Memories /\ c.refs = refs /\ c.ws = m.ws /\ c.books = m.books
      /\ WorkspaceHolds(m) => WorkspaceHolds(c)
      /\ Consistent(m) => Consistent(c)
    BY <1>1 DEF WorkspaceHolds, Consistent
<1> QED
    BY <1>2 DEF c

\* The genesis of a lineage is what it was opened with.
LEMMA GenesisOpens ==
    ASSUME NEW log, LineageFits(log), Len(log) > 0, ReceiptSound(log[1])
    PROVE  /\ Genesis(log) = [ok |-> TRUE, state |-> Genesis(log).state]
           /\ Genesis(log).state \in Memories /\ Genesis(log).state.refs = <<1>>
           /\ WorkspaceHolds(Genesis(log).state) /\ Consistent(Genesis(log).state)
<1> DEFINE v == log[1].value
           opened == CASE v.mode = "blank" -> Blank(v.config)
                      [] v.mode = "review" -> ReviewOf(v.from, v.config)
                      [] v.mode = "inherited" -> Inherited(v.from)
<1>1. v \in Geneses /\ log[1].kind = "genesis"
    BY DEF LineageFits
<1>2. opened \in Memories /\ WorkspaceHolds(opened) /\ Consistent(opened)
    <2>1. CASE v \in [mode : {"blank"}, from : {Absent}, config : Configurations]
        <3>1. v.mode = "blank" /\ v.config \in Configurations
            BY <2>1
        <3>2. opened = Blank(v.config)
            BY <3>1
        <3> QED
            BY <3>1, <3>2, BlankOpens
    <2>2. CASE v \in [mode : {"review"}, from : Recommendations, config : Configurations]
        <3>1. v.mode = "review" /\ v.config \in Configurations /\ v.from \in Recommendations
            BY <2>2
        <3>2. opened = ReviewOf(v.from, v.config)
            BY <3>1
        <3>3. RecommendationHolds(v.from)
            BY <1>1, <3>1 DEF ReceiptSound
        <3> QED
            BY <3>1, <3>2, <3>3, ReviewOpens
    <2>3. CASE v \in [mode : {"inherited"}, from : Exports, config : Configurations]
        <3>1. v.mode = "inherited" /\ v.from \in Exports
            BY <2>3
        <3>2. opened = Inherited(v.from)
            BY <3>1
        <3>3. ExportHolds(v.from)
            BY <1>1, <3>1 DEF ReceiptSound
        <3> QED
            BY <3>1, <3>2, <3>3, InheritedOpens
    <2> QED
        BY <1>1, <2>1, <2>2, <2>3 DEF Geneses
<1>3. Genesis(log) = [ok |-> TRUE, state |-> [opened EXCEPT !.refs = <<1>>]]
    BY DEF Genesis
<1> HIDE DEF opened
<1>4. <<1>> \in Seq(Nat)
    OBVIOUS
<1> DEFINE state == [opened EXCEPT !.refs = <<1>>]
<1>6. Genesis(log) = [ok |-> TRUE, state |-> state]
    BY <1>3
<1>5. state \in Memories /\ state.refs = <<1>> /\ WorkspaceHolds(state) /\ Consistent(state)
    BY <1>2, <1>4, RefsChanged
<1> HIDE DEF state
<1> QED
    BY <1>5, <1>6

\* What reading a receipt does to a memory.
LEMMA AppliedIs ==
    ASSUME NEW m \in Memories, NEW e, ReceiptFits(e)
    PROVE  LET a == ReceiptApplied(m, e) IN
           /\ a \in Memories /\ a.refs = m.refs /\ a.ws = m.ws /\ m.books \subseteq a.books
           /\ e.kind = "candidate" => e.value \in a.books
           /\ WorkspaceHolds(m) /\ ReceiptSound(e) => WorkspaceHolds(a)
           /\ Consistent(m) /\ ReceiptHolds(m, e) => Consistent(a)
<1> DEFINE v == e.value  a == ReceiptApplied(m, e)
<1>0. m = [ws |-> m.ws, config |-> m.config, active |-> m.active, books |-> m.books,
              evaluations |-> m.evaluations, recommendations |-> m.recommendations,
              bundles |-> m.bundles, reviews |-> m.reviews, adoptions |-> m.adoptions,
              entries |-> m.entries, refs |-> m.refs]
    BY DEF Memories
<1>t. /\ m.ws \in Workspaces /\ m.config \in Configurations /\ m.active \in Codebooks
      /\ m.books \in SUBSET Codebooks /\ m.evaluations \in SUBSET Evaluations
      /\ m.recommendations \in SUBSET Recommendations /\ m.bundles \in SUBSET Recommendations
      /\ m.reviews \in SUBSET Judgements /\ m.adoptions \in SUBSET Adoptions
      /\ m.entries \in SUBSET [id : EntryIds, book : Codebooks] /\ m.refs \in Seq(Nat)
    BY DEF Memories
<1>1. CASE e.kind = "candidate"
    <2>1. a = [m EXCEPT !.books = @ \cup {v}] /\ v \in Codebooks
        BY <1>1 DEF ReceiptApplied, ReceiptFits, ValueFits
    <2> HIDE DEF a, v
    <2>4. a = [ws |-> m.ws, config |-> m.config, active |-> m.active, books |-> m.books \cup {v},
              evaluations |-> m.evaluations, recommendations |-> m.recommendations,
              bundles |-> m.bundles, reviews |-> m.reviews, adoptions |-> m.adoptions,
              entries |-> m.entries, refs |-> m.refs]
        BY <1>0, <2>1
    <2>5. a \in Memories
        <3>1. m.books \cup {v} \in SUBSET Codebooks
            BY <1>t, <2>1
        <3> QED
            BY <1>t, <2>4, <3>1 DEF Memories
    <2>6. WorkspaceHolds(m) /\ ReceiptSound(e) => WorkspaceHolds(a)
        BY <2>1, <2>4 DEF WorkspaceHolds
    <2>7. Consistent(m) /\ ReceiptHolds(m, e) => Consistent(a)
        BY <2>1, <2>4 DEF Consistent
    <2> QED
        BY <1>1, <2>1, <2>4, <2>5, <2>6, <2>7 DEF a, v
<1>2. CASE e.kind = "evaluation"
    <2>1. a = [m EXCEPT !.evaluations = @ \cup {v}] /\ v \in Evaluations
        BY <1>2 DEF ReceiptApplied, ReceiptFits, ValueFits
    <2>2. ReceiptHolds(m, e) => v.book \in m.books
        BY <1>2 DEF ReceiptHolds
    <2>3. ReceiptSound(e) => EvaluationHolds(v)
        BY <1>2 DEF ReceiptSound
    <2> HIDE DEF a, v
    <2>4. a = [ws |-> m.ws, config |-> m.config, active |-> m.active, books |-> m.books,
              evaluations |-> m.evaluations \cup {v}, recommendations |-> m.recommendations,
              bundles |-> m.bundles, reviews |-> m.reviews, adoptions |-> m.adoptions,
              entries |-> m.entries, refs |-> m.refs]
        BY <1>0, <2>1
    <2>5. a \in Memories
        BY <2>1, <2>4 DEF Memories
    <2>6. WorkspaceHolds(m) /\ ReceiptSound(e) => WorkspaceHolds(a)
        BY <2>1, <2>2, <2>3, <2>4 DEF WorkspaceHolds
    <2>7. Consistent(m) /\ ReceiptHolds(m, e) => Consistent(a)
        BY <2>1, <2>2, <2>3, <2>4 DEF Consistent
    <2> QED
        BY <1>2, <2>1, <2>4, <2>5, <2>6, <2>7 DEF a, v
<1>3. CASE e.kind = "promotion"
    <2>1. a = [m EXCEPT !.active = v.book] /\ v.book \in Codebooks
        BY <1>3 DEF ReceiptApplied, ReceiptFits, ValueFits
    <2>2. ReceiptHolds(m, e) => v.book \in m.books
        BY <1>3 DEF ReceiptHolds
    <2>3. ReceiptSound(e) => Earned(v.book)
        BY <1>3 DEF ReceiptSound
    <2> HIDE DEF a, v
    <2>4. a = [ws |-> m.ws, config |-> m.config, active |-> v.book, books |-> m.books,
              evaluations |-> m.evaluations, recommendations |-> m.recommendations,
              bundles |-> m.bundles, reviews |-> m.reviews, adoptions |-> m.adoptions,
              entries |-> m.entries, refs |-> m.refs]
        BY <1>0, <2>1
    <2>5. a \in Memories
        BY <2>1, <2>4 DEF Memories
    <2>6. WorkspaceHolds(m) /\ ReceiptSound(e) => WorkspaceHolds(a)
        BY <2>1, <2>2, <2>3, <2>4 DEF WorkspaceHolds
    <2>7. Consistent(m) /\ ReceiptHolds(m, e) => Consistent(a)
        BY <2>1, <2>2, <2>3, <2>4 DEF Consistent
    <2> QED
        BY <1>3, <2>1, <2>4, <2>5, <2>6, <2>7 DEF a, v
<1>4. CASE e.kind = "entry"
    <2>1. a = [m EXCEPT !.entries = @ \cup {v}] /\ v \in [id : EntryIds, book : Codebooks]
        BY <1>4 DEF ReceiptApplied, ReceiptFits, ValueFits
    <2> HIDE DEF a, v
    <2>4. a = [ws |-> m.ws, config |-> m.config, active |-> m.active, books |-> m.books,
              evaluations |-> m.evaluations, recommendations |-> m.recommendations,
              bundles |-> m.bundles, reviews |-> m.reviews, adoptions |-> m.adoptions,
              entries |-> m.entries \cup {v}, refs |-> m.refs]
        BY <1>0, <2>1
    <2>5. a \in Memories
        <3>1. m.entries \cup {v} \in SUBSET [id : EntryIds, book : Codebooks]
            BY <1>t, <2>1
        <3> QED
            BY <1>t, <2>4, <3>1 DEF Memories
    <2>6. WorkspaceHolds(m) /\ ReceiptSound(e) => WorkspaceHolds(a)
        BY <2>1, <2>4 DEF WorkspaceHolds
    <2>7. Consistent(m) /\ ReceiptHolds(m, e) => Consistent(a)
        BY <2>1, <2>4 DEF Consistent
    <2> QED
        BY <1>4, <2>1, <2>4, <2>5, <2>6, <2>7 DEF a, v
<1>5. CASE e.kind = "recommendation"
    <2>1. a = [m EXCEPT !.recommendations = @ \cup {v}] /\ v \in Recommendations
        BY <1>5 DEF ReceiptApplied, ReceiptFits, ValueFits
    <2>2. ReceiptHolds(m, e) => v.book \in m.books
        BY <1>5 DEF ReceiptHolds
    <2>3. ReceiptSound(e) => RecommendationHolds(v)
        BY <1>5 DEF ReceiptSound
    <2> HIDE DEF a, v
    <2>4. a = [ws |-> m.ws, config |-> m.config, active |-> m.active, books |-> m.books,
              evaluations |-> m.evaluations, recommendations |-> m.recommendations \cup {v},
              bundles |-> m.bundles, reviews |-> m.reviews, adoptions |-> m.adoptions,
              entries |-> m.entries, refs |-> m.refs]
        BY <1>0, <2>1
    <2>5. a \in Memories
        BY <2>1, <2>4 DEF Memories
    <2>6. WorkspaceHolds(m) /\ ReceiptSound(e) => WorkspaceHolds(a)
        BY <2>1, <2>2, <2>3, <2>4 DEF WorkspaceHolds
    <2>7. Consistent(m) /\ ReceiptHolds(m, e) => Consistent(a)
        BY <2>1, <2>2, <2>3, <2>4 DEF Consistent
    <2> QED
        BY <1>5, <2>1, <2>4, <2>5, <2>6, <2>7 DEF a, v
<1>6. CASE e.kind = "review"
    <2>1. a = [m EXCEPT !.reviews = @ \cup {v}] /\ v \in Judgements
        BY <1>6 DEF ReceiptApplied, ReceiptFits, ValueFits
    <2>2. ReceiptHolds(m, e) => v.book \in m.books
        BY <1>6 DEF ReceiptHolds
    <2>3. ReceiptSound(e) => JudgementHolds(v)
        BY <1>6 DEF ReceiptSound
    <2> HIDE DEF a, v
    <2>4. a = [ws |-> m.ws, config |-> m.config, active |-> m.active, books |-> m.books,
              evaluations |-> m.evaluations, recommendations |-> m.recommendations,
              bundles |-> m.bundles, reviews |-> m.reviews \cup {v}, adoptions |-> m.adoptions,
              entries |-> m.entries, refs |-> m.refs]
        BY <1>0, <2>1
    <2>5. a \in Memories
        BY <2>1, <2>4 DEF Memories
    <2>6. WorkspaceHolds(m) /\ ReceiptSound(e) => WorkspaceHolds(a)
        BY <2>1, <2>2, <2>3, <2>4 DEF WorkspaceHolds
    <2>7. Consistent(m) /\ ReceiptHolds(m, e) => Consistent(a)
        BY <2>1, <2>2, <2>3, <2>4 DEF Consistent
    <2> QED
        BY <1>6, <2>1, <2>4, <2>5, <2>6, <2>7 DEF a, v
<1>7. CASE e.kind = "adoption"
    <2>1. a = [m EXCEPT !.adoptions = @ \cup {v}] /\ v \in Adoptions
        BY <1>7 DEF ReceiptApplied, ReceiptFits, ValueFits
    <2>3. ReceiptSound(e) => AdoptionHolds(v)
        BY <1>7 DEF ReceiptSound
    <2> HIDE DEF a, v
    <2>4. a = [ws |-> m.ws, config |-> m.config, active |-> m.active, books |-> m.books,
              evaluations |-> m.evaluations, recommendations |-> m.recommendations,
              bundles |-> m.bundles, reviews |-> m.reviews, adoptions |-> m.adoptions \cup {v},
              entries |-> m.entries, refs |-> m.refs]
        BY <1>0, <2>1
    <2>5. a \in Memories
        BY <2>1, <2>4 DEF Memories
    <2>6. WorkspaceHolds(m) /\ ReceiptSound(e) => WorkspaceHolds(a)
        BY <2>1, <2>3, <2>4 DEF WorkspaceHolds
    <2>7. Consistent(m) /\ ReceiptHolds(m, e) => Consistent(a)
        BY <2>1, <2>3, <2>4 DEF Consistent
    <2> QED
        BY <1>7, <2>1, <2>4, <2>5, <2>6, <2>7 DEF a, v
<1>8. CASE e.kind = "transfer"
    BY <1>8 DEF ReceiptApplied
<1> QED
    BY <1>1, <1>2, <1>3, <1>4, <1>5, <1>6, <1>7, <1>8 DEF ReceiptFits, ValueFits

\* A receipt that a replay takes.
LEMMA StepTaken ==
    ASSUME NEW r, r.ok, NEW e, ReceiptHolds(r.state, e), ReceiptFits(e), r.state \in Memories
    PROVE  LET next == ReplayStep(r, e)
               refs == Append(r.state.refs, Len(r.state.refs) + 1)
           IN  /\ next = [ok |-> TRUE, state |-> [ReceiptApplied(r.state, e) EXCEPT !.refs = refs]]
               /\ refs \in Seq(Nat)
               /\ next.state \in Memories
<1>1. r.state.refs \in Seq(Nat) /\ Len(r.state.refs) \in Nat
    BY DEF Memories
<1>2. ReceiptApplied(r.state, e) \in Memories /\ ReceiptApplied(r.state, e).refs = r.state.refs
    BY AppliedIs
<1>3. Append(r.state.refs, Len(r.state.refs) + 1) \in Seq(Nat)
    BY <1>1
<1>4. ReplayStep(r, e) =
        [ok |-> TRUE, state |-> [ReceiptApplied(r.state, e)
                                  EXCEPT !.refs = Append(r.state.refs, Len(r.state.refs) + 1)]]
    BY <1>2 DEF ReplayStep
<1>5. [ReceiptApplied(r.state, e)
         EXCEPT !.refs = Append(r.state.refs, Len(r.state.refs) + 1)] \in Memories
    BY <1>2, <1>3, RefsChanged
<1> QED
    BY <1>3, <1>4, <1>5

\* Whatever a replay makes of sound receipts holds.
LEMMA ReplayHolds ==
    ASSUME NEW log, LineageFits(log), Len(log) > 0, \A i \in DOMAIN log : ReceiptSound(log[i])
    PROVE  \A n \in 1..Len(log) :
              /\ Replayed(log)[n] \in [ok : BOOLEAN, state : Memories]
              /\ WorkspaceHolds(Replayed(log)[n].state)
<1> DEFINE Good(n) == /\ Replayed(log)[n] \in [ok : BOOLEAN, state : Memories]
                      /\ WorkspaceHolds(Replayed(log)[n].state)
           T == {n \in Nat : n \in 1..Len(log) /\ ~Good(n)}
<1>0. Len(log) \in Nat /\ DOMAIN log = 1..Len(log)
    BY DEF LineageFits
<1> SUFFICES ASSUME T # {} PROVE FALSE
    BY <1>0
<1>1. PICK n \in T : \A y \in T : n <= y
    BY LeastOf
<1>2. n \in 1..Len(log) /\ ~Good(n)
    OBVIOUS
<1>3. ReplaysAt(Replayed(log), log, n)
    BY <1>0, <1>2, ReplayedIs
<1>4. CASE n = 1
    <2>1. 1 \in DOMAIN log
        BY <1>0
    <2>2. Replayed(log)[n] = Genesis(log)
        BY <1>3, <1>4 DEF ReplaysAt
    <2>3. /\ Genesis(log) = [ok |-> TRUE, state |-> Genesis(log).state]
          /\ Genesis(log).state \in Memories /\ WorkspaceHolds(Genesis(log).state)
        BY <2>1, GenesisOpens
    <2>5. PICK s \in Memories : Genesis(log) = [ok |-> TRUE, state |-> s]
        BY <2>3
    <2>4. Genesis(log) \in [ok : BOOLEAN, state : Memories]
        BY <2>5
    <2> QED
        BY <1>2, <2>2, <2>3, <2>4
<1>5. CASE n # 1
    <2>1. n - 1 \in 1..Len(log) /\ n - 1 < n
        BY <1>0, <1>2, <1>5
    <2>2. Good(n - 1)
        BY <1>1, <2>1
    <2> DEFINE r == Replayed(log)[n - 1]
    <2>3. r = [ok |-> r.ok, state |-> r.state] /\ r.ok \in BOOLEAN /\ r.state \in Memories
          /\ WorkspaceHolds(r.state)
        BY <2>2
    <2>4. Replayed(log)[n] = ReplayStep(r, log[n])
        BY <1>3, <1>5 DEF ReplaysAt
    <2>5. ReceiptFits(log[n]) /\ ReceiptSound(log[n])
        BY <1>0, <1>2, <1>5 DEF LineageFits
    <2> HIDE DEF r
    <2>6. CASE r.ok /\ ReceiptHolds(r.state, log[n])
        <3> DEFINE a == ReceiptApplied(r.state, log[n])
                   refs == Append(r.state.refs, Len(r.state.refs) + 1)
        <3>1. a \in Memories /\ WorkspaceHolds(a)
            BY <2>3, <2>5, AppliedIs
        <3>2. /\ ReplayStep(r, log[n]) = [ok |-> TRUE, state |-> [a EXCEPT !.refs = refs]]
              /\ refs \in Seq(Nat)
            BY <2>3, <2>5, <2>6, StepTaken
        <3> HIDE DEF a, refs
        <3>3. [a EXCEPT !.refs = refs] \in Memories /\ WorkspaceHolds([a EXCEPT !.refs = refs])
            BY <3>1, <3>2, RefsChanged
        <3> QED
            BY <1>2, <2>4, <3>2, <3>3
    <2>7. CASE ~(r.ok /\ ReceiptHolds(r.state, log[n]))
        <3>1. ReplayStep(r, log[n]) = [ok |-> FALSE, state |-> r.state]
            BY <2>3, <2>7 DEF ReplayStep
        <3> QED
            BY <1>2, <2>3, <2>4, <3>1
    <2> QED
        BY <2>6, <2>7
<1> QED
    BY <1>4, <1>5

-----------------------------------------------------------------------------
\* What a recording call does: it appends its receipt, or finds it, and then moves its
\* handle.
RecordedAs(h, kind, value, after, e, place) ==
    LET w == handle[h].ws
        refs == handle[h].refs
    IN  /\ e = [kind |-> kind, index |-> Len(refs), value |-> value,
                parent |-> IF refs = <<>> THEN 0 ELSE refs[Len(refs)]]
        /\ ReceiptFits(e)
        /\ handle' = [handle EXCEPT ![h] = [after EXCEPT !.refs = Append(refs, place)]]
        /\ place \in DOMAIN lineage'[w] /\ lineage'[w][place] = e
        /\ lineage' = [v \in Workspaces |-> lineage'[v]] /\ DOMAIN lineage' = Workspaces
        /\ \A v \in Workspaces \ {w} : lineage'[v] = lineage[v]
        /\ \/ lineage'[w] = lineage[w]
           \/ Grown(lineage'[w], lineage[w], e) /\ place = Len(lineage'[w])

\* A recording call (_record) appends its receipt, or finds the one that is already there.
LEMMA RecordsIs ==
    ASSUME KevinTypeOK, NEW h \in Handles, Live(h), NEW kind, NEW value, NEW after \in Memories,
           after.refs = handle[h].refs, ValueFits(kind, value), Records(h, kind, value, after)
    PROVE  \E e, place : RecordedAs(h, kind, value, after, e, place)
<1> DEFINE m == handle[h]  w == m.ws  refs == m.refs
           e == [kind |-> kind, index |-> Len(refs), value |-> value,
                 parent |-> IF refs = <<>> THEN 0 ELSE Last(refs)]
<1>1. m \in Memories /\ w \in Workspaces /\ refs \in Seq(Nat)
    BY DEF KevinTypeOK, Memories
<1>2. LineageFits(lineage[w]) /\ lineage = [v \in Workspaces |-> lineage[v]]
    BY <1>1 DEF KevinTypeOK, LineagesFit
<1>3. /\ e = [kind |-> kind, index |-> Len(refs), value |-> value,
              parent |-> IF refs = <<>> THEN 0 ELSE refs[Len(refs)]]
      /\ e.index \in Nat /\ e.parent \in Nat
    <2>1. Len(refs) \in Nat /\ (refs # <<>> => Len(refs) \in 1..Len(refs) /\ refs[Len(refs)] \in Nat)
        BY <1>1
    <2> QED
        BY <2>1 DEF Last
<1>4. ReceiptFits(e)
    BY <1>3 DEF ReceiptFits
<1>5. \/ /\ lineage' = [lineage EXCEPT ![w] = Append(@, e)]
         /\ handle' = [handle EXCEPT ![h] = [after EXCEPT !.refs = Append(@, Len(lineage[w]) + 1)]]
      \/ \E i \in DOMAIN lineage[w] :
            /\ lineage[w][i] = e
            /\ handle' = [handle EXCEPT ![h] = [after EXCEPT !.refs = Append(@, i)]]
            /\ UNCHANGED lineage
    <2>1. Occurs(w, e) \subseteq DOMAIN lineage[w]
        BY DEF Occurs
    <2> HIDE DEF e
    <2>2. \/ /\ lineage' = [lineage EXCEPT ![w] = Append(@, e)]
             /\ handle' = [handle EXCEPT ![h] = [after EXCEPT !.refs = Append(@, Len(lineage[w]) + 1)]]
          \/ \E i \in Occurs(w, e) :
                /\ lineage[w][i] = e
                /\ handle' = [handle EXCEPT ![h] = [after EXCEPT !.refs = Append(@, i)]]
                /\ UNCHANGED lineage
        BY DEF Records, e
    <2> QED
        BY <2>1, <2>2
<1> HIDE DEF e
<1>6. \A i : [after EXCEPT !.refs = Append(@, i)] = [after EXCEPT !.refs = Append(refs, i)]
    BY DEF Memories
<1>7. CASE /\ lineage' = [lineage EXCEPT ![w] = Append(@, e)]
           /\ handle' = [handle EXCEPT ![h] = [after EXCEPT !.refs = Append(@, Len(lineage[w]) + 1)]]
    <2>1. Grown(Append(lineage[w], e), lineage[w], e)
        BY <1>2, AppendGrows DEF LineageFits
    <2>2. /\ lineage'[w] = Append(lineage[w], e) /\ DOMAIN lineage' = Workspaces
          /\ lineage' = [v \in Workspaces |-> lineage'[v]]
          /\ \A v \in Workspaces \ {w} : lineage'[v] = lineage[v]
        BY <1>1, <1>2, <1>7
    <2>3. LET place == Len(lineage[w]) + 1 IN
          /\ place = Len(lineage'[w]) /\ place \in DOMAIN lineage'[w] /\ lineage'[w][place] = e
        BY <2>1, <2>2 DEF Grown
    <2>4. RecordedAs(h, kind, value, after, e, Len(lineage[w]) + 1)
        BY <1>3, <1>4, <1>6, <1>7, <2>1, <2>2, <2>3 DEF RecordedAs
    <2> QED
        BY <2>4
<1>8. ASSUME NEW i \in DOMAIN lineage[w], lineage[w][i] = e, UNCHANGED lineage,
             handle' = [handle EXCEPT ![h] = [after EXCEPT !.refs = Append(@, i)]]
      PROVE  RecordedAs(h, kind, value, after, e, i)
    BY <1>2, <1>3, <1>4, <1>6, <1>8 DEF RecordedAs
<1> QED
    BY <1>5, <1>7, <1>8

\* What a recording call leaves alone.
OthersStay(h) == \A g \in Handles \ {h} : handle'[g] = handle[g]
OnlyRecorded(e) ==
    \A w \in Workspaces : \A i \in DOMAIN lineage'[w] :
        lineage'[w][i] = e \/ (i \in DOMAIN lineage[w] /\ lineage'[w][i] = lineage[w][i])

\* It keeps the types, and lineages only grow.
LEMMA RecordedTyped ==
    ASSUME KevinTypeOK, NEW h \in Handles, Live(h), NEW kind, NEW value, NEW after \in Memories,
           NEW e, NEW place, RecordedAs(h, kind, value, after, e, place),
           after.ws = handle[h].ws, lineage[handle[h].ws] # <<>>
    PROVE  /\ LineagesGrow /\ LineagesFit' /\ (lineage = [w \in Workspaces |-> lineage[w]])'
           /\ DOMAIN handle' = Handles /\ handle' = [g \in Handles |-> handle'[g]]
           /\ OthersStay(h)
           /\ handle'[h] \in Memories /\ handle'[h].ws = handle[h].ws
           /\ WorkspaceHolds(after)' => WorkspaceHolds(handle[h])'
           /\ OnlyRecorded(e)
<1>0. handle[h] \in Memories
    BY DEF KevinTypeOK
<1>1. PICK w \in Workspaces, refs \in Seq(Nat) : w = handle[h].ws /\ refs = handle[h].refs
    BY <1>0 DEF Memories
<1>2. LineageFits(lineage[w]) /\ lineage = [v \in Workspaces |-> lineage[v]] /\ LineagesFit
    BY <1>1 DEF KevinTypeOK, LineagesFit
<1>3. Len(lineage[w]) > 0
    BY <1>1, <1>2 DEF LineageFits, Listed
<1>4. /\ LineageFits(lineage'[w]) /\ DOMAIN lineage[w] \subseteq DOMAIN lineage'[w]
      /\ \A i \in DOMAIN lineage[w] : lineage'[w][i] = lineage[w][i]
      /\ \A i \in DOMAIN lineage'[w] :
                lineage'[w][i] = e \/ (i \in DOMAIN lineage[w] /\ lineage'[w][i] = lineage[w][i])
    <2>1. CASE lineage'[w] = lineage[w]
        BY <1>2, <2>1 DEF LineageFits
    <2>2. CASE Grown(lineage'[w], lineage[w], e) /\ place = Len(lineage'[w])
        <3> DEFINE L == Len(lineage[w])
        <3>1. /\ Listed(lineage'[w]) /\ L \in Nat /\ Len(lineage'[w]) = L + 1
              /\ DOMAIN lineage[w] = 1..L /\ DOMAIN lineage'[w] = 1..(L + 1)
              /\ \A i \in 1..L : lineage'[w][i] = lineage[w][i]
              /\ lineage'[w][L + 1] = e
            BY <2>2 DEF Grown
        <3>2. ReceiptFits(e)
            BY DEF RecordedAs
        <3>3. 1 \in 1..L /\ \A i \in 2..(L + 1) : i = L + 1 \/ i \in 2..L
            BY <1>3, <3>1
        <3>4. /\ lineage[w][1] = [kind |-> "genesis", index |-> 0, value |-> lineage[w][1].value, parent |-> 0]
              /\ lineage[w][1].value \in Geneses
              /\ \A i \in 2..L : ReceiptFits(lineage[w][i])
            BY <1>2, <1>3 DEF LineageFits
        <3>5. lineage'[w][1] = lineage[w][1] /\ \A i \in 2..(L + 1) : ReceiptFits(lineage'[w][i])
            BY <3>1, <3>2, <3>3, <3>4
        <3>6. \A i \in 1..(L + 1) : i = L + 1 \/ i \in 1..L
            BY <3>1
        <3>7. LineageFits(lineage'[w])
            BY <3>1, <3>4, <3>5 DEF LineageFits
        <3> QED
            BY <3>1, <3>6, <3>7
    <2> QED
        BY <1>1, <2>1, <2>2 DEF RecordedAs
<1>5. /\ DOMAIN lineage' = Workspaces /\ lineage' = [v \in Workspaces |-> lineage'[v]]
      /\ \A v \in Workspaces \ {w} : lineage'[v] = lineage[v]
    BY <1>1 DEF RecordedAs
<1>6. LineagesGrow /\ LineagesFit'
    BY <1>2, <1>4, <1>5 DEF LineagesGrow, LineagesFit
<1>7. place \in Nat
    <2>1. place \in DOMAIN lineage'[w] /\ DOMAIN lineage'[w] = 1..Len(lineage'[w])
        BY <1>1, <1>4 DEF RecordedAs, LineageFits
    <2> QED
        BY <1>4, <2>1 DEF LineageFits
<1>8. Append(refs, place) \in Seq(Nat)
    BY <1>1, <1>7
<1>9. /\ handle'[h] = [after EXCEPT !.refs = Append(refs, place)]
      /\ DOMAIN handle' = Handles /\ handle' = [g \in Handles |-> handle'[g]]
      /\ \A g \in Handles \ {h} : handle'[g] = handle[g]
    BY <1>1 DEF RecordedAs, KevinTypeOK
<1>10. handle'[h] \in Memories /\ handle'[h].ws = handle[h].ws
    <2>1. PICK more \in Seq(Nat) : more = Append(refs, place)
        BY <1>8
    <2>2. [after EXCEPT !.refs = more] \in Memories /\ [after EXCEPT !.refs = more].ws = after.ws
        BY RefsChanged
    <2> QED
        BY <1>9, <2>1, <2>2
<1>11. WorkspaceHolds(after)' => WorkspaceHolds(handle[h])'
    <2>1. /\ handle'[h].active = after.active /\ handle'[h].evaluations = after.evaluations
          /\ handle'[h].recommendations = after.recommendations /\ handle'[h].bundles = after.bundles
          /\ handle'[h].reviews = after.reviews /\ handle'[h].adoptions = after.adoptions
        BY <1>9 DEF Memories
    <2> QED
        BY <2>1 DEF WorkspaceHolds
<1>12. OthersStay(h)
    BY <1>9 DEF OthersStay
<1>13. OnlyRecorded(e)
    BY <1>1, <1>4, <1>5 DEF OnlyRecorded
<1> QED
    BY <1>5, <1>6, <1>9, <1>10, <1>11, <1>12, <1>13

\* What is earned stays earned when something earned is recorded.
LEMMA EarnedRecorded ==
    ASSUME KevinTypeOK, EarnedInv, NEW h \in Handles, Live(h), NEW kind, NEW value,
           NEW after \in Memories,
           NEW e, NEW place, RecordedAs(h, kind, value, after, e, place),
           after.ws = handle[h].ws, lineage[handle[h].ws] # <<>>,
           WorkspaceHolds(after)', ReceiptSound(e)', bundles' = bundles,
           \A t \in transfers' : t \in transfers \/ ExportHolds(t)'
    PROVE  EarnedInv'
<1>0. LineagesGrow /\ OthersStay(h) /\ OnlyRecorded(e) /\ WorkspaceHolds(handle[h])'
    BY RecordedTyped
<1>1. /\ LineagesGrow
      /\ \A g \in Handles \ {h} : handle'[g] = handle[g]
      /\ WorkspaceHolds(handle[h])'
      /\ \A w \in Workspaces : \A i \in DOMAIN lineage'[w] :
            lineage'[w][i] = e \/ (i \in DOMAIN lineage[w] /\ lineage'[w][i] = lineage[w][i])
    BY <1>0 DEF OthersStay, OnlyRecorded
<1>2. (\A w \in Workspaces : \A i \in DOMAIN lineage[w] : ReceiptSound(lineage[w][i]))'
    <2> SUFFICES ASSUME NEW w \in Workspaces, NEW i \in DOMAIN lineage'[w]
                 PROVE  ReceiptSound(lineage[w][i])'
        OBVIOUS
    <2>1. CASE lineage'[w][i] = e
        <3>1. PICK x : x = e
            OBVIOUS
        <3> QED
            BY <2>1
    <2>2. CASE i \in DOMAIN lineage[w] /\ lineage'[w][i] = lineage[w][i]
        <3>1. PICK x : x = lineage[w][i]
            OBVIOUS
        <3>2. ReceiptSound(x)'
            BY <1>1, <2>2, <3>1, ReceiptStays DEF EarnedInv
        <3> QED
            BY <2>2, <3>1, <3>2
    <2> QED
        BY <1>1, <2>1, <2>2
<1>3. (\A g \in Handles : Live(g) => WorkspaceHolds(handle[g]))'
    <2> SUFFICES ASSUME NEW g \in Handles, Live(g)' PROVE WorkspaceHolds(handle[g])'
        OBVIOUS
    <2>1. CASE g = h
        BY <1>1, <2>1
    <2>2. CASE g # h
        <3>1. PICK x : x = handle[g]
            OBVIOUS
        <3>2. handle'[g] = x /\ WorkspaceHolds(x)
            BY <1>1, <2>2, <3>1 DEF EarnedInv, Live
        <3>3. WorkspaceHolds(x)'
            BY <1>1, <3>2, MemoryStays
        <3> QED
            BY <3>2, <3>3
    <2> QED
        BY <2>1, <2>2
<1>4. (\A b \in bundles : RecommendationHolds(b))'
    BY <1>1, RecommendationStays DEF EarnedInv
<1>5. (\A t \in transfers : ExportHolds(t))'
    BY <1>1, ExportStays DEF EarnedInv
<1> QED
    BY <1>2, <1>3, <1>4, <1>5 DEF EarnedInv

-----------------------------------------------------------------------------
\* Handles keep following their lineages.

\* What a replay and a memory that matches it come to by one receipt.
Taken(w, log, n, e, m, after) ==
    LET next == ReplayStep(Replayed(log)[n], e)
        moved == [after EXCEPT !.refs = Append(m.refs, n + 1)]
    IN  /\ next = [ok |-> TRUE, state |-> next.state]
        /\ next.state \in Memories /\ next.state.ws = w
        /\ next.state.refs = [i \in 1..(n + 1) |-> i]
        /\ Consistent(next.state)
        /\ Replayed(log)[n].state.books \subseteq next.state.books
        /\ e.kind = "candidate" => e.value \in next.state.books
        /\ Matches(moved, next.state) /\ Len(moved.refs) = n + 1

\* A memory that matches a replay's, and moves by the receipt that the replay reads.
LEMMA MatchNext ==
    ASSUME NEW w, NEW log, NEW n \in Nat, Reads(w, log, n), NEW e, ReceiptFits(e),
           ReceiptHolds(Replayed(log)[n].state, e),
           NEW m, Matches(m, Replayed(log)[n].state),
           NEW after \in Memories, Matches(after, ReceiptApplied(Replayed(log)[n].state, e))
    PROVE  Taken(w, log, n, e, m, after)
<1>1. PICK r : r = Replayed(log)[n]
    OBVIOUS
<1>2. PICK s \in Memories : s = r.state
    BY <1>1 DEF Reads
<1>3. /\ r.ok /\ s.ws = w /\ s.refs = [i \in 1..n |-> i] /\ Consistent(s)
      /\ ReceiptHolds(s, e)
    BY <1>1, <1>2 DEF Reads
<1>4. PICK a \in Memories : /\ a = ReceiptApplied(s, e)
                            /\ a.refs = s.refs /\ a.ws = w /\ s.books \subseteq a.books
                            /\ e.kind = "candidate" => e.value \in a.books
                            /\ Consistent(a)
    BY <1>3, AppliedIs
<1>5. /\ Len(s.refs) = n /\ s.refs \in Seq(Nat)
      /\ Append(s.refs, n + 1) = [i \in 1..(n + 1) |-> i]
    <2>1. s.refs \in Seq(Nat) /\ DOMAIN s.refs = 1..n
        BY <1>3 DEF Memories
    <2>2. Len(s.refs) = n
        BY <2>1
    <2>3. \A i \in 1..(n + 1) : Append(s.refs, n + 1)[i] = i
        BY <1>3, <2>1, <2>2
    <2>4. Append(s.refs, n + 1) \in Seq(Nat) /\ Len(Append(s.refs, n + 1)) = n + 1
        BY <2>1, <2>2
    <2>5. DOMAIN Append(s.refs, n + 1) = 1..(n + 1)
        BY <2>4
    <2> QED
        BY <2>1, <2>2, <2>3, <2>4, <2>5
<1>16. Append(s.refs, n + 1) \in Seq(Nat)
    BY <1>5
<1>6. PICK refs \in Seq(Nat) : refs = Append(s.refs, n + 1)
    BY <1>16
<1>7. ReplayStep(r, e) = [ok |-> TRUE, state |-> [a EXCEPT !.refs = refs]]
    BY <1>2, <1>3, <1>4, <1>5, <1>6, StepTaken
<1>8. PICK t \in Memories : /\ t = [a EXCEPT !.refs = refs]
                            /\ t.refs = refs /\ t.ws = a.ws /\ t.books = a.books /\ Consistent(t)
    BY <1>4, RefsChanged
<1>9. m.refs = s.refs
    BY <1>1, <1>2 DEF Matches, Memories
<1>10. after = [a EXCEPT !.books = after.books] /\ a.books \subseteq after.books
    BY <1>1, <1>2, <1>4 DEF Matches
<1>11. PICK moved \in Memories : /\ moved = [after EXCEPT !.refs = refs]
                                 /\ moved.refs = refs /\ moved.books = after.books
    BY RefsChanged
<1>12. moved = [t EXCEPT !.books = moved.books]
    BY <1>8, <1>10, <1>11 DEF Memories
<1>13. Matches(moved, t) /\ Len(moved.refs) = n + 1
    <2>1. Len(refs) = n + 1
        BY <1>5, <1>6
    <2> QED
        BY <1>8, <1>10, <1>11, <1>12, <2>1 DEF Matches
<1>14. ReplayStep(Replayed(log)[n], e) = [ok |-> TRUE, state |-> t]
    BY <1>1, <1>7, <1>8
<1>15. moved = [after EXCEPT !.refs = Append(m.refs, n + 1)]
    BY <1>6, <1>9, <1>11
<1> DEFINE next == ReplayStep(Replayed(log)[n], e)
           moves == [after EXCEPT !.refs = Append(m.refs, n + 1)]
<1>17. next = [ok |-> TRUE, state |-> t] /\ moves = moved
    BY <1>14, <1>15
<1> HIDE DEF next, moves
<1>18. next.state = t /\ next = [ok |-> TRUE, state |-> next.state]
    BY <1>17
<1>19. /\ t \in Memories /\ t.ws = w /\ t.refs = [i \in 1..(n + 1) |-> i] /\ Consistent(t)
       /\ s.books \subseteq t.books /\ (e.kind = "candidate" => e.value \in t.books)
    BY <1>4, <1>5, <1>6, <1>8
<1>20. s = Replayed(log)[n].state
    BY <1>1, <1>2
<1> QED
    BY <1>13, <1>17, <1>18, <1>19, <1>20 DEF next, moves, Taken

\* A receipt moves its handle as it moves a replay that the handle matches, and holds in one
\* that has read all candidates.
MovesAlike(h, after, e) ==
    \A s \in Memories : Matches(handle[h], s) => Matches(after, ReceiptApplied(s, e))
HoldsThere(h, e) ==
    \A s \in Memories :
        Matches(handle[h], s) /\ Consistent(s) /\ Returned(handle[h].ws) \subseteq s.books =>
            ReceiptHolds(s, e)

\* The lineage a receipt is recorded in: what it now replays to, and its handle with it.
LEMMA FollowsThere ==
    ASSUME NEW w \in Workspaces, NEW log, NEW more, LineageFits(log), log # <<>>, NEW e, ReceiptFits(e),
           NEW m \in Memories, NEW after \in Memories, NEW place \in DOMAIN more, more[place] = e,
           e.index = Len(m.refs),
           more = log \/ (Grown(more, log, e) /\ place = Len(more)),
           Whole(log) => Follows(m, log) /\ \A n \in 1..Len(log) : Reads(w, log, n),
           \A s \in Memories : Matches(m, s) => Matches(after, ReceiptApplied(s, e)),
           \A s \in Memories :
              /\ Matches(m, s) /\ Consistent(s)
              /\ \A i \in DOMAIN log : log[i].kind = "candidate" => log[i].value \in s.books
              => ReceiptHolds(s, e),
           Whole(more)
    PROVE  /\ \A n \in 1..Len(more) : Reads(w, more, n)
           /\ Follows([after EXCEPT !.refs = Append(m.refs, place)], more)
           /\ \A g : Follows(g, log) => Follows(g, more)
<1>1. PICK L \in Nat : L = Len(log) /\ DOMAIN log = 1..L
    BY DEF LineageFits
<1>2. PICK n \in Nat : n = Len(m.refs)
    BY DEF Memories
<1>3. L > 0
    BY <1>1 DEF LineageFits, Listed
<1>4. CASE more = log
    <2>1. Follows(m, log) /\ \A i \in 1..L : Reads(w, log, i)
        BY <1>1, <1>4
    <2>2. place \in 1..L /\ place = n + 1 /\ n \in 1..L
        <3>1. place \in 1..L /\ n \in 1..L
            BY <1>1, <1>2, <1>4, <2>1 DEF Follows
        <3>2. log[place].index = place - 1
            BY <1>1, <1>4, <3>1 DEF Whole
        <3>3. log[place].index = n
            BY <1>2, <1>4
        <3> QED
            BY <3>1, <3>2, <3>3
    <2>3. Matches(m, Replayed(log)[n].state) /\ Reads(w, log, n) /\ Reads(w, log, n + 1)
        BY <1>2, <2>1, <2>2 DEF Follows
    <2>4. Replayed(log)[n + 1] = ReplayStep(Replayed(log)[n], e)
        <3>1. ReplaysAt(Replayed(log), log, n + 1)
            BY <1>1, <2>2, ReplayedIs
        <3>2. n + 1 # 1 /\ (n + 1) - 1 = n /\ log[n + 1] = e
            BY <1>4, <2>2
        <3> QED
            BY <3>1, <3>2 DEF ReplaysAt
    <2>5. PICK s \in Memories : s = Replayed(log)[n].state
        BY <2>3 DEF Reads
    <2>6. ReceiptHolds(s, e)
        <3>1. PICK r : r = Replayed(log)[n] /\ r = [ok |-> TRUE, state |-> s]
            BY <2>3, <2>5 DEF Reads
        <3>2. ReplayStep(r, e).ok
            BY <2>3, <2>4, <3>1 DEF Reads
        <3>3. CASE ~ReceiptHolds(s, e)
            BY <3>1, <3>2, <3>3 DEF ReplayStep
        <3> QED
            BY <3>3
    <2>7. Matches(after, ReceiptApplied(s, e))
        BY <2>3, <2>5
    <2>9. Taken(w, log, n, e, m, after)
        BY <2>3, <2>5, <2>6, <2>7, MatchNext
    <2>8. Matches([after EXCEPT !.refs = Append(m.refs, n + 1)], ReplayStep(Replayed(log)[n], e).state)
          /\ Len([after EXCEPT !.refs = Append(m.refs, n + 1)].refs) = n + 1
        BY <2>9 DEF Taken
    <2> QED
        BY <1>1, <1>4, <2>1, <2>2, <2>4, <2>8 DEF Follows
<1>5. CASE Grown(more, log, e) /\ place = Len(more)
    <2>1. /\ Len(more) = L + 1 /\ DOMAIN more = 1..(L + 1)
          /\ \A i \in 1..L : more[i] = log[i]
          /\ more[L + 1] = e
        BY <1>1, <1>5 DEF Grown
    <2>2. Whole(log) /\ n = L
        <3>1. more[L + 1].index = L
            BY <2>1 DEF Whole
        <3> QED
            BY <1>1, <1>2, <1>3, <2>1, <3>1 DEF Whole
    <2>3. Follows(m, log) /\ \A i \in 1..L : Reads(w, log, i)
        BY <1>1, <2>2
    <2>4. Matches(m, Replayed(log)[L].state) /\ Reads(w, log, L)
        BY <1>1, <1>2, <1>3, <2>2, <2>3 DEF Follows
    <2>5. PICK s \in Memories : s = Replayed(log)[L].state
        BY <2>4 DEF Reads
    <2>6. ReceiptHolds(s, e)
        BY <1>1, <2>4, <2>5 DEF Reads
    <2>7. Matches(after, ReceiptApplied(s, e))
        BY <2>4, <2>5
    <2> DEFINE next == ReplayStep(Replayed(log)[L], e)
               moved == [after EXCEPT !.refs = Append(m.refs, L + 1)]
    <2>15. Taken(w, log, L, e, m, after)
        BY <2>4, <2>5, <2>6, <2>7, MatchNext
    <2>8. /\ next = [ok |-> TRUE, state |-> next.state]
          /\ next.state \in Memories /\ next.state.ws = w
          /\ next.state.refs = [i \in 1..(L + 1) |-> i]
          /\ Consistent(next.state)
          /\ Replayed(log)[L].state.books \subseteq next.state.books
          /\ e.kind = "candidate" => e.value \in next.state.books
          /\ Matches(moved, next.state) /\ Len(moved.refs) = L + 1
        BY <2>15 DEF Taken
    <2>9. /\ \A i \in 1..L : Replayed(more)[i] = Replayed(log)[i]
          /\ Replayed(more)[L + 1] = next
        BY <1>1, <1>3, <1>5, <2>1, ReplayedNext
    <2> HIDE DEF next, moved
    <2>10. ASSUME NEW i \in 1..L PROVE Reads(w, more, i)
        BY SMTT(20), <2>1, <2>3, <2>9, <2>10 DEF Reads
    <2>11. Reads(w, more, L + 1)
        <3>1. \A i \in 1..L : log[i].kind = "candidate" => log[i].value \in next.state.books
            BY <2>4, <2>8 DEF Reads
        <3>2. \A i \in 1..(L + 1) : i \in 1..L \/ i = L + 1
            BY <1>1
        <3> QED
            BY <2>1, <2>8, <2>9, <3>1, <3>2 DEF Reads
    <2>12. Follows(moved, more)
        BY <2>1, <2>8, <2>9 DEF Follows
    <2>13. \A g : Follows(g, log) => Follows(g, more)
        BY <1>1, <2>1, <2>9 DEF Follows
    <2>14. \A i \in 1..Len(more) : i \in 1..L \/ i = L + 1
        BY <2>1
    <2> QED
        BY <1>5, <2>1, <2>10, <2>11, <2>12, <2>13, <2>14 DEF moved
<1> QED
    BY <1>4, <1>5

\* So the handles of all workspaces keep following their lineages.
LEMMA FollowsRecorded ==
    ASSUME KevinTypeOK, ReplayInv, NEW h \in Handles, Live(h), NEW kind, NEW value,
           NEW after \in Memories, after.ws = handle[h].ws,
           NEW e, NEW place, RecordedAs(h, kind, value, after, e, place),
           MovesAlike(h, after, e), HoldsThere(h, e)
    PROVE  ReplayInv'
<1>1. PICK m \in Memories : m = handle[h]
    BY DEF KevinTypeOK
<1>2. PICK w \in Workspaces : w = m.ws
    BY DEF Memories
<1>3. PICK log : log = lineage[w]
    OBVIOUS
<1>4. PICK more : more = lineage'[w]
    OBVIOUS
<1>5. /\ LineageFits(log) /\ log # <<>> /\ m.refs # <<>>
      /\ Whole(log) => Follows(m, log) /\ \A n \in 1..Len(log) : Reads(w, log, n)
    BY <1>1, <1>2, <1>3 DEF KevinTypeOK, LineagesFit, ReplayInv
<1>6. PICK moved : moved = [after EXCEPT !.refs = Append(m.refs, place)]
    OBVIOUS
<1>7. /\ e.index = Len(m.refs) /\ ReceiptFits(e)
      /\ place \in DOMAIN more /\ more[place] = e
      /\ more = log \/ (Grown(more, log, e) /\ place = Len(more))
      /\ handle' = [handle EXCEPT ![h] = moved]
      /\ \A v \in Workspaces \ {w} : lineage'[v] = lineage[v]
    BY <1>1, <1>2, <1>3, <1>4, <1>6 DEF RecordedAs
<1>8. /\ \A s \in Memories : Matches(m, s) => Matches(after, ReceiptApplied(s, e))
      /\ \A s \in Memories :
            /\ Matches(m, s) /\ Consistent(s)
            /\ \A i \in DOMAIN log : log[i].kind = "candidate" => log[i].value \in s.books
            => ReceiptHolds(s, e)
    BY <1>1, <1>2, <1>3 DEF MovesAlike, HoldsThere, Returned
<1>9. /\ handle'[h] = moved /\ moved.ws = w /\ moved.refs # <<>>
      /\ \A g \in Handles \ {h} : handle'[g] = handle[g]
    <2>1. handle'[h] = moved /\ \A g \in Handles \ {h} : handle'[g] = handle[g]
        BY <1>7 DEF KevinTypeOK
    <2>2. moved.ws = w /\ moved.refs = Append(m.refs, place)
        BY <1>1, <1>2, <1>6 DEF Memories
    <2>3. m.refs \in Seq(Nat)
        BY DEF Memories
    <2>4. Append(m.refs, place) # <<>>
        BY <2>3
    <2> QED
        BY <2>1, <2>2, <2>4
<1>10. more # <<>>
    BY <1>5, <1>7 DEF Grown, LineageFits
<1>11. Whole(more) => /\ \A n \in 1..Len(more) : Reads(w, more, n)
                      /\ Follows(moved, more)
                      /\ \A g : Follows(g, log) => Follows(g, more)
    BY SMTT(20), <1>5, <1>6, <1>7, <1>8, FollowsThere
<1>12. Whole(more) => Whole(log)
    <2>1. CASE Grown(more, log, e)
        <3>1. Len(log) > 0
            BY <1>5 DEF LineageFits, Listed
        <3> QED
            BY <2>1, <3>1 DEF Grown, Whole
    <2> QED
        BY <1>7, <2>1
<1> SUFFICES ASSUME NEW v \in Workspaces
             PROVE  /\ \A g \in Handles : Live(g)' /\ handle'[g].ws = v =>
                            lineage'[v] # <<>> /\ handle'[g].refs # <<>>
                    /\ Whole(lineage'[v]) =>
                         /\ \A n \in 1..Len(lineage'[v]) : Reads(v, lineage'[v], n)
                         /\ \A g \in Handles : Live(g)' /\ handle'[g].ws = v =>
                                Follows(handle'[g], lineage'[v])
    BY DEF ReplayInv
<1>13. \A g \in Handles \ {h} : (Live(g)' => Live(g)) /\ handle'[g] = handle[g]
    BY <1>9 DEF Live
<1>14. CASE v = w
    <2>1. ASSUME NEW g \in Handles \ {h}, Live(g), handle[g].ws = w
          PROVE  handle[g].refs # <<>> /\ (Whole(log) => Follows(handle[g], log))
        BY <1>3, <2>1 DEF ReplayInv
    <2>2. ASSUME NEW g \in Handles, Live(g)', handle'[g].ws = w
          PROVE  handle'[g].refs # <<>> /\ (Whole(more) => Follows(handle'[g], more))
        <3>1. CASE g = h
            BY <1>9, <1>11, <3>1
        <3>2. CASE g # h
            BY <1>11, <1>12, <1>13, <2>1, <2>2, <3>2
        <3> QED
            BY <3>1, <3>2
    <2> QED
        BY <1>4, <1>10, <1>11, <1>14, <2>2
<1>15. CASE v # w
    <2>1. lineage'[v] = lineage[v]
        BY <1>7, <1>15
    <2>2. ASSUME NEW g \in Handles, Live(g)', handle'[g].ws = v
          PROVE  g # h /\ Live(g) /\ handle[g].ws = v /\ handle'[g] = handle[g]
        BY <1>9, <1>13, <1>15, <2>2
    <2>3. PICK x : x = lineage[v]
        OBVIOUS
    <2>4. /\ \A g \in Handles : Live(g) /\ handle[g].ws = v => x # <<>> /\ handle[g].refs # <<>>
          /\ Whole(x) => /\ \A n \in 1..Len(x) : Reads(v, x, n)
                         /\ \A g \in Handles : Live(g) /\ handle[g].ws = v => Follows(handle[g], x)
        BY <2>3 DEF ReplayInv
    <2> QED
        BY <2>1, <2>2, <2>3, <2>4
<1> QED
    BY <1>14, <1>15

-----------------------------------------------------------------------------
\* The recording calls.

\* A memory matches a replay that agrees with it, field by field.
Agrees(m, s) ==
    /\ m.ws = s.ws /\ m.config = s.config /\ m.active = s.active
    /\ m.evaluations = s.evaluations /\ m.recommendations = s.recommendations
    /\ m.bundles = s.bundles /\ m.reviews = s.reviews /\ m.adoptions = s.adoptions
    /\ m.entries = s.entries /\ m.refs = s.refs
    /\ s.books \subseteq m.books

\* A memory is its fields.
LEMMA MemoryIs ==
    ASSUME NEW m \in Memories
    PROVE  m = [ws |-> m.ws, config |-> m.config, active |-> m.active, books |-> m.books,
                evaluations |-> m.evaluations, recommendations |-> m.recommendations, bundles |-> m.bundles,
                reviews |-> m.reviews, adoptions |-> m.adoptions, entries |-> m.entries, refs |-> m.refs]
BY DEF Memories

\* A memory matches a replay if it agrees with it in every field but the books.
LEMMA MatchesIs ==
    ASSUME NEW m \in Memories, NEW s \in Memories PROVE Matches(m, s) <=> Agrees(m, s)
<1>1. s = [ws |-> s.ws, config |-> s.config, active |-> s.active, books |-> s.books,
           evaluations |-> s.evaluations, recommendations |-> s.recommendations, bundles |-> s.bundles,
           reviews |-> s.reviews, adoptions |-> s.adoptions, entries |-> s.entries, refs |-> s.refs]
    BY MemoryIs
<1>2. m = [ws |-> m.ws, config |-> m.config, active |-> m.active, books |-> m.books,
           evaluations |-> m.evaluations, recommendations |-> m.recommendations, bundles |-> m.bundles,
           reviews |-> m.reviews, adoptions |-> m.adoptions, entries |-> m.entries, refs |-> m.refs]
    BY MemoryIs
<1>3. [s EXCEPT !.books = m.books] =
        [ws |-> s.ws, config |-> s.config, active |-> s.active, books |-> m.books,
         evaluations |-> s.evaluations, recommendations |-> s.recommendations, bundles |-> s.bundles,
         reviews |-> s.reviews, adoptions |-> s.adoptions, entries |-> s.entries, refs |-> s.refs]
    BY <1>1
<1> QED
    BY <1>2, <1>3 DEF Matches, Agrees

\* A receipt moves a memory as it moves the replay it matches.
LEMMA AlikeIs ==
    ASSUME NEW m \in Memories, NEW s \in Memories, Matches(m, s), NEW e, ReceiptFits(e)
    PROVE  Matches(ReceiptApplied(m, e), ReceiptApplied(s, e))
<1>1. PICK a \in Memories : a = ReceiptApplied(m, e)
    BY AppliedIs
<1>2. PICK b \in Memories : b = ReceiptApplied(s, e)
    BY AppliedIs
<1> SUFFICES Matches(a, b)
    BY <1>1, <1>2
<1> SUFFICES Agrees(a, b)
    BY MatchesIs
<1>0. Agrees(m, s)
    BY MatchesIs
<1>13. m = [ws |-> m.ws, config |-> m.config, active |-> m.active, books |-> m.books,
            evaluations |-> m.evaluations, recommendations |-> m.recommendations, bundles |-> m.bundles,
            reviews |-> m.reviews, adoptions |-> m.adoptions, entries |-> m.entries, refs |-> m.refs]
    BY MemoryIs
<1>14. s = [ws |-> s.ws, config |-> s.config, active |-> s.active, books |-> s.books,
            evaluations |-> s.evaluations, recommendations |-> s.recommendations, bundles |-> s.bundles,
            reviews |-> s.reviews, adoptions |-> s.adoptions, entries |-> s.entries, refs |-> s.refs]
    BY MemoryIs
<1>3. CASE e.kind = "candidate"
    <2>1. a = [m EXCEPT !.books = @ \cup {e.value}] /\ b = [s EXCEPT !.books = @ \cup {e.value}]
        BY <1>1, <1>2, <1>3 DEF ReceiptApplied
    <2>2. a = [ws |-> m.ws, config |-> m.config, active |-> m.active, books |-> m.books \cup {e.value},
               evaluations |-> m.evaluations, recommendations |-> m.recommendations, bundles |-> m.bundles,
               reviews |-> m.reviews, adoptions |-> m.adoptions, entries |-> m.entries, refs |-> m.refs]
        BY <1>13, <2>1
    <2>3. b = [ws |-> s.ws, config |-> s.config, active |-> s.active, books |-> s.books \cup {e.value},
               evaluations |-> s.evaluations, recommendations |-> s.recommendations, bundles |-> s.bundles,
               reviews |-> s.reviews, adoptions |-> s.adoptions, entries |-> s.entries, refs |-> s.refs]
        BY <1>14, <2>1
    <2> QED
        BY <1>0, <2>2, <2>3 DEF Agrees
<1>4. CASE e.kind = "evaluation"
    <2>1. a = [m EXCEPT !.evaluations = @ \cup {e.value}] /\ b = [s EXCEPT !.evaluations = @ \cup {e.value}]
        BY <1>1, <1>2, <1>4 DEF ReceiptApplied
    <2>2. a = [ws |-> m.ws, config |-> m.config, active |-> m.active, books |-> m.books,
               evaluations |-> m.evaluations \cup {e.value}, recommendations |-> m.recommendations, bundles |-> m.bundles,
               reviews |-> m.reviews, adoptions |-> m.adoptions, entries |-> m.entries, refs |-> m.refs]
        BY <1>13, <2>1
    <2>3. b = [ws |-> s.ws, config |-> s.config, active |-> s.active, books |-> s.books,
               evaluations |-> s.evaluations \cup {e.value}, recommendations |-> s.recommendations, bundles |-> s.bundles,
               reviews |-> s.reviews, adoptions |-> s.adoptions, entries |-> s.entries, refs |-> s.refs]
        BY <1>14, <2>1
    <2> QED
        BY <1>0, <2>2, <2>3 DEF Agrees
<1>5. CASE e.kind = "promotion"
    <2>1. a = [m EXCEPT !.active = e.value.book] /\ b = [s EXCEPT !.active = e.value.book]
        BY <1>1, <1>2, <1>5 DEF ReceiptApplied
    <2>2. a = [ws |-> m.ws, config |-> m.config, active |-> e.value.book, books |-> m.books,
               evaluations |-> m.evaluations, recommendations |-> m.recommendations, bundles |-> m.bundles,
               reviews |-> m.reviews, adoptions |-> m.adoptions, entries |-> m.entries, refs |-> m.refs]
        BY <1>13, <2>1
    <2>3. b = [ws |-> s.ws, config |-> s.config, active |-> e.value.book, books |-> s.books,
               evaluations |-> s.evaluations, recommendations |-> s.recommendations, bundles |-> s.bundles,
               reviews |-> s.reviews, adoptions |-> s.adoptions, entries |-> s.entries, refs |-> s.refs]
        BY <1>14, <2>1
    <2> QED
        BY <1>0, <2>2, <2>3 DEF Agrees
<1>6. CASE e.kind = "entry"
    <2>1. a = [m EXCEPT !.entries = @ \cup {e.value}] /\ b = [s EXCEPT !.entries = @ \cup {e.value}]
        BY <1>1, <1>2, <1>6 DEF ReceiptApplied
    <2>2. a = [ws |-> m.ws, config |-> m.config, active |-> m.active, books |-> m.books,
               evaluations |-> m.evaluations, recommendations |-> m.recommendations, bundles |-> m.bundles,
               reviews |-> m.reviews, adoptions |-> m.adoptions, entries |-> m.entries \cup {e.value}, refs |-> m.refs]
        BY <1>13, <2>1
    <2>3. b = [ws |-> s.ws, config |-> s.config, active |-> s.active, books |-> s.books,
               evaluations |-> s.evaluations, recommendations |-> s.recommendations, bundles |-> s.bundles,
               reviews |-> s.reviews, adoptions |-> s.adoptions, entries |-> s.entries \cup {e.value}, refs |-> s.refs]
        BY <1>14, <2>1
    <2> QED
        BY <1>0, <2>2, <2>3 DEF Agrees
<1>7. CASE e.kind = "recommendation"
    <2>1. a = [m EXCEPT !.recommendations = @ \cup {e.value}] /\ b = [s EXCEPT !.recommendations = @ \cup {e.value}]
        BY <1>1, <1>2, <1>7 DEF ReceiptApplied
    <2>2. a = [ws |-> m.ws, config |-> m.config, active |-> m.active, books |-> m.books,
               evaluations |-> m.evaluations, recommendations |-> m.recommendations \cup {e.value}, bundles |-> m.bundles,
               reviews |-> m.reviews, adoptions |-> m.adoptions, entries |-> m.entries, refs |-> m.refs]
        BY <1>13, <2>1
    <2>3. b = [ws |-> s.ws, config |-> s.config, active |-> s.active, books |-> s.books,
               evaluations |-> s.evaluations, recommendations |-> s.recommendations \cup {e.value}, bundles |-> s.bundles,
               reviews |-> s.reviews, adoptions |-> s.adoptions, entries |-> s.entries, refs |-> s.refs]
        BY <1>14, <2>1
    <2> QED
        BY <1>0, <2>2, <2>3 DEF Agrees
<1>8. CASE e.kind = "review"
    <2>1. a = [m EXCEPT !.reviews = @ \cup {e.value}] /\ b = [s EXCEPT !.reviews = @ \cup {e.value}]
        BY <1>1, <1>2, <1>8 DEF ReceiptApplied
    <2>2. a = [ws |-> m.ws, config |-> m.config, active |-> m.active, books |-> m.books,
               evaluations |-> m.evaluations, recommendations |-> m.recommendations, bundles |-> m.bundles,
               reviews |-> m.reviews \cup {e.value}, adoptions |-> m.adoptions, entries |-> m.entries, refs |-> m.refs]
        BY <1>13, <2>1
    <2>3. b = [ws |-> s.ws, config |-> s.config, active |-> s.active, books |-> s.books,
               evaluations |-> s.evaluations, recommendations |-> s.recommendations, bundles |-> s.bundles,
               reviews |-> s.reviews \cup {e.value}, adoptions |-> s.adoptions, entries |-> s.entries, refs |-> s.refs]
        BY <1>14, <2>1
    <2> QED
        BY <1>0, <2>2, <2>3 DEF Agrees
<1>9. CASE e.kind = "adoption"
    <2>1. a = [m EXCEPT !.adoptions = @ \cup {e.value}] /\ b = [s EXCEPT !.adoptions = @ \cup {e.value}]
        BY <1>1, <1>2, <1>9 DEF ReceiptApplied
    <2>2. a = [ws |-> m.ws, config |-> m.config, active |-> m.active, books |-> m.books,
               evaluations |-> m.evaluations, recommendations |-> m.recommendations, bundles |-> m.bundles,
               reviews |-> m.reviews, adoptions |-> m.adoptions \cup {e.value}, entries |-> m.entries, refs |-> m.refs]
        BY <1>13, <2>1
    <2>3. b = [ws |-> s.ws, config |-> s.config, active |-> s.active, books |-> s.books,
               evaluations |-> s.evaluations, recommendations |-> s.recommendations, bundles |-> s.bundles,
               reviews |-> s.reviews, adoptions |-> s.adoptions \cup {e.value}, entries |-> s.entries, refs |-> s.refs]
        BY <1>14, <2>1
    <2> QED
        BY <1>0, <2>2, <2>3 DEF Agrees
<1>10. CASE e.kind = "transfer"
    BY <1>0, <1>1, <1>2, <1>10 DEF ReceiptApplied
<1> QED
    BY <1>3, <1>4, <1>5, <1>6, <1>7, <1>8, <1>9, <1>10 DEF ReceiptFits, ValueFits

\* What a recording call keeps, of what it recorded.
LEMMA Kept ==
    ASSUME KevinInv, NEW h \in Handles, Live(h), NEW kind, NEW value, NEW after,
           NEW e, NEW place, RecordedAs(h, kind, value, after, e, place),
           after = ReceiptApplied(handle[h], e),
           WorkspaceHolds(after)', ReceiptSound(e)', HoldsThere(h, e),
           bundles' = bundles, transfers' \in SUBSET Exports,
           \A t \in transfers' : t \in transfers \/ ExportHolds(t)'
    PROVE  KevinInv'
<1>1. KevinTypeOK /\ EarnedInv /\ ReplayInv
    BY DEF KevinInv
<1>2. PICK m \in Memories : m = handle[h]
    BY <1>1 DEF KevinTypeOK
<1>3. ReceiptFits(e)
    BY DEF RecordedAs
<1>4. after \in Memories /\ after.ws = handle[h].ws /\ after.refs = handle[h].refs
    BY <1>2, <1>3, AppliedIs
<1>5. lineage[handle[h].ws] # <<>>
    BY <1>1, <1>2 DEF ReplayInv, Memories
<1>6. MovesAlike(h, after, e)
    BY <1>2, <1>3, AlikeIs DEF MovesAlike
<1>7. ReplayInv'
    BY <1>1, <1>4, <1>6, FollowsRecorded
<1>8. EarnedInv'
    BY <1>1, <1>4, <1>5, EarnedRecorded
<1>9. /\ LineagesFit' /\ (lineage = [w \in Workspaces |-> lineage[w]])'
      /\ DOMAIN handle' = Handles /\ handle' = [g \in Handles |-> handle'[g]]
      /\ OthersStay(h) /\ handle'[h] \in Memories
    BY <1>1, <1>4, <1>5, RecordedTyped
<1>10. (\A g \in Handles : Live(g) => handle[g] \in Memories)'
    BY <1>1, <1>9 DEF OthersStay, KevinTypeOK, Live
<1>11. KevinTypeOK'
    BY <1>1, <1>9, <1>10 DEF KevinTypeOK
<1> QED
    BY <1>7, <1>8, <1>11 DEF KevinInv

\* And of a call whose receipt is sound before it is recorded.
LEMMA KeptBy ==
    ASSUME KevinInv, NEW h \in Handles, Live(h), NEW kind, NEW value, ValueFits(kind, value),
           NEW after, Records(h, kind, value, after),
           \A e : e.kind = kind /\ e.value = value =>
                    after = ReceiptApplied(handle[h], e) /\ ReceiptSound(e),
           \A e : e.kind = kind /\ e.value = value /\ e.parent = Last(handle[h].refs) =>
                    HoldsThere(h, e),
           bundles' = bundles, transfers' \in SUBSET Exports,
           \A t \in transfers' : t \in transfers \/ ExportHolds(t)
    PROVE  KevinInv'
<1>1. KevinTypeOK /\ EarnedInv /\ ReplayInv
    BY DEF KevinInv
<1>2. PICK m \in Memories : m = handle[h]
    BY <1>1 DEF KevinTypeOK
<1>3. after \in Memories /\ after.ws = m.ws /\ after.refs = m.refs /\ WorkspaceHolds(after)
    <2>1. PICK x : x = [kind |-> kind, index |-> 0, value |-> value, parent |-> 0]
        OBVIOUS
    <2>2. ReceiptFits(x) /\ x.kind = kind /\ x.value = value
        BY <2>1 DEF ReceiptFits
    <2>3. after = ReceiptApplied(m, x) /\ ReceiptSound(x)
        BY <1>2, <2>2
    <2>4. WorkspaceHolds(m)
        BY <1>1, <1>2 DEF EarnedInv
    <2> QED
        BY <2>2, <2>3, <2>4, AppliedIs
<1>4. PICK e, place : RecordedAs(h, kind, value, after, e, place)
    BY <1>1, <1>2, <1>3, RecordsIs
<1>5. /\ e.kind = kind /\ e.value = value /\ e.parent = Last(handle[h].refs)
      /\ lineage[handle[h].ws] # <<>>
    <2>1. m.refs # <<>> /\ lineage[handle[h].ws] # <<>>
        BY <1>1, <1>2 DEF ReplayInv, Memories
    <2> QED
        BY <1>2, <1>4, <2>1 DEF RecordedAs, Last
<1>6. LineagesGrow
    BY <1>1, <1>2, <1>3, <1>4, <1>5, RecordedTyped
<1>7. WorkspaceHolds(after)' /\ ReceiptSound(e)'
    BY <1>3, <1>5, <1>6, MemoryStays, ReceiptStays
<1>8. \A t \in transfers' : t \in transfers \/ ExportHolds(t)'
    BY <1>6, ExportStays
<1> QED
    BY <1>4, <1>5, <1>7, <1>8, Kept

\* propose_revision.
LEMMA ProposeKeeps ==
    ASSUME KevinInv, NEW h \in Handles, NEW change \in Changes, ProposeRevision(h, change)
    PROVE  KevinInv'
<1>1. PICK m \in Memories : m = handle[h] /\ Live(h)
    BY DEF KevinInv, KevinTypeOK, ProposeRevision, Admissible
<1>9. Append(m.active, change) \in Codebooks
    BY DEF Memories, Codebooks
<1>2. PICK book \in Codebooks : book = Append(m.active, change)
    BY <1>9
<1>3. /\ Records(h, "candidate", book, [m EXCEPT !.books = @ \cup {book}])
      /\ UNCHANGED <<bundles, transfers>>
    BY <1>1, <1>2 DEF ProposeRevision, Proposed, Registered
<1>4. ValueFits("candidate", book)
    BY DEF ValueFits
<1>5. ASSUME NEW e, e.kind = "candidate", e.value = book
      PROVE  [m EXCEPT !.books = @ \cup {book}] = ReceiptApplied(m, e) /\ ReceiptSound(e)
    BY <1>5 DEF ReceiptApplied, ReceiptSound
<1>6. Front(book) = m.active
    <2>1. m.active \in Seq(Changes)
        BY DEF Memories, Codebooks
    <2>2. SubSeq(Append(m.active, change), 1, Len(Append(m.active, change)) - 1) = m.active
        BY <2>1
    <2> QED
        BY <1>2, <2>2 DEF Front
<1>7. ASSUME NEW e, e.kind = "candidate", e.value = book
      PROVE  HoldsThere(h, e)
    <2> SUFFICES ASSUME NEW s \in Memories, Matches(m, s), Consistent(s) PROVE ReceiptHolds(s, e)
        BY <1>1 DEF HoldsThere
    <2>1. s.active = m.active
        BY MatchesIs DEF Agrees
    <2>2. Front(e.value) \in s.books
        BY <1>6, <1>7, <2>1 DEF Consistent
    <2> QED
        BY <1>7, <2>2 DEF ReceiptHolds
<1>8. bundles' = bundles /\ transfers' = transfers /\ transfers \in SUBSET Exports
    BY <1>3 DEF KevinInv, KevinTypeOK
<1> QED
    BY <1>1, <1>3, <1>4, <1>5, <1>7, <1>8, KeptBy

\* append_entry.
LEMMA EntryKeeps ==
    ASSUME KevinInv, NEW h \in Handles, NEW id \in EntryIds, AppendEntry(h, id)
    PROVE  KevinInv'
<1>1. PICK m \in Memories : m = handle[h] /\ Live(h)
    BY DEF KevinInv, KevinTypeOK, AppendEntry
<1>2. PICK entry : entry = [id |-> id, book |-> m.active]
    OBVIOUS
<1>3. /\ Records(h, "entry", entry, [m EXCEPT !.entries = @ \cup {entry}])
      /\ UNCHANGED <<bundles, transfers>>
      /\ id \notin {x.id : x \in m.entries}
    BY <1>1, <1>2 DEF AppendEntry
<1>4. ValueFits("entry", entry)
    BY <1>2 DEF ValueFits, Memories
<1>5. ASSUME NEW e, e.kind = "entry", e.value = entry
      PROVE  [m EXCEPT !.entries = @ \cup {entry}] = ReceiptApplied(m, e) /\ ReceiptSound(e)
    BY <1>5 DEF ReceiptApplied, ReceiptSound
<1>7. ASSUME NEW e, e.kind = "entry", e.value = entry
      PROVE  HoldsThere(h, e)
    <2> SUFFICES ASSUME NEW s \in Memories, Matches(m, s), Consistent(s) PROVE ReceiptHolds(s, e)
        BY <1>1 DEF HoldsThere
    <2>1. s.active = m.active /\ s.entries = m.entries
        BY MatchesIs DEF Agrees
    <2>2. e.value.book \in s.books /\ e.value.id \notin {x.id : x \in s.entries}
        BY <1>2, <1>3, <1>7, <2>1 DEF Consistent
    <2> QED
        BY <1>7, <2>2 DEF ReceiptHolds
<1>8. bundles' = bundles /\ transfers' = transfers /\ transfers \in SUBSET Exports
    BY <1>3 DEF KevinInv, KevinTypeOK
<1> QED
    BY <1>1, <1>3, <1>4, <1>5, <1>7, <1>8, KeptBy

\* promote: what it moves to was evaluated against what the handle held.
LEMMA PromoteKeeps ==
    ASSUME KevinInv, NEW h \in Handles, NEW evaluation, Promote(h, evaluation)
    PROVE  KevinInv'
<1>1. PICK m \in Memories : m = handle[h] /\ Live(h) /\ WorkspaceHolds(m)
    BY DEF KevinInv, KevinTypeOK, EarnedInv, Promote
<1>2. PICK value : value = [book |-> evaluation.book, from |-> m.active]
    OBVIOUS
<1>3. /\ Records(h, "promotion", value, [m EXCEPT !.active = evaluation.book])
      /\ UNCHANGED <<bundles, transfers>>
      /\ evaluation \in m.evaluations /\ evaluation.eligible
    BY <1>1, <1>2 DEF Promote
<1>9. evaluation \in Evaluations /\ evaluation = [book |-> evaluation.book, eligible |-> TRUE]
    BY <1>3 DEF Memories, Evaluations
<1>4. ValueFits("promotion", value)
    BY <1>2, <1>9 DEF ValueFits, Memories, Evaluations
<1>10. Earned(evaluation.book)
    BY <1>1, <1>3 DEF WorkspaceHolds, EvaluationHolds
<1>5. ASSUME NEW e, e.kind = "promotion", e.value = value
      PROVE  [m EXCEPT !.active = evaluation.book] = ReceiptApplied(m, e) /\ ReceiptSound(e)
    BY <1>2, <1>5, <1>10 DEF ReceiptApplied, ReceiptSound
<1>7. ASSUME NEW e, e.kind = "promotion", e.value = value
      PROVE  HoldsThere(h, e)
    <2> SUFFICES ASSUME NEW s \in Memories, Matches(m, s), Consistent(s) PROVE ReceiptHolds(s, e)
        BY <1>1 DEF HoldsThere
    <2>1. s.active = m.active /\ s.evaluations = m.evaluations
        BY MatchesIs DEF Agrees
    <2>2. e.value.from = s.active /\ e.value.book = evaluation.book
        BY <1>2, <1>7, <2>1
    <2>3. evaluation.book \in s.books /\ [book |-> evaluation.book, eligible |-> TRUE] \in s.evaluations
        BY <1>3, <1>9, <2>1 DEF Consistent
    <2> QED
        BY <1>7, <2>2, <2>3 DEF ReceiptHolds
<1>8. bundles' = bundles /\ transfers' = transfers /\ transfers \in SUBSET Exports
    BY <1>3 DEF KevinInv, KevinTypeOK
<1> QED
    BY <1>1, <1>3, <1>4, <1>5, <1>7, <1>8, KeptBy

\* recommend_next_round: on evidence about the lineage it recommends.
LEMMA RecommendKeeps ==
    ASSUME KevinInv, NEW h \in Handles, NEW evaluations, Recommend(h, evaluations)
    PROVE  KevinInv'
<1>1. PICK m \in Memories : m = handle[h] /\ Live(h) /\ WorkspaceHolds(m) /\ m.refs # <<>>
    BY DEF KevinInv, KevinTypeOK, EarnedInv, ReplayInv, Recommend, Memories
<1>2. PICK r : r = [ws |-> m.ws, config |-> m.config, book |-> m.active,
                    boundary |-> Last(m.refs), evaluations |-> evaluations]
    OBVIOUS
<1>3. /\ Records(h, "recommendation", r, [m EXCEPT !.recommendations = @ \cup {r}])
      /\ UNCHANGED <<bundles, transfers>>
      /\ evaluations \subseteq m.evaluations
      /\ \A x \in evaluations : x.eligible /\ x.book \in Books(m.active)
    BY <1>1, <1>2 DEF Recommend, EligibleEvidence
<1>9. r \in Recommendations
    <2>1. Last(m.refs) \in Nat
        <3>1. m.refs \in Seq(Nat)
            BY DEF Memories
        <3>2. Len(m.refs) \in 1..Len(m.refs)
            BY <1>1, <3>1
        <3> QED
            BY <3>1, <3>2 DEF Last
    <2>2. evaluations \in SUBSET Evaluations
        BY <1>3 DEF Memories
    <2>3. m.ws \in Workspaces /\ m.config \in Configurations /\ m.active \in Codebooks
        BY DEF Memories
    <2> QED
        BY <1>2, <2>1, <2>2, <2>3 DEF Recommendations
<1>4. ValueFits("recommendation", r)
    BY <1>9 DEF ValueFits
<1>10. RecommendationHolds(r)
    BY <1>1, <1>2, <1>3 DEF WorkspaceHolds, RecommendationHolds, Evidence
<1>5. ASSUME NEW e, e.kind = "recommendation", e.value = r
      PROVE  [m EXCEPT !.recommendations = @ \cup {r}] = ReceiptApplied(m, e) /\ ReceiptSound(e)
    BY <1>5, <1>10 DEF ReceiptApplied, ReceiptSound
<1>7. ASSUME NEW e, e.kind = "recommendation", e.value = r, e.parent = Last(m.refs)
      PROVE  HoldsThere(h, e)
    <2> SUFFICES ASSUME NEW s \in Memories, Matches(m, s), Consistent(s) PROVE ReceiptHolds(s, e)
        BY <1>1 DEF HoldsThere
    <2>1. /\ s.active = m.active /\ s.evaluations = m.evaluations
          /\ s.ws = m.ws /\ s.config = m.config
        BY MatchesIs DEF Agrees
    <2>2. /\ e.value.ws = s.ws /\ e.value.config = s.config /\ e.value.boundary = e.parent
          /\ e.value.book \in s.books /\ e.value.evaluations \subseteq s.evaluations
        BY <1>2, <1>3, <1>7, <2>1 DEF Consistent
    <2> QED
        BY <1>7, <2>2 DEF ReceiptHolds
<1>8. bundles' = bundles /\ transfers' = transfers /\ transfers \in SUBSET Exports
    BY <1>3 DEF KevinInv, KevinTypeOK
<1> QED
    BY <1>1, <1>3, <1>4, <1>5, <1>7, <1>8, KeptBy

\* review_next_round: a refinement was itself evaluated, and what is withheld is outside
\* its lineage.
LEMMA ReviewKeeps ==
    ASSUME KevinInv, NEW h \in Handles, NEW r, NEW book, NEW evaluations, NEW withheld,
           Review(h, r, book, evaluations, withheld)
    PROVE  KevinInv'
<1>1. PICK m \in Memories : m = handle[h] /\ Live(h) /\ WorkspaceHolds(m)
    BY DEF KevinInv, KevinTypeOK, EarnedInv, Review
<1>2. PICK v : v = [of |-> r, book |-> book, config |-> m.config,
                    evaluations |-> evaluations, withheld |-> withheld]
    OBVIOUS
<1>3. /\ Records(h, "review", v, [m EXCEPT !.reviews = @ \cup {v}])
      /\ UNCHANGED <<bundles, transfers>>
      /\ r \in m.recommendations /\ book \in m.books /\ IsPrefix(r.book, book)
      /\ evaluations \subseteq m.evaluations
      /\ \A x \in evaluations : x.eligible /\ x.book \in Books(book)
      /\ book # r.book => book \in {x.book : x \in evaluations}
      /\ withheld \subseteq Alternatives(h, book)
    BY <1>1, <1>2 DEF Review, EligibleEvidence
<1>11. /\ book \in Codebooks /\ r \in Recommendations /\ m.config \in Configurations
       /\ evaluations \in SUBSET Evaluations /\ r.book \in Codebooks
    BY <1>3 DEF Memories, Recommendations
<1>12. /\ withheld \in SUBSET Codebooks /\ withheld \cap LineageDefinitions(book) = {}
    <2>1. \A b \in m.books : Effective(b) \in SUBSET Codebooks
        BY EffectiveTyped DEF Memories
    <2>2. Known(m.books) \in SUBSET Codebooks
        BY <2>1 DEF Known
    <2> QED
        BY <1>1, <1>3, <2>2 DEF Alternatives
<1>9. v \in Judgements
    BY <1>2, <1>11, <1>12 DEF Judgements
<1>4. ValueFits("review", v)
    BY <1>9 DEF ValueFits
<1>10. JudgementHolds(v)
    <2>1. RecommendationHolds(r) /\ \A x \in evaluations : EvaluationHolds(x)
        BY <1>1, <1>3 DEF WorkspaceHolds
    <2>2. Earned(book)
        BY <1>3, <2>1 DEF EvaluationHolds, RecommendationHolds
    <2>3. Books(r.book) \subseteq Books(book)
        BY <1>3, <1>11, BooksPrefix
    <2>4. Evidence(evaluations, book)
        BY <1>3, <2>1 DEF Evidence
    <2> QED
        BY <1>2, <1>12, <2>1, <2>2, <2>3, <2>4 DEF JudgementHolds
<1>5. ASSUME NEW e, e.kind = "review", e.value = v
      PROVE  [m EXCEPT !.reviews = @ \cup {v}] = ReceiptApplied(m, e) /\ ReceiptSound(e)
    BY <1>5, <1>10 DEF ReceiptApplied, ReceiptSound
<1>7. ASSUME NEW e, e.kind = "review", e.value = v
      PROVE  HoldsThere(h, e)
    <2> SUFFICES ASSUME NEW s \in Memories, Matches(m, s), Consistent(s) PROVE ReceiptHolds(s, e)
        BY <1>1 DEF HoldsThere
    <2>1. /\ s.recommendations = m.recommendations /\ s.evaluations = m.evaluations
          /\ s.config = m.config
        BY MatchesIs DEF Agrees
    <2>3. book \in s.books
        BY <1>3, <2>1 DEF Consistent
    <2>2. /\ e.value.of \in s.recommendations /\ e.value.config = s.config
          /\ e.value.book \in s.books /\ e.value.evaluations \subseteq s.evaluations
        BY <1>2, <1>3, <1>7, <2>1, <2>3
    <2> QED
        BY <1>7, <2>2 DEF ReceiptHolds
<1>8. bundles' = bundles /\ transfers' = transfers /\ transfers \in SUBSET Exports
    BY <1>3 DEF KevinInv, KevinTypeOK
<1> QED
    BY <1>1, <1>3, <1>4, <1>5, <1>7, <1>8, KeptBy

\* decide_next_round_adoption.
LEMMA DecideKeeps ==
    ASSUME KevinInv, NEW h \in Handles, NEW r, NEW review \in handle[h].reviews \cup {Absent},
           NEW approve \in BOOLEAN, NEW config \in Configurations,
           Decide(h, r, review, approve, config)
    PROVE  KevinInv'
<1>1. PICK m \in Memories : m = handle[h] /\ Live(h) /\ WorkspaceHolds(m)
    BY DEF KevinInv, KevinTypeOK, EarnedInv, Decide
<1>2. PICK book : book = IF review = Absent THEN r.book ELSE review.book
    OBVIOUS
<1>13. PICK a : a = [of |-> r, review |-> review, book |-> book, approve |-> approve, config |-> config]
    OBVIOUS
<1>3. /\ Records(h, "adoption", a, [m EXCEPT !.adoptions = @ \cup {a}])
      /\ UNCHANGED <<bundles, transfers>>
      /\ r \in m.recommendations
      /\ review # Absent => review \in m.reviews /\ review.of = r
    BY <1>1, <1>2, <1>13 DEF Decide
<1>11. /\ r \in Recommendations /\ review \in Judgements \cup {Absent} /\ book \in Codebooks
    BY <1>2, <1>3 DEF Memories, Recommendations, Judgements
<1>9. a \in Adoptions
    BY <1>11, <1>13 DEF Adoptions
<1>4. ValueFits("adoption", a)
    BY <1>9 DEF ValueFits
<1>10. AdoptionHolds(a)
    BY <1>1, <1>2, <1>3, <1>13 DEF WorkspaceHolds, AdoptionHolds
<1>5. ASSUME NEW e, e.kind = "adoption", e.value = a
      PROVE  [m EXCEPT !.adoptions = @ \cup {a}] = ReceiptApplied(m, e) /\ ReceiptSound(e)
    BY <1>5, <1>10 DEF ReceiptApplied, ReceiptSound
<1>7. ASSUME NEW e, e.kind = "adoption", e.value = a
      PROVE  HoldsThere(h, e)
    <2> SUFFICES ASSUME NEW s \in Memories, Matches(m, s), Consistent(s) PROVE ReceiptHolds(s, e)
        BY <1>1 DEF HoldsThere
    <2>1. /\ s.recommendations = m.recommendations /\ s.reviews = m.reviews
        BY MatchesIs DEF Agrees
    <2>3. book \in s.books
        BY <1>2, <1>3, <2>1 DEF Consistent
    <2>2. /\ e.value.of \in s.recommendations /\ e.value.review \in s.reviews \cup {Absent}
          /\ e.value.book \in s.books
        BY <1>3, <1>7, <1>13, <2>1, <2>3
    <2> QED
        BY <1>7, <2>2 DEF ReceiptHolds
<1>8. bundles' = bundles /\ transfers' = transfers /\ transfers \in SUBSET Exports
    BY <1>3 DEF KevinInv, KevinTypeOK
<1> QED
    BY <1>1, <1>3, <1>4, <1>5, <1>7, <1>8, KeptBy

\* export_transfer.
LEMMA TransferKeeps ==
    ASSUME KevinInv, NEW h \in Handles, NEW a, ExportTransfer(h, a)
    PROVE  KevinInv'
<1>1. PICK m \in Memories : m = handle[h] /\ Live(h) /\ WorkspaceHolds(m)
    BY DEF KevinInv, KevinTypeOK, EarnedInv, ExportTransfer
<1>2. PICK t : t = [bundle |-> a.of, review |-> a.review, adoption |-> a,
                    book |-> a.book, config |-> a.config,
                    evaluations |-> IF a.review = Absent THEN {} ELSE a.review.evaluations]
    OBVIOUS
<1>3. /\ Records(h, "transfer", t, m)
      /\ bundles' = bundles /\ transfers' = transfers \cup {t}
      /\ a \in m.adoptions
    BY <1>1, <1>2 DEF ExportTransfer
<1>11. a \in Adoptions /\ AdoptionHolds(a)
    BY <1>1, <1>3 DEF Memories, WorkspaceHolds
<1>9. t \in Exports
    <2>1. a.review # Absent => a.review.evaluations \in SUBSET Evaluations
        BY <1>11 DEF Adoptions, Judgements
    <2> QED
        BY <1>2, <1>11, <2>1 DEF Adoptions, Exports
<1>4. ValueFits("transfer", t)
    BY <1>9 DEF ValueFits
<1>10. ExportHolds(t)
    BY <1>2, <1>11 DEF ExportHolds
<1>5. ASSUME NEW e, e.kind = "transfer", e.value = t
      PROVE  m = ReceiptApplied(m, e) /\ ReceiptSound(e)
    BY <1>5 DEF ReceiptApplied, ReceiptSound
<1>7. ASSUME NEW e, e.kind = "transfer", e.value = t
      PROVE  HoldsThere(h, e)
    <2> SUFFICES ASSUME NEW s \in Memories, Matches(m, s), Consistent(s) PROVE ReceiptHolds(s, e)
        BY <1>1 DEF HoldsThere
    <2>1. s.adoptions = m.adoptions
        BY MatchesIs DEF Agrees
    <2>2. e.value.adoption \in s.adoptions
        BY <1>2, <1>3, <1>7, <2>1
    <2> QED
        BY <1>7, <2>2 DEF ReceiptHolds
<1>8. transfers' \in SUBSET Exports /\ \A x \in transfers' : x \in transfers \/ ExportHolds(x)
    BY <1>3, <1>9, <1>10 DEF KevinInv, KevinTypeOK
<1> QED
    BY <1>1, <1>3, <1>4, <1>5, <1>7, <1>8, KeptBy

\* evaluate_candidate: an eligible evaluation of what extends an earned codebook earns it.
LEMMA EvaluateKeeps ==
    ASSUME KevinInv, NEW h \in Handles, NEW book, NEW eligible \in BOOLEAN,
           EvaluateCandidate(h, book, eligible)
    PROVE  KevinInv'
<1>1. PICK m \in Memories : m = handle[h] /\ Live(h) /\ WorkspaceHolds(m) /\ m.refs # <<>>
                            /\ lineage[m.ws] # <<>>
    BY DEF KevinInv, KevinTypeOK, EarnedInv, ReplayInv, EvaluateCandidate, Memories
<1>2. PICK x : x = [book |-> book, eligible |-> eligible]
    OBVIOUS
<1>13. PICK after : after = [m EXCEPT !.evaluations = @ \cup {x}]
    OBVIOUS
<1>3. /\ Records(h, "evaluation", x, after)
      /\ UNCHANGED <<bundles, transfers>>
      /\ book \in m.books /\ book \in Returned(m.ws) /\ Extends(book, m.active)
    BY <1>1, <1>2, <1>13 DEF EvaluateCandidate
<1>11. book \in Codebooks /\ x \in Evaluations /\ m.active \in Codebooks /\ m.ws \in Workspaces
    BY <1>2, <1>3 DEF Memories, Evaluations
<1>4. ValueFits("evaluation", x)
    BY <1>11 DEF ValueFits
<1>9. /\ after = [ws |-> m.ws, config |-> m.config, active |-> m.active, books |-> m.books,
                  evaluations |-> m.evaluations \cup {x}, recommendations |-> m.recommendations,
                  bundles |-> m.bundles, reviews |-> m.reviews, adoptions |-> m.adoptions,
                  entries |-> m.entries, refs |-> m.refs]
      /\ after \in Memories
    <2>1. after = [ws |-> m.ws, config |-> m.config, active |-> m.active, books |-> m.books,
                   evaluations |-> m.evaluations \cup {x}, recommendations |-> m.recommendations,
                   bundles |-> m.bundles, reviews |-> m.reviews, adoptions |-> m.adoptions,
                   entries |-> m.entries, refs |-> m.refs]
        BY <1>13, MemoryIs
    <2> QED
        BY <1>11, <2>1 DEF Memories
<1>5. PICK e, place : RecordedAs(h, "evaluation", x, after, e, place)
    BY <1>1, <1>3, <1>4, <1>9, RecordsIs DEF KevinInv
<1>6. e.kind = "evaluation" /\ e.value = x /\ ReceiptFits(e)
    BY <1>5 DEF RecordedAs
<1>7. after = ReceiptApplied(handle[h], e)
    BY <1>1, <1>6, <1>13 DEF ReceiptApplied
<1>8. LineagesGrow
    BY <1>1, <1>5, <1>9, RecordedTyped DEF KevinInv
<1>10. EvaluationHolds(x)'
    <2> SUFFICES ASSUME eligible PROVE Earned(book)'
        BY <1>2 DEF EvaluationHolds
    <2>1. Earned(m.active)'
        BY <1>1, <1>8, EarnedStays DEF WorkspaceHolds
    <2>2. EvaluatedSomewhere(book)'
        <3>1. place \in DOMAIN lineage'[m.ws] /\ lineage'[m.ws][place] = e
            BY <1>1, <1>5 DEF RecordedAs
        <3>2. x = [book |-> book, eligible |-> TRUE]
            BY <1>2
        <3> QED
            BY <1>6, <1>11, <3>1, <3>2 DEF EvaluatedSomewhere
    <2>3. Books(book) \subseteq Books(m.active) \cup {book}
        BY <1>3, <1>11, BooksExtend
    <2> QED
        BY <2>1, <2>2, <2>3 DEF Earned
<1>12. WorkspaceHolds(after)'
    <2>1. WorkspaceHolds(m)'
        BY <1>1, <1>8, MemoryStays
    <2> QED
        BY <1>9, <1>10, <2>1 DEF WorkspaceHolds
<1>14. ReceiptSound(e)'
    BY <1>6, <1>10 DEF ReceiptSound
<1>15. HoldsThere(h, e)
    <2> SUFFICES ASSUME NEW s \in Memories, Returned(m.ws) \subseteq s.books PROVE ReceiptHolds(s, e)
        BY <1>1 DEF HoldsThere
    <2> QED
        BY <1>2, <1>3, <1>6 DEF ReceiptHolds
<1>16. /\ bundles' = bundles /\ transfers' \in SUBSET Exports
       /\ \A t \in transfers' : t \in transfers \/ ExportHolds(t)'
    BY <1>3 DEF KevinInv, KevinTypeOK
<1> QED
    BY <1>1, <1>5, <1>7, <1>12, <1>14, <1>15, <1>16, Kept

-----------------------------------------------------------------------------
\* The other calls: a workspace is opened or restored, a revision is registered whose
\* receipt fails, a recommendation is exported.

\* What is new is good, and what was stays good.
LEMMA EarnedKept ==
    ASSUME EarnedInv, LineagesGrow,
           \A w \in Workspaces : \A i \in DOMAIN lineage'[w] :
               (i \in DOMAIN lineage[w] /\ lineage'[w][i] = lineage[w][i]) \/ ReceiptSound(lineage[w][i])',
           \A g \in Handles : Live(g)' => (Live(g) /\ handle'[g] = handle[g]) \/ WorkspaceHolds(handle[g])',
           \A b \in bundles' : b \in bundles \/ RecommendationHolds(b),
           transfers' = transfers
    PROVE  EarnedInv'
<1>1. (\A w \in Workspaces : \A i \in DOMAIN lineage[w] : ReceiptSound(lineage[w][i]))'
    <2> SUFFICES ASSUME NEW w \in Workspaces, NEW i \in DOMAIN lineage'[w],
                        i \in DOMAIN lineage[w], lineage'[w][i] = lineage[w][i]
                 PROVE  ReceiptSound(lineage[w][i])'
        OBVIOUS
    <2>1. PICK x : x = lineage[w][i]
        OBVIOUS
    <2>2. ReceiptSound(x)'
        BY <2>1, ReceiptStays DEF EarnedInv
    <2> QED
        BY <2>1, <2>2
<1>2. (\A g \in Handles : Live(g) => WorkspaceHolds(handle[g]))'
    <2> SUFFICES ASSUME NEW g \in Handles, Live(g), handle'[g] = handle[g]
                 PROVE  WorkspaceHolds(handle[g])'
        OBVIOUS
    <2>1. PICK x : x = handle[g]
        OBVIOUS
    <2>2. WorkspaceHolds(x)'
        BY <2>1, MemoryStays DEF EarnedInv
    <2> QED
        BY <2>1, <2>2
<1>3. (\A b \in bundles : RecommendationHolds(b))'
    BY RecommendationStays DEF EarnedInv
<1>4. (\A t \in transfers : ExportHolds(t))'
    BY ExportStays DEF EarnedInv
<1> QED
    BY <1>1, <1>2, <1>3, <1>4 DEF EarnedInv

\* No receipt is written, and a handle that changes follows the lineage.
LEMMA HandleKept ==
    ASSUME KevinInv, lineage' = lineage, NEW h \in Handles, NEW m \in Memories,
           handle' = [handle EXCEPT ![h] = m], WorkspaceHolds(m),
           lineage[m.ws] # <<>>, m.refs # <<>>,
           Whole(lineage[m.ws]) => Follows(m, lineage[m.ws]),
           UNCHANGED <<bundles, transfers>>
    PROVE  KevinInv'
<1>1. KevinTypeOK /\ EarnedInv /\ ReplayInv
    BY DEF KevinInv
<1>2. handle'[h] = m /\ \A g \in Handles \ {h} : handle'[g] = handle[g] /\ (Live(g)' => Live(g))
    BY <1>1 DEF KevinTypeOK, Live
<1>3. LineagesGrow
    BY DEF LineagesGrow
<1>4. WorkspaceHolds(handle[h])'
    <2>1. WorkspaceHolds(m)'
        BY <1>3, MemoryStays
    <2> QED
        BY <1>2, <2>1
<1>5. EarnedInv'
    BY <1>1, <1>2, <1>3, <1>4, EarnedKept
<1>6. KevinTypeOK'
    BY <1>1, <1>2 DEF KevinTypeOK, LineagesFit, Live
<1>7. ReplayInv'
    <2> SUFFICES ASSUME NEW w \in Workspaces, NEW g \in Handles, Live(g)', handle'[g].ws = w
                 PROVE  /\ lineage[w] # <<>> /\ handle'[g].refs # <<>>
                        /\ Whole(lineage[w]) => Follows(handle'[g], lineage[w])
        BY <1>1 DEF ReplayInv
    <2>1. CASE g = h
        BY <1>2, <2>1
    <2>2. CASE g # h
        BY <1>1, <1>2, <2>2 DEF ReplayInv
    <2> QED
        BY <2>1, <2>2
<1> QED
    BY <1>5, <1>6, <1>7 DEF KevinInv

\* A revision whose receipt fails.
LEMMA ProposeFailsKeeps ==
    ASSUME KevinInv, NEW h \in Handles, NEW change \in Changes, ProposeFails(h, change)
    PROVE  KevinInv'
<1>1. PICK m \in Memories : m = handle[h] /\ WorkspaceHolds(m) /\ m.refs # <<>>
                            /\ lineage[m.ws] # <<>>
                            /\ (Whole(lineage[m.ws]) => Follows(m, lineage[m.ws]))
    <2>1. PICK m \in Memories : m = handle[h] /\ Live(h)
        BY DEF KevinInv, KevinTypeOK, ProposeFails, Admissible
    <2>2. m.ws \in Workspaces
        BY DEF Memories
    <2>3. WorkspaceHolds(m)
        BY <2>1 DEF KevinInv, EarnedInv
    <2> QED
        BY <2>1, <2>2, <2>3 DEF KevinInv, ReplayInv
<1>2. PICK book : book = Append(m.active, change)
    OBVIOUS
<1>3. book \in Codebooks
    BY <1>2 DEF Memories, Codebooks
<1>4. PICK n : n = [m EXCEPT !.books = @ \cup {book}]
    OBVIOUS
<1>5. /\ n = [ws |-> m.ws, config |-> m.config, active |-> m.active, books |-> m.books \cup {book},
              evaluations |-> m.evaluations, recommendations |-> m.recommendations,
              bundles |-> m.bundles, reviews |-> m.reviews, adoptions |-> m.adoptions,
              entries |-> m.entries, refs |-> m.refs]
      /\ n \in Memories
    <2>1. n = [ws |-> m.ws, config |-> m.config, active |-> m.active, books |-> m.books \cup {book},
               evaluations |-> m.evaluations, recommendations |-> m.recommendations,
               bundles |-> m.bundles, reviews |-> m.reviews, adoptions |-> m.adoptions,
               entries |-> m.entries, refs |-> m.refs]
        BY <1>4, MemoryIs
    <2> QED
        BY <1>3, <2>1 DEF Memories
<1>6. WorkspaceHolds(n)
    BY <1>1, <1>5 DEF WorkspaceHolds
<1>7. ASSUME NEW log, NEW k \in 1..Len(log), Reads(m.ws, log, k), Matches(m, Replayed(log)[k].state)
      PROVE  Matches(n, Replayed(log)[k].state)
    <2>1. PICK s \in Memories : s = Replayed(log)[k].state
        BY <1>7 DEF Reads
    <2>2. Agrees(m, s)
        BY <1>7, <2>1, MatchesIs
    <2>3. Agrees(n, s)
        BY <1>5, <2>2 DEF Agrees
    <2>4. Matches(n, s)
        BY <1>5, <2>3, MatchesIs
    <2> QED
        BY <2>1, <2>4
<1>8. Whole(lineage[m.ws]) => Follows(n, lineage[m.ws])
    <2>1. Whole(lineage[m.ws]) => \A k \in 1..Len(lineage[m.ws]) : Reads(m.ws, lineage[m.ws], k)
        BY DEF KevinInv, ReplayInv, Memories
    <2> QED
        BY <1>1, <1>5, <1>7, <2>1 DEF Follows
<1>9. /\ lineage' = lineage /\ handle' = [handle EXCEPT ![h] = n]
      /\ UNCHANGED <<bundles, transfers>>
    BY <1>1, <1>2, <1>4 DEF ProposeFails, Registered, Proposed
<1> QED
    BY <1>1, <1>5, <1>6, <1>8, <1>9, HandleKept

\* A lineage that nothing broke is whole.
LEMMA UnbrokenIsWhole ==
    ASSUME NEW w, LineageFits(lineage[w]), Unbroken(w)
    PROVE  Whole(lineage[w]) /\ Len(lineage[w]) \in Nat /\ Len(lineage[w]) \in 1..Len(lineage[w])
<1>1. PICK log : log = lineage[w]
    OBVIOUS
<1>2. log \in Seq({log[i] : i \in DOMAIN log}) /\ Len(log) \in Nat /\ DOMAIN log = 1..Len(log)
    BY <1>1 DEF LineageFits, Listed
<1>3. log # <<>> /\ \A i \in DOMAIN log : log[i].index = i - 1 /\ log[i].parent = i - 1
    BY <1>1 DEF Unbroken
<1>4. Len(log) > 0
    BY <1>2, <1>3
<1>5. Whole(log)
    BY <1>2, <1>3, <1>4 DEF Whole
<1>6. Len(log) \in 1..Len(log)
    BY <1>2, <1>4
<1> QED
    BY <1>1, <1>2, <1>5, <1>6

\* restore: an unbroken lineage is whole, and its replay is at its end.
LEMMA RestoreKeeps ==
    ASSUME KevinInv, NEW h \in Handles, NEW w \in Workspaces, RestoreWorkspace(h, w)
    PROVE  KevinInv'
<1>1. LineageFits(lineage[w]) /\ Unbroken(w)
    BY DEF KevinInv, KevinTypeOK, LineagesFit, RestoreWorkspace
<1>2. Len(lineage[w]) \in 1..Len(lineage[w]) /\ Len(lineage[w]) \in Nat
      /\ Whole(lineage[w])
    BY <1>1, UnbrokenIsWhole
<1>3. PICK s \in Memories : s = Replay(w).state /\ Reads(w, lineage[w], Len(lineage[w]))
                            /\ WorkspaceHolds(s)
    <2>1. Reads(w, lineage[w], Len(lineage[w]))
        BY <1>2 DEF KevinInv, ReplayInv
    <2>2. WorkspaceHolds(Replay(w).state)
        BY <1>1, <1>2, ReplayHolds DEF KevinInv, EarnedInv, Replay
    <2> QED
        BY <2>1, <2>2 DEF Reads, Replay
<1>4. s.ws = w /\ s.refs = [i \in 1..Len(lineage[w]) |-> i]
    BY <1>3 DEF Reads, Replay
<1>5. Len(s.refs) = Len(lineage[w]) /\ s.refs # <<>>
    <2>1. s.refs \in Seq(Nat)
        BY DEF Memories
    <2> QED
        BY <1>2, <1>4, <2>1
<1>6. Matches(s, s)
    BY MatchesIs DEF Agrees
<1>7. Follows(s, lineage[w])
    BY <1>2, <1>3, <1>5, <1>6 DEF Follows, Replay
<1>8. /\ lineage' = lineage /\ handle' = [handle EXCEPT ![h] = s]
      /\ UNCHANGED <<bundles, transfers>>
    BY <1>3 DEF RestoreWorkspace
<1>9. lineage[w] # <<>>
    BY <1>1 DEF Unbroken
<1> QED
    BY <1>3, <1>4, <1>5, <1>7, <1>8, <1>9, HandleKept

\* export_recommendation_bundle.
LEMMA BundleKeeps ==
    ASSUME KevinInv, NEW h \in Handles, NEW r, ExportBundle(h, r)
    PROVE  KevinInv'
<1>1. KevinTypeOK /\ EarnedInv /\ ReplayInv
    BY DEF KevinInv
<1>2. PICK m \in Memories : m = handle[h] /\ WorkspaceHolds(m)
    BY DEF KevinInv, KevinTypeOK, EarnedInv, ExportBundle
<1>3. /\ r \in m.recommendations /\ bundles' = bundles \cup {r}
      /\ lineage' = lineage /\ handle' = handle /\ transfers' = transfers
    BY <1>2 DEF ExportBundle
<1>4. r \in Recommendations /\ RecommendationHolds(r)
    BY <1>2, <1>3 DEF Memories, WorkspaceHolds
<1>5. LineagesGrow
    BY <1>3 DEF LineagesGrow
<1>6. EarnedInv'
    BY <1>1, <1>3, <1>4, <1>5, EarnedKept DEF Live
<1>7. KevinTypeOK'
    BY <1>1, <1>3, <1>4 DEF KevinTypeOK, LineagesFit, Live
<1>8. ReplayInv'
    BY <1>1, <1>3 DEF ReplayInv, Live
<1> QED
    BY <1>6, <1>7, <1>8 DEF KevinInv

\* What a workspace of this genesis starts with.
Opened(genesis) ==
    CASE genesis.mode = "blank" -> Blank(genesis.config)
      [] genesis.mode = "review" -> ReviewOf(genesis.from, genesis.config)
      [] genesis.mode = "inherited" -> Inherited(genesis.from)

\* A workspace that opens: its genesis replays to what its handle holds.
LEMMA OpensKeep ==
    ASSUME KevinInv, NEW h \in Handles, NEW opened \in Memories, WorkspaceHolds(opened),
           Consistent(opened), NEW mode, NEW from, Opens(h, mode, from, opened),
           NEW v \in Geneses, v = [mode |-> mode, from |-> from, config |-> opened.config],
           opened = Opened(v),
           mode = "review" => RecommendationHolds(from),
           mode = "inherited" => ExportHolds(from)
    PROVE  KevinInv'
<1>1. KevinTypeOK /\ EarnedInv /\ ReplayInv
    BY DEF KevinInv
<1>2. PICK w \in Workspaces : w = opened.ws
    BY DEF Memories
<1>3. PICK e : e = [kind |-> "genesis", index |-> 0, parent |-> 0, value |-> v]
    OBVIOUS
<1>4. PICK log : log = <<e>>
    OBVIOUS
<1>5. /\ Len(log) = 1 /\ DOMAIN log = 1..Len(log) /\ log[1] = e /\ log # <<>> /\ Listed(log)
    <2>1. log \in Seq({e})
        BY <1>4
    <2>2. Len(log) = 1 /\ DOMAIN log = 1..1 /\ log[1] = e
        BY <1>4
    <2>3. {log[i] : i \in DOMAIN log} = {e}
        BY <2>2
    <2>4. Listed(log)
        BY <2>1, <2>3 DEF Listed
    <2>5. log # <<>>
        BY <1>4
    <2> QED
        BY <2>2, <2>4, <2>5
<1>6. PICK m \in Memories : /\ m = [opened EXCEPT !.refs = <<1>>] /\ m.refs = <<1>> /\ m.ws = w
                            /\ WorkspaceHolds(m) /\ Consistent(m)
    <2>1. <<1>> \in Seq(Nat)
        OBVIOUS
    <2>2. PICK refs \in Seq(Nat) : refs = <<1>>
        BY <2>1
    <2>3. PICK m : m = [opened EXCEPT !.refs = refs]
        OBVIOUS
    <2>4. m \in Memories /\ m.refs = refs /\ m.ws = w /\ WorkspaceHolds(m) /\ Consistent(m)
        BY <1>2, <2>3, RefsChanged
    <2> QED
        BY <2>2, <2>3, <2>4
<1>7. /\ lineage[w] = <<>> /\ lineage' = [lineage EXCEPT ![w] = log]
      /\ handle' = [handle EXCEPT ![h] = m]
      /\ bundles' = bundles /\ transfers' = transfers
    BY <1>2, <1>3, <1>4, <1>6 DEF Opens
<1>8. /\ lineage'[w] = log /\ \A u \in Workspaces \ {w} : lineage'[u] = lineage[u]
      /\ DOMAIN lineage' = Workspaces /\ lineage' = [u \in Workspaces |-> lineage'[u]]
    BY <1>1, <1>7 DEF KevinTypeOK, LineagesFit
<1>9. handle'[h] = m /\ \A g \in Handles \ {h} : handle'[g] = handle[g] /\ (Live(g)' => Live(g))
    BY <1>1, <1>7 DEF KevinTypeOK, Live
<1>10. LineageFits(log)
    <2>1. e = [kind |-> "genesis", index |-> 0, value |-> e.value, parent |-> 0] /\ e.value \in Geneses
        BY <1>3
    <2>2. 2..1 = {} /\ 1 \in Nat
        OBVIOUS
    <2> QED
        BY <1>5, <2>1, <2>2 DEF LineageFits
<1>11. LineagesGrow
    BY <1>7, <1>8 DEF LineagesGrow
<1>12. ReceiptSound(e)'
    <2>1. ReceiptSound(e)
        BY <1>3 DEF ReceiptSound
    <2> QED
        BY <1>11, <2>1, ReceiptStays
<1>13. EarnedInv'
    <2>1. ASSUME NEW u \in Workspaces, NEW i \in DOMAIN lineage'[u]
          PROVE  (i \in DOMAIN lineage[u] /\ lineage'[u][i] = lineage[u][i]) \/ ReceiptSound(lineage[u][i])'
        <3>1. CASE u # w
            BY <1>8, <3>1
        <3>2. CASE u = w
            <4>1. lineage'[u][i] = e
                BY <1>5, <1>8, <3>2
            <4> QED
                BY <1>12, <4>1
        <3> QED
            BY <3>1, <3>2
    <2>2. WorkspaceHolds(m)'
        BY <1>6, <1>11, MemoryStays
    <2>3. \A g \in Handles : Live(g)' => (Live(g) /\ handle'[g] = handle[g]) \/ WorkspaceHolds(handle[g])'
        BY <1>9, <2>2
    <2> QED
        BY <1>1, <1>7, <1>11, <2>1, <2>3, EarnedKept
<1>14. KevinTypeOK'
    BY <1>1, <1>7, <1>8, <1>9, <1>10 DEF KevinTypeOK, LineagesFit
<1>15. Replayed(log)[1] = [ok |-> TRUE, state |-> m]
    <2>1. ReplaysAt(Replayed(log), log, 1)
        BY <1>5, ReplayedIs
    <2>3. log[1].value = v
        <3>1. e.value = v
            BY <1>3
        <3> QED
            BY <1>5, <3>1
    <2>4. Genesis(log) = [ok |-> TRUE, state |-> [Opened(log[1].value) EXCEPT !.refs = <<1>>]]
        BY DEF Genesis, Opened
    <2>2. Genesis(log) = [ok |-> TRUE, state |-> [opened EXCEPT !.refs = <<1>>]]
        BY <2>3, <2>4
    <2> QED
        BY <1>6, <2>1, <2>2 DEF ReplaysAt
<1>16. Reads(w, log, 1) /\ Follows(m, log)
    <2>1. <<1>> = [i \in 1..1 |-> i] /\ Len(<<1>>) = 1
        OBVIOUS
    <2>2. \A i \in 1..1 : log[i].kind # "candidate"
        BY <1>3, <1>5
    <2>3. Matches(m, m)
        BY MatchesIs DEF Agrees
    <2>4. PICK r : r = Replayed(log)[1]
        OBVIOUS
    <2>5. r = [ok |-> TRUE, state |-> m] /\ r.state = m
        BY <1>15, <2>4
    <2>6. Reads(w, log, 1)
        BY <1>6, <2>1, <2>2, <2>4, <2>5 DEF Reads
    <2>7. Len(m.refs) = 1 /\ Len(m.refs) \in 1..Len(log)
        BY <1>5, <1>6, <2>1
    <2>8. Follows(m, log)
        BY <2>3, <2>4, <2>5, <2>7 DEF Follows
    <2> QED
        BY <2>6, <2>8
<1>17. ReplayInv'
    <2> SUFFICES ASSUME NEW u \in Workspaces
                 PROVE  /\ \A g \in Handles : Live(g)' /\ handle'[g].ws = u =>
                              lineage'[u] # <<>> /\ handle'[g].refs # <<>>
                        /\ Whole(lineage'[u]) =>
                             /\ \A n \in 1..Len(lineage'[u]) : Reads(u, lineage'[u], n)
                             /\ \A g \in Handles : Live(g)' /\ handle'[g].ws = u =>
                                  Follows(handle'[g], lineage'[u])
        BY DEF ReplayInv
    <2>1. CASE u = w
        <3>1. \A g \in Handles : Live(g)' /\ handle'[g].ws = w => g = h
            BY <1>1, <1>7, <1>9 DEF ReplayInv
        <3>2. m.refs # <<>>
            BY <1>6
        <3>3. log # <<>> /\ \A n \in 1..Len(log) : Reads(w, log, n)
            BY <1>5, <1>16
        <3>4. \A g \in Handles : Live(g)' /\ handle'[g].ws = w => handle'[g] = m
            BY <1>9, <3>1
        <3> QED
            BY <1>8, <1>16, <2>1, <3>2, <3>3, <3>4
    <2>2. CASE u # w
        <3>1. lineage'[u] = lineage[u]
            BY <1>8, <2>2
        <3>2. \A g \in Handles : Live(g)' /\ handle'[g].ws = u =>
                    Live(g) /\ handle[g].ws = u /\ handle'[g] = handle[g]
            BY <1>6, <1>9, <2>2
        <3>3. PICK x : x = lineage[u]
            OBVIOUS
        <3>4. /\ \A g \in Handles : Live(g) /\ handle[g].ws = u => x # <<>> /\ handle[g].refs # <<>>
              /\ Whole(x) => /\ \A n \in 1..Len(x) : Reads(u, x, n)
                             /\ \A g \in Handles : Live(g) /\ handle[g].ws = u => Follows(handle[g], x)
            BY <1>1, <3>3 DEF ReplayInv
        <3> QED
            BY <3>1, <3>2, <3>3, <3>4
    <2> QED
        BY <2>1, <2>2
<1> QED
    BY <1>13, <1>14, <1>17 DEF KevinInv

\* open_blank: the blank codebook is earned by definition.
LEMMA BlankKeeps ==
    ASSUME KevinInv, NEW h \in Handles, NEW config \in Configurations, OpenBlank(h, config)
    PROVE  KevinInv'
<1>1. Blank(config).config = config
    BY DEF Blank, Workspace
<1>2. PICK v \in Geneses : v = [mode |-> "blank", from |-> Absent, config |-> config]
    BY DEF Geneses
<1>3. Blank(config) = Opened(v)
    BY <1>2 DEF Opened
<1>4. PICK opened \in Memories : opened = Blank(config)
    BY BlankOpens
<1>5. WorkspaceHolds(opened) /\ Consistent(opened) /\ Opens(h, "blank", Absent, opened)
    BY <1>4, BlankOpens DEF OpenBlank
<1> QED
    BY <1>1, <1>2, <1>3, <1>4, <1>5, OpensKeep

\* open_review: the bundle was exported from a workspace where it was earned.
LEMMA ReviewOpenKeeps ==
    ASSUME KevinInv, NEW h \in Handles, NEW b \in bundles, NEW config \in Configurations,
           OpenReview(h, b, config)
    PROVE  KevinInv'
<1>1. ReviewOf(b, config).config = config
    BY DEF ReviewOf, Workspace
<1>6. b \in Recommendations /\ RecommendationHolds(b)
    BY DEF KevinInv, KevinTypeOK, EarnedInv
<1>2. PICK v \in Geneses : v = [mode |-> "review", from |-> b, config |-> config]
    BY <1>6 DEF Geneses
<1>3. ReviewOf(b, config) = Opened(v)
    BY <1>2 DEF Opened
<1>4. PICK opened \in Memories : opened = ReviewOf(b, config)
    BY <1>6, ReviewOpens
<1>5. WorkspaceHolds(opened) /\ Consistent(opened) /\ Opens(h, "review", b, opened)
    BY <1>4, <1>6, ReviewOpens DEF OpenReview
<1> QED
    BY <1>1, <1>2, <1>3, <1>4, <1>5, <1>6, OpensKeep

\* open_inherited: the transfer carries an adopted recommendation.
LEMMA InheritedOpenKeeps ==
    ASSUME KevinInv, NEW h \in Handles, NEW t \in transfers, OpenInherited(h, t)
    PROVE  KevinInv'
<1>1. Inherited(t).config = t.config
    BY DEF Inherited, Workspace
<1>6. t \in Exports /\ ExportHolds(t)
    BY DEF KevinInv, KevinTypeOK, EarnedInv
<1>2. PICK v \in Geneses : v = [mode |-> "inherited", from |-> t, config |-> t.config]
    BY <1>6 DEF Geneses, Exports
<1>3. Inherited(t) = Opened(v)
    BY <1>2 DEF Opened
<1>4. PICK opened \in Memories : opened = Inherited(t)
    BY <1>6, InheritedOpens
<1>5. WorkspaceHolds(opened) /\ Consistent(opened) /\ Opens(h, "inherited", t, opened)
    BY <1>4, <1>6, InheritedOpens DEF OpenInherited
<1> QED
    BY <1>1, <1>2, <1>3, <1>4, <1>5, <1>6, OpensKeep

-----------------------------------------------------------------------------
\* No workspace is open at first.
LEMMA KevinStarts == ASSUME KevinInit PROVE KevinInv
<1>1. \A w \in Workspaces : lineage[w] = <<>>
    BY DEF KevinInit
<1>2. \A h \in Handles : ~Live(h)
    BY DEF KevinInit, Live
<1>3. LineageFits(<<>>)
    <2>1. <<>> \in Seq({<<>>[i] : i \in DOMAIN <<>>}) /\ Len(<<>>) = 0 /\ DOMAIN <<>> = 1..0
        OBVIOUS
    <2> QED
        BY <2>1 DEF LineageFits, Listed
<1>4. KevinTypeOK
    BY <1>1, <1>2, <1>3 DEF KevinTypeOK, LineagesFit, KevinInit
<1>5. EarnedInv
    BY <1>1, <1>2 DEF EarnedInv, KevinInit
<1>6. ReplayInv
    <2>1. \A w \in Workspaces : ~Whole(lineage[w])
        BY <1>1 DEF Whole
    <2> QED
        BY <1>2, <2>1 DEF ReplayInv
<1> QED
    BY <1>4, <1>5, <1>6 DEF KevinInv

\* Every call keeps the invariant.
LEMMA KevinSteps == ASSUME KevinInv, [KevinNext]_kevinVars PROVE KevinInv'
<1>1. CASE UNCHANGED kevinVars
    <2>1. KevinTypeOK'
        BY <1>1 DEF KevinInv, KevinTypeOK, LineagesFit, Live, kevinVars
    <2>2. EarnedInv'
        BY <1>1, EarnedKept DEF KevinInv, LineagesGrow, Live, kevinVars
    <2>3. ReplayInv'
        BY <1>1 DEF KevinInv, ReplayInv, Live, kevinVars
    <2> QED
        BY <2>1, <2>2, <2>3 DEF KevinInv
<1>2. ASSUME NEW h \in Handles, NEW c \in Configurations,
             OpenBlank(h, c) \/ \E b \in bundles : OpenReview(h, b, c)
      PROVE  KevinInv'
    BY <1>2, BlankKeeps, ReviewOpenKeeps
<1>3. ASSUME NEW h \in Handles, NEW t \in transfers, OpenInherited(h, t) PROVE KevinInv'
    BY <1>3, InheritedOpenKeeps
<1>4. ASSUME NEW h \in Handles, NEW w \in Workspaces, RestoreWorkspace(h, w) PROVE KevinInv'
    BY <1>4, RestoreKeeps
<1>5. ASSUME NEW h \in Handles, NEW change \in Changes,
             ProposeRevision(h, change) \/ ProposeFails(h, change)
      PROVE  KevinInv'
    BY <1>5, ProposeKeeps, ProposeFailsKeeps
<1>6. ASSUME NEW h \in Handles, NEW book, NEW eligible \in BOOLEAN, EvaluateCandidate(h, book, eligible)
      PROVE  KevinInv'
    BY <1>6, EvaluateKeeps
<1>7. ASSUME NEW h \in Handles, NEW e, Promote(h, e) PROVE KevinInv'
    BY <1>7, PromoteKeeps
<1>8. ASSUME NEW h \in Handles, NEW id \in EntryIds, AppendEntry(h, id) PROVE KevinInv'
    BY <1>8, EntryKeeps
<1>9. ASSUME NEW h \in Handles, NEW evaluations, Recommend(h, evaluations) PROVE KevinInv'
    BY <1>9, RecommendKeeps
<1>10. ASSUME NEW h \in Handles, NEW r, ExportBundle(h, r) PROVE KevinInv'
    BY <1>10, BundleKeeps
<1>11. ASSUME NEW h \in Handles, NEW r, NEW book, NEW evaluations, NEW withheld,
              Review(h, r, book, evaluations, withheld)
       PROVE  KevinInv'
    BY <1>11, ReviewKeeps
<1>12. ASSUME NEW h \in Handles, NEW r, NEW review \in handle[h].reviews \cup {Absent},
              NEW approve \in BOOLEAN, NEW c \in Configurations, Decide(h, r, review, approve, c)
       PROVE  KevinInv'
    BY <1>12, DecideKeeps
<1>13. ASSUME NEW h \in Handles, NEW a, ExportTransfer(h, a) PROVE KevinInv'
    BY <1>13, TransferKeeps
<1> QED
    BY <1>1, <1>2, <1>3, <1>4, <1>5, <1>6, <1>7, <1>8, <1>9, <1>10, <1>11, <1>12, <1>13
       DEF KevinNext, Changes

\* For any number of handles on the workspaces, and any order of their calls and failures.
THEOREM KevinInvariant == KevinSpec => []KevinInv
<1>1. KevinInit => KevinInv
    BY KevinStarts
<1>2. KevinInv /\ [KevinNext]_kevinVars => KevinInv'
    BY KevinSteps
<1> QED
    BY <1>1, <1>2, PTL DEF KevinSpec

\* Nothing unearned crosses into a successor.
THEOREM TransfersEarned == KevinSpec => []TransfersAreEarned
<1>1. KevinInv => TransfersAreEarned
    BY DEF KevinInv, EarnedInv, TransfersAreEarned, ExportHolds, AdoptionHolds, JudgementHolds,
           RecommendationHolds, Earned
<1> QED
    BY <1>1, KevinInvariant, PTL

\* What handles write, restore accepts.
THEOREM WorkspacesRestored == KevinSpec => []WorkspacesRestore
<1>1. ASSUME KevinInv PROVE WorkspacesRestore
    <2>1. ASSUME NEW w \in Workspaces, Unbroken(w)
          PROVE  /\ Reads(w, lineage[w], Len(lineage[w]))
                 /\ \A h \in Handles : Live(h) /\ handle[h].ws = w => Follows(handle[h], lineage[w])
        <3>1. LineageFits(lineage[w])
            BY <1>1 DEF KevinInv, KevinTypeOK, LineagesFit
        <3>2. Whole(lineage[w]) /\ Len(lineage[w]) \in 1..Len(lineage[w])
            BY <2>1, <3>1, UnbrokenIsWhole
        <3> QED
            BY <1>1, <3>2 DEF KevinInv, ReplayInv
    <2>2. ASSUME NEW w \in Workspaces, Unbroken(w) PROVE Replay(w).ok
        <3>1. PICK r : r = Replay(w)
            OBVIOUS
        <3>2. r = [ok |-> TRUE, state |-> r.state]
            BY <2>1, <2>2, <3>1 DEF Reads, Replay
        <3> QED
            BY <3>1, <3>2
    <2>3. ASSUME NEW h \in Handles, Live(h), Unbroken(handle[h].ws),
                 Len(handle[h].refs) = Len(lineage[handle[h].ws])
          PROVE  LET replayed == Replay(handle[h].ws).state
                 IN  /\ [handle[h] EXCEPT !.books = {}] = [replayed EXCEPT !.books = {}]
                     /\ replayed.books \subseteq handle[h].books
        <3>1. PICK m \in Memories : m = handle[h] /\ m.ws \in Workspaces
            BY <1>1, <2>3 DEF KevinInv, KevinTypeOK, Memories
        <3>2. PICK s \in Memories : s = Replay(m.ws).state
            BY <2>1, <2>3, <3>1 DEF Reads, Replay
        <3>3. Matches(m, s)
            BY <2>1, <2>3, <3>1, <3>2 DEF Follows, Replay
        <3>4. Agrees(m, s)
            BY <3>3, MatchesIs
        <3>5. [m EXCEPT !.books = {}] = [s EXCEPT !.books = {}]
            BY <3>4, MemoryIs DEF Agrees
        <3> QED
            BY <3>1, <3>2, <3>4, <3>5 DEF Agrees
    <2> QED
        BY <2>2, <2>3 DEF WorkspacesRestore
<1> QED
    BY <1>1, KevinInvariant, PTL

-----------------------------------------------------------------------------
\* Scribe sessions restore.

\* Each request and material is what restore expects at its place.
ReceiptReplays(s, i) ==
    /\ journal[s][i].kind = "request" =>
          RequestReplays(s, i) /\ journal[s][i].before \in 0..Len(kevin)
    /\ journal[s][i].kind = "material" => MaterialReplays(s, i)
ReceiptsReplay == \A s \in Sessions : \A i \in DOMAIN journal[s] : ReceiptReplays(s, i)
\* A cycle's receipt declares what the workspace holds of it.
FewMaterials(x) ==
    Cardinality(x.adaptation) < MinAdaptation \/ Cardinality(x.validation) < MinValidation
CycleStands(s, y) ==
    /\ y.cycle \in Requested(s)
    /\ y.frozen = (y.cycle \in Frozen(s))
    /\ y.lineage = Lineage(s, y.cycle)
    /\ y.status = "DEFERRED" => FewMaterials(y)
    /\ y.status = "PROMOTED" => "promotion" \in y.lineage
CyclesStand == \A s \in Sessions : \A y \in Values(s, "cycle") : CycleStands(s, y)
\* One cycle at a time is unfinished, and only a requested one is frozen.
OneUnfinished ==
    \A s \in Sessions :
        /\ Frozen(s) \subseteq Requested(s)
        /\ \A c, d \in Unfinished(s) : c = d
\* The operation at work holds the unfinished cycle, and its point tells how far the
\* workspace has followed that cycle.
LineageDue(point, held) ==
    /\ point \in {"deferring", "asking", "drafted", "frozen"} => held = {}
    /\ point = "proposed" => held = {"candidate"}
    /\ point \in {"eligible", "not_earned"} => held = {"candidate", "evaluation"}
    /\ point = "promoted" => held = {"candidate", "evaluation", "promotion"}
HandFollows ==
    \A s \in Sessions : doing # "rest" /\ hand.s = s =>
        /\ doing = "ingesting" =>
            /\ Unfinished(s) = {}
            /\ [s |-> s, ordinal |-> hand.material.ordinal, payload |-> hand.material.payload]
                 \in entries
        /\ doing \in CyclePoints =>
            /\ hand.cycle \in Unfinished(s)
            /\ LineageDue(doing, Lineage(s, hand.cycle))
            /\ doing \in {"deferring", "asking", "drafted"} => hand.cycle \notin Frozen(s)
            /\ doing = "deferring" => FewMaterials(Request(s, hand.cycle))
RestoreInv == ScribeInv /\ ReceiptsReplay /\ CyclesStand /\ OneUnfinished /\ HandFollows

\* The workspace's history only grows, so what it said at a place it still says.
KevinGrows ==
    /\ Len(kevin) \in Nat /\ Len(kevin') \in Nat /\ Len(kevin) <= Len(kevin')
    /\ \A n \in 0..Len(kevin) : SubSeq(kevin', 1, n) = SubSeq(kevin, 1, n)

\* A receipt that is in the journal with everything before it replays as before.
LEMMA ReceiptStillReplays ==
    ASSUME NEW s, NEW i, ReceiptReplays(s, i), journal'[s][i] = journal[s][i],
           \A kind : Upto(s, kind, i)' = Upto(s, kind, i), KevinGrows, entries \subseteq entries'
    PROVE  ReceiptReplays(s, i)'
<1>1. ASSUME journal[s][i].kind = "request"
      PROVE  RequestReplays(s, i)' /\ journal'[s][i].before \in 0..Len(kevin')
    <2>1. PICK n \in 0..Len(kevin) : n = journal[s][i].before
        BY <1>1 DEF ReceiptReplays
    <2>2. SubSeq(kevin', 1, n) = SubSeq(kevin, 1, n) /\ n \in 0..Len(kevin')
        BY DEF KevinGrows
    <2>3. RequestReplays(s, i)
        BY <1>1 DEF ReceiptReplays
    <2>4. /\ Upto(s, "request", i)' = Upto(s, "request", i)
          /\ Upto(s, "cycle", i)' = Upto(s, "cycle", i)
          /\ Upto(s, "material", i)' = Upto(s, "material", i)
        OBVIOUS
    <2> QED
        BY <2>1, <2>2, <2>3, <2>4 DEF RequestReplays
<1>2. ASSUME journal[s][i].kind = "material" PROVE MaterialReplays(s, i)'
    <2>1. MaterialReplays(s, i)
        BY <1>2 DEF ReceiptReplays
    <2>2. /\ Upto(s, "request", i)' = Upto(s, "request", i)
          /\ Upto(s, "cycle", i)' = Upto(s, "cycle", i)
          /\ Upto(s, "material", i)' = Upto(s, "material", i)
        OBVIOUS
    <2> QED
        BY <2>1, <2>2 DEF MaterialReplays
<1> QED
    BY <1>1, <1>2 DEF ReceiptReplays

\* Where a receipt goes: behind the others, which stay.
LEMMA JournalPlaces ==
    ASSUME JournalsAreSequences, NEW s0 \in Sessions, NEW kind0, NEW value0,
           Journals(s0, kind0, value0)
    PROVE  \E n \in Nat :
            /\ DOMAIN journal[s0] = 1..n /\ DOMAIN journal'[s0] = 1..(n + 1)
            /\ \A i \in 1..n : journal'[s0][i] = journal[s0][i]
            /\ journal'[s0][n + 1].kind = kind0 /\ journal'[s0][n + 1].value = value0
            /\ journal'[s0][n + 1].before = Len(kevin)
            /\ \A s \in Sessions \ {s0} : journal'[s] = journal[s]
            /\ \A s \in Sessions : \A i \in DOMAIN journal[s] : \A kind :
                    Upto(s, kind, i)' = Upto(s, kind, i)
            /\ \A kind : Upto(s0, kind, n + 1)' = Values(s0, kind)
<1>r. PICK r : r = [kind |-> kind0, value |-> value0, before |-> Len(kevin)]
    OBVIOUS
<1>1. r.kind = kind0 /\ r.value = value0 /\ r.before = Len(kevin)
    BY <1>r
<1>2. /\ journal' = [journal EXCEPT ![s0] = Append(@, r)]
      /\ journal = [s \in Sessions |-> journal[s]]
      /\ journal[s0] \in Seq(Range(journal[s0]))
      /\ \A s \in Sessions : journal[s] \in Seq(Range(journal[s]))
    BY <1>r DEF Journals, JournalsAreSequences
<1>3. /\ journal'[s0] = Append(journal[s0], r)
      /\ \A s \in Sessions \ {s0} : journal'[s] = journal[s]
    BY <1>2
<1>5. PICK q : q = journal[s0]
    OBVIOUS
<1>n. PICK n \in Nat : n = Len(q)
    BY <1>2, <1>5
<1>6. /\ DOMAIN q = 1..n /\ DOMAIN Append(q, r) = 1..(n + 1)
      /\ \A i \in 1..n : Append(q, r)[i] = q[i]
      /\ Append(q, r)[n + 1] = r
    <2>1. q \in Seq(Range(q))
        BY <1>2, <1>5
    <2> QED
        BY <2>1, <1>n
<1>7. PICK more : more = journal'[s0]
    OBVIOUS
<1>8. /\ DOMAIN q = 1..n /\ DOMAIN more = 1..(n + 1)
      /\ \A i \in 1..n : more[i] = q[i]
      /\ more[n + 1] = r
    BY <1>3, <1>5, <1>6, <1>7
<1>9. ASSUME NEW s \in Sessions, NEW i \in DOMAIN journal[s], NEW kind
      PROVE  Upto(s, kind, i)' = Upto(s, kind, i)
    <2>1. CASE s # s0
        BY <1>3, <2>1 DEF Upto, Receipts
    <2>2. CASE s = s0
        <3>1. Upto(s, kind, i) = {q[j].value : j \in {k \in {l \in DOMAIN q : q[l].kind = kind} : k < i}}
            BY <1>5, <2>2 DEF Upto, Receipts
        <3>2. Upto(s, kind, i)' =
                {more[j].value : j \in {k \in {l \in DOMAIN more : more[l].kind = kind} : k < i}}
            BY <1>7, <2>2 DEF Upto, Receipts
        <3>3. i \in 1..n
            BY <1>5, <1>8, <2>2
        <3>4. {k \in {l \in DOMAIN more : more[l].kind = kind} : k < i}
                = {k \in {l \in DOMAIN q : q[l].kind = kind} : k < i}
            BY <1>8, <3>3
        <3>5. \A j \in {k \in {l \in DOMAIN q : q[l].kind = kind} : k < i} : more[j] = q[j]
            BY <1>8
        <3> QED
            BY <3>1, <3>2, <3>4, <3>5
    <2> QED
        BY <2>1, <2>2
<1>10. ASSUME NEW kind PROVE Upto(s0, kind, n + 1)' = Values(s0, kind)
    <2>1. Values(s0, kind) = {q[j].value : j \in {l \in DOMAIN q : q[l].kind = kind}}
        BY <1>5 DEF Values, Receipts
    <2>2. Upto(s0, kind, n + 1)' =
            {more[j].value : j \in {k \in {l \in DOMAIN more : more[l].kind = kind} : k < n + 1}}
        BY <1>7 DEF Upto, Receipts
    <2>3. {k \in {l \in DOMAIN more : more[l].kind = kind} : k < n + 1}
            = {l \in DOMAIN q : q[l].kind = kind}
        BY <1>8
    <2>4. \A j \in {l \in DOMAIN q : q[l].kind = kind} : more[j] = q[j]
        BY <1>8
    <2> QED
        BY <2>1, <2>2, <2>3, <2>4
<1> QED
    BY <1>1, <1>3, <1>5, <1>7, <1>8, <1>9, <1>10

\* A history that stays has grown by nothing.
LEMMA KevinStays == ASSUME ScribeInv, UNCHANGED kevin PROVE KevinGrows
BY DEF ScribeInv, JournalsAreSequences, KevinGrows

\* All of a history is the history.
LEMMA WholeHistory == ASSUME ScribeInv PROVE ActiveAfter(SubSeq(kevin, 1, Len(kevin))) = Active
<1>1. kevin \in Seq(Range(kevin))
    BY DEF ScribeInv, JournalsAreSequences
<1>2. SubSeq(kevin, 1, Len(kevin)) = kevin
    BY <1>1
<1> QED
    BY <1>2 DEF Active

\* Where nothing is journaled, receipts replay and cycles stand as they did.
LEMMA RestoreQuiet ==
    ASSUME RestoreInv, UNCHANGED <<journal, kevin>>, entries \subseteq entries'
    PROVE  /\ ReceiptsReplay' /\ CyclesStand' /\ OneUnfinished'
           /\ \A s : /\ Requested(s)' = Requested(s) /\ Unfinished(s)' = Unfinished(s)
                     /\ Frozen(s)' = Frozen(s)
                     /\ \A c : Lineage(s, c)' = Lineage(s, c) /\ Request(s, c)' = Request(s, c)
<1>1. \A s : \A kind : Values(s, kind)' = Values(s, kind)
    BY DEF Values, Receipts
<1>2. \A s : /\ Requested(s)' = Requested(s) /\ Unfinished(s)' = Unfinished(s)
             /\ Frozen(s)' = Frozen(s)
             /\ \A c : Lineage(s, c)' = Lineage(s, c) /\ Request(s, c)' = Request(s, c)
    BY <1>1 DEF Requested, Unfinished, Finished, Frozen, Lineage, OfCycle, Request
<1>3. ReceiptsReplay'
    <2> SUFFICES ASSUME NEW s \in Sessions, NEW i \in DOMAIN journal[s]
                 PROVE  ReceiptReplays(s, i)'
        BY DEF ReceiptsReplay
    <2>1. \A kind : Upto(s, kind, i)' = Upto(s, kind, i)
        BY DEF Upto, Receipts
    <2> QED
        BY <2>1, KevinStays, ReceiptStillReplays DEF RestoreInv, ReceiptsReplay
<1>4. CyclesStand'
    BY <1>1, <1>2 DEF RestoreInv, CyclesStand, CycleStands
<1>5. OneUnfinished'
    BY <1>2 DEF RestoreInv, OneUnfinished
<1> QED
    BY <1>2, <1>3, <1>4, <1>5

\* What is journaled replays if a request or a material is what restore expects next.
LEMMA JournalReplays ==
    ASSUME RestoreInv, NEW s0 \in Sessions, NEW kind0, NEW value0, Journals(s0, kind0, value0),
           UNCHANGED <<kevin, entries>>,
           kind0 = "request" =>
                /\ Requested(s0) = Finished(s0)
                /\ value0.adaptation = Adaptation(Materials(s0), Processed(Values(s0, "cycle")))
                /\ value0.validation = Validation(Materials(s0), Processed(Values(s0, "cycle")))
                /\ value0.active = Active,
           kind0 = "material" =>
                /\ Requested(s0) = Finished(s0)
                /\ \A m \in Materials(s0) : m.ordinal < value0.ordinal
                /\ [s |-> s0, ordinal |-> value0.ordinal, payload |-> value0.payload] \in entries
    PROVE  ReceiptsReplay'
<1>1. JournalsAreSequences
    BY DEF RestoreInv, ScribeInv
<1>2. PICK n \in Nat :
        /\ DOMAIN journal[s0] = 1..n /\ DOMAIN journal'[s0] = 1..(n + 1)
        /\ \A i \in 1..n : journal'[s0][i] = journal[s0][i]
        /\ journal'[s0][n + 1].kind = kind0 /\ journal'[s0][n + 1].value = value0
        /\ journal'[s0][n + 1].before = Len(kevin)
        /\ \A s \in Sessions \ {s0} : journal'[s] = journal[s]
        /\ \A s \in Sessions : \A i \in DOMAIN journal[s] : \A kind :
                Upto(s, kind, i)' = Upto(s, kind, i)
        /\ \A kind : Upto(s0, kind, n + 1)' = Values(s0, kind)
    BY <1>1, JournalPlaces
<1>3. KevinGrows /\ Len(kevin) \in Nat
    BY KevinStays DEF RestoreInv, KevinGrows
<1>4. ASSUME NEW s \in Sessions, NEW i \in DOMAIN journal[s], journal'[s][i] = journal[s][i]
      PROVE  ReceiptReplays(s, i)'
    <2>1. \A kind : Upto(s, kind, i)' = Upto(s, kind, i)
        BY <1>2
    <2>2. ReceiptReplays(s, i)
        BY DEF RestoreInv, ReceiptsReplay
    <2> QED
        BY <1>3, <1>4, <2>1, <2>2, ReceiptStillReplays
<1>5. ReceiptReplays(s0, n + 1)'
    <2>1. PICK i : i = n + 1
        OBVIOUS
    <2>2. /\ journal'[s0][i].kind = kind0 /\ journal'[s0][i].value = value0
          /\ journal'[s0][i].before = Len(kevin)
          /\ Upto(s0, "request", i)' = Values(s0, "request")
          /\ Upto(s0, "cycle", i)' = Values(s0, "cycle")
          /\ Upto(s0, "material", i)' = Values(s0, "material")
        BY <1>2, <2>1
    <2>3. ASSUME kind0 = "request"
          PROVE  RequestReplays(s0, i)' /\ journal'[s0][i].before \in 0..Len(kevin')
        <3>1. ActiveAfter(SubSeq(kevin', 1, Len(kevin))) = Active
            BY WholeHistory DEF RestoreInv
        <3>2. {r.cycle : r \in Values(s0, "request")} = {y.cycle : y \in Values(s0, "cycle")}
            BY <2>3 DEF Requested, Finished
        <3> QED
            <4>1. {r.cycle : r \in Upto(s0, "request", i)'} = {y.cycle : y \in Upto(s0, "cycle", i)'}
                BY <2>2, <3>2
            <4>2. /\ value0.adaptation = Adaptation(Values(s0, "material"), Processed(Values(s0, "cycle")))
                  /\ value0.validation = Validation(Values(s0, "material"), Processed(Values(s0, "cycle")))
                  /\ value0.active = Active
                BY <2>3 DEF Materials
            <4>3. /\ value0.adaptation = Adaptation(Upto(s0, "material", i)', Processed(Upto(s0, "cycle", i)'))
                  /\ value0.validation = Validation(Upto(s0, "material", i)', Processed(Upto(s0, "cycle", i)'))
                BY <2>2, <4>2
            <4>4. value0.active = ActiveAfter(SubSeq(kevin', 1, journal'[s0][i].before))
                BY <2>2, <3>1, <4>2
            <4>5. RequestReplays(s0, i)'
                BY <2>2, <4>1, <4>3, <4>4 DEF RequestReplays
            <4> QED
                BY <1>3, <2>2, <4>5
    <2>4. ASSUME kind0 = "material" PROVE MaterialReplays(s0, i)'
        <3>1. {r.cycle : r \in Values(s0, "request")} = {y.cycle : y \in Values(s0, "cycle")}
            BY <2>4 DEF Requested, Finished
        <3> QED
            BY <2>2, <2>4, <3>1 DEF MaterialReplays, Materials
    <2> QED
        BY <2>1, <2>2, <2>3, <2>4 DEF ReceiptReplays
<1>6. ASSUME NEW s \in Sessions, NEW i \in DOMAIN journal'[s] PROVE ReceiptReplays(s, i)'
    <2>1. CASE s # s0
        BY <1>2, <1>4, <2>1
    <2>2. CASE s = s0 /\ i \in 1..n
        BY <1>2, <1>4, <2>2
    <2>3. CASE s = s0 /\ i = n + 1
        BY <1>5, <2>3
    <2> QED
        BY <1>2, <2>1, <2>2, <2>3
<1> QED
    BY <1>6 DEF ReceiptsReplay

\* What a journaled receipt changes in what is read from the journals.
LEMMA JournalSays ==
    ASSUME RestoreInv, NEW s0 \in Sessions, NEW kind0, NEW value0, Journals(s0, kind0, value0),
           UNCHANGED kevin
    PROVE  \A s \in Sessions :
            /\ \A c : Lineage(s, c)' = Lineage(s, c)
            /\ \A kind : Values(s, kind)' = IF s = s0 /\ kind = kind0
                                            THEN Values(s, kind) \cup {value0} ELSE Values(s, kind)
            /\ Requested(s)' = IF s = s0 /\ kind0 = "request"
                               THEN Requested(s) \cup {value0.cycle} ELSE Requested(s)
            /\ Finished(s)' = IF s = s0 /\ kind0 = "cycle"
                              THEN Finished(s) \cup {value0.cycle} ELSE Finished(s)
            /\ Frozen(s)' = IF s = s0 /\ kind0 = "frozen"
                            THEN Frozen(s) \cup {value0.cycle} ELSE Frozen(s)
<1>1. ASSUME NEW s \in Sessions, NEW kind
      PROVE  Values(s, kind)' = IF s = s0 /\ kind = kind0 THEN Values(s, kind) \cup {value0}
                                ELSE Values(s, kind)
    BY JournalGrows DEF RestoreInv, ScribeInv
<1>2. ASSUME NEW s \in Sessions, NEW c PROVE Lineage(s, c)' = Lineage(s, c)
    BY DEF Lineage, OfCycle
<1>3. ASSUME NEW s \in Sessions
      PROVE  /\ Requested(s)' = IF s = s0 /\ kind0 = "request"
                                THEN Requested(s) \cup {value0.cycle} ELSE Requested(s)
             /\ Finished(s)' = IF s = s0 /\ kind0 = "cycle"
                               THEN Finished(s) \cup {value0.cycle} ELSE Finished(s)
             /\ Frozen(s)' = IF s = s0 /\ kind0 = "frozen"
                             THEN Frozen(s) \cup {value0.cycle} ELSE Frozen(s)
    <2>1. \A A : {x.cycle : x \in A \cup {value0}} = {x.cycle : x \in A} \cup {value0.cycle}
        OBVIOUS
    <2> QED
        BY <1>1, <2>1 DEF Requested, Finished, Frozen
<1> QED
    BY <1>1, <1>2, <1>3

\* A session that opens has nothing to restore but its genesis.
LEMMA OpenRestores ==
    ASSUME RestoreInv, NEW s0 \in Sessions, Open(s0) PROVE RestoreInv'
<1>1. /\ Journals(s0, "genesis", Nothing) /\ UNCHANGED <<kevin, entries>>
      /\ doing = "rest" /\ doing' = doing
    BY DEF Open
<1>2. ScribeInv'
    BY OpenStep DEF RestoreInv
<1>3. ReceiptsReplay'
    BY <1>1, JournalReplays
<1>4. \A s \in Sessions :
        /\ \A c : Lineage(s, c)' = Lineage(s, c)
        /\ Values(s, "cycle")' = Values(s, "cycle")
        /\ Requested(s)' = Requested(s) /\ Finished(s)' = Finished(s) /\ Frozen(s)' = Frozen(s)
    BY <1>1, JournalSays
<1>5. CyclesStand'
    BY <1>4 DEF RestoreInv, CyclesStand, CycleStands
<1>6. OneUnfinished'
    BY <1>4 DEF RestoreInv, OneUnfinished, Unfinished
<1>7. HandFollows'
    BY <1>1 DEF HandFollows
<1> QED
    BY <1>2, <1>3, <1>5, <1>6, <1>7 DEF RestoreInv

\* The entry that a material will name is in the workspace first.
LEMMA IngestRestores ==
    ASSUME RestoreInv, NEW s0 \in Sessions, NEW ordinal \in Nat, NEW payload,
           Ingest(s0, ordinal, payload)
    PROVE  RestoreInv'
<1>1. /\ UNCHANGED <<journal, kevin>> /\ doing' = "ingesting"
      /\ hand' = [s |-> s0, material |-> [ordinal |-> ordinal, payload |-> payload]]
      /\ entries' = entries \cup {[s |-> s0, ordinal |-> ordinal, payload |-> payload]}
      /\ Unfinished(s0) = {}
    BY DEF Ingest, Goes
<1>2. ScribeInv'
    BY IngestStep DEF RestoreInv
<1>3. ReceiptsReplay' /\ CyclesStand' /\ OneUnfinished' /\ Unfinished(s0)' = Unfinished(s0)
    BY <1>1, RestoreQuiet
<1>4. hand'.s = s0 /\ hand'.material.ordinal = ordinal /\ hand'.material.payload = payload
    BY <1>1
<1>5. HandFollows'
    BY <1>1, <1>3, <1>4 DEF HandFollows, CyclePoints
<1> QED
    BY <1>2, <1>3, <1>5 DEF RestoreInv

\* A material comes after all others, when no cycle is open, and its entry is there.
LEMMA MaterialRestores ==
    ASSUME RestoreInv, IngestMaterial PROVE RestoreInv'
<1>1. /\ doing = "ingesting" /\ doing' = "rest" /\ UNCHANGED <<kevin, entries>>
      /\ Journals(hand.s, "material", hand.material)
    BY DEF IngestMaterial, Goes
<1>h. PICK s0 \in Sessions : s0 = hand.s
    BY <1>1 DEF RestoreInv, ScribeInv, HandHolds
<1>l. PICK late : late = hand.material
    OBVIOUS
<1>2. ScribeInv'
    BY IngestMaterialStep DEF RestoreInv
<1>3. Journals(s0, "material", late)
    BY <1>1, <1>h, <1>l
<1>4. /\ \A m \in Materials(s0) : m.ordinal < late.ordinal
      /\ [s |-> s0, ordinal |-> late.ordinal, payload |-> late.payload] \in entries
      /\ Unfinished(s0) = {}
    BY <1>1, <1>h, <1>l DEF RestoreInv, ScribeInv, HandHolds, HandFollows
<1>5. Requested(s0) = Finished(s0)
    BY <1>4 DEF RestoreInv, CyclesStand, CycleStands, Unfinished, Finished
<1>6. ReceiptsReplay'
    BY <1>1, <1>3, <1>4, <1>5, JournalReplays
<1>7. \A s \in Sessions :
        /\ \A c : Lineage(s, c)' = Lineage(s, c)
        /\ Values(s, "cycle")' = Values(s, "cycle")
        /\ Requested(s)' = Requested(s) /\ Finished(s)' = Finished(s) /\ Frozen(s)' = Frozen(s)
    BY <1>1, <1>3, JournalSays
<1>8. CyclesStand'
    BY <1>7 DEF RestoreInv, CyclesStand, CycleStands
<1>9. OneUnfinished'
    BY <1>7 DEF RestoreInv, OneUnfinished, Unfinished
<1>10. HandFollows'
    BY <1>1 DEF HandFollows
<1> QED
    BY <1>2, <1>6, <1>8, <1>9, <1>10 DEF RestoreInv

\* A new cycle has not been requested, frozen or written about before.
LEMMA NewCycleIsNew ==
    ASSUME ScribeInv, NEW s \in Sessions
    PROVE  NewCycle \notin Requested(s)
<1>1. PICK n \in 0..MaxCycles : UNION {Requested(t) : t \in Sessions} = 1..n
    BY DEF ScribeInv, CyclesNumbered
<1>2. Cardinality(1..n) = n
    BY FS_Interval
<1>3. NewCycle = n + 1
    BY <1>1, <1>2 DEF NewCycle
<1> QED
    BY <1>1, <1>3

\* Of a cycle that is not frozen the workspace holds nothing.
LEMMA NotFrozenBare ==
    ASSUME ScribeInv, NEW s \in Sessions, NEW c, c \notin Frozen(s)
    PROVE  Lineage(s, c) = {}
<1>1. \A i \in DOMAIN kevin : kevin[i].by # <<s, c>>
    <2> SUFFICES ASSUME NEW i \in DOMAIN kevin, kevin[i].by = <<s, c>> PROVE FALSE
        OBVIOUS
    <2>1. PICK t \in Sessions, d \in CycleIds : kevin[i].by = <<t, d>> /\ d \in Frozen(t)
        BY DEF ScribeInv, WorkspaceFollows
    <2> QED
        BY <2>1
<1> QED
    BY <1>1 DEF Lineage, OfCycle

\* A request splits the materials there are, and its cycle is the only one left open.
LEMMA RequestRestores ==
    ASSUME RestoreInv, NEW s0 \in Sessions, RequestCycle(s0) PROVE RestoreInv'
<1>d. PICK done : done = Processed(Values(s0, "cycle"))
    OBVIOUS
<1>a. PICK a : a = Adaptation(Materials(s0), done)
    OBVIOUS
<1>v. PICK v : v = Validation(Materials(s0), done)
    OBVIOUS
<1>c. PICK c0 : c0 = NewCycle
    OBVIOUS
<1>r. PICK r : r = [cycle |-> c0, active |-> Active, adaptation |-> a, validation |-> v]
    OBVIOUS
<1>1. /\ Journals(s0, "request", r) /\ UNCHANGED <<kevin, entries>>
      /\ Unfinished(s0) = {}
      /\ hand' = [s |-> s0, cycle |-> c0]
      /\ doing' = IF Cardinality(a) < MinAdaptation \/ Cardinality(v) < MinValidation
                  THEN "deferring" ELSE "asking"
    BY <1>c, <1>d, <1>a, <1>v, <1>r DEF RequestCycle, Goes
<1>2. r.cycle = c0 /\ r.active = Active /\ r.adaptation = a /\ r.validation = v
    BY <1>r
<1>3. ScribeInv'
    BY RequestCycleStep DEF RestoreInv
<1>4. Requested(s0) = Finished(s0)
    BY <1>1 DEF RestoreInv, CyclesStand, CycleStands, Unfinished, Finished
<1>5. ReceiptsReplay'
    <2>1. /\ r.adaptation = Adaptation(Materials(s0), Processed(Values(s0, "cycle")))
          /\ r.validation = Validation(Materials(s0), Processed(Values(s0, "cycle")))
          /\ r.active = Active
        BY <1>2, <1>d, <1>a, <1>v
    <2> QED
        BY <1>1, <1>4, <2>1, JournalReplays
<1>6. \A s \in Sessions :
        /\ \A c : Lineage(s, c)' = Lineage(s, c)
        /\ Values(s, "cycle")' = Values(s, "cycle")
        /\ Finished(s)' = Finished(s) /\ Frozen(s)' = Frozen(s)
        /\ Requested(s)' = IF s = s0 THEN Requested(s) \cup {c0} ELSE Requested(s)
    BY <1>1, <1>2, JournalSays
<1>7. CyclesStand'
    BY <1>6 DEF RestoreInv, CyclesStand, CycleStands
<1>8. c0 \notin Requested(s0) /\ c0 \notin Finished(s0) /\ c0 \notin Frozen(s0)
    <2>1. c0 \notin Requested(s0)
        BY <1>c, NewCycleIsNew DEF RestoreInv
    <2>2. Frozen(s0) \subseteq Requested(s0)
        BY DEF RestoreInv, OneUnfinished
    <2> QED
        BY <1>4, <2>1, <2>2
<1>9. Unfinished(s0)' = {c0} /\ \A s \in Sessions \ {s0} : Unfinished(s)' = Unfinished(s)
    BY <1>4, <1>6, <1>8 DEF Unfinished
<1>10. OneUnfinished'
    <2> SUFFICES ASSUME NEW s \in Sessions
                 PROVE  /\ Frozen(s)' \subseteq Requested(s)'
                        /\ \A c, d \in Unfinished(s)' : c = d
        BY DEF OneUnfinished
    <2>1. Frozen(s)' \subseteq Requested(s)'
        <3>1. Frozen(s) \subseteq Requested(s)
            BY DEF RestoreInv, OneUnfinished
        <3> QED
            BY <1>6, <3>1
    <2>2. \A c, d \in Unfinished(s)' : c = d
        <3>1. CASE s = s0
            BY <1>9, <3>1
        <3>2. CASE s # s0
            <4>1. Unfinished(s)' = Unfinished(s)
                BY <1>9, <3>2
            <4>2. \A c, d \in Unfinished(s) : c = d
                BY DEF RestoreInv, OneUnfinished
            <4> QED
                BY <4>1, <4>2
        <3> QED
            BY <3>1, <3>2
    <2> QED
        BY <2>1, <2>2
<1>11. Request(s0, c0)' = r
    <2>1. Values(s0, "request")' = Values(s0, "request") \cup {r}
        BY <1>1, JournalSays
    <2>2. \A q \in Values(s0, "request")' : q.cycle = c0 => q = r
        BY <1>8, <2>1 DEF Requested
    <2>3. r \in Values(s0, "request")' /\ r.cycle = c0
        BY <1>2, <2>1
    <2> QED
        BY <2>2, <2>3 DEF Request
<1>12. Lineage(s0, c0) = {}
    BY <1>8, NotFrozenBare DEF RestoreInv
<1>13. HandFollows'
    <2>1. hand'.s = s0 /\ hand'.cycle = c0
        BY <1>1
    <2>2. doing' \in {"deferring", "asking"} /\ (doing' = "deferring" => FewMaterials(r))
        BY <1>1, <1>2 DEF FewMaterials
    <2>3. c0 \in Unfinished(s0)' /\ c0 \notin Frozen(s0)' /\ Lineage(s0, c0)' = {}
        BY <1>6, <1>8, <1>9, <1>12
    <2>4. doing' = "deferring" => FewMaterials(Request(s0, c0)')
        BY <1>11, <2>2
    <2>5. LineageDue(doing', Lineage(s0, c0)')
        BY <2>2, <2>3 DEF LineageDue
    <2>6. doing' = "deferring" => FewMaterials(Request(s0, c0))'
        BY <2>4 DEF FewMaterials
    <2>7. LineageDue(doing, Lineage(s0, c0))'
        BY <2>5 DEF LineageDue
    <2> QED
        BY <2>1, <2>2, <2>3, <2>6, <2>7 DEF HandFollows
<1> QED
    BY <1>3, <1>5, <1>7, <1>10, <1>13 DEF RestoreInv

\* What is at hand when an operation works on a cycle.
LEMMA HandIs ==
    ASSUME RestoreInv, doing \in CyclePoints
    PROVE  \E s0 \in Sessions, c0 \in CycleIds :
            /\ s0 = hand.s /\ c0 = hand.cycle
            /\ c0 \in Requested(s0) /\ c0 \in Unfinished(s0) /\ c0 \notin Finished(s0)
            /\ LineageDue(doing, Lineage(s0, c0))
            /\ doing \in {"deferring", "asking", "drafted"} => c0 \notin Frozen(s0)
            /\ doing = "deferring" => FewMaterials(Request(s0, c0))
            /\ doing \in {"frozen", "proposed", "eligible", "not_earned", "promoted"} =>
                    c0 \in Frozen(s0)
            /\ \A y \in Values(s0, "cycle") : y.cycle # c0
<1>1. PICK s0 \in Sessions, c0 \in CycleIds :
        s0 = hand.s /\ c0 = hand.cycle /\ c0 \in Requested(s0)
    BY AtWork DEF RestoreInv
<1>2. doing # "rest"
    BY DEF CyclePoints
<1>3. /\ c0 \in Unfinished(s0)
      /\ LineageDue(doing, Lineage(s0, c0))
      /\ doing \in {"deferring", "asking", "drafted"} => c0 \notin Frozen(s0)
      /\ doing = "deferring" => FewMaterials(Request(s0, c0))
    BY <1>1, <1>2 DEF RestoreInv, HandFollows
<1>4. doing \in {"frozen", "proposed", "eligible", "not_earned", "promoted"} =>
            c0 \in Frozen(s0)
    BY <1>1, <1>2 DEF RestoreInv, ScribeInv, HandHolds
<1>5. c0 \notin Finished(s0)
    BY <1>3 DEF Unfinished
<1>6. \A y \in Values(s0, "cycle") : y.cycle # c0
    BY <1>5 DEF Finished
<1> QED
    BY <1>1, <1>3, <1>4, <1>5, <1>6

\* A cycle that concludes declares the lineage that the workspace holds, in a receipt of
\* its status.
LEMMA ConcludesRestores ==
    ASSUME RestoreInv, NEW status, NEW lin, doing \in CyclePoints, Concludes(status, lin),
           lin = Lineage(hand.s, hand.cycle),
           status = "DEFERRED" => FewMaterials(Request(hand.s, hand.cycle)),
           status = "PROMOTED" => "promotion" \in lin
    PROVE  RestoreInv'
<1>1. PICK s0 \in Sessions, c0 \in CycleIds :
        /\ s0 = hand.s /\ c0 = hand.cycle
        /\ c0 \in Requested(s0) /\ c0 \in Unfinished(s0)
    BY HandIs
<1>2. PICK y : y = CycleReceipt(s0, c0, status, lin)
    OBVIOUS
<1>3. /\ y.cycle = c0 /\ y.status = status /\ y.lineage = lin /\ y.frozen = (c0 \in Frozen(s0))
      /\ y.adaptation = Request(s0, c0).adaptation /\ y.validation = Request(s0, c0).validation
    BY <1>2 DEF CycleReceipt
<1>4. /\ Journals(s0, "cycle", y) /\ doing' = "rest" /\ UNCHANGED <<kevin, entries>>
    BY <1>1, <1>2 DEF Concludes, Goes
<1>5. ScribeInv'
    BY ConcludesStep DEF RestoreInv
<1>6. ReceiptsReplay'
    BY <1>4, JournalReplays
<1>7. \A s \in Sessions :
        /\ \A c : Lineage(s, c)' = Lineage(s, c)
        /\ Values(s, "cycle")' = IF s = s0 THEN Values(s, "cycle") \cup {y} ELSE Values(s, "cycle")
        /\ Requested(s)' = Requested(s) /\ Frozen(s)' = Frozen(s)
        /\ Finished(s)' = IF s = s0 THEN Finished(s) \cup {c0} ELSE Finished(s)
    BY <1>3, <1>4, JournalSays
<1>8. CycleStands(s0, y)
    BY <1>1, <1>3 DEF CycleStands, FewMaterials
<1>9. \A s \in Sessions : \A x : CycleStands(s, x) => CycleStands(s, x)'
    BY <1>7 DEF CycleStands, FewMaterials
<1>10. CyclesStand'
    BY <1>7, <1>8, <1>9 DEF RestoreInv, CyclesStand
<1>11. OneUnfinished'
    BY <1>7 DEF RestoreInv, OneUnfinished, Unfinished
<1>12. HandFollows'
    BY <1>4 DEF HandFollows
<1> QED
    BY <1>5, <1>6, <1>10, <1>11, <1>12 DEF RestoreInv

\* The ways to conclude, each with the lineage that its point has reached.
LEMMA ConclusionRestores ==
    ASSUME RestoreInv,
           DeferCycle \/ NoCandidate \/ ConcludeNotEarned \/ ConcludePromoted \/ FailedCycle
    PROVE  RestoreInv'
<1>1. doing \in {"deferring", "frozen", "not_earned", "promoted", "failing"}
    BY DEF DeferCycle, NoCandidate, ConcludeNotEarned, ConcludePromoted, FailedCycle
<1>2. doing \in CyclePoints
    BY <1>1 DEF CyclePoints
<1>3. /\ LineageDue(doing, Lineage(hand.s, hand.cycle))
      /\ doing = "deferring" => FewMaterials(Request(hand.s, hand.cycle))
    BY <1>2, HandIs
<1>4. CASE DeferCycle
    <2>1. Concludes("DEFERRED", {}) /\ {} = Lineage(hand.s, hand.cycle) /\ doing = "deferring"
        BY <1>3, <1>4 DEF DeferCycle, LineageDue
    <2> QED
        BY <1>2, <1>3, <2>1, ConcludesRestores
<1>5. CASE NoCandidate
    <2>1. Concludes("NO_CANDIDATE", {}) /\ {} = Lineage(hand.s, hand.cycle)
        BY <1>3, <1>5 DEF NoCandidate, LineageDue
    <2> QED
        BY <1>2, <2>1, ConcludesRestores
<1>6. CASE ConcludeNotEarned
    <2>1. /\ Concludes("NOT_EARNED", {"candidate", "evaluation"})
          /\ {"candidate", "evaluation"} = Lineage(hand.s, hand.cycle)
        BY <1>3, <1>6 DEF ConcludeNotEarned, LineageDue
    <2> QED
        BY <1>2, <2>1, ConcludesRestores
<1>7. CASE ConcludePromoted
    <2>1. /\ Concludes("PROMOTED", {"candidate", "evaluation", "promotion"})
          /\ {"candidate", "evaluation", "promotion"} = Lineage(hand.s, hand.cycle)
        BY <1>3, <1>7 DEF ConcludePromoted, LineageDue
    <2> QED
        BY <1>2, <2>1, ConcludesRestores
<1>8. CASE FailedCycle
    <2>1. Concludes("FAILED", Lineage(hand.s, hand.cycle))
        BY <1>8 DEF FailedCycle
    <2> QED
        BY <1>2, <2>1, ConcludesRestores
<1> QED
    BY <1>4, <1>5, <1>6, <1>7, <1>8

\* Asking or drafting touches nothing that restore reads.
LEMMA AskRestores == ASSUME RestoreInv, AskProvider PROVE RestoreInv'
<1>1. doing = "asking" /\ doing \in CyclePoints
    BY DEF AskProvider, CyclePoints
<1>2. PICK s0 \in Sessions, c0 \in CycleIds :
        /\ s0 = hand.s /\ c0 = hand.cycle
        /\ c0 \in Unfinished(s0) /\ c0 \notin Frozen(s0) /\ LineageDue(doing, Lineage(s0, c0))
    BY <1>1, HandIs
<1>3. /\ UNCHANGED <<journal, kevin, entries>>
      /\ doing' \in {"drafted", "failing"} /\ hand'.s = s0 /\ hand'.cycle = c0
    BY <1>2 DEF AskProvider, Goes
<1>4. ScribeInv'
    BY AskProviderStep DEF RestoreInv
<1>5. /\ ReceiptsReplay' /\ CyclesStand' /\ OneUnfinished'
      /\ Unfinished(s0)' = Unfinished(s0) /\ Frozen(s0)' = Frozen(s0)
      /\ Lineage(s0, c0)' = Lineage(s0, c0)
    BY <1>3, RestoreQuiet
<1>6. Lineage(s0, c0) = {}
    BY <1>1, <1>2 DEF LineageDue
<1>7. LineageDue(doing, Lineage(s0, c0))'
    BY <1>3, <1>5, <1>6 DEF LineageDue
<1>8. HandFollows'
    BY <1>2, <1>3, <1>5, <1>7 DEF HandFollows
<1> QED
    BY <1>4, <1>5, <1>8 DEF RestoreInv

\* A draft is frozen while its cycle is open and the workspace holds nothing of it.
LEMMA FreezeRestores == ASSUME RestoreInv, FreezeDraft PROVE RestoreInv'
<1>1. doing = "drafted" /\ doing \in CyclePoints
    BY DEF FreezeDraft, CyclePoints
<1>2. PICK s0 \in Sessions, c0 \in CycleIds :
        /\ s0 = hand.s /\ c0 = hand.cycle
        /\ c0 \in Requested(s0) /\ c0 \in Unfinished(s0)
        /\ LineageDue(doing, Lineage(s0, c0))
        /\ \A y \in Values(s0, "cycle") : y.cycle # c0
    BY <1>1, HandIs
<1>f. PICK f : f = [cycle |-> c0, cited |-> hand.cited]
    OBVIOUS
<1>3. /\ UNCHANGED <<kevin, entries>> /\ Journals(s0, "frozen", f) /\ f.cycle = c0
      /\ doing' = "frozen" /\ hand'.s = s0 /\ hand'.cycle = c0
    BY <1>2, <1>f DEF FreezeDraft, Goes
<1>4. ScribeInv'
    BY FreezeDraftStep DEF RestoreInv
<1>5. ReceiptsReplay'
    BY <1>3, JournalReplays
<1>6. \A s \in Sessions :
        /\ \A c : Lineage(s, c)' = Lineage(s, c)
        /\ Values(s, "cycle")' = Values(s, "cycle")
        /\ Requested(s)' = Requested(s) /\ Finished(s)' = Finished(s)
        /\ Frozen(s)' = IF s = s0 THEN Frozen(s) \cup {c0} ELSE Frozen(s)
    BY <1>3, JournalSays
<1>7. CyclesStand'
    <2> SUFFICES ASSUME NEW s \in Sessions, NEW y \in Values(s, "cycle")
                 PROVE  CycleStands(s, y)'
        BY <1>6 DEF CyclesStand
    <2>1. CycleStands(s, y)
        BY DEF RestoreInv, CyclesStand
    <2>2. s = s0 => y.cycle # c0
        BY <1>2
    <2> QED
        BY <1>6, <2>1, <2>2 DEF CycleStands, FewMaterials
<1>8. OneUnfinished'
    BY <1>2, <1>6 DEF RestoreInv, OneUnfinished, Unfinished
<1>9. LineageDue(doing, Lineage(s0, c0))'
    <2>1. Lineage(s0, c0) = {}
        BY <1>1, <1>2 DEF LineageDue
    <2> QED
        BY <1>3, <1>6, <2>1 DEF LineageDue
<1>10. c0 \in Unfinished(s0)'
    BY <1>2, <1>6 DEF Unfinished
<1>11. HandFollows'
    BY <1>3, <1>9, <1>10 DEF HandFollows
<1> QED
    BY <1>4, <1>5, <1>7, <1>8, <1>11 DEF RestoreInv

\* Where a workspace receipt goes: behind the others, in its own cycle's lineage.
LEMMA WorkspaceGrows ==
    ASSUME ScribeInv, NEW receipt, kevin' = Append(kevin, receipt), NEW s0, NEW c0,
           receipt.by = <<s0, c0>>, receipt.kind \in {"candidate", "evaluation", "promotion"}
    PROVE  /\ KevinGrows
           /\ \A s, c : Lineage(s, c)' = IF s = s0 /\ c = c0
                                         THEN Lineage(s, c) \cup {receipt.kind}
                                         ELSE Lineage(s, c)
<1>1. kevin \in Seq(Range(kevin))
    BY DEF ScribeInv, JournalsAreSequences
<1>k. PICK k : k = kevin
    OBVIOUS
<1>m. PICK more : more = kevin'
    OBVIOUS
<1>2. PICK n \in Nat : n = Len(k)
    BY <1>1, <1>k
<1>3. /\ more = Append(k, receipt) /\ k \in Seq(Range(k))
      /\ Len(k) = n /\ DOMAIN k = 1..n /\ Len(more) = n + 1 /\ DOMAIN more = 1..(n + 1)
      /\ \A i \in 1..n : more[i] = k[i]
      /\ more[n + 1] = receipt
    BY <1>1, <1>2, <1>k, <1>m
<1>4. \A i \in 0..n : SubSeq(more, 1, i) = SubSeq(k, 1, i)
    <2> SUFFICES ASSUME NEW i \in 0..n PROVE SubSeq(more, 1, i) = SubSeq(k, 1, i)
        OBVIOUS
    <2>1. SubSeq(more, 1, i) = [j \in 1..i |-> more[j]]
        BY <1>3
    <2>2. SubSeq(k, 1, i) = [j \in 1..i |-> k[j]]
        BY <1>3
    <2> QED
        BY <1>3, <2>1, <2>2
<1>5. KevinGrows
    BY <1>3, <1>4, <1>k, <1>m DEF KevinGrows
<1>6. ASSUME NEW s, NEW c
      PROVE  Lineage(s, c)' = IF s = s0 /\ c = c0 THEN Lineage(s, c) \cup {receipt.kind}
                              ELSE Lineage(s, c)
    <2> DEFINE Kinds == {"candidate", "evaluation", "promotion"}
    <2>1. Lineage(s, c) = {x \in Kinds : \E i \in 1..n : k[i].kind = x /\ k[i].by = <<s, c>>}
        BY <1>3, <1>k DEF Lineage, OfCycle
    <2>2. Lineage(s, c)' =
            {x \in Kinds : \E i \in 1..(n + 1) : more[i].kind = x /\ more[i].by = <<s, c>>}
        BY <1>3, <1>m DEF Lineage, OfCycle
    <2>3. ASSUME NEW x
          PROVE  (\E i \in 1..(n + 1) : more[i].kind = x /\ more[i].by = <<s, c>>)
                   <=> \/ \E i \in 1..n : k[i].kind = x /\ k[i].by = <<s, c>>
                       \/ receipt.kind = x /\ receipt.by = <<s, c>>
        <3>1. \A i : i \in 1..(n + 1) <=> i \in 1..n \/ i = n + 1
            OBVIOUS
        <3> QED
            BY <1>3, <3>1
    <2>4. receipt.by = <<s, c>> <=> s = s0 /\ c = c0
        OBVIOUS
    <2>5. ASSUME NEW x
          PROVE  x \in Lineage(s, c)' <=>
                    x \in Lineage(s, c) \/ (s = s0 /\ c = c0 /\ x = receipt.kind)
        BY <2>1, <2>2, <2>3, <2>4
    <2>6. PICK old : old = Lineage(s, c)
        OBVIOUS
    <2>7. PICK new : new = Lineage(s, c)'
        OBVIOUS
    <2>8. \A x : x \in new <=> x \in old \/ (s = s0 /\ c = c0 /\ x = receipt.kind)
        BY <2>5, <2>6, <2>7
    <2>9. CASE s = s0 /\ c = c0
        <3>1. new = old \cup {receipt.kind}
            BY <2>8, <2>9
        <3> QED
            BY <2>6, <2>7, <2>9, <3>1
    <2>10. CASE ~(s = s0 /\ c = c0)
        <3>1. new = old
            BY <2>6, <2>7, <2>8, <2>10 DEF Lineage
        <3> QED
            BY <2>6, <2>7, <2>10, <3>1
    <2> QED
        BY <2>9, <2>10
<1> QED
    BY <1>5, <1>6

\* The workspace receives the next receipt of the unfinished cycle and of no other.
LEMMA WritesRestores ==
    ASSUME RestoreInv, ScribeInv', doing \in {"frozen", "proposed", "eligible"},
           NEW receipt, receipt.by = Own,
           receipt.kind \in {"candidate", "evaluation", "promotion"},
           NEW where \in {"proposed", "eligible", "not_earned", "promoted"},
           Writes(receipt, where),
           LineageDue(where, Lineage(hand.s, hand.cycle) \cup {receipt.kind})
    PROVE  RestoreInv'
<1>1. doing \in CyclePoints
    BY DEF CyclePoints
<1>2. PICK s0 \in Sessions, c0 \in CycleIds :
        /\ s0 = hand.s /\ c0 = hand.cycle
        /\ c0 \in Unfinished(s0)
        /\ \A y \in Values(s0, "cycle") : y.cycle # c0
    BY <1>1, HandIs
<1>3. /\ UNCHANGED <<journal, entries>> /\ kevin' = Append(kevin, receipt)
      /\ doing' = where /\ hand'.s = s0 /\ hand'.cycle = c0
      /\ receipt.by = <<s0, c0>>
    BY <1>2 DEF Writes, Goes, Own
<1>4. /\ KevinGrows
      /\ \A s, c : Lineage(s, c)' = IF s = s0 /\ c = c0
                                    THEN Lineage(s, c) \cup {receipt.kind} ELSE Lineage(s, c)
    BY <1>3, WorkspaceGrows DEF RestoreInv
<1>5. \A s : \A kind : Values(s, kind)' = Values(s, kind)
    BY <1>3 DEF Values, Receipts
<1>6. \A s : /\ Requested(s)' = Requested(s) /\ Unfinished(s)' = Unfinished(s)
             /\ Frozen(s)' = Frozen(s)
    BY <1>5 DEF Requested, Unfinished, Finished, Frozen
<1>7. ReceiptsReplay'
    <2> SUFFICES ASSUME NEW s \in Sessions, NEW i \in DOMAIN journal[s]
                 PROVE  ReceiptReplays(s, i)'
        BY <1>3 DEF ReceiptsReplay
    <2>1. \A kind : Upto(s, kind, i)' = Upto(s, kind, i)
        BY <1>3 DEF Upto, Receipts
    <2> QED
        BY <1>3, <1>4, <2>1, ReceiptStillReplays DEF RestoreInv, ReceiptsReplay
<1>8. CyclesStand'
    <2> SUFFICES ASSUME NEW s \in Sessions, NEW y \in Values(s, "cycle")
                 PROVE  CycleStands(s, y)'
        BY <1>5 DEF CyclesStand
    <2>1. CycleStands(s, y)
        BY DEF RestoreInv, CyclesStand
    <2>2. s = s0 => y.cycle # c0
        BY <1>2
    <2>3. Lineage(s, y.cycle)' = Lineage(s, y.cycle)
        BY <1>4, <2>2
    <2> QED
        BY <1>6, <2>1, <2>3 DEF CycleStands, FewMaterials
<1>9. OneUnfinished'
    BY <1>6 DEF RestoreInv, OneUnfinished
<1>10. LineageDue(doing, Lineage(s0, c0))'
    <2>1. LineageDue(where, Lineage(s0, c0)')
        BY <1>2, <1>4
    <2> QED
        BY <1>3, <2>1 DEF LineageDue
<1>11. HandFollows'
    BY <1>2, <1>3, <1>6, <1>10 DEF HandFollows
<1> QED
    BY <1>7, <1>8, <1>9, <1>11 DEF RestoreInv

\* The workspace receives what follows the point at which the operation stands.
LEMMA WorkspaceRestores ==
    ASSUME RestoreInv, ProposeCycleRevision \/ EvaluateCycleCandidate \/ PromoteCycleCandidate
    PROVE  RestoreInv'
<1>1. doing \in {"frozen", "proposed", "eligible"}
    BY DEF ProposeCycleRevision, EvaluateCycleCandidate, PromoteCycleCandidate
<1>2. doing \in CyclePoints
    BY <1>1 DEF CyclePoints
<1>l. PICK held : held = Lineage(hand.s, hand.cycle)
    OBVIOUS
<1>3. LineageDue(doing, held)
    BY <1>2, <1>l, HandIs
<1>4. ScribeInv'
    BY WorkspaceStep DEF RestoreInv
<1>5. CASE ProposeCycleRevision
    <2>r. PICK r : r = [kind |-> "candidate", by |-> Own, book |-> Append(Active, Own)]
        OBVIOUS
    <2>1. r.by = Own /\ r.kind = "candidate"
        BY <2>r
    <2>2. doing = "frozen" /\ Writes(r, "proposed")
        BY <1>5, <2>r DEF ProposeCycleRevision
    <2>3. LineageDue("proposed", held \cup {r.kind})
        BY <1>3, <2>1, <2>2 DEF LineageDue
    <2> QED
        BY <1>l, <1>1, <1>4, <2>1, <2>2, <2>3, WritesRestores
<1>6. CASE EvaluateCycleCandidate
    <2>r. PICK r : r = [kind |-> "evaluation", by |-> Own,
                        held |-> PayloadsOf(Request(hand.s, hand.cycle).validation)]
        OBVIOUS
    <2>1. r.by = Own /\ r.kind = "evaluation"
        BY <2>r
    <2>2. PICK eligible \in BOOLEAN :
            doing = "proposed" /\ Writes(r, IF eligible THEN "eligible" ELSE "not_earned")
        BY <1>6, <2>r DEF EvaluateCycleCandidate
    <2>3. PICK where \in {"eligible", "not_earned"} : Writes(r, where)
        BY <2>2
    <2>4. LineageDue(where, held \cup {r.kind})
        BY <1>3, <2>1, <2>2 DEF LineageDue
    <2> QED
        BY <1>l, <1>1, <1>4, <2>1, <2>3, <2>4, WritesRestores
<1>7. CASE PromoteCycleCandidate
    <2>r. PICK r : r = [kind |-> "promotion", by |-> Own, book |-> Append(Active, Own)]
        OBVIOUS
    <2>1. r.by = Own /\ r.kind = "promotion"
        BY <2>r
    <2>2. doing = "eligible" /\ Writes(r, "promoted")
        BY <1>7, <2>r DEF PromoteCycleCandidate
    <2>3. LineageDue("promoted", held \cup {r.kind})
        BY <1>3, <2>1, <2>2 DEF LineageDue
    <2> QED
        BY <1>l, <1>1, <1>4, <2>1, <2>2, <2>3, WritesRestores
<1> QED
    BY <1>5, <1>6, <1>7

\* A cycle taken up again is the unfinished one, and its draft is finished only if the
\* workspace holds nothing of it.
LEMMA ResumeRestores ==
    ASSUME RestoreInv, NEW s0 \in Sessions, NEW c0 \in CycleIds, ResumeCycle(s0, c0)
    PROVE  RestoreInv'
<1>1. /\ UNCHANGED <<journal, kevin, entries>> /\ c0 \in Unfinished(s0)
      /\ doing' \in {"frozen", "failing"} /\ hand'.s = s0 /\ hand'.cycle = c0
      /\ doing' = "frozen" => Lineage(s0, c0) = {}
    BY DEF ResumeCycle, Goes
<1>2. ScribeInv'
    BY ResumeCycleStep DEF RestoreInv
<1>3. /\ ReceiptsReplay' /\ CyclesStand' /\ OneUnfinished'
      /\ Unfinished(s0)' = Unfinished(s0) /\ Lineage(s0, c0)' = Lineage(s0, c0)
    BY <1>1, RestoreQuiet
<1>4. LineageDue(doing, Lineage(s0, c0))'
    BY <1>1, <1>3 DEF LineageDue
<1>5. HandFollows'
    BY <1>1, <1>3, <1>4 DEF HandFollows
<1> QED
    BY <1>2, <1>3, <1>5 DEF RestoreInv

\* A failing cycle may have got anywhere; after a stop nothing is at hand.
LEMMA FailsOrStopsRestores == ASSUME RestoreInv, CycleStepFails \/ Stops PROVE RestoreInv'
<1>1. /\ UNCHANGED <<journal, kevin, entries>>
      /\ \/ doing' = "rest"
         \/ doing \in CyclePoints /\ doing' = "failing" /\ hand' = hand
    BY DEF CycleStepFails, Stops, Goes, CyclePoints
<1>2. ScribeInv'
    BY FailsOrStopsStep DEF RestoreInv
<1>3. /\ ReceiptsReplay' /\ CyclesStand' /\ OneUnfinished'
      /\ \A s : Unfinished(s)' = Unfinished(s)
    BY <1>1, RestoreQuiet
<1>4. HandFollows'
    <2>1. CASE doing' = "rest"
        BY <2>1 DEF HandFollows
    <2>2. CASE doing \in CyclePoints /\ doing' = "failing" /\ hand' = hand
        <3>1. PICK s0 \in Sessions, c0 \in CycleIds :
                s0 = hand.s /\ c0 = hand.cycle /\ c0 \in Unfinished(s0)
            BY <2>2, HandIs
        <3>2. hand'.s = s0 /\ hand'.cycle = c0 /\ c0 \in Unfinished(s0)'
            BY <1>3, <2>2, <3>1
        <3>3. \A held : LineageDue("failing", held)
            BY DEF LineageDue
        <3>4. LineageDue(doing, Lineage(s0, c0))'
            BY <2>2 DEF LineageDue
        <3> QED
            BY <2>2, <3>2, <3>4 DEF HandFollows
    <2> QED
        BY <1>1, <2>1, <2>2
<1> QED
    BY <1>2, <1>3, <1>4 DEF RestoreInv

\* At first there is nothing to restore.
LEMMA InitRestores == ScribeInit => RestoreInv
<1> SUFFICES ASSUME ScribeInit PROVE RestoreInv
    OBVIOUS
<1>1. journal = [s \in Sessions |-> <<>>] /\ doing = "rest"
    BY DEF ScribeInit
<1>2. DOMAIN <<>> = {}
    OBVIOUS
<1>3. \A s \in Sessions : DOMAIN journal[s] = {}
    BY <1>1, <1>2
<1>4. \A s \in Sessions : \A kind : Values(s, kind) = {}
    BY <1>3 DEF Values, Receipts
<1>5. \A s \in Sessions : Requested(s) = {} /\ Frozen(s) = {}
    BY <1>4 DEF Requested, Frozen
<1>6. ReceiptsReplay
    BY <1>3 DEF ReceiptsReplay
<1>7. CyclesStand /\ OneUnfinished /\ HandFollows
    BY <1>1, <1>4, <1>5 DEF CyclesStand, OneUnfinished, HandFollows, Unfinished
<1> QED
    BY <1>6, <1>7, InitScribe DEF RestoreInv

\* However sessions interleave, fail, stop and resume, what they wrote replays.
THEOREM RestoreInvariant == ScribeSpec => []RestoreInv
<1>1. ScribeInit => RestoreInv
    BY InitRestores
<1>2. RestoreInv /\ [ScribeNext]_scribeVars => RestoreInv'
    <2> SUFFICES ASSUME RestoreInv, [ScribeNext]_scribeVars PROVE RestoreInv'
        OBVIOUS
    <2>1. ASSUME NEW s \in Sessions, Open(s) PROVE RestoreInv'
        BY <2>1, OpenRestores
    <2>2. ASSUME NEW s \in Sessions, NEW ordinal \in 0..(MaxMaterials + MaxGap),
                 NEW payload \in Payloads, Ingest(s, ordinal, payload)
          PROVE  RestoreInv'
        BY <2>2, IngestRestores, ScribeAssumption
    <2>3. ASSUME NEW s \in Sessions, RequestCycle(s) PROVE RestoreInv'
        BY <2>3, RequestRestores
    <2>4. ASSUME NEW s \in Sessions, NEW c \in CycleIds, ResumeCycle(s, c) PROVE RestoreInv'
        BY <2>4, ResumeRestores
    <2>5. CASE IngestMaterial
        BY <2>5, MaterialRestores
    <2>6. CASE DeferCycle \/ NoCandidate \/ ConcludeNotEarned \/ ConcludePromoted \/ FailedCycle
        BY <2>6, ConclusionRestores
    <2>7. CASE AskProvider
        BY <2>7, AskRestores
    <2>8. CASE FreezeDraft
        BY <2>8, FreezeRestores
    <2>9. CASE ProposeCycleRevision \/ EvaluateCycleCandidate \/ PromoteCycleCandidate
        BY <2>9, WorkspaceRestores
    <2>10. CASE CycleStepFails \/ Stops
        BY <2>10, FailsOrStopsRestores
    <2>11. CASE UNCHANGED scribeVars
        <3>1. UNCHANGED <<journal, kevin, entries, doing, hand, asked>>
            BY <2>11 DEF scribeVars
        <3>2. ScribeInv'
            <4>1. /\ StillHolds'
                  /\ \A s : /\ Requested(s)' = Requested(s) /\ Frozen(s)' = Frozen(s)
                            /\ Materials(s)' = Materials(s)
                BY <3>1, Untouched DEF RestoreInv
            <4>2. HandHolds'
                BY <3>1, <4>1 DEF RestoreInv, ScribeInv, HandHolds
            <4> QED
                BY <4>1, <4>2 DEF ScribeInv, StillHolds
        <3>3. /\ ReceiptsReplay' /\ CyclesStand' /\ OneUnfinished'
              /\ \A s : /\ Unfinished(s)' = Unfinished(s) /\ Frozen(s)' = Frozen(s)
                        /\ \A c : Lineage(s, c)' = Lineage(s, c) /\ Request(s, c)' = Request(s, c)
            BY <3>1, RestoreQuiet
        <3>4. HandFollows'
            <4> SUFFICES ASSUME NEW s \in Sessions, doing # "rest", hand.s = s
                         PROVE  /\ doing = "ingesting" =>
                                    /\ Unfinished(s)' = {}
                                    /\ [s |-> s, ordinal |-> hand.material.ordinal,
                                        payload |-> hand.material.payload] \in entries
                                /\ doing \in CyclePoints =>
                                    /\ hand.cycle \in Unfinished(s)'
                                    /\ LineageDue(doing, Lineage(s, hand.cycle)')
                                    /\ doing \in {"deferring", "asking", "drafted"} =>
                                            hand.cycle \notin Frozen(s)'
                                    /\ doing = "deferring" =>
                                            FewMaterials(Request(s, hand.cycle)')
                BY <3>1 DEF HandFollows, LineageDue, FewMaterials
            <4>1. /\ doing = "ingesting" =>
                        /\ Unfinished(s) = {}
                        /\ [s |-> s, ordinal |-> hand.material.ordinal,
                            payload |-> hand.material.payload] \in entries
                  /\ doing \in CyclePoints =>
                        /\ hand.cycle \in Unfinished(s)
                        /\ LineageDue(doing, Lineage(s, hand.cycle))
                        /\ doing \in {"deferring", "asking", "drafted"} =>
                                hand.cycle \notin Frozen(s)
                        /\ doing = "deferring" => FewMaterials(Request(s, hand.cycle))
                BY DEF RestoreInv, HandFollows
            <4>c. PICK c0 : c0 = hand.cycle
                OBVIOUS
            <4>2. /\ Unfinished(s)' = Unfinished(s) /\ Frozen(s)' = Frozen(s)
                  /\ Lineage(s, c0)' = Lineage(s, c0) /\ Request(s, c0)' = Request(s, c0)
                BY <3>3
            <4>3. /\ Lineage(s, hand.cycle)' = Lineage(s, hand.cycle)
                  /\ Request(s, hand.cycle)' = Request(s, hand.cycle)
                BY <3>1, <4>c, <4>2
            <4> QED
                BY <3>1, <4>1, <4>2, <4>3
        <3> QED
            BY <3>2, <3>3, <3>4 DEF RestoreInv
    <2> QED
        BY <2>1, <2>2, <2>3, <2>4, <2>5, <2>6, <2>7, <2>8, <2>9, <2>10, <2>11 DEF ScribeNext
<1> QED
    BY <1>1, <1>2, PTL DEF ScribeSpec

\* For any number of sessions, cycles and crashes: what a session wrote restores, unless
\* another session's promotion came between a request of its own and its candidate
\* (restore and _kevin_lineage, scribe.py).
THEOREM SessionsRestored == ScribeSpec => []SessionsRestore
<1>1. RestoreInv => SessionsRestore
    <2> SUFFICES ASSUME RestoreInv, NEW s \in Sessions, journal[s] # <<>>, ~Overtaken(s)
                 PROVE  RestoreAccepts(s)
        BY DEF SessionsRestore
    <2>1. \A i \in Receipts(s, "request") : RequestReplays(s, i)
        BY DEF RestoreInv, ReceiptsReplay, ReceiptReplays, Receipts
    <2>2. \A i \in Receipts(s, "material") : MaterialReplays(s, i)
        BY DEF RestoreInv, ReceiptsReplay, ReceiptReplays, Receipts
    <2>3. ASSUME NEW y \in Values(s, "cycle") PROVE CycleReplays(s, y)
        <3>1. CycleStands(s, y)
            BY DEF RestoreInv, CyclesStand
        <3>2. LineageBinds(s, y.cycle)
            BY <3>1 DEF CycleStands, Overtaken
        <3>3. ~y.frozen => y.lineage = {}
            BY <3>1, NotFrozenBare DEF RestoreInv, CycleStands
        <3> QED
            BY <3>1, <3>2, <3>3 DEF CycleReplays, CycleStands, FewMaterials
    <2>4. Cardinality(Unfinished(s)) <= 1
        <3>1. \A c, d \in Unfinished(s) : c = d
            BY DEF RestoreInv, OneUnfinished
        <3>2. CASE Unfinished(s) = {}
            BY <3>2, FS_EmptySet
        <3>3. CASE Unfinished(s) # {}
            <4>1. PICK c : Unfinished(s) = {c}
                BY <3>1, <3>3
            <4>2. Cardinality(Unfinished(s)) = 1
                BY <4>1, FS_Singleton
            <4> QED
                BY <4>2
        <3> QED
            BY <3>2, <3>3
    <2> QED
        BY <2>1, <2>2, <2>3, <2>4 DEF RestoreAccepts
<1> QED
    BY <1>1, RestoreInvariant, PTL

-----------------------------------------------------------------------------
\* For any sessions, workspaces and campaigns: what was written is restored
\* (restore in scribe.py, shorthand.py and calibration_002/learning.py),
\* but for a Scribe session that was overtaken, a Kevin Speak lineage that broke, and a
\* campaign cut while it opened a stage.
THEOREM LineagesRestored == ScribeSpec /\ KevinSpec /\ CampaignSpec => []LineagesRestore
<1>1. SessionsRestore /\ WorkspacesRestore /\ CampaignRestores => LineagesRestore
    BY DEF LineagesRestore
<1> QED
    BY <1>1, SessionsRestored, WorkspacesRestored, CampaignRestored, PTL
===============================================================================
