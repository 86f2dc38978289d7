---------------------------- MODULE WorkbenchProofs ----------------------------
(***************************************************************************)
(* Proofs about twelve of the components that keep to themselves: the      *)
(* finalizer (Postrun), Scribe sessions (Scribe), routing (Routing), the   *)
(* curriculum controller (Curriculum), the learning campaign               *)
(* (LearningCampaign), the heartbeat (Heartbeat), ablation experiments     *)
(* (Experiments), facts (EarnedFacts), accounts (Accounts), continuations  *)
(* (Continuations), mechanics (Mechanics) and the bounded search           *)
(* (BoundedSearch).  Each part has its invariant, a lemma per step, and    *)
(* the theorems of the component's specification.                          *)
(***************************************************************************)
EXTENDS Postrun, Scribe, Routing, LearningCampaign, Heartbeat, Experiments, Provenance,
        BoundedSearch, FiniteSetTheorems, SequenceTheorems, WellFoundedInduction, TLAPS

-----------------------------------------------------------------------------
\* The finalizer.

\* The points of a transaction, what a look at the source sees, and what is published.
Points ==
    {"pinned", "streamed", "staged", "rechecked", "sealed", "packed", "drawn", "delivered",
     "undo_capsule", "undo_seal", "release"}
Domains == [1..DomainFiles -> {0, 1}]
Looks == [ledger : Nat, domain : Domains]
Artifacts == [by : Nat, ledger : Nat, domain : Domains]
Deliveries ==
    [capsule : Capsules, ledger : Nat, domain : Domains, pointed : Looks \cup {NoArtifact},
     ownSeal : BOOLEAN]
Works ==
    [txn : Nat \ {0}, capsule : Capsules, receipt : ReceiptPaths, at : Points,
     pinned : Nat, ledger : Nat, domain : Domains, walked : Nat, sealHere : BOOLEAN,
     packedHere : BOOLEAN, wasPacked : BOOLEAN, pointed : Looks \cup {NoArtifact}]

\* Every variable has its type.
PostrunTypeOK ==
    /\ moments \in Seq(Looks) /\ moments # <<>>
    /\ locks \in [Capsules -> Nat]
    /\ runSeal \in Artifacts \cup {NoArtifact}
    /\ packed \in [Capsules -> Artifacts \cup {NoArtifact}]
    /\ delivered \in [ReceiptPaths -> Deliveries \cup {NoArtifact, ForeignReceipt}]
    /\ finalizer \in [Finalizers -> Works \cup {NoTransaction}]
    /\ transactions \in Nat

\* The ledger file never becomes an earlier one again.
LedgerOnlyGrows == \A i \in DOMAIN moments : moments[i].ledger <= Source.ledger
Shown(look) == ShownBy(moments, look)

\* A transaction holds the lock of its capsule ...
Locked(x) == locks[x.capsule] = x.txn /\ x.txn <= transactions
\* ... and what it has copied of the domain stood beside a ledger no older than the
\* pinned one, by a moment behind which the second walk finds it standing again; so what
\* is rechecked shows what the source was.
StoodBy(x, i, n) ==
    \E k \in 1..n : moments[k].domain[i] = x.domain[i] /\ moments[k].ledger >= x.pinned
StandsFrom(x, i, n) ==
    \E k \in DOMAIN moments : n <= k /\ moments[k].domain[i] = x.domain[i]
WalkedTwice(x, n) ==
    /\ moments[n].ledger >= x.pinned
    /\ \A i \in 1..DomainFiles : StoodBy(x, i, n)
    /\ \A i \in 1..DomainFiles : i <= x.walked => StandsFrom(x, i, n)
Looked(x) ==
    /\ x.pinned <= Source.ledger
    /\ x.at \in {"streamed", "staged"} => x.pinned <= x.ledger /\ x.ledger <= Source.ledger
    /\ x.at = "streamed" =>
        \A i \in 1..DomainFiles : i <= x.walked => StoodBy(x, i, Len(moments))
    /\ x.at = "staged" => \E n \in DOMAIN moments : WalkedTwice(x, n)
    /\ x.at \in {"rechecked", "sealed", "packed", "drawn"} => Shown(Content(x))
    /\ x.at = "pinned" => x.walked = 0
\* The seal it published is the one in the run until it is undone, and no receipt
\* counts on it before its own.
SealStands(x) ==
    /\ x.at \in {"pinned", "streamed", "staged", "rechecked"} => ~x.sealHere
    /\ x.sealHere /\ x.at # "release" =>
        runSeal # NoArtifact /\ runSeal.by = x.txn /\ Content(runSeal) = Content(x)
    /\ x.sealHere /\ x.at \notin {"delivered", "release"} =>
        \A r \in ReceiptPaths : Receipted(r) => ~delivered[r].ownSeal
\* So for the capsule.
CapsuleStands(x) ==
    /\ x.at \in {"pinned", "streamed", "staged", "rechecked", "sealed"} => ~x.packedHere
    /\ x.at = "drawn" => packed[x.capsule] # NoArtifact /\ Content(packed[x.capsule]) = Content(x)
    /\ x.packedHere /\ x.at \in {"packed", "drawn", "undo_capsule"} =>
        \A r \in ReceiptPaths : Receipted(r) => delivered[r].capsule # x.capsule
    /\ x.at = "delivered" => Receipted(x.receipt) /\ SameReceipt(delivered[x.receipt], x)

Sound(x) == Locked(x) /\ Looked(x) /\ SealStands(x) /\ CapsuleStands(x)
WorksSound ==
    \A f \in Finalizers : \A x \in {finalizer[f]} \ {NoTransaction} : Sound(x)
\* No two transactions at work share a number, and no lock has a later one.
WorksDiffer == \A f, g \in Finalizers :
    finalizer[f] # NoTransaction /\ finalizer[g] # NoTransaction /\ f # g =>
        finalizer[f].txn # finalizer[g].txn
LocksBounded == \A c \in Capsules : locks[c] <= transactions
\* What is published shows what the source was, and receipts stand on it.
ArtifactsShown ==
    /\ runSeal # NoArtifact => Shown(Content(runSeal))
    /\ \A c \in Capsules : packed[c] # NoArtifact => Shown(Content(packed[c]))
ReceiptsStand ==
    \A r \in ReceiptPaths : Receipted(r) =>
        LET there == packed[delivered[r].capsule]
        IN  /\ there # NoArtifact /\ Content(there) = Content(delivered[r])
            /\ delivered[r].ownSeal =>
                runSeal # NoArtifact /\ Content(runSeal) = Content(delivered[r])
PostrunInv ==
    /\ PostrunTypeOK /\ LedgerOnlyGrows /\ LocksBounded
    /\ WorksSound /\ WorksDiffer
    /\ ArtifactsShown /\ ReceiptsStand

\* An empty run has nothing to undo.
LEMMA InitPostrun == PostrunInit => PostrunInv
<1> SUFFICES ASSUME PostrunInit PROVE PostrunInv
    OBVIOUS
<1> USE DEF PostrunInit
<1>1. PostrunTypeOK
    <2>1. moments \in Seq(Looks) /\ moments # <<>>
        BY DEF Looks, Domains, FirstDomain
    <2> QED
        BY <2>1, PostrunAssumption DEF PostrunTypeOK, NoArtifact
<1>2. LedgerOnlyGrows /\ LocksBounded
    BY DEF LedgerOnlyGrows, LocksBounded, Source, Last
<1>3. WorksSound /\ WorksDiffer
    BY DEF WorksSound, WorksDiffer
<1>4. ArtifactsShown
    BY DEF ArtifactsShown
<1>5. ReceiptsStand
    BY DEF ReceiptsStand, Receipted
<1> QED
    BY <1>1, <1>2, <1>3, <1>4, <1>5 DEF PostrunInv

SharedVars == <<moments, locks, runSeal, packed, delivered, transactions>>

\* A transaction that only moves its own point keeps the invariant if it stays sound.
LEMMA Advance ==
    ASSUME PostrunInv, NEW f \in Finalizers, finalizer[f] # NoTransaction, NEW n \in Works,
           finalizer' = [finalizer EXCEPT ![f] = n],
           n.txn = finalizer[f].txn,
           UNCHANGED SharedVars,
           Sound(n)
    PROVE  PostrunInv'
<1> USE DEF PostrunInv
<1>1. PostrunTypeOK'
    BY DEF PostrunTypeOK, SharedVars
<1>2. LedgerOnlyGrows' /\ LocksBounded' /\ ArtifactsShown' /\ ReceiptsStand'
    BY DEF LedgerOnlyGrows, LocksBounded, ArtifactsShown, ReceiptsStand, SharedVars, Source, Shown,
           Receipted
<1>3. \A g \in Finalizers : finalizer'[g] = IF g = f THEN n ELSE finalizer[g]
    BY DEF PostrunTypeOK
<1>4. n # NoTransaction
    BY DEF Works, NoTransaction
<1>5. WorksDiffer'
    BY <1>3, <1>4 DEF WorksDiffer
<1>6. WorksSound'
    <2>1. ASSUME NEW x, Sound(x) PROVE Sound(x)'
        BY <2>1 DEF Sound, Locked, Looked, SealStands, CapsuleStands, SharedVars, Source, Shown,
                    Receipted, StoodBy, StandsFrom, WalkedTwice
    <2>2. Sound(n)
        BY DEF Sound
    <2> SUFFICES ASSUME NEW g \in Finalizers, NEW x \in {finalizer'[g]} \ {NoTransaction}
                 PROVE  Sound(x)'
        BY DEF WorksSound
    <2> QED
        BY <1>3, <2>1, <2>2 DEF WorksSound
<1> QED
    BY <1>1, <1>2, <1>5, <1>6

\* The source is the last moment there was.
LEMMA SourceIs == PostrunTypeOK =>
    /\ Source \in Looks /\ Len(moments) \in DOMAIN moments
    /\ moments[Len(moments)] = Source
BY DEF PostrunTypeOK, Source, Last

\* A transaction at work has its type and is sound.
LEMMA WorkIs ==
    ASSUME PostrunInv, NEW f \in Finalizers, finalizer[f] # NoTransaction
    PROVE  finalizer[f] \in Works /\ Sound(finalizer[f])
BY DEF PostrunInv, PostrunTypeOK, WorksSound

EarlyPoints == {"pinned", "streamed", "staged", "rechecked"}
\* What touches nothing before publication needs only its looks.
LEMMA EarlySound ==
    ASSUME NEW w \in Works, Sound(w), w.at \in EarlyPoints,
           NEW n \in Works, n.at \in EarlyPoints, n.sealHere = w.sealHere,
           n.packedHere = w.packedHere, n.capsule = w.capsule, n.txn = w.txn, Looked(n)
    PROVE  Sound(n)
BY DEF Sound, Locked, SealStands, CapsuleStands, EarlyPoints

\* The first pass over the ledger only remembers what it saw.
LEMMA StreamLedgerStep ==
    ASSUME PostrunInv, NEW f \in Finalizers, StreamLedger(f) PROVE PostrunInv'
<1> DEFINE w == finalizer[f]
           n == [[w EXCEPT !.ledger = Source.ledger] EXCEPT !.at = "streamed"]
<1>1. w # NoTransaction /\ w.at = "pinned"
    BY DEF StreamLedger, Moves, At
<1>2. w \in Works /\ Sound(w)
    BY <1>1, WorkIs
<1>3. finalizer' = [finalizer EXCEPT ![f] = n] /\ UNCHANGED SharedVars
    BY DEF StreamLedger, Moves, Reaches, SharedVars, publishedVars
<1>4. Source \in Looks
    BY SourceIs DEF PostrunInv
<1>5. n \in Works /\ n.at = "streamed" /\ n.ledger = Source.ledger /\ n.txn = w.txn
      /\ n.capsule = w.capsule /\ n.pinned = w.pinned /\ n.sealHere = w.sealHere
      /\ n.packedHere = w.packedHere /\ n.walked = w.walked
    BY <1>2, <1>4 DEF Works, Looks, Points
<1>6. Looked(n)
    <2>1. w.walked = 0 /\ w.pinned <= Source.ledger
        BY <1>1, <1>2 DEF Sound, Looked
    <2> HIDE DEF n
    <2> QED
        BY <1>2, <1>4, <1>5, <2>1 DEF Looked, Looks
<1>7. Sound(n)
    <2> HIDE DEF n, w
    <2> QED
        BY <1>1, <1>2, <1>5, <1>6, EarlySound DEF EarlyPoints
<1> QED
    <2> HIDE DEF n
    <2> QED
        BY <1>1, <1>3, <1>5, <1>7, Advance

LEMMA OneFileDiffers ==
    ASSUME NEW d \in Domains, NEW i \in 1..DomainFiles, NEW b \in {0, 1}
    PROVE  [d EXCEPT ![i] = b] \in Domains
BY DEF Domains

\* One more file is copied as it stands now.
LEMMA CopyFileStep ==
    ASSUME PostrunInv, NEW f \in Finalizers, CopyFile(f) PROVE PostrunInv'
<1> DEFINE w == finalizer[f]
<1>j. PICK j : j = w.walked + 1
    OBVIOUS
<1>n. PICK n : n = [[w EXCEPT !.domain[j] = Source.domain[j], !.walked = @ + 1]
                    EXCEPT !.at = "streamed"]
    OBVIOUS
<1>1. w # NoTransaction /\ w.at = "streamed" /\ j <= DomainFiles
    BY <1>j DEF CopyFile, At, NextFile
<1>2. w \in Works /\ Sound(w)
    BY <1>1, WorkIs
<1>3. finalizer' = [finalizer EXCEPT ![f] = n] /\ UNCHANGED SharedVars
    BY <1>j, <1>n DEF CopyFile, Reaches, NextFile, SharedVars, publishedVars
<1>4. /\ Source \in Looks /\ Len(moments) \in DOMAIN moments
      /\ moments[Len(moments)] = Source /\ DOMAIN moments = 1..Len(moments)
    BY SourceIs DEF PostrunInv, PostrunTypeOK
<1>5. /\ w.domain \in Domains /\ Source.domain \in Domains /\ w.walked \in Nat
      /\ j \in 1..DomainFiles
    BY <1>1, <1>2, <1>4, <1>j, PostrunAssumption DEF Works, Looks
<1>6. n \in Works /\ n.at = "streamed" /\ n.ledger = w.ledger /\ n.walked = j
      /\ n.domain = [w.domain EXCEPT ![j] = Source.domain[j]]
      /\ n.txn = w.txn /\ n.capsule = w.capsule /\ n.pinned = w.pinned
      /\ n.sealHere = w.sealHere /\ n.packedHere = w.packedHere
    <2>d. PICK d : d = [w.domain EXCEPT ![j] = Source.domain[j]]
        OBVIOUS
    <2>1. d \in Domains /\ j \in Nat
        <3>1. PICK b \in {0, 1} : b = Source.domain[j]
            BY <1>5 DEF Domains
        <3>2. PICK e \in Domains : e = w.domain
            BY <1>5
        <3>3. [e EXCEPT ![j] = b] \in Domains
            BY <1>5, OneFileDiffers
        <3>4. d = [e EXCEPT ![j] = b]
            BY <2>d, <3>1, <3>2
        <3>5. j \in Nat
            BY <1>5, <1>j
        <3> QED
            BY <3>3, <3>4, <3>5
    <2>2. n = [[w EXCEPT !.domain[j] = Source.domain[j], !.walked = j] EXCEPT !.at = "streamed"]
        BY <1>j, <1>n
    <2>3. n.domain = d
        BY <1>2, <2>2, <2>d DEF Works
    <2> HIDE DEF w
    <2>4. n = [[w EXCEPT !.domain = d, !.walked = j] EXCEPT !.at = "streamed"]
        BY <2>2, <2>d
    <2> QED
        BY <1>2, <2>1, <2>4, <2>d DEF Works, Points
<1>7. Looked(n)
    <2>1. w.pinned <= w.ledger /\ w.ledger <= Source.ledger /\ w.pinned <= Source.ledger
        BY <1>1, <1>2 DEF Sound, Looked
    <2>2. ASSUME NEW i \in 1..DomainFiles, i <= n.walked PROVE StoodBy(n, i, Len(moments))
        <3>1. CASE i = j
            <4>1. moments[Len(moments)].domain[i] = n.domain[i]
                BY <1>4, <1>5, <1>6, <3>1 DEF Domains
            <4>2. moments[Len(moments)].ledger >= n.pinned
                BY <1>2, <1>4, <1>6, <2>1 DEF Works, Looks
            <4> QED
                BY <1>4, <4>1, <4>2 DEF StoodBy
        <3>2. CASE i # j
            <4>1. i <= w.walked /\ n.domain[i] = w.domain[i]
                BY <1>5, <1>6, <1>j, <2>2, <3>2 DEF Domains
            <4>2. StoodBy(w, i, Len(moments))
                BY <1>1, <1>2, <4>1 DEF Sound, Looked
            <4> QED
                BY <1>6, <4>1, <4>2 DEF StoodBy
        <3> QED
            BY <3>1, <3>2
    <2> HIDE DEF w
    <2> QED
        BY <1>6, <2>1, <2>2 DEF Looked
<1>8. Sound(n)
    <2> HIDE DEF w
    <2> QED
        BY <1>1, <1>2, <1>6, <1>7, EarlySound DEF EarlyPoints
<1> QED
    BY <1>1, <1>3, <1>6, <1>8, Advance

\* The whole domain is copied: the source as it stands now is behind all of the copies.
LEMMA StageCapsuleStep ==
    ASSUME PostrunInv, NEW f \in Finalizers, StageCapsule(f) PROVE PostrunInv'
<1> DEFINE w == finalizer[f]
<1>n. PICK n : n = [[w EXCEPT !.walked = 0, !.wasPacked = (packed[w.capsule] # NoArtifact)]
                    EXCEPT !.at = "staged"]
    OBVIOUS
<1>1. w # NoTransaction /\ w.at = "streamed" /\ w.walked = DomainFiles
    BY DEF StageCapsule, At
<1>2. w \in Works /\ Sound(w)
    BY <1>1, WorkIs
<1>3. finalizer' = [finalizer EXCEPT ![f] = n] /\ UNCHANGED SharedVars
    BY <1>n DEF StageCapsule, Reaches, SharedVars, publishedVars
<1>4. /\ Source \in Looks /\ Len(moments) \in DOMAIN moments
      /\ moments[Len(moments)] = Source
    BY SourceIs DEF PostrunInv
<1>5. n \in Works /\ n.at = "staged" /\ n.ledger = w.ledger /\ n.domain = w.domain
      /\ n.walked = 0 /\ n.txn = w.txn /\ n.capsule = w.capsule /\ n.pinned = w.pinned
      /\ n.sealHere = w.sealHere /\ n.packedHere = w.packedHere
    BY <1>n, <1>2 DEF Works, Points
<1>6. Looked(n)
    <2>1. w.pinned <= w.ledger /\ w.ledger <= Source.ledger /\ w.pinned <= Source.ledger
        BY <1>1, <1>2 DEF Sound, Looked
    <2>2. moments[Len(moments)].ledger >= n.pinned
        BY <1>2, <1>4, <1>5, <2>1 DEF Looks, Works
    <2>3. \A i \in 1..DomainFiles : StoodBy(w, i, Len(moments))
        BY <1>1, <1>2, PostrunAssumption DEF Sound, Looked
    <2>4. \A i \in 1..DomainFiles : StoodBy(n, i, Len(moments))
        BY <1>5, <2>3 DEF StoodBy
    <2>5. WalkedTwice(n, Len(moments))
        BY <1>5, <2>2, <2>4 DEF WalkedTwice
    <2> HIDE DEF w
    <2> QED
        BY <1>4, <1>5, <2>1, <2>5 DEF Looked
<1>7. Sound(n)
    <2> HIDE DEF w
    <2> QED
        BY <1>1, <1>2, <1>5, <1>6, EarlySound DEF EarlyPoints
<1> QED
    BY <1>1, <1>3, <1>5, <1>7, Advance

\* One more file is read again, and must be what was copied.
LEMMA RecheckFileStep ==
    ASSUME PostrunInv, NEW f \in Finalizers, RecheckFile(f) PROVE PostrunInv'
<1> DEFINE w == finalizer[f]
<1>j. PICK j : j = w.walked + 1
    OBVIOUS
<1>n. PICK n : n = [[w EXCEPT !.walked = @ + 1] EXCEPT !.at = "staged"]
    OBVIOUS
<1>1. w # NoTransaction /\ w.at = "staged" /\ Source.domain[j] = w.domain[j]
    BY <1>j DEF RecheckFile, At, NextFile
<1>2. w \in Works /\ Sound(w)
    BY <1>1, WorkIs
<1>3. finalizer' = [finalizer EXCEPT ![f] = n] /\ UNCHANGED SharedVars
    BY <1>n DEF RecheckFile, Reaches, SharedVars, publishedVars
<1>4. /\ Source \in Looks /\ Len(moments) \in DOMAIN moments
      /\ moments[Len(moments)] = Source /\ DOMAIN moments = 1..Len(moments)
    BY SourceIs DEF PostrunInv, PostrunTypeOK
<1>5. n \in Works /\ n.at = "staged" /\ n.ledger = w.ledger /\ n.domain = w.domain
      /\ n.walked = j /\ n.txn = w.txn /\ n.capsule = w.capsule /\ n.pinned = w.pinned
      /\ n.sealHere = w.sealHere /\ n.packedHere = w.packedHere
    <2>1. j \in Nat
        BY <1>2, <1>j DEF Works
    <2>2. n = [[w EXCEPT !.walked = j] EXCEPT !.at = "staged"]
        BY <1>j, <1>n
    <2> HIDE DEF w
    <2> QED
        BY <1>2, <2>1, <2>2 DEF Works, Points
<1>6. Looked(n)
    <2>1. w.pinned <= w.ledger /\ w.ledger <= Source.ledger /\ w.pinned <= Source.ledger
        BY <1>1, <1>2 DEF Sound, Looked
    <2>2. PICK m \in DOMAIN moments : WalkedTwice(w, m)
        BY <1>1, <1>2 DEF Sound, Looked
    <2>3. ASSUME NEW i \in 1..DomainFiles, i <= n.walked PROVE StandsFrom(n, i, m)
        <3>1. CASE i = j
            <4>1. m <= Len(moments) /\ moments[Len(moments)].domain[i] = n.domain[i]
                BY <1>1, <1>4, <1>5, <2>2, <3>1
            <4> QED
                BY <1>4, <4>1 DEF StandsFrom
        <3>2. CASE i # j
            <4>1. i <= w.walked
                BY <1>2, <1>5, <1>j, <2>3, <3>2 DEF Works
            <4>2. StandsFrom(w, i, m)
                BY <2>2, <4>1 DEF WalkedTwice
            <4> QED
                BY <1>5, <4>2 DEF StandsFrom
        <3> QED
            BY <3>1, <3>2
    <2>4. \A i \in 1..DomainFiles : StoodBy(n, i, m)
        BY <1>5, <2>2 DEF WalkedTwice, StoodBy
    <2>5. WalkedTwice(n, m)
        BY <1>5, <2>2, <2>3, <2>4 DEF WalkedTwice
    <2> HIDE DEF w
    <2> QED
        BY <1>5, <2>1, <2>2, <2>5 DEF Looked
<1>7. Sound(n)
    <2> HIDE DEF w
    <2> QED
        BY <1>1, <1>2, <1>5, <1>6, EarlySound DEF EarlyPoints
<1> QED
    BY <1>1, <1>3, <1>5, <1>7, Advance

LEMMA SameContents ==
    ASSUME NEW d \in Domains, NEW e \in Domains, \A i \in 1..DomainFiles : d[i] = e[i]
    PROVE  d = e
<1>1. d = [i \in 1..DomainFiles |-> d[i]] /\ e = [i \in 1..DomainFiles |-> e[i]]
    BY DEF Domains
<1>2. [i \in 1..DomainFiles |-> d[i]] = [i \in 1..DomainFiles |-> e[i]]
    OBVIOUS
<1> QED
    BY <1>1, <1>2

\* What was walked twice beside the pinned ledger shows what the source was: the moment
\* between the walks is what is shown, or a file was something else then.
LEMMA TwoWalksShow ==
    ASSUME PostrunTypeOK, LedgerOnlyGrows, NEW x \in Works, x.walked = DomainFiles,
           x.pinned <= x.ledger, x.ledger <= Source.ledger, Source.ledger = x.pinned,
           NEW n \in DOMAIN moments, WalkedTwice(x, n)
    PROVE  Shown(Content(x))
<1>1. /\ DOMAIN moments = 1..Len(moments) /\ Len(moments) \in Nat
      /\ \A k \in DOMAIN moments : moments[k] \in Looks
      /\ \A k \in DOMAIN moments : moments[k] \in Range(moments)
    BY DEF PostrunTypeOK, Range
<1>2. x.ledger = x.pinned /\ x.ledger \in Nat /\ x.pinned \in Nat
    BY DEF Works
<1>3. ASSUME NEW k \in DOMAIN moments, moments[k].ledger >= x.pinned
      PROVE  moments[k].ledger = x.ledger
    <2>1. moments[k].ledger \in Nat /\ moments[k].ledger <= Source.ledger
        BY <1>1 DEF Looks, LedgerOnlyGrows
    <2> QED
        BY <1>2, <1>3, <2>1
<1>4. Content(x).ledger = x.ledger /\ Content(x).domain = x.domain
    BY DEF Content
<1>5. ASSUME NEW i \in 1..DomainFiles
      PROVE  /\ \E k \in 1..n : moments[k].domain[i] = x.domain[i] /\ moments[k].ledger = x.ledger
             /\ StandsFrom(x, i, n)
    <2>1. PICK k \in 1..n : moments[k].domain[i] = x.domain[i] /\ moments[k].ledger >= x.pinned
        BY DEF WalkedTwice, StoodBy
    <2>2. k \in DOMAIN moments
        BY <1>1
    <2>3. i <= x.walked
        BY PostrunAssumption
    <2> QED
        BY <1>3, <2>1, <2>2, <2>3 DEF WalkedTwice
<1>6. \A i \in 1..DomainFiles : \E m \in Range(moments) :
        m.ledger = x.ledger /\ m.domain[i] = x.domain[i]
    <2> TAKE i \in 1..DomainFiles
    <2>1. PICK k \in 1..n : moments[k].domain[i] = x.domain[i] /\ moments[k].ledger = x.ledger
        BY <1>5
    <2>2. k \in DOMAIN moments
        BY <1>1
    <2> QED
        BY <1>1, <2>1, <2>2
<1>7. CASE \A i \in 1..DomainFiles : moments[n].domain[i] = x.domain[i]
    <2>1. moments[n].domain \in Domains /\ x.domain \in Domains
        BY <1>1 DEF Looks, Works
    <2>2. moments[n].domain = x.domain
        BY <1>7, <2>1, SameContents
    <2>3. moments[n].ledger = x.ledger
        BY <1>3 DEF WalkedTwice
    <2>4. Content(Content(x)) = moments[n]
        BY <1>1, <1>4, <2>2, <2>3 DEF Looks, Content
    <2> QED
        BY <1>1, <1>4, <1>6, <2>4 DEF Shown, ShownBy
<1>8. ASSUME NEW i \in 1..DomainFiles, moments[n].domain[i] # x.domain[i]
      PROVE  CameBack(moments, i, x.domain[i])
    <2>1. PICK k \in 1..n : moments[k].domain[i] = x.domain[i]
        BY <1>5
    <2>2. PICK l \in DOMAIN moments : n <= l /\ moments[l].domain[i] = x.domain[i]
        BY <1>5 DEF StandsFrom
    <2>3. k \in DOMAIN moments /\ k < n /\ n < l
        BY <1>1, <1>8, <2>1, <2>2
    <2> QED
        BY <1>8, <2>1, <2>2, <2>3 DEF CameBack
<1>9. CASE \E i \in 1..DomainFiles : moments[n].domain[i] # x.domain[i]
    BY <1>4, <1>6, <1>8, <1>9 DEF Shown, ShownBy
<1> QED
    BY <1>7, <1>9

\* The ledger is read again: it is the pinned one, and was all along.
LEMMA RecheckLedgerStep ==
    ASSUME PostrunInv, NEW f \in Finalizers, RecheckLedger(f) PROVE PostrunInv'
<1> DEFINE w == finalizer[f]
           n == [w EXCEPT !.at = "rechecked"]
<1>1. /\ w # NoTransaction /\ w.at = "staged" /\ Source.ledger = w.pinned
      /\ w.walked = DomainFiles
    BY DEF RecheckLedger, At
<1>2. w \in Works /\ Sound(w)
    BY <1>1, WorkIs
<1>3. finalizer' = [finalizer EXCEPT ![f] = n] /\ UNCHANGED SharedVars
    BY DEF RecheckLedger, Reaches, SharedVars, publishedVars
<1>5. n \in Works /\ n.at = "rechecked" /\ n.ledger = w.ledger /\ n.domain = w.domain
      /\ n.txn = w.txn /\ n.capsule = w.capsule /\ n.pinned = w.pinned
      /\ n.sealHere = w.sealHere /\ n.packedHere = w.packedHere
    BY <1>2 DEF Works, Points
<1>6. Looked(n)
    <2> HIDE DEF n
    <2>1. PICK m \in DOMAIN moments : WalkedTwice(w, m)
        BY <1>1, <1>2 DEF Sound, Looked
    <2>2. w.pinned <= w.ledger /\ w.ledger <= Source.ledger /\ w.pinned <= Source.ledger
        BY <1>1, <1>2 DEF Sound, Looked
    <2>3. Shown(Content(w))
        <3> HIDE DEF w
        <3> QED
            BY <1>1, <1>2, <2>1, <2>2, TwoWalksShow DEF PostrunInv
    <2>4. Content(n) = Content(w)
        BY <1>5 DEF Content
    <2> QED
        BY <1>5, <2>2, <2>3, <2>4 DEF Looked
<1>7. Sound(n)
    <2> HIDE DEF n, w
    <2> QED
        BY <1>1, <1>2, <1>5, <1>6, EarlySound DEF EarlyPoints
<1> QED
    <2> HIDE DEF n
    <2> QED
        BY <1>1, <1>3, <1>5, <1>7, Advance

\* The receipt is drawn from the seal and the capsule that stand, and writes nothing.
LEMMA DrawReceiptStep ==
    ASSUME PostrunInv, NEW f \in Finalizers, DrawReceipt(f) PROVE PostrunInv'
<1> DEFINE w == finalizer[f]
           n == [[w EXCEPT !.pointed = Content(runSeal)] EXCEPT !.at = "drawn"]
<1>1. /\ w # NoTransaction /\ w.at = "packed" /\ runSeal # NoArtifact
      /\ packed[w.capsule] # NoArtifact /\ Content(packed[w.capsule]) = Content(w)
    BY DEF DrawReceipt, At, Staged
<1>2. w \in Works /\ Sound(w)
    BY <1>1, WorkIs
<1>3. finalizer' = [finalizer EXCEPT ![f] = n] /\ UNCHANGED SharedVars
    BY DEF DrawReceipt, Reaches, SharedVars, publishedVars
<1>4. Content(runSeal) \in Looks
    BY <1>1 DEF PostrunInv, PostrunTypeOK, Artifacts, Content, Looks
<1>5. n \in Works /\ n.at = "drawn" /\ n.ledger = w.ledger /\ n.domain = w.domain
      /\ n.txn = w.txn /\ n.capsule = w.capsule /\ n.pinned = w.pinned
      /\ n.sealHere = w.sealHere /\ n.packedHere = w.packedHere
    BY <1>2, <1>4 DEF Works, Points
<1>6. Content(n) = Content(w)
    BY <1>5 DEF Content
<1>7. Sound(n)
    <2> HIDE DEF n, w
    <2> QED
        BY <1>1, <1>2, <1>5, <1>6
        DEF Sound, Locked, Looked, SealStands, CapsuleStands
<1> QED
    <2> HIDE DEF n
    <2> QED
        BY <1>1, <1>3, <1>5, <1>7, Advance

\* With nothing of its own left to take back, or failing to, the transaction goes to its release.
LEMMA LeaveRestStep ==
    ASSUME PostrunInv, NEW f \in Finalizers, LeaveRest(f) PROVE PostrunInv'
<1> DEFINE w == finalizer[f]
           n == [w EXCEPT !.at = "release"]
<1>1. w # NoTransaction
    BY DEF LeaveRest, At
<1>2. w \in Works /\ Sound(w)
    BY <1>1, WorkIs
<1>3. finalizer' = [finalizer EXCEPT ![f] = n] /\ UNCHANGED SharedVars
    BY DEF LeaveRest, Reaches, SharedVars, publishedVars
<1>5. n \in Works /\ n.at = "release"
      /\ n.txn = w.txn /\ n.capsule = w.capsule /\ n.pinned = w.pinned
    BY <1>2 DEF Works, Points
<1>7. Sound(n)
    <2> HIDE DEF n, w
    <2> QED
        BY <1>2, <1>5 DEF Sound, Locked, Looked, SealStands, CapsuleStands
<1> QED
    <2> HIDE DEF n
    <2> QED
        BY <1>1, <1>3, <1>5, <1>7, Advance

\* A transaction that fails once its receipt is on disk keeps what it published; one
\* that fails before has no receipt to keep.
LEMMA FailStepStep ==
    ASSUME PostrunInv, NEW f \in Finalizers, FailStep(f) PROVE PostrunInv'
<1> DEFINE w == finalizer[f]
           n == [w EXCEPT !.at = IF Committed(f) THEN "release" ELSE "undo_capsule"]
<1>1. w # NoTransaction /\ w.at \notin {"undo_capsule", "undo_seal", "release"}
    BY DEF FailStep
<1>2. w \in Works /\ Sound(w)
    BY <1>1, WorkIs
<1>3. finalizer' = [finalizer EXCEPT ![f] = n] /\ UNCHANGED SharedVars
    BY DEF FailStep, Reaches, SharedVars, publishedVars
<1>4. w.at = "delivered" => Committed(f)
    BY <1>2 DEF Sound, CapsuleStands, Committed, SameReceipt, ReceiptOf, Content
<1>5. n \in Works /\ n.at = (IF Committed(f) THEN "release" ELSE "undo_capsule")
      /\ n.txn = w.txn /\ n.capsule = w.capsule /\ n.pinned = w.pinned
      /\ n.ledger = w.ledger /\ n.domain = w.domain
      /\ n.sealHere = w.sealHere /\ n.packedHere = w.packedHere
    BY <1>2 DEF Works, Points
<1>6. Content(n) = Content(w)
    BY <1>5 DEF Content
<1>7. Sound(n)
    <2> HIDE DEF n
    <2>1. CASE Committed(f)
        BY <1>2, <1>5, <2>1 DEF Sound, Locked, Looked, SealStands, CapsuleStands
    <2>2. CASE ~Committed(f)
        <3>1. w.at # "delivered" /\ n.at = "undo_capsule"
            BY <1>4, <1>5, <2>2
        <3> HIDE DEF w
        <3>2. SealStands(n)
            BY <1>1, <1>2, <1>5, <1>6, <3>1 DEF Sound, SealStands, Works, Points
        <3>3. CapsuleStands(n)
            BY <1>1, <1>2, <1>5, <1>6, <3>1 DEF Sound, CapsuleStands, Works, Points
        <3> QED
            BY <1>2, <1>5, <3>1, <3>2, <3>3 DEF Sound, Locked, Looked
    <2> QED
        BY <2>1, <2>2
<1> QED
    <2> HIDE DEF n
    <2> QED
        BY <1>1, <1>3, <1>5, <1>7, Advance

\* The locks keep the transactions at work apart.
LEMMA Apart ==
    ASSUME PostrunInv, NEW f \in Finalizers, NEW g \in Finalizers, f # g,
           finalizer[f] # NoTransaction, finalizer[g] # NoTransaction
    PROVE  /\ finalizer[f].txn # finalizer[g].txn
           /\ finalizer[f].capsule # finalizer[g].capsule
BY WorkIs DEF PostrunInv, WorksDiffer, Sound, Locked

\* A transaction that publishes, delivers or undoes: what is left to show is that it
\* stays sound and that nobody else's seal, capsule or receipt is touched.
LEMMA Publish ==
    ASSUME PostrunInv, NEW f \in Finalizers, finalizer[f] # NoTransaction, NEW n \in Works,
           finalizer' = [finalizer EXCEPT ![f] = n],
           n.txn = finalizer[f].txn,
           UNCHANGED <<moments, locks, transactions>>,
           runSeal' \in Artifacts \cup {NoArtifact},
           packed' \in [Capsules -> Artifacts \cup {NoArtifact}],
           delivered' \in [ReceiptPaths -> Deliveries \cup {NoArtifact, ForeignReceipt}],
           ArtifactsShown', ReceiptsStand',
           Locked(n), Looked(n), SealStands(n)', CapsuleStands(n)',
           \A g \in Finalizers \ {f} : \A x \in {finalizer[g]} \ {NoTransaction} :
                SealStands(x)' /\ CapsuleStands(x)'
    PROVE  PostrunInv'
<1> USE DEF PostrunInv
<1>1. PostrunTypeOK'
    BY DEF PostrunTypeOK
<1>2. LedgerOnlyGrows' /\ LocksBounded'
    BY DEF LedgerOnlyGrows, LocksBounded, Source
<1>3. \A g \in Finalizers : finalizer'[g] = IF g = f THEN n ELSE finalizer[g]
    BY DEF PostrunTypeOK
<1>4. n # NoTransaction
    BY DEF Works, NoTransaction
<1>5. WorksDiffer'
    BY <1>3, <1>4 DEF WorksDiffer
<1>6. WorksSound'
    <2>1. ASSUME NEW x, Locked(x), Looked(x) PROVE Locked(x)' /\ Looked(x)'
        BY <2>1 DEF Locked, Looked, Source, Shown, StoodBy, StandsFrom, WalkedTwice
    <2>2. Sound(n)'
        BY <2>1 DEF Sound
    <2> SUFFICES ASSUME NEW g \in Finalizers, NEW x \in {finalizer'[g]} \ {NoTransaction}
                 PROVE  Sound(x)'
        BY DEF WorksSound
    <2>3. CASE g = f
        BY <1>3, <2>2, <2>3
    <2>4. CASE g # f
        <3>1. x = finalizer[g] /\ x # NoTransaction
            BY <1>3, <2>4
        <3>2. Locked(x) /\ Looked(x)
            BY <3>1 DEF WorksSound, Sound
        <3>3. SealStands(x)' /\ CapsuleStands(x)'
            BY <2>4, <3>1
        <3> QED
            BY <2>1, <3>2, <3>3 DEF Sound
    <2> QED
        BY <2>3, <2>4
<1> QED
    BY <1>1, <1>2, <1>5, <1>6

\* Whoever publishes the seal finds none there, so no receipt counts on one and
\* nobody else has one to undo.
LEMMA SealPublished ==
    ASSUME PostrunInv, NEW f \in Finalizers, finalizer[f] # NoTransaction,
           finalizer[f].at = "rechecked", runSeal = NoArtifact,
           runSeal' = [by |-> finalizer[f].txn, ledger |-> finalizer[f].ledger,
                       domain |-> finalizer[f].domain],
           UNCHANGED <<moments, packed, delivered>>
    PROVE  /\ runSeal' \in Artifacts /\ runSeal' # NoArtifact
           /\ Content(runSeal)' = Content(finalizer[f])
           /\ \A r \in ReceiptPaths : Receipted(r) => ~delivered[r].ownSeal
           /\ ArtifactsShown' /\ ReceiptsStand'
           /\ \A g \in Finalizers \ {f} : \A x \in {finalizer[g]} \ {NoTransaction} :
                SealStands(x)' /\ CapsuleStands(x)'
<1> USE DEF PostrunInv
<1> DEFINE w == finalizer[f]
<1>1. w \in Works /\ Sound(w)
    BY WorkIs
<1>2. runSeal' \in Artifacts /\ runSeal' # NoArtifact /\ Content(runSeal)' = Content(w)
    BY <1>1 DEF Works, Artifacts, NoArtifact, Content
<1>3. Shown(Content(w))
    BY <1>1 DEF Sound, Looked
<1>4. \A r \in ReceiptPaths : Receipted(r) => ~delivered[r].ownSeal
    BY DEF ReceiptsStand, PostrunTypeOK
<1>5. ArtifactsShown'
    <2> HIDE DEF w
    <2> QED
        BY <1>2, <1>3 DEF ArtifactsShown, Shown
<1>6. ReceiptsStand'
    BY <1>4 DEF ReceiptsStand, Receipted
<1>7. ASSUME NEW g \in Finalizers \ {f}, NEW x \in {finalizer[g]} \ {NoTransaction}
      PROVE  SealStands(x)' /\ CapsuleStands(x)'
    <2>1. x \in Works /\ SealStands(x) /\ CapsuleStands(x)
        BY WorkIs DEF Sound
    <2>2. x.sealHere => x.at = "release"
        BY <2>1 DEF SealStands
    <2> QED
        BY <2>1, <2>2 DEF SealStands, CapsuleStands, Receipted
<1> QED
    BY <1>2, <1>4, <1>5, <1>6, <1>7

\* The seal is linked only where there is none, and what stands is compared with the draft.
LEMMA PublishSealStep ==
    ASSUME PostrunInv, NEW f \in Finalizers, PublishSeal(f) PROVE PostrunInv'
<1> DEFINE w == finalizer[f]
<1>n. PICK n : n = [[w EXCEPT !.sealHere = (runSeal = NoArtifact)] EXCEPT !.at = "sealed"]
    OBVIOUS
<1>1. w # NoTransaction /\ w.at = "rechecked"
    BY DEF PublishSeal, Moves, At
<1>2. w \in Works /\ Sound(w)
    BY <1>1, WorkIs
<1>3. finalizer' = [finalizer EXCEPT ![f] = n]
      /\ UNCHANGED <<moments, locks, packed, delivered, transactions>>
    BY <1>n DEF PublishSeal, Moves, Reaches
<1>4. n \in Works /\ n.at = "sealed" /\ n.ledger = w.ledger /\ n.domain = w.domain
      /\ n.txn = w.txn /\ n.capsule = w.capsule /\ n.pinned = w.pinned
      /\ n.sealHere = (runSeal = NoArtifact) /\ n.packedHere = w.packedHere
    BY <1>n, <1>2 DEF Works, Points
<1>5. Content(n) = Content(w)
    BY <1>4 DEF Content
<1>6. Locked(n) /\ Looked(n)
    <2> HIDE DEF w
    <2> QED
        BY <1>1, <1>2, <1>4, <1>5 DEF Sound, Locked, Looked
<1>7. CASE runSeal = NoArtifact
    <2>1. runSeal' = [by |-> w.txn, ledger |-> w.ledger, domain |-> w.domain]
        BY <1>7 DEF PublishSeal
    <2>2. /\ runSeal' \in Artifacts /\ runSeal' # NoArtifact
          /\ Content(runSeal)' = Content(w)
          /\ \A r \in ReceiptPaths : Receipted(r) => ~delivered[r].ownSeal
          /\ ArtifactsShown' /\ ReceiptsStand'
          /\ \A g \in Finalizers \ {f} : \A x \in {finalizer[g]} \ {NoTransaction} :
                SealStands(x)' /\ CapsuleStands(x)'
        BY <1>1, <1>3, <1>7, <2>1, SealPublished
    <2>3. runSeal'.by = w.txn
        BY <2>1
    <2>4. SealStands(n)' /\ CapsuleStands(n)'
        <3> HIDE DEF w
        <3> QED
            BY <1>1, <1>2, <1>3, <1>4, <1>5, <2>2, <2>3
            DEF Sound, SealStands, CapsuleStands, Receipted
    <2>5. /\ packed' \in [Capsules -> Artifacts \cup {NoArtifact}]
          /\ delivered' \in [ReceiptPaths -> Deliveries \cup {NoArtifact, ForeignReceipt}]
        BY <1>3 DEF PostrunInv, PostrunTypeOK
    <2> QED
        BY <1>1, <1>3, <1>4, <1>6, <2>2, <2>4, <2>5, Publish
<1>8. CASE runSeal # NoArtifact
    <2>1. UNCHANGED SharedVars
        BY <1>3, <1>8 DEF PublishSeal, SharedVars
    <2>2. Sound(n)
        <3> HIDE DEF w
        <3> QED
            BY <1>1, <1>2, <1>4, <1>5, <1>6, <1>8 DEF Sound, SealStands, CapsuleStands
    <2> QED
        BY <1>1, <1>3, <1>4, <2>1, <2>2, Advance
<1> QED
    BY <1>7, <1>8

\* A seal that cannot be published sends the transaction to the undo path.
LEMMA PublishSealFailsStep ==
    ASSUME PostrunInv, NEW f \in Finalizers, PublishSealFails(f) PROVE PostrunInv'
<1> DEFINE w == finalizer[f]
<1>n. PICK n : n = [w EXCEPT !.at = "undo_capsule"]
    OBVIOUS
<1>1. w # NoTransaction /\ w.at = "rechecked" /\ runSeal = NoArtifact
    BY DEF PublishSealFails, Moves, At
<1>2. w \in Works /\ Sound(w)
    BY <1>1, WorkIs
<1>3. finalizer' = [finalizer EXCEPT ![f] = n]
      /\ UNCHANGED <<moments, locks, packed, delivered, transactions>>
      /\ runSeal' = [by |-> w.txn, ledger |-> w.ledger, domain |-> w.domain]
    BY <1>n DEF PublishSealFails, Moves, Reaches
<1>4. n \in Works /\ n.at = "undo_capsule" /\ n.ledger = w.ledger /\ n.domain = w.domain
      /\ n.txn = w.txn /\ n.capsule = w.capsule /\ n.pinned = w.pinned
      /\ n.sealHere = w.sealHere /\ n.packedHere = w.packedHere
    BY <1>n, <1>2 DEF Works, Points
<1>5. ~n.sealHere /\ ~n.packedHere
    BY <1>1, <1>2, <1>4 DEF Sound, SealStands, CapsuleStands
<1>6. /\ runSeal' \in Artifacts /\ ArtifactsShown' /\ ReceiptsStand'
      /\ \A g \in Finalizers \ {f} : \A x \in {finalizer[g]} \ {NoTransaction} :
                SealStands(x)' /\ CapsuleStands(x)'
    BY <1>1, <1>3, SealPublished
<1>7. /\ packed' \in [Capsules -> Artifacts \cup {NoArtifact}]
      /\ delivered' \in [ReceiptPaths -> Deliveries \cup {NoArtifact, ForeignReceipt}]
    BY <1>3 DEF PostrunInv, PostrunTypeOK
<1>8. Locked(n) /\ Looked(n) /\ SealStands(n)' /\ CapsuleStands(n)'
    <2> HIDE DEF w
    <2> QED
        BY <1>1, <1>2, <1>3, <1>4, <1>5 DEF Sound, Locked, Looked, SealStands, CapsuleStands
<1> QED
    BY <1>1, <1>3, <1>4, <1>6, <1>7, <1>8, Publish

\* The capsule follows the seal it was drawn with.
LEMMA PublishCapsuleStep ==
    ASSUME PostrunInv, NEW f \in Finalizers, PublishCapsule(f) PROVE PostrunInv'
<1> USE DEF PostrunInv
<1> DEFINE w == finalizer[f]
<1>n. PICK n : n = [[w EXCEPT !.packedHere = ~w.wasPacked] EXCEPT !.at = "packed"]
    OBVIOUS
<1>1. w # NoTransaction /\ w.at = "sealed"
    BY DEF PublishCapsule, Moves, At
<1>2. w \in Works /\ Sound(w)
    BY <1>1, WorkIs
<1>3. finalizer' = [finalizer EXCEPT ![f] = n]
      /\ UNCHANGED <<moments, locks, runSeal, delivered, transactions>>
    BY <1>n DEF PublishCapsule, Moves, Reaches
<1>4. n \in Works /\ n.at = "packed" /\ n.ledger = w.ledger /\ n.domain = w.domain
      /\ n.txn = w.txn /\ n.capsule = w.capsule /\ n.pinned = w.pinned
      /\ n.sealHere = w.sealHere /\ n.packedHere = ~w.wasPacked
    BY <1>n, <1>2 DEF Works, Points
<1>5. Content(n) = Content(w)
    BY <1>4 DEF Content
<1>6. Locked(n) /\ Looked(n)
    <2> HIDE DEF w
    <2> QED
        BY <1>1, <1>2, <1>4, <1>5 DEF Sound, Locked, Looked
<1>7. CASE w.wasPacked
    <2>1. UNCHANGED SharedVars
        BY <1>3, <1>7 DEF PublishCapsule, SharedVars
    <2>2. Sound(n)
        <3> HIDE DEF w
        <3> QED
            BY <1>1, <1>2, <1>4, <1>5, <1>6, <1>7 DEF Sound, SealStands, CapsuleStands
    <2> QED
        BY <1>1, <1>3, <1>4, <2>1, <2>2, Advance
<1>8. CASE ~w.wasPacked
    <2>c. PICK c \in Capsules : c = w.capsule
        BY <1>2 DEF Works
    <2>a. PICK a : a = [by |-> w.txn, ledger |-> w.ledger, domain |-> w.domain]
        OBVIOUS
    <2>1. packed[c] = NoArtifact /\ packed' = [packed EXCEPT ![c] = a]
        BY <1>8, <2>c, <2>a DEF PublishCapsule
    <2>2. a \in Artifacts /\ a # NoArtifact /\ Content(a) = Content(w)
        BY <1>2, <2>a DEF Works, Artifacts, NoArtifact, Content
    <2>3. \A d \in Capsules : packed'[d] = IF d = c THEN a ELSE packed[d]
        BY <2>1 DEF PostrunTypeOK
    <2>4. packed' \in [Capsules -> Artifacts \cup {NoArtifact}]
        BY <2>1, <2>2 DEF PostrunTypeOK
    <2>5. \A r \in ReceiptPaths : Receipted(r) =>
            delivered[r].capsule \in Capsules /\ delivered[r].capsule # c
        <3>1. \A r \in ReceiptPaths : Receipted(r) => delivered[r] \in Deliveries
            BY DEF PostrunTypeOK, Receipted
        <3> QED
            BY <2>1, <3>1 DEF ReceiptsStand, Deliveries
    <2>6. ArtifactsShown'
        <3>1. Shown(Content(w))
            BY <1>1, <1>2 DEF Sound, Looked
        <3> HIDE DEF w
        <3> QED
            BY <1>3, <2>2, <2>3, <3>1 DEF ArtifactsShown, Shown
    <2>7. ReceiptsStand'
        BY <1>3, <2>3, <2>5 DEF ReceiptsStand, Receipted
    <2>8. SealStands(n)' /\ CapsuleStands(n)'
        <3> HIDE DEF w
        <3> QED
            BY <1>1, <1>2, <1>3, <1>4, <1>5, <2>c, <2>5
            DEF Sound, SealStands, CapsuleStands, Receipted
    <2>9. ASSUME NEW g \in Finalizers \ {f}, NEW x \in {finalizer[g]} \ {NoTransaction}
          PROVE  SealStands(x)' /\ CapsuleStands(x)'
        <3>1. x \in Works /\ Sound(x) /\ x.capsule # c /\ x.capsule \in Capsules
            BY <1>1, <2>c, Apart, WorkIs DEF Works
        <3> QED
            BY <1>3, <2>3, <3>1 DEF Sound, SealStands, CapsuleStands, Receipted
    <2>10. /\ runSeal' \in Artifacts \cup {NoArtifact}
           /\ delivered' \in [ReceiptPaths -> Deliveries \cup {NoArtifact, ForeignReceipt}]
        BY <1>3 DEF PostrunTypeOK
    <2>11. UNCHANGED <<moments, locks, transactions>>
        BY <1>3
    <2> QED
        BY <1>1, <1>3, <1>4, <1>6, <2>4, <2>6, <2>7, <2>8, <2>9, <2>10, <2>11, Publish
<1> QED
    BY <1>7, <1>8

\* The receipt is delivered last, when what it names stands under the lock.
LEMMA DeliverReceiptStep ==
    ASSUME PostrunInv, NEW f \in Finalizers, DeliverReceipt(f) PROVE PostrunInv'
<1> USE DEF PostrunInv
<1> DEFINE w == finalizer[f]
<1>n. PICK n : n = [w EXCEPT !.at = "delivered"]
    OBVIOUS
<1>1. w # NoTransaction /\ w.at = "drawn"
    BY DEF DeliverReceipt, Moves, At
<1>2. w \in Works /\ Sound(w)
    BY <1>1, WorkIs
<1>3. finalizer' = [finalizer EXCEPT ![f] = n]
      /\ UNCHANGED <<moments, locks, runSeal, packed, transactions>>
    BY <1>n DEF DeliverReceipt, Moves, Reaches
<1>4. n \in Works /\ n.at = "delivered" /\ n.ledger = w.ledger /\ n.domain = w.domain
      /\ n.txn = w.txn /\ n.capsule = w.capsule /\ n.pinned = w.pinned
      /\ n.receipt = w.receipt /\ n.pointed = w.pointed
      /\ n.sealHere = w.sealHere /\ n.packedHere = w.packedHere
    BY <1>n, <1>2 DEF Works, Points
<1>5. Content(n) = Content(w)
    BY <1>4 DEF Content
<1>6. Locked(n) /\ Looked(n)
    <2> HIDE DEF w
    <2> QED
        BY <1>1, <1>2, <1>4, <1>5 DEF Sound, Locked, Looked
<1>s. PICK s \in ReceiptPaths : s = w.receipt
    BY <1>2 DEF Works
<1>d. PICK d : d = ReceiptOf(f)
    OBVIOUS
<1>7. /\ d \in Deliveries /\ d \notin {NoArtifact, ForeignReceipt}
      /\ SameReceipt(d, n) /\ d.capsule = w.capsule /\ d.ownSeal = w.sealHere
      /\ Content(d) = Content(w)
    BY <1>2, <1>4, <1>d
    DEF ReceiptOf, Works, Deliveries, NoArtifact, ForeignReceipt, SameReceipt, Content
<1>8. CASE delivered[s] = NoArtifact /\ delivered' = [delivered EXCEPT ![s] = d]
    <2>1. \A r \in ReceiptPaths : delivered'[r] = IF r = s THEN d ELSE delivered[r]
        BY <1>8 DEF PostrunTypeOK
    <2>2. delivered' \in [ReceiptPaths -> Deliveries \cup {NoArtifact, ForeignReceipt}]
        BY <1>7, <1>8 DEF PostrunTypeOK
    <2>3. ReceiptsStand'
        <3>1. packed[d.capsule] # NoArtifact /\ Content(packed[d.capsule]) = Content(d)
            BY <1>1, <1>2, <1>7 DEF Sound, CapsuleStands
        <3>2. d.ownSeal => runSeal # NoArtifact /\ Content(runSeal) = Content(d)
            BY <1>1, <1>2, <1>7 DEF Sound, SealStands
        <3> QED
            BY <1>3, <2>1, <3>1, <3>2 DEF ReceiptsStand, Receipted, Content
    <2>4. ArtifactsShown'
        BY <1>3 DEF ArtifactsShown, Shown
    <2>5. SealStands(n)' /\ CapsuleStands(n)'
        <3>1. (Receipted(n.receipt) /\ SameReceipt(delivered[n.receipt], n))'
            BY <1>4, <1>7, <1>s, <2>1 DEF Receipted
        <3> HIDE DEF w
        <3> QED
            BY <1>1, <1>2, <1>3, <1>4, <1>5, <3>1 DEF Sound, SealStands, CapsuleStands
    <2>6. ASSUME NEW g \in Finalizers \ {f}, NEW x \in {finalizer[g]} \ {NoTransaction}
          PROVE  SealStands(x)' /\ CapsuleStands(x)'
        <3>1. x \in Works /\ Sound(x) /\ x.capsule # w.capsule /\ x.txn # w.txn
            BY <1>1, Apart, WorkIs
        <3>2. x.sealHere /\ x.at # "release" => ~d.ownSeal
            BY <1>1, <1>2, <1>7, <3>1 DEF Sound, SealStands
        <3>3. SealStands(x)'
            BY <1>3, <2>1, <3>1, <3>2 DEF Sound, SealStands, Receipted
        <3>4. x.at = "delivered" => x.receipt # s
            BY <1>8, <3>1 DEF Sound, CapsuleStands, Receipted
        <3>5. x.receipt \in ReceiptPaths
            BY <3>1 DEF Works
        <3>6. CapsuleStands(x)'
            BY <1>3, <1>7, <2>1, <3>1, <3>4, <3>5 DEF Sound, CapsuleStands, Receipted
        <3> QED
            BY <3>3, <3>6
    <2>7. /\ runSeal' \in Artifacts \cup {NoArtifact}
          /\ packed' \in [Capsules -> Artifacts \cup {NoArtifact}]
        BY <1>3 DEF PostrunTypeOK
    <2>8. UNCHANGED <<moments, locks, transactions>>
        BY <1>3
    <2> QED
        BY <1>1, <1>3, <1>4, <1>6, <2>2, <2>3, <2>4, <2>5, <2>6, <2>7, <2>8, Publish
<1>9. CASE Receipted(s) /\ SameReceipt(delivered[s], d) /\ UNCHANGED delivered
    <2>1. UNCHANGED SharedVars
        BY <1>3, <1>9 DEF SharedVars
    <2>2. SameReceipt(delivered[s], n)
        BY <1>7, <1>9 DEF SameReceipt
    <2>3. Sound(n)
        <3> HIDE DEF w
        <3> QED
            BY <1>1, <1>2, <1>4, <1>5, <1>6, <1>9, <1>s, <2>2
            DEF Sound, SealStands, CapsuleStands
    <2> QED
        BY <1>1, <1>3, <1>4, <2>1, <2>3, Advance
<1> QED
    BY <1>8, <1>9, <1>s, <1>d DEF DeliverReceipt

\* What a transaction undoes, no receipt counts on.
LEMMA UndoCapsuleStep ==
    ASSUME PostrunInv, NEW f \in Finalizers, UndoCapsule(f) PROVE PostrunInv'
<1> USE DEF PostrunInv
<1> DEFINE w == finalizer[f]
<1>n. PICK n : n = [w EXCEPT !.at = "undo_seal"]
    OBVIOUS
<1>1. w # NoTransaction /\ w.at = "undo_capsule"
    BY DEF UndoCapsule, Moves, At
<1>2. w \in Works /\ Sound(w)
    BY <1>1, WorkIs
<1>3. finalizer' = [finalizer EXCEPT ![f] = n]
      /\ UNCHANGED <<moments, locks, runSeal, delivered, transactions>>
    BY <1>n DEF UndoCapsule, Moves, Reaches
<1>4. n \in Works /\ n.at = "undo_seal" /\ n.ledger = w.ledger /\ n.domain = w.domain
      /\ n.txn = w.txn /\ n.capsule = w.capsule /\ n.pinned = w.pinned
      /\ n.sealHere = w.sealHere /\ n.packedHere = w.packedHere
    BY <1>n, <1>2 DEF Works, Points
<1>5. Content(n) = Content(w)
    BY <1>4 DEF Content
<1>c. PICK c \in Capsules : c = w.capsule
    BY <1>2 DEF Works
<1>6. \A d \in Capsules : packed'[d] = IF d = c /\ w.packedHere THEN NoArtifact ELSE packed[d]
    BY <1>c DEF UndoCapsule, PostrunTypeOK
<1>7. packed' \in [Capsules -> Artifacts \cup {NoArtifact}]
    BY <1>c DEF UndoCapsule, PostrunTypeOK
<1>8. \A r \in ReceiptPaths : Receipted(r) =>
        delivered[r].capsule \in Capsules /\ (w.packedHere => delivered[r].capsule # c)
    <2>1. \A r \in ReceiptPaths : Receipted(r) => delivered[r] \in Deliveries
        BY DEF PostrunTypeOK, Receipted
    <2> QED
        BY <1>1, <1>2, <1>c, <2>1 DEF Sound, CapsuleStands, Deliveries
<1>9. ArtifactsShown' /\ ReceiptsStand'
    <2> HIDE DEF w
    <2> QED
        BY <1>3, <1>6, <1>8 DEF ArtifactsShown, ReceiptsStand, Shown, Receipted
<1>10. Locked(n) /\ Looked(n) /\ SealStands(n)' /\ CapsuleStands(n)'
    <2> HIDE DEF w
    <2> QED
        BY <1>1, <1>2, <1>3, <1>4, <1>5
        DEF Sound, Locked, Looked, SealStands, CapsuleStands, Receipted
<1>11. ASSUME NEW g \in Finalizers \ {f}, NEW x \in {finalizer[g]} \ {NoTransaction}
       PROVE  SealStands(x)' /\ CapsuleStands(x)'
    <2>1. x \in Works /\ Sound(x) /\ x.capsule # c /\ x.capsule \in Capsules
        BY <1>1, <1>c, Apart, WorkIs DEF Works
    <2> QED
        BY <1>3, <1>6, <2>1 DEF Sound, SealStands, CapsuleStands, Receipted
<1>12. /\ runSeal' \in Artifacts \cup {NoArtifact}
       /\ delivered' \in [ReceiptPaths -> Deliveries \cup {NoArtifact, ForeignReceipt}]
       /\ UNCHANGED <<moments, locks, transactions>>
    BY <1>3 DEF PostrunTypeOK
<1> QED
    BY <1>1, <1>3, <1>4, <1>7, <1>9, <1>10, <1>11, <1>12, Publish

\* The undo takes back only the seal this transaction linked.
LEMMA UndoSealStep ==
    ASSUME PostrunInv, NEW f \in Finalizers, UndoSeal(f) PROVE PostrunInv'
<1> USE DEF PostrunInv
<1> DEFINE w == finalizer[f]
<1>n. PICK n : n = [w EXCEPT !.at = "release"]
    OBVIOUS
<1>1. /\ w # NoTransaction /\ w.at = "undo_seal" /\ w.sealHere
      /\ runSeal.by = w.txn /\ runSeal' = NoArtifact
    BY DEF UndoSeal, OwnSeal, Moves, At
<1>2. w \in Works /\ Sound(w)
    BY <1>1, WorkIs
<1>3. finalizer' = [finalizer EXCEPT ![f] = n]
      /\ UNCHANGED <<moments, locks, packed, delivered, transactions>>
    BY <1>n DEF UndoSeal, Moves, Reaches
<1>4. n \in Works /\ n.at = "release" /\ n.txn = w.txn /\ n.capsule = w.capsule
      /\ n.pinned = w.pinned
    BY <1>n, <1>2 DEF Works, Points
<1>5. \A r \in ReceiptPaths : Receipted(r) => ~delivered[r].ownSeal
    BY <1>1, <1>2 DEF Sound, SealStands
<1>6. ArtifactsShown' /\ ReceiptsStand'
    <2> HIDE DEF w
    <2> QED
        BY <1>1, <1>3, <1>5 DEF ArtifactsShown, ReceiptsStand, Shown, Receipted
<1>7. Locked(n) /\ Looked(n) /\ SealStands(n)' /\ CapsuleStands(n)'
    <2> HIDE DEF w
    <2> QED
        BY <1>1, <1>2, <1>3, <1>4 DEF Sound, Locked, Looked, SealStands, CapsuleStands
<1>8. ASSUME NEW g \in Finalizers \ {f}, NEW x \in {finalizer[g]} \ {NoTransaction}
      PROVE  SealStands(x)' /\ CapsuleStands(x)'
    <2>1. x \in Works /\ Sound(x) /\ x.txn # w.txn
        BY <1>1, Apart, WorkIs
    <2>2. x.sealHere => x.at = "release"
        BY <1>1, <2>1 DEF Sound, SealStands
    <2> QED
        BY <1>3, <2>1, <2>2 DEF Sound, SealStands, CapsuleStands, Receipted
<1>9. /\ runSeal' \in Artifacts \cup {NoArtifact}
      /\ packed' \in [Capsules -> Artifacts \cup {NoArtifact}]
      /\ delivered' \in [ReceiptPaths -> Deliveries \cup {NoArtifact, ForeignReceipt}]
      /\ UNCHANGED <<moments, locks, transactions>>
    BY <1>1, <1>3 DEF PostrunTypeOK
<1> QED
    BY <1>1, <1>3, <1>4, <1>6, <1>7, <1>8, <1>9, Publish

\* Taking the lock: nobody else is past it.
LEMMA AcquireLockStep ==
    ASSUME PostrunInv, NEW f \in Finalizers, NEW c \in Capsules, NEW r \in ReceiptPaths,
           AcquireLock(f, c, r)
    PROVE  PostrunInv'
<1> USE DEF PostrunInv
<1>n. PICK n : n = [txn |-> transactions', capsule |-> c, receipt |-> r, at |-> "pinned",
             pinned |-> Source.ledger, ledger |-> 0, domain |-> FirstDomain, walked |-> 0,
             sealHere |-> FALSE, packedHere |-> FALSE, wasPacked |-> FALSE,
             pointed |-> NoArtifact]
    OBVIOUS
<1>1. /\ finalizer[f] = NoTransaction /\ locks[c] = 0
      /\ transactions' = transactions + 1
      /\ locks' = [locks EXCEPT ![c] = transactions']
      /\ finalizer' = [finalizer EXCEPT ![f] = n]
      /\ UNCHANGED <<moments, runSeal, packed, delivered>>
    BY <1>n DEF AcquireLock, publishedVars
<1>2. Source \in Looks /\ transactions \in Nat
    BY SourceIs DEF PostrunTypeOK
<1>3. /\ n \in Works /\ n # NoTransaction /\ n.txn = transactions' /\ n.capsule = c
      /\ n.at = "pinned" /\ n.pinned = Source.ledger /\ ~n.sealHere /\ ~n.packedHere
      /\ n.walked = 0
    BY <1>n, <1>1, <1>2 DEF Works, Looks, Domains, FirstDomain, Points, NoTransaction
<1>4. PostrunTypeOK'
    BY <1>1, <1>2, <1>3 DEF PostrunTypeOK
<1>5. LedgerOnlyGrows' /\ ArtifactsShown' /\ ReceiptsStand'
    BY <1>1 DEF LedgerOnlyGrows, ArtifactsShown, ReceiptsStand, Source, Shown, Receipted
<1>6. LocksBounded'
    BY <1>1, <1>2 DEF LocksBounded, PostrunTypeOK
<1>7. \A g \in Finalizers : finalizer'[g] = IF g = f THEN n ELSE finalizer[g]
    BY <1>1 DEF PostrunTypeOK
<1>8. \A g \in Finalizers : \A x \in {finalizer[g]} \ {NoTransaction} :
        x \in Works /\ Sound(x) /\ x.capsule # c /\ x.txn <= transactions
    BY <1>1, WorkIs DEF Sound, Locked, Works
<1>9. WorksDiffer'
    BY <1>1, <1>2, <1>3, <1>7, <1>8 DEF WorksDiffer, Works
<1>10. WorksSound'
    <2>1. ASSUME NEW x \in Works, Sound(x), x.capsule # c PROVE Sound(x)'
        BY <1>1, <1>2, <2>1
        DEF Sound, Locked, Looked, SealStands, CapsuleStands, PostrunTypeOK, Works, Source, Shown,
            Receipted, StoodBy, StandsFrom, WalkedTwice
    <2>2. Sound(n)'
        BY <1>1, <1>2, <1>3
        DEF Sound, Locked, Looked, SealStands, CapsuleStands, PostrunTypeOK, Source, Looks
    <2> SUFFICES ASSUME NEW g \in Finalizers, NEW x \in {finalizer'[g]} \ {NoTransaction}
                 PROVE  Sound(x)'
        BY DEF WorksSound
    <2> QED
        BY <1>7, <1>8, <2>1, <2>2
<1> QED
    BY <1>4, <1>5, <1>6, <1>9, <1>10

\* Ending a transaction, with its lock or without, touches nobody else's.
LEMMA EndStep ==
    ASSUME PostrunInv, NEW f \in Finalizers, finalizer[f] # NoTransaction,
           finalizer' = [finalizer EXCEPT ![f] = NoTransaction],
           UNCHANGED <<moments, runSeal, packed, delivered, transactions>>,
           locks' \in [Capsules -> Nat],
           \A c \in Capsules : locks'[c] = locks[c] \/ locks'[c] = 0,
           \A c \in Capsules : c # finalizer[f].capsule => locks'[c] = locks[c]
    PROVE  PostrunInv'
<1> USE DEF PostrunInv
<1>1. PostrunTypeOK'
    BY DEF PostrunTypeOK
<1>2. LedgerOnlyGrows' /\ ArtifactsShown' /\ ReceiptsStand'
    BY DEF LedgerOnlyGrows, ArtifactsShown, ReceiptsStand, Source, Shown, Receipted
<1>3. LocksBounded'
    <2>1. \A c \in Capsules : locks[c] <= transactions
        BY DEF LocksBounded
    <2>2. transactions \in Nat /\ transactions' = transactions
        BY DEF PostrunTypeOK
    <2> QED
        BY <2>1, <2>2 DEF LocksBounded
<1>4. \A g \in Finalizers : finalizer'[g] = IF g = f THEN NoTransaction ELSE finalizer[g]
    BY DEF PostrunTypeOK
<1>5. WorksDiffer'
    BY <1>4 DEF WorksDiffer
<1>6. WorksSound'
    <2> SUFFICES ASSUME NEW g \in Finalizers, NEW x \in {finalizer'[g]} \ {NoTransaction}
                 PROVE  Sound(x)'
        BY DEF WorksSound
    <2>1. x = finalizer[g] /\ g # f /\ x \in Works /\ Sound(x)
          /\ x.capsule \in Capsules /\ x.capsule # finalizer[f].capsule
        BY <1>4, Apart, WorkIs DEF Works
    <2> QED
        BY <2>1 DEF Sound, Locked, Looked, SealStands, CapsuleStands, Source, Shown, Receipted,
                    StoodBy, StandsFrom, WalkedTwice
<1> QED
    BY <1>1, <1>2, <1>3, <1>5, <1>6

\* Letting go of the lock ends the transaction, and no other holds it.
LEMMA ReleaseLockStep ==
    ASSUME PostrunInv, NEW f \in Finalizers, ReleaseLock(f) PROVE PostrunInv'
<1>1. /\ finalizer[f] # NoTransaction
      /\ finalizer' = [finalizer EXCEPT ![f] = NoTransaction]
      /\ UNCHANGED <<moments, runSeal, packed, delivered, transactions>>
    BY DEF ReleaseLock, At, publishedVars
<1>2. finalizer[f].capsule \in Capsules /\ locks \in [Capsules -> Nat]
    BY <1>1, WorkIs DEF Works, PostrunInv, PostrunTypeOK
<1>3. /\ locks' \in [Capsules -> Nat]
      /\ \A c \in Capsules : locks'[c] = locks[c] \/ locks'[c] = 0
      /\ \A c \in Capsules : c # finalizer[f].capsule => locks'[c] = locks[c]
    BY <1>2 DEF ReleaseLock
<1> QED
    BY <1>1, <1>3, EndStep

\* A finalizer killed where it stands leaves its lock and its files behind.
LEMMA StopFinalizerStep ==
    ASSUME PostrunInv, NEW f \in Finalizers, StopFinalizer(f) PROVE PostrunInv'
<1>1. /\ finalizer[f] # NoTransaction
      /\ finalizer' = [finalizer EXCEPT ![f] = NoTransaction]
      /\ UNCHANGED <<moments, runSeal, packed, delivered, transactions>>
      /\ UNCHANGED locks
    BY DEF StopFinalizer, publishedVars
<1>2. locks' \in [Capsules -> Nat]
    BY <1>1 DEF PostrunInv, PostrunTypeOK
<1> QED
    BY <1>1, <1>2, EndStep

\* An operator removes the lock file of a finalizer that is gone.
LEMMA ClearLockStep ==
    ASSUME PostrunInv, NEW c \in Capsules, ClearLock(c) PROVE PostrunInv'
<1> USE DEF PostrunInv
<1>1. /\ \A f \in Finalizers : finalizer[f] # NoTransaction => finalizer[f].txn # locks[c]
      /\ locks' = [locks EXCEPT ![c] = 0]
      /\ UNCHANGED <<moments, runSeal, packed, delivered, finalizer, transactions>>
    BY DEF ClearLock, publishedVars
<1>2. PostrunTypeOK'
    BY <1>1 DEF PostrunTypeOK
<1>3. LedgerOnlyGrows' /\ ArtifactsShown' /\ ReceiptsStand' /\ WorksDiffer' /\ LocksBounded'
    BY <1>1 DEF LedgerOnlyGrows, ArtifactsShown, ReceiptsStand, WorksDiffer, LocksBounded, Source,
                Shown, Receipted, PostrunTypeOK
<1>4. WorksSound'
    <2> SUFFICES ASSUME NEW g \in Finalizers, NEW x \in {finalizer'[g]} \ {NoTransaction}
                 PROVE  Sound(x)'
        BY DEF WorksSound
    <2>1. x = finalizer[g] /\ x \in Works /\ Sound(x) /\ x.capsule \in Capsules
        BY <1>1, WorkIs DEF Works
    <2>2. x.capsule # c
        BY <1>1, <2>1 DEF Sound, Locked
    <2>3. locks'[x.capsule] = locks[x.capsule]
        BY <1>1, <2>1, <2>2 DEF PostrunTypeOK
    <2> QED
        BY <1>1, <2>1, <2>3
        DEF Sound, Locked, Looked, SealStands, CapsuleStands, Source, Shown, Receipted,
            StoodBy, StandsFrom, WalkedTwice
<1> QED
    BY <1>2, <1>3, <1>4

\* What was shown stays shown when the source goes on.
LEMMA ShownGrows ==
    ASSUME NEW log, NEW more, NEW x, DOMAIN log \subseteq DOMAIN more,
           \A k \in DOMAIN log : more[k] = log[k], ShownBy(log, x)
    PROVE  ShownBy(more, x)
<1>1. Range(log) \subseteq Range(more)
    BY DEF Range
<1>2. ASSUME NEW i, NEW content, CameBack(log, i, content) PROVE CameBack(more, i, content)
    BY <1>2 DEF CameBack
<1> QED
    BY <1>1, <1>2 DEF ShownBy

\* The run goes on growing: looks that were taken stay behind it.
LEMMA ChangeSourceStep ==
    ASSUME PostrunInv, ChangeSource PROVE PostrunInv'
<1> USE DEF PostrunInv
<1>1. /\ moments \in Seq(Looks) /\ Source \in Looks
      /\ moments[Len(moments)] = Source /\ Len(moments) \in DOMAIN moments
    BY SourceIs DEF PostrunTypeOK
<1>2. UNCHANGED <<locks, runSeal, packed, delivered, finalizer, transactions>>
    BY DEF ChangeSource, publishedVars
<1>m. PICK m \in Looks : moments' = Append(moments, m) /\ m.ledger >= Source.ledger
    <2>1. CASE moments' = Append(moments, [Source EXCEPT !.ledger = @ + 1])
        <3>1. PICK m : m = [Source EXCEPT !.ledger = @ + 1]
            OBVIOUS
        <3>2. m \in Looks /\ m.ledger >= Source.ledger
            BY <1>1, <3>1 DEF Looks
        <3> QED
            BY <2>1, <3>1, <3>2
    <2>2. ASSUME NEW i \in 1..DomainFiles,
                 moments' = Append(moments, [Source EXCEPT !.domain[i] = 1 - @])
          PROVE  \E m \in Looks : moments' = Append(moments, m) /\ m.ledger >= Source.ledger
        <3>1. PICK m : m = [Source EXCEPT !.domain[i] = 1 - @]
            OBVIOUS
        <3>2. Source.domain \in Domains /\ Source.ledger \in Nat
            BY <1>1 DEF Looks
        <3>3. [Source.domain EXCEPT ![i] = 1 - @] \in Domains
            <4>1. Source.domain[i] \in {0, 1}
                BY <3>2 DEF Domains
            <4>2. PICK b \in {0, 1} : b = 1 - Source.domain[i]
                BY <4>1
            <4> QED
                BY <3>2, <4>2, OneFileDiffers
        <3>4. m = [ledger |-> Source.ledger, domain |-> [Source.domain EXCEPT ![i] = 1 - @]]
            BY <1>1, <3>1 DEF Looks
        <3>5. m \in Looks /\ m.ledger >= Source.ledger
            BY <3>2, <3>3, <3>4 DEF Looks
        <3> QED
            BY <2>2, <3>1, <3>5
    <2> QED
        BY <2>1, <2>2 DEF ChangeSource
<1>4. /\ moments' \in Seq(Looks) /\ moments' # <<>>
      /\ DOMAIN moments = 1..Len(moments) /\ Len(moments) \in Nat
      /\ Len(moments') = Len(moments) + 1 /\ DOMAIN moments' = 1..(Len(moments) + 1)
      /\ DOMAIN moments \subseteq DOMAIN moments'
      /\ \A i \in DOMAIN moments : moments'[i] = moments[i]
      /\ \A i \in DOMAIN moments' : i \in DOMAIN moments \/ moments'[i] = m
      /\ moments'[Len(moments')] = m
    BY <1>1, <1>m
<1>5. PostrunTypeOK'
    BY <1>2, <1>4 DEF PostrunTypeOK
<1>6. Source' = m /\ Source.ledger \in Nat /\ m.ledger \in Nat /\ m.ledger >= Source.ledger
    BY <1>1, <1>4, <1>m DEF Source, Last, Looks
<1>7. LedgerOnlyGrows'
    <2>1. ASSUME NEW i \in DOMAIN moments PROVE moments[i] \in Looks
        BY <1>1
    <2>2. \A i \in DOMAIN moments : moments[i].ledger \in Nat
        BY <2>1 DEF Looks
    <2> QED
        BY <1>4, <1>6, <2>2 DEF LedgerOnlyGrows
<1>8. \A look : Shown(look) => ShownBy(moments', look)
    BY <1>4, ShownGrows DEF Shown
<1>9. ArtifactsShown' /\ ReceiptsStand' /\ WorksDiffer' /\ LocksBounded'
    BY <1>2, <1>8 DEF ArtifactsShown, ReceiptsStand, WorksDiffer, LocksBounded, Receipted, Shown
<1>10. WorksSound'
    <2> SUFFICES ASSUME NEW g \in Finalizers, NEW x \in {finalizer'[g]} \ {NoTransaction}
                 PROVE  Sound(x)'
        BY DEF WorksSound
    <2>1. x = finalizer[g] /\ x \in Works /\ Sound(x)
        BY <1>2, WorkIs
    <2>2. x.pinned \in Nat /\ x.ledger \in Nat
        BY <2>1 DEF Works
    <2>3. Looked(x)
        BY <2>1 DEF Sound
    <2>4. ASSUME NEW i, NEW n \in DOMAIN moments, StoodBy(x, i, n) PROVE StoodBy(x, i, n)'
        BY <1>4, <2>4 DEF StoodBy
    <2>5. ASSUME NEW i, NEW n, StandsFrom(x, i, n) PROVE StandsFrom(x, i, n)'
        BY <1>4, <2>5 DEF StandsFrom
    <2>6. ASSUME NEW n \in DOMAIN moments, WalkedTwice(x, n) PROVE WalkedTwice(x, n)'
        BY <1>4, <2>4, <2>5, <2>6 DEF WalkedTwice
    <2>7. ASSUME NEW i, StoodBy(x, i, Len(moments)) PROVE StoodBy(x, i, Len(moments))'
        BY <1>4, <2>7 DEF StoodBy
    <2>8. Looked(x)'
        <3>1. x.pinned <= Source'.ledger
            BY <1>6, <2>2, <2>3 DEF Looked
        <3>2. x.at \in {"streamed", "staged"} => x.pinned <= x.ledger /\ x.ledger <= Source'.ledger
            BY <1>6, <2>2, <2>3 DEF Looked
        <3>3. x.at = "streamed" =>
                \A i \in 1..DomainFiles : i <= x.walked => StoodBy(x, i, Len(moments))'
            BY <2>3, <2>7 DEF Looked
        <3>4. x.at = "staged" => \E n \in DOMAIN moments' : WalkedTwice(x, n)'
            BY <1>4, <2>3, <2>6 DEF Looked
        <3>5. x.at \in {"rechecked", "sealed", "packed", "drawn"} => Shown(Content(x))'
            BY <1>8, <2>3 DEF Looked, Shown
        <3> QED
            BY <2>3, <3>1, <3>2, <3>3, <3>4, <3>5 DEF Looked
    <2> QED
        BY <1>2, <2>1, <2>8 DEF Sound, Locked, SealStands, CapsuleStands, Receipted
<1> QED
    BY <1>5, <1>7, <1>9, <1>10

\* Finalizers that race, fail, stop and are cleared away keep the invariant.
THEOREM PostrunInvariant == PostrunSpec => []PostrunInv
<1>1. PostrunInit => PostrunInv
    BY InitPostrun
<1>2. PostrunInv /\ [PostrunNext]_postrunVars => PostrunInv'
    <2> SUFFICES ASSUME PostrunInv, [PostrunNext]_postrunVars PROVE PostrunInv'
        OBVIOUS
    <2>1. CASE ChangeSource
        BY <2>1, ChangeSourceStep
    <2>2. ASSUME NEW f \in Finalizers, NEW c \in Capsules, NEW r \in ReceiptPaths,
                 AcquireLock(f, c, r)
          PROVE  PostrunInv'
        BY <2>2, AcquireLockStep
    <2>3. ASSUME NEW f \in Finalizers, SealAndPackRun(f) PROVE PostrunInv'
        BY <2>3, StreamLedgerStep, CopyFileStep, StageCapsuleStep, RecheckFileStep,
           RecheckLedgerStep, PublishSealStep, PublishSealFailsStep, PublishCapsuleStep,
           DrawReceiptStep,
           DeliverReceiptStep, FailStepStep, UndoCapsuleStep, UndoSealStep, LeaveRestStep,
           ReleaseLockStep, StopFinalizerStep
        DEF SealAndPackRun
    <2>4. ASSUME NEW c \in Capsules, ClearLock(c) PROVE PostrunInv'
        BY <2>4, ClearLockStep
    <2>5. CASE UNCHANGED postrunVars
        BY <2>5 DEF postrunVars, PostrunInv, PostrunTypeOK, LedgerOnlyGrows, LocksBounded,
                    WorksSound, WorksDiffer, ArtifactsShown, ReceiptsStand, Sound, Locked, Looked,
                    SealStands, CapsuleStands, Source, Shown, Receipted, StoodBy, StandsFrom,
                    WalkedTwice
    <2> QED
        BY <2>1, <2>2, <2>3, <2>4, <2>5 DEF PostrunNext
<1> QED
    BY <1>1, <1>2, PTL DEF PostrunSpec

\* For any number of finalizers, destinations, domain files and changes of the source:
\* every file a seal or capsule shows stood beside its ledger, all of them at one moment
\* unless one came back; and a committed receipt's capsule, and the seal its transaction
\* published, stand (strongwiz_streaming_postrun.py).
THEOREM DeliveriesReliable == PostrunSpec => []DeliveriesStand
<1>1. PostrunInv => DeliveriesStand
    <2> SUFFICES ASSUME PostrunInv PROVE DeliveriesStand
        OBVIOUS
    <2>1. ASSUME NEW x, Shown(Content(x)) PROVE ShownBy(moments, x)
        BY <2>1 DEF Shown, ShownBy, Content
    <2> QED
        BY <2>1 DEF PostrunInv, ArtifactsShown, ReceiptsStand, DeliveriesStand
<1> QED
    BY <1>1, PostrunInvariant, PTL

-----------------------------------------------------------------------------
\* Scribe sessions.

\* The lane of a payload among the materials of a session.
Lane(s, payload) == FirstOrdinal(Materials(s), payload) % Stride
Shows(s, payload) == payload \in PayloadsOf(Materials(s)) /\ Lane(s, payload) # Slot
HoldsOut(s, payload) == payload \in PayloadsOf(Materials(s)) /\ Lane(s, payload) = Slot

\* Every variable has the type the argument needs.
JournalsAreSequences ==
    /\ journal = [s \in Sessions |-> journal[s]]
    /\ \A s \in Sessions : journal[s] \in Seq(Range(journal[s]))
    /\ kevin \in Seq(Range(kevin))
    /\ asked \in [Sessions \X CycleIds -> Nat]
\* Cycles are numbered as they are requested, and a new one has not been asked for.
CyclesNumbered ==
    \E n \in 0..MaxCycles : UNION {Requested(s) : s \in Sessions} = 1..n
\* A cycle is asked at most once, and only on its request.
AskedOnRequest ==
    \A s \in Sessions, c \in CycleIds :
        asked[<<s, c>>] <= 1 /\ (asked[<<s, c>>] = 1 => c \in Requested(s))
\* What the operation at work holds: it asks for a cycle nobody was asked for, and
\* touches the workspace for a cycle whose draft is frozen.
CyclePoints ==
    {"deferring", "asking", "failing", "drafted", "frozen", "proposed", "eligible",
     "not_earned", "promoted"}
HandHolds ==
    /\ doing \in {"rest", "ingesting"} \cup CyclePoints
    /\ doing # "rest" =>
        /\ hand.s \in Sessions
        /\ \A s \in Sessions : hand.s = s =>
            /\ doing = "ingesting" =>
                /\ hand.material.ordinal \in Nat
                /\ \A m \in Materials(s) : m.ordinal < hand.material.ordinal
            /\ doing \in CyclePoints => hand.cycle \in Requested(s)
            /\ doing = "asking" => asked[<<s, hand.cycle>>] = 0
            /\ doing \in {"frozen", "proposed", "eligible", "not_earned", "promoted"} =>
                hand.cycle \in Frozen(s)
\* Ordinals are numbers.
OrdinalsNatural == \A s \in Sessions : \A m \in Materials(s) : m.ordinal \in Nat
\* A request shows the driver one lane and holds out the other.
RequestsSplit ==
    \A s \in Sessions : \A r \in Values(s, "request") :
        /\ \A p \in PayloadsOf(r.adaptation) : Shows(s, p)
        /\ \A p \in PayloadsOf(r.validation) : HoldsOut(s, p)
\* What the workspace holds of a cycle is of a frozen draft, and an evaluation holds
\* out what its session never shows.
WorkspaceFollows ==
    \A i \in DOMAIN kevin : \E s \in Sessions, c \in CycleIds :
        /\ kevin[i].by = <<s, c>> /\ c \in Frozen(s)
        /\ kevin[i].kind = "evaluation" => \A p \in kevin[i].held : HoldsOut(s, p)
ScribeInv ==
    /\ JournalsAreSequences /\ CyclesNumbered /\ AskedOnRequest /\ HandHolds
    /\ OrdinalsNatural /\ RequestsSplit /\ WorkspaceFollows

\* A nonempty set of natural numbers has a least one.
LEMMA LeastOf ==
    ASSUME NEW T \in SUBSET Nat, T # {}
    PROVE  \E x \in T : \A y \in T : x <= y
<1> DEFINE R == {p \in Nat \X Nat : p[1] < p[2]}
<1>1. IsWellFoundedOn(R, Nat)
    BY NatLessThanWellFounded DEF OpToRel
<1>2. \A x, y \in Nat : <<y, x>> \in R <=> y < x
    OBVIOUS
<1> HIDE DEF R
<1>3. PICK x \in T : \A y \in T : <<y, x>> \notin R
    BY <1>1, WFMin
<1>4. \A y \in T : ~(y < x)
    BY <1>2, <1>3
<1> QED
    BY <1>4

\* A payload seen before keeps its first ordinal as later materials come in.
LEMMA FirstOrdinalStays ==
    ASSUME NEW M, \A m \in M : m.ordinal \in Nat,
           NEW late, late.ordinal \in Nat, \A m \in M : m.ordinal < late.ordinal,
           NEW p \in PayloadsOf(M)
    PROVE  FirstOrdinal(M \cup {late}, p) = FirstOrdinal(M, p)
<1> DEFINE A == {m.ordinal : m \in {n \in M : n.payload = p}}
           B == {m.ordinal : m \in {n \in M \cup {late} : n.payload = p}}
<1>1. A \in SUBSET Nat /\ A # {}
    BY DEF PayloadsOf
<1>2. PICK a \in A : \A y \in A : a <= y
    BY <1>1, LeastOf
<1>3. \A y \in B : y \in A \/ y = late.ordinal
    OBVIOUS
<1>4. A \subseteq B /\ a < late.ordinal /\ a \in Nat
    BY <1>1
<1>5. a \in B /\ \A y \in B : a <= y
    BY <1>2, <1>3, <1>4
<1>6. B \in SUBSET Nat
    BY <1>1, <1>3
<1> HIDE DEF A, B
<1>7. Min(A) = a
    <2>1. \A x \in A : (\A y \in A : x <= y) => x = a
        BY <1>1, <1>2
    <2> QED
        BY <1>2, <2>1 DEF Min
<1>8. Min(B) = a
    <2>1. \A x \in B : (\A y \in B : x <= y) => x = a
        BY <1>5, <1>6
    <2> QED
        BY <1>5, <2>1 DEF Min
<1> QED
    BY <1>7, <1>8 DEF FirstOrdinal, A, B

\* A journal that grows says what it said, and the receipt's value.
LEMMA JournalGrows ==
    ASSUME JournalsAreSequences, NEW s0 \in Sessions, NEW kind0, NEW value0,
           Journals(s0, kind0, value0)
    PROVE  /\ journal' = [s \in Sessions |-> journal'[s]]
           /\ \A s \in Sessions : journal'[s] \in Seq(Range(journal'[s]))
           /\ \A s \in Sessions : \A kind :
                Values(s, kind)' = IF s = s0 /\ kind = kind0 THEN Values(s, kind) \cup {value0}
                                   ELSE Values(s, kind)
<1>r. PICK r : r = [kind |-> kind0, value |-> value0, before |-> Len(kevin)]
    OBVIOUS
<1>1. r.kind = kind0 /\ r.value = value0
    BY <1>r
<1>2. /\ journal' = [journal EXCEPT ![s0] = Append(@, r)]
      /\ journal = [s \in Sessions |-> journal[s]]
      /\ \A s \in Sessions : journal[s] \in Seq(Range(journal[s]))
    BY <1>r DEF Journals, JournalsAreSequences
<1>3. \A s \in Sessions : journal'[s] = IF s = s0 THEN Append(journal[s0], r) ELSE journal[s]
    BY <1>2
<1>4. journal' = [s \in Sessions |-> journal'[s]]
    BY <1>2
<1>5. PICK q : q = journal[s0]
    OBVIOUS
<1>6. /\ q \in Seq(Range(q)) /\ DOMAIN q = 1..Len(q) /\ Len(q) \in Nat
      /\ DOMAIN Append(q, r) = 1..(Len(q) + 1)
      /\ \A i \in 1..Len(q) : Append(q, r)[i] = q[i]
      /\ Append(q, r)[Len(q) + 1] = r
    <2>1. q \in Seq(Range(q))
        BY <1>2, <1>5
    <2> QED
        BY <2>1
<1>7. Append(q, r) \in Seq(Range(Append(q, r)))
    <2>1. q \in Seq(Range(q) \cup {r})
        BY <1>6
    <2>2. Append(q, r) \in Seq(Range(q) \cup {r})
        BY <2>1
    <2>3. \A i \in 1..(Len(q) + 1) : Append(q, r)[i] \in Range(Append(q, r))
        BY <1>6 DEF Range
    <2>4. Len(Append(q, r)) = Len(q) + 1
        BY <1>6
    <2> QED
        BY <2>2, <2>3, <2>4
<1>8. \A s \in Sessions : journal'[s] \in Seq(Range(journal'[s]))
    BY <1>2, <1>3, <1>5, <1>7
<1>9. ASSUME NEW s \in Sessions, NEW kind
      PROVE  Values(s, kind)' = IF s = s0 /\ kind = kind0 THEN Values(s, kind) \cup {value0}
                                ELSE Values(s, kind)
    <2>1. CASE s # s0
        BY <1>3, <2>1 DEF Values, Receipts
    <2>2. CASE s = s0
        <3>1. journal'[s] = Append(q, r) /\ journal[s] = q
            BY <1>3, <1>5, <2>2
        <3>2. Values(s, kind)' = {Append(q, r)[i].value :
                    i \in {j \in 1..(Len(q) + 1) : Append(q, r)[j].kind = kind}}
            BY <1>6, <3>1 DEF Values, Receipts
        <3>3. Values(s, kind) = {q[i].value : i \in {j \in 1..Len(q) : q[j].kind = kind}}
            BY <1>6, <3>1 DEF Values, Receipts
        <3>4. \A i \in 1..(Len(q) + 1) : i \in 1..Len(q) \/ i = Len(q) + 1
            BY <1>6
        <3>5. ASSUME NEW x
              PROVE  x \in Values(s, kind)' <=>
                        x \in Values(s, kind) \/ (kind = kind0 /\ x = value0)
            <4>1. x \in Values(s, kind)' =>
                        x \in Values(s, kind) \/ (kind = kind0 /\ x = value0)
                BY <1>1, <1>6, <3>2, <3>3, <3>4
            <4>2. x \in Values(s, kind) => x \in Values(s, kind)'
                BY <1>6, <3>2, <3>3
            <4>3. kind = kind0 /\ x = value0 => x \in Values(s, kind)'
                BY <1>1, <1>6, <3>2
            <4> QED
                BY <4>1, <4>2, <4>3
        <3> QED
            BY <2>2, <3>5
    <2> QED
        BY <2>1, <2>2
<1> QED
    BY <1>4, <1>8, <1>9

\* While the materials stay, so do the lanes.
LEMMA LanesStay ==
    ASSUME NEW s, Materials(s)' = Materials(s)
    PROVE  \A p : (Shows(s, p) => Shows(s, p)') /\ (HoldsOut(s, p) => HoldsOut(s, p)')
BY DEF Shows, HoldsOut, Lane

\* What stays when nothing but the operation at work moves on.
StillHolds ==
    /\ JournalsAreSequences /\ CyclesNumbered /\ AskedOnRequest
    /\ OrdinalsNatural /\ RequestsSplit /\ WorkspaceFollows

\* A step that leaves the journal and the questions alone keeps all that is read from them.
LEMMA Untouched ==
    ASSUME ScribeInv, UNCHANGED <<journal, kevin, asked>>
    PROVE  /\ StillHolds'
           /\ \A s : /\ Requested(s)' = Requested(s) /\ Frozen(s)' = Frozen(s)
                     /\ Materials(s)' = Materials(s)
<1>1. \A s : \A kind : Values(s, kind)' = Values(s, kind)
    BY DEF Values, Receipts
<1>2. \A s : /\ Requested(s)' = Requested(s) /\ Frozen(s)' = Frozen(s)
             /\ Materials(s)' = Materials(s)
    BY <1>1 DEF Requested, Frozen, Materials
<1>3. \A s, p : (Shows(s, p) => Shows(s, p)') /\ (HoldsOut(s, p) => HoldsOut(s, p)')
    BY <1>2 DEF Shows, HoldsOut, Lane
<1>4. JournalsAreSequences' /\ OrdinalsNatural'
    BY <1>2 DEF ScribeInv, JournalsAreSequences, OrdinalsNatural
<1>5. CyclesNumbered' /\ AskedOnRequest'
    BY <1>2 DEF ScribeInv, CyclesNumbered, AskedOnRequest
<1>6. RequestsSplit'
    BY <1>1, <1>3 DEF ScribeInv, RequestsSplit
<1>7. WorkspaceFollows'
    BY <1>2, <1>3 DEF ScribeInv, WorkspaceFollows
<1> QED
    BY <1>2, <1>4, <1>5, <1>6, <1>7 DEF StillHolds

\* What stays when a receipt is journaled that is no material and no request.
LEMMA Journaled ==
    ASSUME ScribeInv, NEW s0 \in Sessions, NEW kind0 \in {"genesis", "frozen", "cycle"},
           NEW value0, Journals(s0, kind0, value0), UNCHANGED <<kevin, asked>>
    PROVE  /\ StillHolds'
           /\ \A s \in Sessions :
                /\ Requested(s)' = Requested(s) /\ Materials(s)' = Materials(s)
                /\ Frozen(s) \subseteq Frozen(s)'
           /\ kind0 = "frozen" => value0.cycle \in Frozen(s0)'
<1>1. /\ journal' = [s \in Sessions |-> journal'[s]]
      /\ \A s \in Sessions : journal'[s] \in Seq(Range(journal'[s]))
      /\ \A s \in Sessions : \A kind :
            Values(s, kind)' = IF s = s0 /\ kind = kind0 THEN Values(s, kind) \cup {value0}
                               ELSE Values(s, kind)
    BY JournalGrows DEF ScribeInv
<1>2. \A s \in Sessions :
        /\ Values(s, "request")' = Values(s, "request")
        /\ Values(s, "material")' = Values(s, "material")
        /\ Values(s, "frozen") \subseteq Values(s, "frozen")'
    BY <1>1
<1>3. \A s \in Sessions :
        /\ Requested(s)' = Requested(s) /\ Materials(s)' = Materials(s)
        /\ Frozen(s) \subseteq Frozen(s)'
    BY <1>2 DEF Requested, Frozen, Materials
<1>4. kind0 = "frozen" => value0.cycle \in Frozen(s0)'
    BY <1>1 DEF Frozen
<1>5. \A s \in Sessions : \A p :
        (Shows(s, p) => Shows(s, p)') /\ (HoldsOut(s, p) => HoldsOut(s, p)')
    BY <1>3 DEF Shows, HoldsOut, Lane
<1>6. JournalsAreSequences' /\ OrdinalsNatural'
    BY <1>1, <1>3 DEF ScribeInv, JournalsAreSequences, OrdinalsNatural
<1>7. CyclesNumbered' /\ AskedOnRequest'
    <2>1. UNION {Requested(s)' : s \in Sessions} = UNION {Requested(s) : s \in Sessions}
        BY <1>3
    <2> QED
        BY <1>3, <2>1 DEF ScribeInv, CyclesNumbered, AskedOnRequest
<1>8. RequestsSplit'
    BY <1>2, <1>5 DEF ScribeInv, RequestsSplit
<1>9. WorkspaceFollows'
    <2> SUFFICES ASSUME NEW i \in DOMAIN kevin
                 PROVE  \E s \in Sessions, c \in CycleIds :
                    /\ kevin[i].by = <<s, c>> /\ c \in Frozen(s)'
                    /\ kevin[i].kind = "evaluation" => \A p \in kevin[i].held : HoldsOut(s, p)'
        BY DEF WorkspaceFollows
    <2>1. PICK s \in Sessions, c \in CycleIds :
            /\ kevin[i].by = <<s, c>> /\ c \in Frozen(s)
            /\ kevin[i].kind = "evaluation" => \A p \in kevin[i].held : HoldsOut(s, p)
        BY DEF ScribeInv, WorkspaceFollows
    <2> QED
        BY <1>3, <1>5, <2>1
<1> QED
    BY <1>3, <1>4, <1>6, <1>7, <1>8, <1>9 DEF StillHolds

\* Opening a session journals its genesis, which asks for no cycle and holds no material.
LEMMA OpenStep ==
    ASSUME ScribeInv, NEW s \in Sessions, Open(s) PROVE ScribeInv'
<1>1. /\ Journals(s, "genesis", Nothing) /\ UNCHANGED <<kevin, asked>>
      /\ doing = "rest" /\ doing' = doing
    BY DEF Open
<1>2. StillHolds'
    BY <1>1, Journaled
<1>3. HandHolds'
    BY <1>1 DEF HandHolds, CyclePoints
<1> QED
    BY <1>2, <1>3 DEF ScribeInv, StillHolds

\* An ingest writes the workspace first: no journal changes yet, and the ordinal at hand is new.
LEMMA IngestStep ==
    ASSUME ScribeInv, NEW s \in Sessions, NEW ordinal \in Nat, NEW payload,
           Ingest(s, ordinal, payload)
    PROVE  ScribeInv'
<1>1. /\ UNCHANGED <<journal, kevin, asked>> /\ doing' = "ingesting"
      /\ hand' = [s |-> s, material |-> [ordinal |-> ordinal, payload |-> payload]]
      /\ \A m \in Materials(s) : m.ordinal < ordinal
    BY DEF Ingest, Goes
<1>2. StillHolds' /\ Materials(s)' = Materials(s)
    BY <1>1, Untouched
<1>3. hand'.s = s /\ hand'.material.ordinal = ordinal
    BY <1>1
<1>4. \A m \in Materials(s)' : m.ordinal < hand'.material.ordinal
    BY <1>1, <1>2, <1>3
<1>5. HandHolds'
    BY <1>1, <1>3, <1>4 DEF HandHolds, CyclePoints
<1> QED
    BY <1>2, <1>5 DEF ScribeInv, StillHolds

\* A material comes after all the others, so no payload changes its lane.
LEMMA IngestMaterialStep ==
    ASSUME ScribeInv, IngestMaterial PROVE ScribeInv'
<1>1. /\ doing = "ingesting" /\ doing' = "rest" /\ UNCHANGED <<kevin, asked>>
      /\ Journals(hand.s, "material", hand.material)
    BY DEF IngestMaterial, Goes
<1>h. PICK s0 \in Sessions : s0 = hand.s
    BY <1>1 DEF ScribeInv, HandHolds
<1>l. PICK late : late = hand.material
    OBVIOUS
<1>2. late.ordinal \in Nat /\ \A m \in Materials(s0) : m.ordinal < late.ordinal
    BY <1>1, <1>h, <1>l DEF ScribeInv, HandHolds
<1>3. Journals(s0, "material", late)
    BY <1>1, <1>h, <1>l
<1>4. /\ journal' = [s \in Sessions |-> journal'[s]]
      /\ \A s \in Sessions : journal'[s] \in Seq(Range(journal'[s]))
      /\ \A s \in Sessions : \A kind :
            Values(s, kind)' = IF s = s0 /\ kind = "material" THEN Values(s, kind) \cup {late}
                               ELSE Values(s, kind)
    BY <1>3, JournalGrows DEF ScribeInv
<1>5. \A s \in Sessions :
        /\ Values(s, "request")' = Values(s, "request")
        /\ Requested(s)' = Requested(s) /\ Frozen(s)' = Frozen(s)
        /\ Materials(s)' = IF s = s0 THEN Materials(s) \cup {late} ELSE Materials(s)
    BY <1>4 DEF Requested, Frozen, Materials
<1>6. ASSUME NEW s \in Sessions, NEW p, p \in PayloadsOf(Materials(s))
      PROVE  p \in PayloadsOf(Materials(s))' /\ Lane(s, p)' = Lane(s, p)
    <2>1. CASE s # s0
        BY <1>5, <1>6, <2>1 DEF Lane
    <2>2. CASE s = s0
        <3>1. \A m \in Materials(s) : m.ordinal \in Nat
            BY DEF ScribeInv, OrdinalsNatural
        <3>2. FirstOrdinal(Materials(s) \cup {late}, p) = FirstOrdinal(Materials(s), p)
            BY <1>2, <1>6, <2>2, <3>1, FirstOrdinalStays
        <3>3. Materials(s)' = Materials(s) \cup {late}
            BY <1>5, <2>2
        <3>4. FirstOrdinal(Materials(s), p)' = FirstOrdinal(Materials(s) \cup {late}, p)
            BY <3>3 DEF FirstOrdinal
        <3>5. Lane(s, p)' = Lane(s, p)
            BY <3>2, <3>4 DEF Lane
        <3>6. p \in PayloadsOf(Materials(s))'
            BY <1>6, <3>3 DEF PayloadsOf
        <3> QED
            BY <3>5, <3>6
    <2> QED
        BY <2>1, <2>2
<1>7. \A s \in Sessions : \A p :
        (Shows(s, p) => Shows(s, p)') /\ (HoldsOut(s, p) => HoldsOut(s, p)')
    BY <1>6 DEF Shows, HoldsOut
<1>8. JournalsAreSequences'
    BY <1>1, <1>4 DEF ScribeInv, JournalsAreSequences
<1>9. OrdinalsNatural'
    BY <1>2, <1>5 DEF ScribeInv, OrdinalsNatural
<1>10. CyclesNumbered' /\ AskedOnRequest'
    <2>1. UNION {Requested(s)' : s \in Sessions} = UNION {Requested(s) : s \in Sessions}
        BY <1>5
    <2> QED
        BY <1>1, <1>5, <2>1 DEF ScribeInv, CyclesNumbered, AskedOnRequest
<1>11. RequestsSplit'
    BY <1>5, <1>7 DEF ScribeInv, RequestsSplit
<1>12. WorkspaceFollows'
    <2> SUFFICES ASSUME NEW i \in DOMAIN kevin
                 PROVE  \E s \in Sessions, c \in CycleIds :
                    /\ kevin[i].by = <<s, c>> /\ c \in Frozen(s)'
                    /\ kevin[i].kind = "evaluation" => \A p \in kevin[i].held : HoldsOut(s, p)'
        BY <1>1 DEF WorkspaceFollows
    <2>1. PICK s \in Sessions, c \in CycleIds :
            /\ kevin[i].by = <<s, c>> /\ c \in Frozen(s)
            /\ kevin[i].kind = "evaluation" => \A p \in kevin[i].held : HoldsOut(s, p)
        BY DEF ScribeInv, WorkspaceFollows
    <2> QED
        BY <1>5, <1>7, <2>1
<1>13. HandHolds'
    BY <1>1 DEF HandHolds, CyclePoints
<1> QED
    BY <1>8, <1>9, <1>10, <1>11, <1>12, <1>13 DEF ScribeInv, StillHolds

\* The new cycle is one nobody was asked for, and its materials are split by lane.
LEMMA RequestCycleStep ==
    ASSUME ScribeInv, NEW s0 \in Sessions, RequestCycle(s0) PROVE ScribeInv'
<1> DEFINE done == Processed(Values(s0, "cycle"))
<1>r. PICK r : r = [cycle |-> NewCycle, active |-> Active,
                    adaptation |-> Adaptation(Materials(s0), done),
                    validation |-> Validation(Materials(s0), done)]
    OBVIOUS
<1>1. /\ Journals(s0, "request", r) /\ UNCHANGED <<kevin, asked>>
      /\ NewCycle \in CycleIds
      /\ doing' \in {"deferring", "asking"} /\ hand' = [s |-> s0, cycle |-> NewCycle]
    BY <1>r DEF RequestCycle, Goes
<1>2. /\ journal' = [s \in Sessions |-> journal'[s]]
      /\ \A s \in Sessions : journal'[s] \in Seq(Range(journal'[s]))
      /\ \A s \in Sessions : \A kind :
            Values(s, kind)' = IF s = s0 /\ kind = "request" THEN Values(s, kind) \cup {r}
                               ELSE Values(s, kind)
    BY <1>1, JournalGrows DEF ScribeInv
<1>3. /\ r.cycle = NewCycle
      /\ r.adaptation = Adaptation(Materials(s0), done)
      /\ r.validation = Validation(Materials(s0), done)
    BY <1>r
<1>4. \A s \in Sessions :
        /\ Frozen(s)' = Frozen(s) /\ Materials(s)' = Materials(s)
        /\ Requested(s)' = IF s = s0 THEN Requested(s) \cup {NewCycle} ELSE Requested(s)
    BY <1>2, <1>3 DEF Requested, Frozen, Materials
<1>5. PICK n \in 0..MaxCycles : UNION {Requested(s) : s \in Sessions} = 1..n
    BY DEF ScribeInv, CyclesNumbered
<1>6. NewCycle = n + 1
    <2>1. Cardinality(1..n) = n
        BY FS_Interval
    <2> QED
        BY <1>5, <2>1 DEF NewCycle
<1>7. CyclesNumbered'
    <2>1. UNION {Requested(s)' : s \in Sessions}
            = (UNION {Requested(s) : s \in Sessions}) \cup {NewCycle}
        BY <1>4
    <2>2. (1..n) \cup {NewCycle} = 1..(n + 1)
        BY <1>6
    <2>3. n + 1 \in 0..MaxCycles
        BY <1>1, <1>6 DEF CycleIds
    <2>4. UNION {Requested(s)' : s \in Sessions} = 1..(n + 1)
        BY <1>5, <2>1, <2>2
    <2> QED
        BY <2>3, <2>4 DEF CyclesNumbered
<1>8. NewCycle \notin Requested(s0)
    BY <1>5, <1>6
<1>9. asked[<<s0, NewCycle>>] = 0
    <2>1. asked[<<s0, NewCycle>>] \in Nat /\ asked[<<s0, NewCycle>>] <= 1
        BY <1>1 DEF ScribeInv, JournalsAreSequences, AskedOnRequest
    <2>2. asked[<<s0, NewCycle>>] # 1
        BY <1>1, <1>8 DEF ScribeInv, AskedOnRequest
    <2> QED
        BY <2>1, <2>2
<1>10. \A s \in Sessions : \A p :
        (Shows(s, p) => Shows(s, p)') /\ (HoldsOut(s, p) => HoldsOut(s, p)')
    BY <1>4 DEF Shows, HoldsOut, Lane
<1>11. /\ \A p \in PayloadsOf(r.adaptation) : Shows(s0, p)
       /\ \A p \in PayloadsOf(r.validation) : HoldsOut(s0, p)
    <2> HIDE DEF done
    <2>1. ASSUME NEW m \in r.adaptation
          PROVE  m \in Materials(s0) /\ Lane(s0, m.payload) # Slot
        BY <1>3 DEF Adaptation, Validation, Pending, Lane
    <2>2. ASSUME NEW m \in r.validation
          PROVE  m \in Materials(s0) /\ Lane(s0, m.payload) = Slot
        BY <1>3 DEF Validation, Pending, Lane
    <2> QED
        BY <2>1, <2>2 DEF PayloadsOf, Shows, HoldsOut
<1>12. JournalsAreSequences' /\ OrdinalsNatural'
    BY <1>1, <1>2, <1>4 DEF ScribeInv, JournalsAreSequences, OrdinalsNatural
<1>13. AskedOnRequest'
    BY <1>1, <1>4 DEF ScribeInv, AskedOnRequest
<1>14. RequestsSplit'
    <2> SUFFICES ASSUME NEW s \in Sessions, NEW q \in Values(s, "request")'
                 PROVE  /\ \A p \in PayloadsOf(q.adaptation) : Shows(s, p)'
                        /\ \A p \in PayloadsOf(q.validation) : HoldsOut(s, p)'
        BY DEF RequestsSplit
    <2>1. q \in Values(s, "request") \/ (s = s0 /\ q = r)
        BY <1>2
    <2> QED
        BY <1>10, <1>11, <2>1 DEF ScribeInv, RequestsSplit
<1>15. WorkspaceFollows'
    <2> SUFFICES ASSUME NEW i \in DOMAIN kevin
                 PROVE  \E s \in Sessions, c \in CycleIds :
                    /\ kevin[i].by = <<s, c>> /\ c \in Frozen(s)'
                    /\ kevin[i].kind = "evaluation" => \A p \in kevin[i].held : HoldsOut(s, p)'
        BY <1>1 DEF WorkspaceFollows
    <2>1. PICK s \in Sessions, c \in CycleIds :
            /\ kevin[i].by = <<s, c>> /\ c \in Frozen(s)
            /\ kevin[i].kind = "evaluation" => \A p \in kevin[i].held : HoldsOut(s, p)
        BY DEF ScribeInv, WorkspaceFollows
    <2> QED
        BY <1>4, <1>10, <2>1
<1>16. HandHolds'
    <2>1. hand'.s = s0 /\ hand'.cycle = NewCycle /\ NewCycle \in Requested(s0)'
        BY <1>1, <1>4
    <2> QED
        BY <1>1, <1>9, <2>1 DEF HandHolds, CyclePoints
<1> QED
    BY <1>7, <1>12, <1>13, <1>14, <1>15, <1>16 DEF ScribeInv, StillHolds

\* While a cycle is worked on, its request is in the journal of its session.
LEMMA AtWork ==
    ASSUME ScribeInv, doing \in CyclePoints
    PROVE  /\ hand.s \in Sessions /\ hand.cycle \in CycleIds
           /\ hand.cycle \in Requested(hand.s)
<1>1. hand.s \in Sessions /\ hand.cycle \in Requested(hand.s)
    BY DEF ScribeInv, HandHolds, CyclePoints
<1>2. PICK n \in 0..MaxCycles : UNION {Requested(s) : s \in Sessions} = 1..n
    BY DEF ScribeInv, CyclesNumbered
<1>3. hand.cycle \in 1..n
    BY <1>1, <1>2
<1> QED
    BY <1>1, <1>3, ScribeAssumption DEF CycleIds

\* A conclusion is one more cycle receipt, after which nothing is at hand.
LEMMA ConcludesStep ==
    ASSUME ScribeInv, NEW status, NEW lineage, doing \in CyclePoints, Concludes(status, lineage)
    PROVE  ScribeInv'
<1>1. /\ Journals(hand.s, "cycle", CycleReceipt(hand.s, hand.cycle, status, lineage))
      /\ doing' = "rest" /\ UNCHANGED <<kevin, asked>>
    BY DEF Concludes, Goes
<1>2. hand.s \in Sessions
    BY AtWork
<1>3. StillHolds'
    BY <1>1, <1>2, Journaled
<1>4. HandHolds'
    BY <1>1 DEF HandHolds, CyclePoints
<1> QED
    BY <1>3, <1>4 DEF ScribeInv, StillHolds

\* The provider is asked only for the cycle at hand, whose request is in the journal.
LEMMA AskProviderStep ==
    ASSUME ScribeInv, AskProvider PROVE ScribeInv'
<1>1. /\ doing = "asking" /\ UNCHANGED <<journal, kevin>>
      /\ asked' = [asked EXCEPT ![<<hand.s, hand.cycle>>] = @ + 1]
      /\ doing' \in {"drafted", "failing"}
      /\ hand'.s = hand.s /\ hand'.cycle = hand.cycle
    BY DEF AskProvider, Goes
<1>h. PICK s0 \in Sessions, c0 \in CycleIds : s0 = hand.s /\ c0 = hand.cycle
    BY <1>1, AtWork DEF CyclePoints
<1>2. c0 \in Requested(s0) /\ asked[<<s0, c0>>] = 0
    BY <1>1, <1>h DEF ScribeInv, HandHolds, CyclePoints
<1>3. \A s : \A kind : Values(s, kind)' = Values(s, kind)
    BY <1>1 DEF Values, Receipts
<1>4. \A s : /\ Requested(s)' = Requested(s) /\ Frozen(s)' = Frozen(s)
             /\ Materials(s)' = Materials(s)
    BY <1>3 DEF Requested, Frozen, Materials
<1>5. \A s, p : (Shows(s, p) => Shows(s, p)') /\ (HoldsOut(s, p) => HoldsOut(s, p)')
    BY <1>4 DEF Shows, HoldsOut, Lane
<1>6. /\ asked \in [Sessions \X CycleIds -> Nat]
      /\ asked' = [asked EXCEPT ![<<s0, c0>>] = 1]
    BY <1>1, <1>h, <1>2 DEF ScribeInv, JournalsAreSequences
<1>7. JournalsAreSequences' /\ OrdinalsNatural'
    <2>1. asked' \in [Sessions \X CycleIds -> Nat]
        BY <1>6
    <2> QED
        BY <1>1, <1>4, <2>1 DEF ScribeInv, JournalsAreSequences, OrdinalsNatural
<1>8. CyclesNumbered'
    BY <1>4 DEF ScribeInv, CyclesNumbered
<1>9. AskedOnRequest'
    <2> SUFFICES ASSUME NEW s \in Sessions, NEW c \in CycleIds
                 PROVE  asked'[<<s, c>>] <= 1 /\ (asked'[<<s, c>>] = 1 => c \in Requested(s)')
        BY DEF AskedOnRequest
    <2>1. CASE s = s0 /\ c = c0
        BY <1>2, <1>4, <1>6, <2>1
    <2>2. CASE ~(s = s0 /\ c = c0)
        <3>1. <<s, c>> # <<s0, c0>>
            BY <2>2
        <3>2. asked'[<<s, c>>] = asked[<<s, c>>]
            BY <1>6, <3>1
        <3> QED
            BY <1>4, <3>2 DEF ScribeInv, AskedOnRequest
    <2> QED
        BY <2>1, <2>2
<1>10. RequestsSplit'
    BY <1>3, <1>5 DEF ScribeInv, RequestsSplit
<1>11. WorkspaceFollows'
    BY <1>1, <1>4, <1>5 DEF ScribeInv, WorkspaceFollows
<1>12. HandHolds'
    BY <1>1, <1>2, <1>4, <1>h DEF HandHolds, CyclePoints
<1> QED
    BY <1>7, <1>8, <1>9, <1>10, <1>11, <1>12 DEF ScribeInv

\* The answered draft is frozen in the journal before it is finished.
LEMMA FreezeDraftStep ==
    ASSUME ScribeInv, FreezeDraft PROVE ScribeInv'
<1>1. /\ doing = "drafted" /\ doing' = "frozen" /\ hand' = hand
      /\ UNCHANGED <<kevin, asked>>
      /\ Journals(hand.s, "frozen", [cycle |-> hand.cycle, cited |-> hand.cited])
    BY DEF FreezeDraft, Goes
<1>h. PICK s0 \in Sessions, c0 \in CycleIds : s0 = hand.s /\ c0 = hand.cycle
    BY <1>1, AtWork DEF CyclePoints
<1>2. c0 \in Requested(s0)
    BY <1>1, <1>h DEF ScribeInv, HandHolds, CyclePoints
<1>f. PICK f : f = [cycle |-> hand.cycle, cited |-> hand.cited]
    OBVIOUS
<1>3. Journals(s0, "frozen", f) /\ f.cycle = c0
    BY <1>1, <1>h, <1>f
<1>4. /\ StillHolds' /\ f.cycle \in Frozen(s0)'
      /\ Requested(s0)' = Requested(s0)
    BY <1>1, <1>3, Journaled
<1>5. HandHolds'
    BY <1>1, <1>2, <1>3, <1>4, <1>h DEF HandHolds, CyclePoints
<1> QED
    BY <1>4, <1>5 DEF ScribeInv, StillHolds

\* What reaches the workspace is of a frozen draft, and what an evaluation holds out
\* is what the request held out.
LEMMA WritesStep ==
    ASSUME ScribeInv,
           doing \in {"frozen", "proposed", "eligible"},
           NEW receipt, receipt.by = Own,
           receipt.kind = "evaluation" =>
                receipt.held = PayloadsOf(Request(hand.s, hand.cycle).validation),
           NEW where \in {"proposed", "eligible", "not_earned", "promoted"},
           Writes(receipt, where)
    PROVE  ScribeInv'
<1>1. /\ kevin' = Append(kevin, receipt) /\ doing' = where /\ hand' = hand
      /\ UNCHANGED <<journal, asked>>
    BY DEF Writes, Goes
<1>h. PICK s0 \in Sessions, c0 \in CycleIds : s0 = hand.s /\ c0 = hand.cycle
    BY AtWork DEF CyclePoints
<1>2. c0 \in Requested(s0) /\ c0 \in Frozen(s0)
    BY <1>h DEF ScribeInv, HandHolds, CyclePoints
<1>3. \A s : \A kind : Values(s, kind)' = Values(s, kind)
    BY <1>1 DEF Values, Receipts
<1>4. \A s : /\ Requested(s)' = Requested(s) /\ Frozen(s)' = Frozen(s)
             /\ Materials(s)' = Materials(s)
    BY <1>3 DEF Requested, Frozen, Materials
<1>5. \A s, p : (Shows(s, p) => Shows(s, p)') /\ (HoldsOut(s, p) => HoldsOut(s, p)')
    BY <1>4 DEF Shows, HoldsOut, Lane
<1>6. /\ kevin \in Seq(Range(kevin)) /\ DOMAIN kevin = 1..Len(kevin) /\ Len(kevin) \in Nat
      /\ DOMAIN kevin' = 1..(Len(kevin) + 1)
      /\ \A i \in 1..Len(kevin) : kevin'[i] = kevin[i]
      /\ kevin'[Len(kevin) + 1] = receipt
    <2>1. kevin \in Seq(Range(kevin))
        BY DEF ScribeInv, JournalsAreSequences
    <2> QED
        BY <1>1, <2>1
<1>7. kevin' \in Seq(Range(kevin'))
    <2>1. kevin' \in Seq(Range(kevin) \cup {receipt})
        <3>1. kevin \in Seq(Range(kevin) \cup {receipt})
            BY <1>6
        <3> QED
            BY <1>1, <3>1
    <2>2. \A i \in DOMAIN kevin' : kevin'[i] \in Range(kevin')
        BY DEF Range
    <2> QED
        BY <2>1, <2>2
<1>8. JournalsAreSequences' /\ OrdinalsNatural'
    BY <1>1, <1>4, <1>7 DEF ScribeInv, JournalsAreSequences, OrdinalsNatural
<1>9. CyclesNumbered' /\ AskedOnRequest'
    BY <1>1, <1>4 DEF ScribeInv, CyclesNumbered, AskedOnRequest
<1>10. RequestsSplit'
    BY <1>3, <1>5 DEF ScribeInv, RequestsSplit
<1>11. receipt.kind = "evaluation" => \A p \in receipt.held : HoldsOut(s0, p)
    <2>1. Request(s0, c0) \in Values(s0, "request")
        BY <1>2 DEF Requested, Request
    <2> QED
        BY <1>h, <2>1 DEF ScribeInv, RequestsSplit
<1>12. WorkspaceFollows'
    <2> SUFFICES ASSUME NEW i \in DOMAIN kevin'
                 PROVE  \E s \in Sessions, c \in CycleIds :
                    /\ kevin'[i].by = <<s, c>> /\ c \in Frozen(s)'
                    /\ kevin'[i].kind = "evaluation" =>
                            \A p \in kevin'[i].held : HoldsOut(s, p)'
        BY DEF WorkspaceFollows
    <2>1. CASE i \in DOMAIN kevin
        <3>1. kevin'[i] = kevin[i]
            BY <1>6, <2>1
        <3>2. PICK s \in Sessions, c \in CycleIds :
                /\ kevin[i].by = <<s, c>> /\ c \in Frozen(s)
                /\ kevin[i].kind = "evaluation" => \A p \in kevin[i].held : HoldsOut(s, p)
            BY <2>1 DEF ScribeInv, WorkspaceFollows
        <3> QED
            BY <1>4, <1>5, <3>1, <3>2
    <2>2. CASE i = Len(kevin) + 1
        <3>1. kevin'[i] = receipt /\ receipt.by = <<s0, c0>>
            BY <1>6, <1>h, <2>2 DEF Own
        <3> QED
            BY <1>2, <1>4, <1>5, <1>11, <3>1
    <2> QED
        BY <1>6, <2>1, <2>2
<1>13. HandHolds'
    BY <1>1, <1>2, <1>4, <1>h DEF HandHolds, CyclePoints
<1> QED
    BY <1>8, <1>9, <1>10, <1>12, <1>13 DEF ScribeInv

\* The revision, its evaluation and its promotion write the workspace and leave every journal alone.
LEMMA WorkspaceStep ==
    ASSUME ScribeInv, ProposeCycleRevision \/ EvaluateCycleCandidate \/ PromoteCycleCandidate
    PROVE  ScribeInv'
<1>1. CASE ProposeCycleRevision
    <2>r. PICK r : r = [kind |-> "candidate", by |-> Own, book |-> Append(Active, Own)]
        OBVIOUS
    <2>1. doing = "frozen" /\ Writes(r, "proposed")
        BY <1>1, <2>r DEF ProposeCycleRevision
    <2>2. r.by = Own /\ r.kind # "evaluation"
        BY <2>r
    <2> QED
        BY <2>1, <2>2, WritesStep
<1>2. CASE EvaluateCycleCandidate
    <2>r. PICK r : r = [kind |-> "evaluation", by |-> Own,
                        held |-> PayloadsOf(Request(hand.s, hand.cycle).validation)]
        OBVIOUS
    <2>1. PICK where \in {"eligible", "not_earned"} : doing = "proposed" /\ Writes(r, where)
        BY <1>2, <2>r DEF EvaluateCycleCandidate
    <2>2. r.by = Own /\ r.held = PayloadsOf(Request(hand.s, hand.cycle).validation)
        BY <2>r
    <2> QED
        BY <2>1, <2>2, WritesStep
<1>3. CASE PromoteCycleCandidate
    <2>r. PICK r : r = [kind |-> "promotion", by |-> Own, book |-> Append(Active, Own)]
        OBVIOUS
    <2>1. doing = "eligible" /\ Writes(r, "promoted")
        BY <1>3, <2>r DEF PromoteCycleCandidate
    <2>2. r.by = Own /\ r.kind # "evaluation"
        BY <2>r
    <2> QED
        BY <2>1, <2>2, WritesStep
<1> QED
    BY <1>1, <1>2, <1>3

\* A cycle taken up again never asks: its draft is finished, or it fails.
LEMMA ResumeCycleStep ==
    ASSUME ScribeInv, NEW s0 \in Sessions, NEW c \in CycleIds, ResumeCycle(s0, c)
    PROVE  ScribeInv'
<1>1. /\ UNCHANGED <<journal, kevin, asked>>
      /\ doing' \in {"frozen", "failing"} /\ (doing' = "frozen" => c \in Frozen(s0))
      /\ hand'.s = s0 /\ hand'.cycle = c /\ c \in Requested(s0)
    BY DEF ResumeCycle, Goes, Unfinished
<1>2. /\ StillHolds'
      /\ Requested(s0)' = Requested(s0) /\ Frozen(s0)' = Frozen(s0)
    BY <1>1, Untouched
<1>3. HandHolds'
    BY <1>1, <1>2 DEF HandHolds, CyclePoints
<1> QED
    BY <1>2, <1>3 DEF ScribeInv, StillHolds

\* A failure, or a stop of the process, drops the work at hand and nothing else.
LEMMA FailsOrStopsStep ==
    ASSUME ScribeInv, CycleStepFails \/ Stops PROVE ScribeInv'
<1>1. /\ UNCHANGED <<journal, kevin, asked>>
      /\ \/ doing' = "rest"
         \/ doing \in CyclePoints /\ doing' = "failing" /\ hand' = hand
    BY DEF CycleStepFails, Stops, Goes, CyclePoints
<1>2. /\ StillHolds'
      /\ \A s : Requested(s)' = Requested(s)
    BY <1>1, Untouched
<1>3. HandHolds'
    BY <1>1, <1>2 DEF ScribeInv, HandHolds, CyclePoints
<1> QED
    BY <1>2, <1>3 DEF ScribeInv, StillHolds

\* Nothing has been opened, ingested or asked at first.
LEMMA InitScribe == ScribeInit => ScribeInv
<1> SUFFICES ASSUME ScribeInit PROVE ScribeInv
    OBVIOUS
<1>1. /\ journal = [s \in Sessions |-> <<>>] /\ kevin = <<>> /\ doing = "rest"
      /\ asked = [call \in Sessions \X CycleIds |-> 0]
    BY DEF ScribeInit
<1>2. <<>> \in Seq(Range(<<>>)) /\ DOMAIN <<>> = {}
    OBVIOUS
<1>3. \A s \in Sessions : \A kind : Values(s, kind) = {}
    BY <1>1 DEF Values, Receipts
<1>4. \A s \in Sessions : Requested(s) = {} /\ Frozen(s) = {} /\ Materials(s) = {}
    BY <1>3 DEF Requested, Frozen, Materials
<1>5. JournalsAreSequences
    BY <1>1, <1>2 DEF JournalsAreSequences
<1>6. CyclesNumbered
    <2>1. UNION {Requested(s) : s \in Sessions} = 1..0
        BY <1>4
    <2>2. 0 \in 0..MaxCycles
        BY ScribeAssumption
    <2> QED
        BY <2>1, <2>2 DEF CyclesNumbered
<1>7. AskedOnRequest
    <2> SUFFICES ASSUME NEW s \in Sessions, NEW c \in CycleIds
                 PROVE  asked[<<s, c>>] <= 1 /\ (asked[<<s, c>>] = 1 => c \in Requested(s))
        BY DEF AskedOnRequest
    <2>1. asked[<<s, c>>] = 0
        BY <1>1
    <2> QED
        BY <2>1
<1>8. HandHolds /\ OrdinalsNatural /\ RequestsSplit /\ WorkspaceFollows
    BY <1>1, <1>2, <1>3, <1>4 DEF HandHolds, OrdinalsNatural, RequestsSplit, WorkspaceFollows
<1> QED
    BY <1>5, <1>6, <1>7, <1>8 DEF ScribeInv

\* However sessions interleave, fail, stop and resume, the invariant holds.
THEOREM ScribeInvariant == ScribeSpec => []ScribeInv
<1>1. ScribeInit => ScribeInv
    BY InitScribe
<1>2. ScribeInv /\ [ScribeNext]_scribeVars => ScribeInv'
    <2> SUFFICES ASSUME ScribeInv, [ScribeNext]_scribeVars PROVE ScribeInv'
        OBVIOUS
    <2>1. ASSUME NEW s \in Sessions, Open(s) PROVE ScribeInv'
        BY <2>1, OpenStep
    <2>2. ASSUME NEW s \in Sessions, NEW ordinal \in 0..(MaxMaterials + MaxGap),
                 NEW payload \in Payloads, Ingest(s, ordinal, payload)
          PROVE  ScribeInv'
        BY <2>2, IngestStep, ScribeAssumption
    <2>3. ASSUME NEW s \in Sessions, RequestCycle(s) PROVE ScribeInv'
        BY <2>3, RequestCycleStep
    <2>4. ASSUME NEW s \in Sessions, NEW c \in CycleIds, ResumeCycle(s, c) PROVE ScribeInv'
        BY <2>4, ResumeCycleStep
    <2>5. CASE IngestMaterial
        BY <2>5, IngestMaterialStep
    <2>6. CASE DeferCycle \/ NoCandidate \/ ConcludeNotEarned \/ ConcludePromoted \/ FailedCycle
        BY <2>6, ConcludesStep
        DEF DeferCycle, NoCandidate, ConcludeNotEarned, ConcludePromoted, FailedCycle, CyclePoints
    <2>7. CASE AskProvider
        BY <2>7, AskProviderStep
    <2>8. CASE FreezeDraft
        BY <2>8, FreezeDraftStep
    <2>9. CASE ProposeCycleRevision \/ EvaluateCycleCandidate \/ PromoteCycleCandidate
        BY <2>9, WorkspaceStep
    <2>10. CASE CycleStepFails \/ Stops
        BY <2>10, FailsOrStopsStep
    <2>11. CASE UNCHANGED scribeVars
        <3>1. /\ UNCHANGED <<journal, kevin, asked>> /\ UNCHANGED <<doing, hand>>
            BY <2>11 DEF scribeVars
        <3>2. /\ StillHolds'
              /\ \A s : /\ Requested(s)' = Requested(s) /\ Frozen(s)' = Frozen(s)
                        /\ Materials(s)' = Materials(s)
            BY <3>1, Untouched
        <3>3. HandHolds'
            BY <3>1, <3>2 DEF ScribeInv, HandHolds
        <3> QED
            BY <3>2, <3>3 DEF ScribeInv, StillHolds
    <2> QED
        BY <2>1, <2>2, <2>3, <2>4, <2>5, <2>6, <2>7, <2>8, <2>9, <2>10, <2>11 DEF ScribeNext
<1> QED
    BY <1>1, <1>2, PTL DEF ScribeSpec

\* For any number of sessions, cycles and crashes: a provider is asked at most once
\* for a cycle, on a durable request, and only frozen drafts reach the workspace
\* (run_cycle, scribe.py).
THEOREM AskedOnce == ScribeSpec => []ProviderAskedOnce
<1>1. ScribeInv => ProviderAskedOnce
    <2> SUFFICES ASSUME ScribeInv, NEW s \in Sessions, NEW c \in CycleIds
                 PROVE  /\ asked[<<s, c>>] <= 1
                        /\ asked[<<s, c>>] = 1 => c \in Requested(s)
                        /\ Lineage(s, c) # {} => c \in Frozen(s)
        BY DEF ProviderAskedOnce
    <2>1. asked[<<s, c>>] <= 1 /\ (asked[<<s, c>>] = 1 => c \in Requested(s))
        BY DEF ScribeInv, AskedOnRequest
    <2>2. ASSUME Lineage(s, c) # {} PROVE c \in Frozen(s)
        <3>1. PICK i \in DOMAIN kevin : kevin[i].by = <<s, c>>
            BY <2>2 DEF Lineage, OfCycle
        <3> QED
            BY <3>1 DEF ScribeInv, WorkspaceFollows
    <2> QED
        BY <2>1, <2>2
<1> QED
    BY <1>1, ScribeInvariant, PTL

\* For every stride, slot and history of materials: what an evaluation holds out was
\* never shown to the driver (_split_materials, scribe.py).
THEOREM HeldOut == ScribeSpec => []HeldOutStaysHeldOut
<1>1. ScribeInv => HeldOutStaysHeldOut
    <2> SUFFICES ASSUME ScribeInv, NEW s \in Sessions, NEW c \in CycleIds,
                        asked[<<s, c>>] > 0, NEW i \in DOMAIN kevin,
                        kevin[i].kind = "evaluation", kevin[i].by[1] = s,
                        NEW p \in PayloadsOf(Request(s, c).adaptation), p \in kevin[i].held
                 PROVE  FALSE
        BY DEF HeldOutStaysHeldOut
    <2>1. c \in Requested(s)
        <3>1. asked[<<s, c>>] \in Nat /\ asked[<<s, c>>] <= 1
            BY DEF ScribeInv, JournalsAreSequences, AskedOnRequest
        <3>2. asked[<<s, c>>] = 1
            BY <3>1
        <3> QED
            BY <3>2 DEF ScribeInv, AskedOnRequest
    <2>2. Request(s, c) \in Values(s, "request")
        BY <2>1 DEF Requested, Request
    <2>3. Shows(s, p)
        BY <2>2 DEF ScribeInv, RequestsSplit
    <2>4. HoldsOut(s, p)
        BY DEF ScribeInv, WorkspaceFollows
    <2> QED
        BY <2>3, <2>4 DEF Shows, HoldsOut
<1> QED
    BY <1>1, ScribeInvariant, PTL

-----------------------------------------------------------------------------
\* Routing.

\* An effect is cleared by reviews in order, whatever else was submitted, and a
\* release that was asked for by one of its own.
LEMMA ClearEffect ==
    ASSUME NEW context, NEW s \in Submitted, s.effectRequested,
           EvaluateLabRules(context, s).effect = "clear",
           ClearsRequested(EvaluateLabRules(context, s))
    PROVE  /\ s.pea.verdict = "satisfied" /\ s.pea.grantBound /\ s.pea.contextBound
           /\ s.crossing.stage = "authorization" /\ s.crossing.bound
           /\ s.releaseRequested =>
                /\ s.release # Unreviewed
                /\ s.release.bound /\ s.release.withinAttention /\ s.release.releasable
<1>1. EffectStatus(s.effectRequested, s.pea, s.crossing) = "clear"
    BY DEF EvaluateLabRules
<1>2. PEAGate(s.pea) = "clear"
    BY <1>1 DEF EffectStatus, PEAGate
<1>3. s.pea \in PEAReviews /\ s.pea.verdict = "satisfied" /\ s.pea.grantBound
      /\ s.pea.contextBound
    BY <1>2 DEF PEAGate, Submitted, PEAReviews
<1>4. s.crossing.stage = "authorization" /\ s.crossing.bound
    BY <1>1, <1>2 DEF EffectStatus, Submitted, Crossings
<1>5. ASSUME s.releaseRequested
      PROVE  /\ s.release # Unreviewed
             /\ s.release.bound /\ s.release.withinAttention /\ s.release.releasable
    <2>1. ReleaseStatus(s.releaseRequested, s.pea, s.release) \in {"clear", "not_requested"}
        BY DEF EvaluateLabRules, ClearsRequested
    <2> QED
        BY <1>2, <1>5, <2>1 DEF ReleaseStatus, Submitted, SEEDReleases
<1> QED
    BY <1>3, <1>4, <1>5

\* What the disposition of an eligible proposal says of it.
LEMMA EligibleHolds ==
    ASSUME NEW p, NEW c, Disposition(p, c) \in {"admit", "reopen"}
    PROVE  /\ IdentityHolds(p, c) /\ ScopeHolds(p, c) /\ ConsequenceHolds(p, c)
           /\ MissingWitnesses(p, c) = {} /\ ResourceHolds(p, c)
           /\ ReentryStatus(p, c) # "unresolved"
           /\ Disposition(p, c) = "reopen" <=> p.account # NoAccount
BY DEF Disposition

\* What the checks of begin establish together, whatever is passed to it.
LEMMA BeginsHolds ==
    ASSUME NEW p, NEW c, NEW d, NEW s \in Submissions, Begins(p, c, d, s)
    PROVE  /\ c.grant = grant /\ c.lab.context = [proposal |-> p, grant |-> grant]
           /\ p.observation = c.observation
           /\ p.goal \in c.goals /\ p.action \in c.actions /\ p.cost <= c.budget
           /\ p.evidence \subseteq c.evidence /\ p.traces \subseteq c.traces
           /\ s.pea.verdict = "satisfied" /\ s.pea.grantBound /\ s.pea.contextBound
           /\ s.crossing.stage = "authorization" /\ s.crossing.bound
           /\ p.output \/ grant.releaseReview =>
                /\ s.release # Unreviewed
                /\ s.release.bound /\ s.release.withinAttention /\ s.release.releasable
           /\ p.account # NoAccount =>
                p.account \in c.accounts /\ p.deltas # {} /\ p.deltas \subseteq c.deltas
<1>1. PICK required : required = ReleaseRequired(p, c.grant)
    OBVIOUS
<1>2. PICK asked1 : asked1 = [s EXCEPT !.effectRequested = TRUE, !.releaseRequested = required]
    OBVIOUS
<1>3. /\ Disposition(p, c) \in {"admit", "reopen"}
      /\ d = EvaluateLabRules(d.context, asked1) /\ d.effect = "clear" /\ ClearsRequested(d)
      /\ c.lab = d /\ d.context = LabContext(p, c.grant) /\ c.grant = grant
    BY <1>1, <1>2 DEF Begins
<1>4. required \in BOOLEAN => asked1 \in Submitted
    BY <1>2, RoutingAssumption DEF Submitted
<1>5. /\ asked1.effectRequested /\ asked1.releaseRequested = required
      /\ asked1.pea = s.pea /\ asked1.crossing = s.crossing /\ asked1.release = s.release
    BY <1>2, RoutingAssumption DEF Submitted
<1>6. required \in BOOLEAN /\ (required <=> c.grant.releaseReview \/ p.output)
    BY <1>1 DEF ReleaseRequired
<1>7. PICK context : context = d.context
    OBVIOUS
<1>8. /\ EvaluateLabRules(context, asked1).effect = "clear"
      /\ ClearsRequested(EvaluateLabRules(context, asked1))
    BY <1>3, <1>7
<1>9. /\ s.pea.verdict = "satisfied" /\ s.pea.grantBound /\ s.pea.contextBound
      /\ s.crossing.stage = "authorization" /\ s.crossing.bound
      /\ required => /\ s.release # Unreviewed
                     /\ s.release.bound /\ s.release.withinAttention /\ s.release.releasable
    BY <1>4, <1>5, <1>6, <1>8, ClearEffect
<1>10. /\ IdentityHolds(p, c) /\ ScopeHolds(p, c) /\ ConsequenceHolds(p, c)
       /\ MissingWitnesses(p, c) = {} /\ ResourceHolds(p, c)
       /\ ReentryStatus(p, c) # "unresolved"
    BY <1>3, EligibleHolds
<1>11. /\ p.observation = c.observation /\ p.goal \in c.goals /\ p.action \in c.actions
       /\ p.cost <= c.budget /\ p.evidence \subseteq c.evidence /\ p.traces \subseteq c.traces
    BY <1>10 DEF IdentityHolds, ScopeHolds, ConsequenceHolds, MissingWitnesses, ResourceHolds
<1>12. p.account # NoAccount =>
        p.account \in c.accounts /\ p.deltas # {} /\ p.deltas \subseteq c.deltas
    BY <1>10 DEF ReentryStatus
<1> QED
    BY <1>3, <1>6, <1>9, <1>11, <1>12 DEF LabContext

\* For any proposals, grants, apertures and reviews, and whatever is passed to it: what begins
\* is within its control, and cleared for the grant then active (routing.py, lab_policy.py,
\* orchestration.py).
THEOREM BeginCleared == RoutingSpec => []BegunIsCleared
<1>1. RoutingInit => BegunIsCleared
    BY DEF RoutingInit, BegunIsCleared
<1>2. BegunIsCleared /\ [RoutingNext]_routingVars => BegunIsCleared'
    <2> SUFFICES ASSUME BegunIsCleared, [RoutingNext]_routingVars PROVE BegunIsCleared'
        OBVIOUS
    <2>1. CASE begun = Unreviewed /\ begun' = begun
        BY <2>1 DEF BegunIsCleared
    <2>2. ASSUME NEW s \in Submissions, NEW p, NEW c, NEW d, BeginRouted(p, c, d, s)
          PROVE  BegunIsCleared'
        <3>1. Begins(p, c, d, s) /\ grant' = grant
            BY <2>2 DEF BeginRouted
        <3>2. PICK b : b = [proposal |-> p, control |-> c, reviews |-> s]
            OBVIOUS
        <3>3. begun' = b /\ b.proposal = p /\ b.control = c /\ b.reviews = s
            BY <2>2, <3>2 DEF BeginRouted
        <3> QED
            BY <3>1, <3>3, BeginsHolds DEF BegunIsCleared
    <2>3. CASE UNCHANGED routingVars
        BY <2>3 DEF routingVars, BegunIsCleared
    <2> QED
        BY <2>1, <2>2, <2>3 DEF RoutingNext
<1> QED
    BY <1>1, <1>2, PTL DEF RoutingSpec

-----------------------------------------------------------------------------
\* The curriculum controller.

\* A start at this place of this history inherits from the handoff before it alone.
InheritsFrom(start, history, place) ==
    /\ start.ordinal = place
    /\ IF place = 1 THEN start.transfer = NoStage
       ELSE /\ history[place - 1].next = "advance"
            /\ start.transfer.handoff = history[place - 1]
            /\ start.transfer.seal = history[place - 1].seal
\* One lawful line of handoffs, and the start that may follow it.
LawfulLine(history, start) ==
    /\ history \in Seq({history[i] : i \in DOMAIN history})
    /\ Len(history) <= Len(Plan)
    /\ \A i \in DOMAIN history :
        /\ InheritsFrom(history[i].start, history, i)
        /\ i < Len(history) => history[i].next = "advance"
    /\ Len(history) = Len(Plan) => history[Len(history)].next # "advance"
    /\ start # NoStage =>
        /\ Len(history) < Len(Plan)
        /\ InheritsFrom(start, history, Len(history) + 1)
\* The controller and every checkpoint that may be restored.
CurriculumInv ==
    /\ LawfulLine(handoffs, stage)
    /\ \A point \in saved : LawfulLine(point.handoffs, point.stage)

\* The last stage of a plan is the final one.
LEMMA PlanEnds ==
    Len(Plan) \in Nat /\ Len(Plan) >= 2 /\ Plan[Len(Plan)] = "finish_or_reassess"
BY CurriculumAssumption DEF PlanAssumption, Last

\* Nothing is begun, handed over or saved at first.
LEMMA InitCurriculum == CurriculumInit => CurriculumInv
<1> SUFFICES ASSUME CurriculumInit PROVE CurriculumInv
    OBVIOUS
<1>1. handoffs = <<>> /\ stage = NoStage /\ saved = {}
    BY DEF CurriculumInit
<1>2. LawfulLine(<<>>, NoStage)
    <2>1. <<>> \in Seq({<<>>[i] : i \in DOMAIN <<>>}) /\ Len(<<>>) = 0 /\ DOMAIN <<>> = {}
        OBVIOUS
    <2> QED
        BY <2>1, PlanEnds DEF LawfulLine
<1> QED
    BY <1>1, <1>2 DEF CurriculumInv

\* A start inherits from the last handoff.
LEMMA StartNextStep ==
    ASSUME CurriculumInv, NEW stack \in Stacks, NEW transfer, StartNext(stack, transfer)
    PROVE  CurriculumInv'
<1>1. /\ stage' = StartOf(stack, transfer) /\ UNCHANGED <<handoffs, saved>>
      /\ MayStart(transfer)
    BY DEF StartNext
<1>2. LawfulLine(handoffs, stage)
    BY DEF CurriculumInv
<1>3. handoffs \in Seq({handoffs[i] : i \in DOMAIN handoffs}) /\ Len(handoffs) \in Nat
    BY <1>2 DEF LawfulLine
<1>4. Len(handoffs) < Len(Plan)
    BY <1>1 DEF MayStart
<1>5. InheritsFrom(StartOf(stack, transfer), handoffs, Len(handoffs) + 1)
    <2>1. CASE handoffs = <<>>
        BY <1>1, <2>1 DEF MayStart, StartOf, InheritsFrom
    <2>2. CASE handoffs # <<>>
        <3>1. Len(handoffs) >= 1 /\ (Len(handoffs) + 1) - 1 = Len(handoffs)
            BY <1>3, <2>2
        <3>2. /\ Last(handoffs) = handoffs[Len(handoffs)]
              /\ Last(handoffs).next = "advance"
              /\ transfer \in StackTransfers /\ transfer.seal = Last(handoffs).seal
            BY <1>1, <2>2 DEF MayStart, Continues, Last
        <3>3. transfer.handoff = Last(handoffs)
            BY <3>2 DEF StackTransfers
        <3> QED
            BY <3>1, <3>2, <3>3 DEF StartOf, InheritsFrom
    <2> QED
        BY <2>1, <2>2
<1>6. LawfulLine(handoffs, StartOf(stack, transfer))
    BY <1>2, <1>4, <1>5 DEF LawfulLine
<1> QED
    BY <1>1, <1>6 DEF CurriculumInv

\* A handoff closes the active start, and the final stage does not advance.
LEMMA FinishActiveStep ==
    ASSUME CurriculumInv, NEW handoff, FinishActive(handoff),
           handoff \in Handoffs(stage)
    PROVE  CurriculumInv'
<1>1. /\ handoffs' = Append(handoffs, handoff) /\ stage' = NoStage /\ UNCHANGED saved
      /\ stage # NoStage /\ handoff.start = stage
      /\ Plan[stage.ordinal] = "finish_or_reassess" =>
            handoff.next = IF handoff.observed THEN "finish" ELSE "reassess"
    BY DEF FinishActive, MayFinish
<1> DEFINE S == {handoffs[i] : i \in DOMAIN handoffs}
           T == S \cup {handoff}
           L == Len(handoffs)
<1>2. LawfulLine(handoffs, stage)
    BY DEF CurriculumInv
<1>3. handoffs \in Seq(S) /\ L \in Nat /\ L < Len(Plan) /\ stage.ordinal = L + 1
    BY <1>1, <1>2 DEF LawfulLine, InheritsFrom
<1>p. PICK longer : longer = Append(handoffs, handoff)
    OBVIOUS
<1>4. /\ Len(longer) = L + 1 /\ DOMAIN longer = 1..(L + 1)
      /\ \A i \in 1..L : longer[i] = handoffs[i]
      /\ longer[L + 1] = handoff
    BY <1>3, <1>p
<1>5. longer \in Seq({longer[i] : i \in DOMAIN longer})
    <2>1. handoffs \in Seq(T)
        BY <1>3
    <2>2. longer \in Seq(T)
        BY <1>p, <2>1
    <2> HIDE DEF S, T
    <2> QED
        BY <1>4, <2>2
<1>6. DOMAIN handoffs = 1..L
    BY <1>3
<1>7. ASSUME NEW i \in 1..L
      PROVE  InheritsFrom(longer[i].start, longer, i)
    <2>1. InheritsFrom(handoffs[i].start, handoffs, i)
        BY <1>2, <1>6 DEF LawfulLine
    <2>2. i # 1 => i - 1 \in 1..L
        BY <1>3
    <2> QED
        BY <1>4, <2>1, <2>2 DEF InheritsFrom
<1>8. InheritsFrom(longer[L + 1].start, longer, L + 1)
    <2>1. InheritsFrom(stage, handoffs, L + 1)
        BY <1>1, <1>2 DEF LawfulLine
    <2>2. L + 1 # 1 => (L + 1) - 1 \in 1..L
        BY <1>3
    <2> QED
        BY <1>1, <1>4, <2>1, <2>2 DEF InheritsFrom
<1>9. ASSUME NEW i \in 1..L PROVE longer[i].next = "advance"
    <2>1. CASE i < L
        BY <1>2, <1>4, <1>6, <2>1 DEF LawfulLine
    <2>2. CASE i = L
        BY <1>1, <1>2, <1>3, <1>4, <2>2 DEF LawfulLine, InheritsFrom
    <2> QED
        BY <1>3, <2>1, <2>2
<1>10. L + 1 = Len(Plan) => longer[L + 1].next # "advance"
    BY <1>1, <1>3, <1>4, PlanEnds
<1>11. LawfulLine(longer, NoStage)
    <2> HIDE DEF L
    <2> QED
        BY <1>3, <1>4, <1>5, <1>7, <1>8, <1>9, <1>10, PlanEnds DEF LawfulLine
<1> QED
    BY <1>1, <1>p, <1>11 DEF CurriculumInv

\* Whatever is started, finished, saved and restored, the line is lawful.
THEOREM CurriculumInvariant == CurriculumSpec => []CurriculumInv
<1>1. CurriculumInit => CurriculumInv
    BY InitCurriculum
<1>2. CurriculumInv /\ [CurriculumNext]_curriculumVars => CurriculumInv'
    <2> SUFFICES ASSUME CurriculumInv, [CurriculumNext]_curriculumVars PROVE CurriculumInv'
        OBVIOUS
    <2>1. ASSUME NEW stack \in Stacks, NEW transfer, StartNext(stack, transfer)
          PROVE  CurriculumInv'
        BY <2>1, StartNextStep
    <2>2. ASSUME NEW h \in Handoffs(stage), FinishActive(h) PROVE CurriculumInv'
        BY <2>2, FinishActiveStep
    <2>3. CASE SaveCheckpoint
        <3>1. /\ UNCHANGED <<handoffs, stage>>
              /\ saved' \subseteq saved \cup {Checkpoint}
            BY <2>3 DEF SaveCheckpoint
        <3>2. Checkpoint.handoffs = handoffs /\ Checkpoint.stage = stage
            BY DEF Checkpoint
        <3> QED
            BY <3>1, <3>2 DEF CurriculumInv
    <2>4. ASSUME NEW point \in saved, RestoreController(point) PROVE CurriculumInv'
        BY <2>4 DEF RestoreController, CurriculumInv
    <2>5. CASE UNCHANGED curriculumVars
        BY <2>5 DEF curriculumVars, CurriculumInv
    <2> QED
        BY <2>1, <2>2, <2>3, <2>4, <2>5 DEF CurriculumNext
<1> QED
    BY <1>1, <1>2, PTL DEF CurriculumSpec

\* For every plan: a campaign is one lawful line of stages, whichever of its
\* checkpoints are restored (AdaptiveCurriculumController, curriculum.py).
THEOREM CampaignLawful == CurriculumSpec => []CampaignInOrder
<1>1. CurriculumInv => CampaignInOrder
    <2> SUFFICES ASSUME CurriculumInv PROVE CampaignInOrder
        OBVIOUS
    <2>1. LawfulLine(handoffs, stage)
        BY DEF CurriculumInv
    <2>2. handoffs \in Seq({handoffs[i] : i \in DOMAIN handoffs}) /\ Len(handoffs) \in Nat
          /\ DOMAIN handoffs = 1..Len(handoffs)
        BY <2>1 DEF LawfulLine
    <2>3. CheckpointValid(Checkpoint)
        <3>1. Checkpoint.handoffs = handoffs /\ Checkpoint.stage = stage
            BY DEF Checkpoint
        <3> QED
            BY <2>1, <2>2, <3>1 DEF LawfulLine, CheckpointValid, InheritsFrom
    <2>4. stage # NoStage =>
            /\ stage.ordinal = Len(handoffs) + 1
            /\ IF handoffs = <<>> THEN stage.transfer = NoStage
               ELSE /\ Last(handoffs).next = "advance"
                    /\ stage.transfer.handoff = Last(handoffs)
                    /\ stage.transfer.seal = Last(handoffs).seal
        <3> SUFFICES ASSUME stage # NoStage
                     PROVE  /\ stage.ordinal = Len(handoffs) + 1
                            /\ handoffs = <<>> => stage.transfer = NoStage
                            /\ handoffs # <<>> =>
                                /\ Last(handoffs).next = "advance"
                                /\ stage.transfer.handoff = Last(handoffs)
                                /\ stage.transfer.seal = Last(handoffs).seal
            OBVIOUS
        <3>1. InheritsFrom(stage, handoffs, Len(handoffs) + 1)
            BY <2>1 DEF LawfulLine
        <3>2. handoffs = <<>> <=> Len(handoffs) + 1 = 1
            BY <2>2
        <3>3. (Len(handoffs) + 1) - 1 = Len(handoffs)
            BY <2>2
        <3> QED
            BY <3>1, <3>2, <3>3 DEF InheritsFrom, Last
    <2>5. ASSUME NEW i \in DOMAIN handoffs
          PROVE  LET before == SubSeq(handoffs, 1, i - 1)
                     start == handoffs[i].start
                 IN  /\ start.ordinal = Len(before) + 1
                     /\ IF before = <<>> THEN start.transfer = NoStage
                        ELSE /\ Last(before).next = "advance"
                             /\ start.transfer.handoff = Last(before)
                             /\ start.transfer.seal = Last(before).seal
        <3>1. InheritsFrom(handoffs[i].start, handoffs, i)
            BY <2>1 DEF LawfulLine
        <3>p. PICK before : before = SubSeq(handoffs, 1, i - 1)
            OBVIOUS
        <3>2. /\ Len(before) = i - 1 /\ i \in Nat /\ i >= 1
              /\ i # 1 => before[i - 1] = handoffs[i - 1]
              /\ before = <<>> <=> i = 1
            BY <2>2, <3>p
        <3>3. /\ handoffs[i].start.ordinal = Len(before) + 1
              /\ before = <<>> => handoffs[i].start.transfer = NoStage
              /\ before # <<>> =>
                    /\ Last(before).next = "advance"
                    /\ handoffs[i].start.transfer.handoff = Last(before)
                    /\ handoffs[i].start.transfer.seal = Last(before).seal
            BY <3>1, <3>2 DEF InheritsFrom, Last
        <3> QED
            BY <3>p, <3>3
    <2>6. Len(handoffs) = Len(Plan) => Last(handoffs).next # "advance"
        BY <2>1 DEF LawfulLine, Last
    <2> QED
        BY <2>3, <2>4, <2>5, <2>6 DEF CampaignInOrder
<1> QED
    BY <1>1, CurriculumInvariant, PTL

-----------------------------------------------------------------------------
\* The learning campaign: what a ledger of its receipts says, and how that grows.

\* A sequence, of whatever it lists.
Listed(s) == s \in Seq({s[i] : i \in DOMAIN s})
\* One receipt more.
Grown(more, log, e) ==
    /\ Listed(log) /\ Listed(more)
    /\ Len(log) \in Nat /\ Len(more) = Len(log) + 1
    /\ DOMAIN log = 1..Len(log) /\ DOMAIN more = 1..(Len(log) + 1)
    /\ \A i \in 1..Len(log) : more[i] = log[i]
    /\ more[Len(log) + 1] = e

\* What Append does.
LEMMA AppendGrows ==
    ASSUME NEW log, Listed(log), NEW e
    PROVE  Grown(Append(log, e), log, e)
<1> DEFINE S == {log[i] : i \in DOMAIN log}
           T == S \cup {e}
           L == Len(log)
<1>1. log \in Seq(S) /\ L \in Nat
    BY DEF Listed
<1>2. PICK more : more = Append(log, e)
    OBVIOUS
<1>3. /\ Len(more) = L + 1 /\ DOMAIN more = 1..(L + 1) /\ DOMAIN log = 1..L
      /\ \A i \in 1..L : more[i] = log[i]
      /\ more[L + 1] = e
    BY <1>1, <1>2
<1>4. more \in Seq({more[i] : i \in DOMAIN more})
    <2>1. log \in Seq(T)
        BY <1>1
    <2>2. more \in Seq(T)
        BY <1>2, <2>1
    <2> HIDE DEF S, T
    <2> QED
        BY <1>3, <2>2
<1> QED
    BY <1>1, <1>2, <1>3, <1>4 DEF Grown, Listed

\* A call that reached so many of its receipts.
LEMMA StoresReached ==
    ASSUME Listed(campaign), NEW c, NEW d, NEW reached \in 0..2, Stores(<<c, d>>, reached)
    PROVE  /\ reached = 0 => campaign' = campaign
           /\ reached = 1 => campaign' = Append(campaign, c)
           /\ reached = 2 => campaign' = Append(Append(campaign, c), d)
<1> DEFINE T == {campaign[i] : i \in DOMAIN campaign} \cup {c, d}
           L == Len(campaign)
<1>1. campaign \in Seq(T) /\ L \in Nat /\ DOMAIN campaign = 1..L
    BY DEF Listed
<1>2. c \in T /\ d \in T
    OBVIOUS
<1> HIDE DEF T
<1> DEFINE pair == <<c, d>>
           first == SubSeq(pair, 1, reached)
<1>3. campaign' = campaign \o first
    BY DEF Stores
<1>4. first \in Seq(T) /\ Len(first) = reached /\ \A i \in 1..reached : first[i] = pair[i]
    <2>1. pair[1] = c /\ pair[2] = d /\ \A i \in 1..reached : pair[i] \in T
        BY <1>2
    <2> HIDE DEF pair
    <2>2. /\ first \in Seq(T)
          /\ Len(first) = IF 1 <= reached THEN reached - 1 + 1 ELSE 0
          /\ \A i \in 1..(reached - 1 + 1) : first[i] = pair[1 + i - 1]
        BY <2>1, SubSeqProperties
    <2> QED
        BY <2>2
<1>5. pair[1] = c /\ pair[2] = d
    OBVIOUS
<1> HIDE DEF pair, first
<1>6. /\ campaign' \in Seq(T) /\ Len(campaign') = L + reached
      /\ \A i \in 1..(L + reached) :
            campaign'[i] = IF i <= L THEN campaign[i] ELSE first[i - L]
    BY <1>1, <1>3, <1>4, ConcatProperties
<1>7. PICK one : one = Append(campaign, c)
    OBVIOUS
<1>8. PICK two : two = Append(one, d)
    OBVIOUS
<1>9. /\ one \in Seq(T) /\ Len(one) = L + 1
      /\ \A i \in 1..L : one[i] = campaign[i]
      /\ one[L + 1] = c
    BY <1>1, <1>2, <1>7
<1>10. /\ two \in Seq(T) /\ Len(two) = L + 2
       /\ \A i \in 1..(L + 1) : two[i] = one[i]
       /\ two[L + 2] = d
    BY <1>1, <1>2, <1>8, <1>9
<1> HIDE DEF L
<1>11. CASE reached = 0
    <2>1. Len(campaign') = Len(campaign) /\ \A i \in 1..Len(campaign') : campaign'[i] = campaign[i]
        BY <1>1, <1>6, <1>11 DEF L
    <2>2. campaign' = campaign
        BY <1>1, <1>6, <2>1, SeqEqual
    <2> QED
        BY <1>11, <2>2
<1>12. CASE reached = 1
    <2>1. Len(campaign') = Len(one) /\ \A i \in 1..Len(campaign') : campaign'[i] = one[i]
        BY <1>1, <1>4, <1>5, <1>6, <1>9, <1>12
    <2>2. campaign' = one
        BY <1>6, <1>9, <2>1, SeqEqual
    <2> QED
        BY <1>7, <1>12, <2>2
<1>13. CASE reached = 2
    <2>1. Len(campaign') = Len(two) /\ \A i \in 1..Len(campaign') : campaign'[i] = two[i]
        BY <1>1, <1>4, <1>5, <1>6, <1>9, <1>10, <1>13
    <2>2. campaign' = two
        BY <1>6, <1>10, <2>1, SeqEqual
    <2> QED
        BY <1>7, <1>8, <1>13, <2>2
<1> QED
    BY <1>11, <1>12, <1>13

\* f[n] lists the bindings of the stages opened in the first n receipts.
Unrolls(f, log, N) ==
    f = [n \in 0..N |->
            IF n = 0 THEN <<>>
            ELSE IF log[n].kind = "opened" THEN Append(f[n - 1], log[n].binding)
            ELSE f[n - 1]]
UnrollsAt(f, log, n) ==
    f[n] = IF n = 0 THEN <<>>
           ELSE IF log[n].kind = "opened" THEN Append(f[n - 1], log[n].binding)
           ELSE f[n - 1]

\* There is such a function: one for N receipts extends to N + 1.
LEMMA UnrollsExist == ASSUME NEW log, NEW N \in Nat PROVE \E f : Unrolls(f, log, N)
<1> DEFINE T == {M \in Nat : ~ \E f : Unrolls(f, log, M)}
<1> SUFFICES ASSUME T # {} PROVE FALSE
    OBVIOUS
<1>1. PICK M \in T : \A y \in T : M <= y
    BY LeastOf
<1>2. CASE M = 0
    <2>1. Unrolls([n \in 0..0 |-> <<>>], log, 0)
        BY DEF Unrolls
    <2> QED
        BY <1>2, <2>1
<1>3. CASE M # 0
    <2>1. PICK L \in Nat : M = L + 1
        BY <1>3
    <2>2. PICK f : Unrolls(f, log, L)
        BY <1>1, <2>1
    <2> DEFINE last == IF log[L + 1].kind = "opened" THEN Append(f[L], log[L + 1].binding) ELSE f[L]
               g == [n \in 0..(L + 1) |-> IF n <= L THEN f[n] ELSE last]
    <2>3. ASSUME NEW n \in 0..(L + 1) PROVE UnrollsAt(g, log, n)
        <3>1. CASE n <= L
            <4>4. n \in 0..L
                BY <3>1
            <4>1. UnrollsAt(f, log, n)
                <5> HIDE DEF g, last, T
                <5> QED
                    BY <2>2, <4>4 DEF Unrolls, UnrollsAt
            <4>3. g[n] = f[n]
                BY <3>1
            <4>2. n # 0 => n - 1 \in 0..L /\ g[n - 1] = f[n - 1]
                OBVIOUS
            <4> HIDE DEF g
            <4> QED
                BY <4>1, <4>2, <4>3 DEF UnrollsAt
        <3>2. CASE n = L + 1
            <4>1. g[L + 1] = last /\ g[L] = f[L] /\ L + 1 # 0 /\ (L + 1) - 1 = L
                OBVIOUS
            <4> HIDE DEF g
            <4> QED
                BY <3>2, <4>1 DEF UnrollsAt
        <3> QED
            BY <3>1, <3>2
    <2>4. Unrolls(g, log, L + 1)
        <3>1. DOMAIN g = 0..(L + 1) /\ g = [n \in 0..(L + 1) |-> g[n]]
            OBVIOUS
        <3> HIDE DEF g
        <3> QED
            BY <2>3, <3>1 DEF Unrolls, UnrollsAt
    <2> QED
        BY <2>1, <2>4
<1> QED
    BY <1>2, <1>3

\* What is opened is what the function says of all the receipts.
LEMMA OpenedUnrolls ==
    ASSUME NEW log, Len(log) \in Nat
    PROVE  \E f : Unrolls(f, log, Len(log)) /\ OpenedBindings(log) = f[Len(log)]
<1>1. PICK f : Unrolls(f, log, Len(log))
    BY UnrollsExist
<1> DEFINE F == CHOOSE h : h =
                    [n \in 0..Len(log) |->
                        IF n = 0 THEN <<>>
                        ELSE IF log[n].kind = "opened" THEN Append(h[n - 1], log[n].binding)
                        ELSE h[n - 1]]
<1>2. Unrolls(F, log, Len(log))
    BY <1>1 DEF Unrolls
<1>3. OpenedBindings(log) = F[Len(log)]
    BY DEF OpenedBindings
<1> QED
    BY <1>2, <1>3

\* Nothing is opened at first ...
LEMMA OpenedNothing == OpenedBindings(<<>>) = <<>>
<1>1. Len(<<>>) = 0
    OBVIOUS
<1>2. PICK f : Unrolls(f, <<>>, 0) /\ OpenedBindings(<<>>) = f[0]
    BY <1>1, OpenedUnrolls
<1> QED
    BY <1>2 DEF Unrolls

\* ... and a receipt more adds the stage it opens.
LEMMA OpenedNext ==
    ASSUME NEW log, NEW more, NEW e, Grown(more, log, e)
    PROVE  OpenedBindings(more) =
               IF e.kind = "opened" THEN Append(OpenedBindings(log), e.binding)
               ELSE OpenedBindings(log)
<1> DEFINE L == Len(log)
<1>1. L \in Nat /\ Len(more) = L + 1 /\ more[L + 1] = e /\ \A i \in 1..L : more[i] = log[i]
    BY DEF Grown
<1> HIDE DEF L
<1>2. PICK f : Unrolls(f, log, L) /\ OpenedBindings(log) = f[L]
    BY <1>1, OpenedUnrolls DEF L
<1>3. PICK g : Unrolls(g, more, L + 1) /\ OpenedBindings(more) = g[L + 1]
    <2>1. L + 1 \in Nat
        BY <1>1
    <2> QED
        BY <1>1, <2>1, OpenedUnrolls
<1>4. \A n \in 0..L : UnrollsAt(f, log, n)
    BY <1>2 DEF Unrolls, UnrollsAt
<1>5. \A n \in 0..(L + 1) : UnrollsAt(g, more, n)
    BY <1>3 DEF Unrolls, UnrollsAt
<1> DEFINE T == {n \in 0..L : f[n] # g[n]}
<1>6. T = {}
    <2> SUFFICES ASSUME T # {} PROVE FALSE
        OBVIOUS
    <2>1. PICK n \in T : \A y \in T : n <= y
        <3>1. T \in SUBSET Nat
            BY <1>1
        <3> QED
            BY <3>1, LeastOf
    <2>2. n \in 0..L /\ n \in 0..(L + 1) /\ UnrollsAt(f, log, n) /\ UnrollsAt(g, more, n)
        BY <1>1, <1>4, <1>5
    <2>3. n # 0 => n - 1 \in 0..L /\ n - 1 \notin T /\ more[n] = log[n]
        BY <1>1, <2>1, <2>2
    <2>4. n # 0 => f[n - 1] = g[n - 1] /\ more[n] = log[n]
        BY <2>3
    <2>5. f[n] = g[n]
        BY <2>2, <2>4 DEF UnrollsAt
    <2> QED
        BY <2>1, <2>5
<1>7. f[L] = g[L]
    BY <1>1, <1>6
<1>8. UnrollsAt(g, more, L + 1) /\ (L + 1) - 1 = L /\ L + 1 # 0
    BY <1>1, <1>5
<1> QED
    BY <1>1, <1>2, <1>3, <1>7, <1>8 DEF UnrollsAt

\* The last checkpoint is the receipt at the greatest place of one.
LEMMA LastCheckpointIs ==
    ASSUME NEW log, NEW k \in CampaignReceipts(log, "checkpoint"),
           CampaignReceipts(log, "checkpoint") \subseteq Nat,
           \A j \in CampaignReceipts(log, "checkpoint") : j <= k
    PROVE  LastCheckpoint(log) = log[k]
<1> DEFINE P == CampaignReceipts(log, "checkpoint")
           m == CHOOSE i \in P : \A j \in P : j <= i
<1> HIDE DEF P
<1>1. m \in P /\ \A j \in P : j <= m
    BY DEF P
<1>2. m = k
    BY <1>1 DEF P
<1> QED
    BY <1>2 DEF LastCheckpoint, P

\* A nonempty set of places has a greatest one.
LEMMA GreatestOf ==
    ASSUME NEW n \in Nat, NEW P \in SUBSET (1..n), P # {}
    PROVE  \E k \in P : \A j \in P : j <= k
<1> DEFINE Q == {n - j : j \in P}
<1>1. Q \in SUBSET Nat /\ Q # {}
    <2>1. \A j \in P : n - j \in Nat
        OBVIOUS
    <2>2. PICK j : j \in P
        OBVIOUS
    <2>3. n - j \in Q
        BY <2>2
    <2> QED
        BY <2>1, <2>3
<1>2. PICK q \in Q : \A y \in Q : q <= y
    <2> HIDE DEF Q
    <2> QED
        BY <1>1, LeastOf
<1>3. PICK k \in P : q = n - k
    OBVIOUS
<1>4. ASSUME NEW j \in P PROVE j <= k
    <2>1. n - k <= n - j
        BY <1>2, <1>3
    <2> QED
        BY <2>1
<1> QED
    BY <1>4

\* A receipt more is the last checkpoint, or leaves the last one.
LEMMA CheckpointNext ==
    ASSUME NEW log, NEW more, NEW e, Grown(more, log, e)
    PROVE  /\ e.kind = "checkpoint" =>
                /\ CampaignReceipts(more, "checkpoint") # {}
                /\ LastCheckpoint(more) = e
           /\ e.kind # "checkpoint" =>
                /\ CampaignReceipts(more, "checkpoint") = CampaignReceipts(log, "checkpoint")
                /\ CampaignReceipts(log, "checkpoint") # {} =>
                        LastCheckpoint(more) = LastCheckpoint(log)
<1> DEFINE P == CampaignReceipts(log, "checkpoint")
           Q == CampaignReceipts(more, "checkpoint")
           L == Len(log)
<1>1. /\ L \in Nat /\ P \subseteq 1..L
      /\ Q = P \cup (IF e.kind = "checkpoint" THEN {L + 1} ELSE {})
    BY DEF Grown, CampaignReceipts
<1>2. CASE e.kind = "checkpoint"
    <2>1. L + 1 \in Q /\ Q \subseteq Nat /\ \A j \in Q : j <= L + 1
        BY <1>1, <1>2
    <2>2. LastCheckpoint(more) = more[L + 1]
        BY <2>1, LastCheckpointIs
    <2> QED
        BY <1>2, <2>1, <2>2 DEF Grown
<1>3. CASE e.kind # "checkpoint" /\ P # {}
    <2>1. PICK k \in P : \A j \in P : j <= k
        BY <1>1, <1>3, GreatestOf
    <2>2. P \subseteq Nat /\ Q = P
        BY <1>1, <1>3
    <2>3. LastCheckpoint(log) = log[k] /\ LastCheckpoint(more) = more[k]
        BY <2>1, <2>2, LastCheckpointIs
    <2>4. more[k] = log[k]
        BY <1>1, <2>1 DEF Grown
    <2> QED
        BY <1>3, <2>2, <2>3, <2>4
<1>4. CASE e.kind # "checkpoint" /\ P = {}
    BY <1>1, <1>4
<1> QED
    BY <1>2, <1>3, <1>4

\* Closures only grow, and by what is closed.
LEMMA ClosedNext ==
    ASSUME NEW log, NEW more, NEW e, Grown(more, log, e)
    PROVE  /\ \A h : ~(e.kind = "closed" /\ e.handoff = h) =>
                ClosuresWith(more, h) = ClosuresWith(log, h)
           /\ \A h, n : n \in 0..Len(log) /\ ClosedLast(log, h, n) => ClosedLast(more, h, n)
           /\ \A h : e.kind # "closed" /\ ClosedLast(log, h, Len(log)) =>
                ClosedLast(more, h, Len(more))
           /\ e.kind = "closed" => ClosedLast(more, e.handoff, Len(more))
<1> DEFINE P == CampaignReceipts(log, "closed")
           Q == CampaignReceipts(more, "closed")
           L == Len(log)
<1>1. /\ L \in Nat /\ P \subseteq 1..L /\ Len(more) = L + 1
      /\ Q = P \cup (IF e.kind = "closed" THEN {L + 1} ELSE {})
      /\ \A i \in 1..L : more[i] = log[i]
      /\ more[L + 1] = e
    BY DEF Grown, CampaignReceipts
<1>2. \A h : ClosuresWith(more, h) = ClosuresWith(log, h) \cup
                (IF e.kind = "closed" /\ e.handoff = h THEN {L + 1} ELSE {})
    <2> HIDE DEF P, Q, L
    <2>1. \A h : /\ ClosuresWith(more, h) = {i \in Q : more[i].handoff = h}
                 /\ ClosuresWith(log, h) = {i \in P : log[i].handoff = h}
        BY DEF ClosuresWith, P, Q
    <2>2. L + 1 \notin P /\ \A i \in P : more[i] = log[i]
        BY <1>1
    <2>3. ASSUME NEW h, NEW i
          PROVE  i \in ClosuresWith(more, h) <=>
                    \/ i \in ClosuresWith(log, h)
                    \/ e.kind = "closed" /\ e.handoff = h /\ i = L + 1
        <3>1. i \in ClosuresWith(log, h) <=> i \in P /\ log[i].handoff = h
            BY <2>1
        <3>2. i \in ClosuresWith(more, h) <=> i \in Q /\ more[i].handoff = h
            BY <2>1
        <3>3. i \in Q <=> i \in P \/ (e.kind = "closed" /\ i = L + 1)
            BY <1>1
        <3> QED
            BY <1>1, <2>2, <3>1, <3>2, <3>3
    <2> QED
        BY <2>3
<1>3. \A h, n : ClosedLast(log, h, n) <=>
                 \E i \in ClosuresWith(log, h) : i <= n /\ \A j \in P : j <= n => j <= i
    BY DEF ClosedLast
<1>4. \A h, n : ClosedLast(more, h, n) <=>
                 \E i \in ClosuresWith(more, h) : i <= n /\ \A j \in Q : j <= n => j <= i
    BY DEF ClosedLast
<1>5. \A h : ClosuresWith(log, h) \subseteq P
    BY DEF ClosuresWith
<1> HIDE DEF P, Q, L
<1>6. ASSUME NEW h, NEW n \in 0..L, ClosedLast(log, h, n) PROVE ClosedLast(more, h, n)
    <2>1. PICK i \in ClosuresWith(log, h) : i <= n /\ \A j \in P : j <= n => j <= i
        BY <1>3, <1>6
    <2>2. \A j \in Q : j <= n => j <= i
        BY <1>1, <2>1
    <2>3. i \in ClosuresWith(more, h)
        BY <1>2, <2>1
    <2> QED
        BY <1>4, <2>1, <2>2, <2>3
<1>7. ASSUME NEW h, e.kind # "closed", ClosedLast(log, h, L) PROVE ClosedLast(more, h, L + 1)
    <2>1. PICK i \in ClosuresWith(log, h) : i <= L /\ \A j \in P : j <= L => j <= i
        BY <1>3, <1>7
    <2>2. i \in P /\ i \in 1..L
        BY <1>1, <1>5, <2>1
    <2>4. i <= L + 1 /\ \A j \in Q : j <= L + 1 => j <= i
        BY <1>1, <1>7, <2>1, <2>2
    <2>3. i \in ClosuresWith(more, h)
        BY <1>2, <2>1
    <2> QED
        BY <1>4, <2>3, <2>4
<1>8. ASSUME e.kind = "closed" PROVE ClosedLast(more, e.handoff, L + 1)
    <2>1. L + 1 \in ClosuresWith(more, e.handoff)
        BY <1>2, <1>8
    <2>2. L + 1 <= L + 1 /\ \A j \in Q : j <= L + 1
        BY <1>1
    <2> QED
        BY <1>4, <2>1, <2>2
<1>9. \A h : ~(e.kind = "closed" /\ e.handoff = h) => ClosuresWith(more, h) = ClosuresWith(log, h)
    BY <1>2
<1> QED
    BY <1>1, <1>6, <1>7, <1>8, <1>9 DEF L

\* A campaign as memory or a checkpoint has it: its lineage verifies, and the stage
\* at work is the last opened, in its workspace.
StateHolds(history, start, bindings, working) ==
    /\ Listed(history) /\ Listed(bindings) /\ working \in BOOLEAN
    /\ LineageVerifies(history, bindings, working)
    /\ start = IF working THEN Last(bindings).start ELSE NoStage
    /\ working => WorkspaceOf(Last(bindings).start) \in workspaces
\* The last checkpoint: what it lacks is an opening or a closure, and its handoffs
\* cover every source that was exported.
RecordHolds(record) ==
    /\ StateHolds(record.handoffs, record.stage, record.bindings, record.working)
    /\ Len(record.bindings) <= Len(OpenedBindings(campaign))
    /\ record.bindings = OpenedBindings(campaign) /\ ~record.working /\ record.handoffs # <<>> =>
            ClosedLast(campaign, Last(record.handoffs), Len(campaign))
    /\ \A source \in sources : source.handoff.start.ordinal \in 1..Len(record.handoffs)
LedgerHolds ==
    /\ Listed(campaign)
    /\ campaign = <<>> => sources = {} /\ handoffs = <<>> /\ stage = NoStage
    /\ CampaignReceipts(campaign, "checkpoint") # {} => RecordHolds(LastCheckpoint(campaign))
\* The sidecar's memory: every stage the ledger has opened, and the last closure.
MemoryHolds(record) ==
    /\ sidecar = [bindings |-> OpenedBindings(campaign), working |-> sidecar.working,
                  record |-> record]
    /\ StateHolds(handoffs, stage, sidecar.bindings, sidecar.working)
    /\ Len(record.handoffs) <= Len(handoffs)
    /\ sidecar.working /\ record.bindings = sidecar.bindings => record.working
    /\ ~sidecar.working /\ handoffs # <<>> => ClosedLast(campaign, Last(handoffs), Len(campaign))
SidecarHolds ==
    sidecar # NoSidecar =>
        /\ CampaignReceipts(campaign, "checkpoint") # {}
        /\ MemoryHolds(LastCheckpoint(campaign))
\* A review is of an exported source whose closure is still the only one.
ReviewsHold ==
    \A l \in 1..MaxReviews : reviewLedgers[l] # NoReview =>
        /\ reviewLedgers[l].source \in sources
        /\ SourceVerifies(reviewLedgers[l].source)
\* An inheritance is what control approved of an accepted review.
Approved(review) ==
    /\ review # NoReview /\ review.reviewed = "accept"
    /\ review.outcome # NoReview
    /\ review.outcome.approve /\ review.outcome.by = "control"
InheritanceHolds(inheritance) ==
    /\ inheritance.ledger \in 1..MaxReviews
    /\ Approved(reviewLedgers[inheritance.ledger])
    /\ reviewLedgers[inheritance.ledger].source.handoff = inheritance.transfer.handoff
InheritancesHold == \A inheritance \in inheritances : InheritanceHolds(inheritance)
\* What names control as its giver was handed out by it.
Granted(inheritance, granted) == inheritance.ledger # 0 => inheritance \in granted
\* A successor stage was opened behind the closure that its inheritance names.
OpeningsIn(log, granted) ==
    \A i \in CampaignReceipts(log, "opened") :
        log[i].binding.start.ordinal > 1 =>
            /\ Granted(log[i].binding.inheritance, granted)
            /\ ClosedLast(log, log[i].binding.inheritance.transfer.handoff, i)
ReviewLedgersTyped ==
    /\ DOMAIN reviewLedgers = 1..MaxReviews
    /\ reviewLedgers = [l \in 1..MaxReviews |-> reviewLedgers[l]]
    /\ \A l \in 1..MaxReviews : reviewLedgers[l] # NoReview =>
        reviewLedgers[l] = [source |-> reviewLedgers[l].source,
                            reviewed |-> reviewLedgers[l].reviewed,
                            adopted |-> reviewLedgers[l].adopted,
                            outcome |-> reviewLedgers[l].outcome]
CampaignInv ==
    /\ LedgerHolds /\ SidecarHolds /\ ReviewLedgersTyped /\ ReviewsHold /\ InheritancesHold
    /\ OpeningsIn(campaign, inheritances)

\* A stage opened behind what is closed keeps the lineage.
LEMMA LineageOpens ==
    ASSUME NEW history, NEW bindings, NEW more, NEW binding,
           Listed(history), Grown(more, bindings, binding),
           LineageVerifies(history, bindings, FALSE),
           binding.start.ordinal = Len(history) + 1,
           history = <<>> => binding.inheritance = NoStage,
           history # <<>> =>
               /\ binding.inheritance.transfer.handoff = Last(history)
               /\ binding.inheritance.transfer.target = Len(history) + 1
               /\ binding.inheritance.workspace = WorkspaceOf(Last(bindings).start)
    PROVE  LineageVerifies(history, more, TRUE)
<1> DEFINE L == Len(bindings)
           Good(i, b) ==
               /\ b[i].start.ordinal = i
               /\ IF i = 1 THEN b[i].inheritance = NoStage
                  ELSE /\ b[i].inheritance.transfer.handoff = history[i - 1]
                       /\ b[i].inheritance.transfer.target = i
                       /\ b[i].inheritance.workspace = WorkspaceOf(b[i - 1].start)
<1>1. /\ L \in Nat /\ Len(more) = L + 1 /\ DOMAIN more = 1..(L + 1) /\ DOMAIN bindings = 1..L
      /\ \A i \in 1..L : more[i] = bindings[i]
      /\ more[L + 1] = binding
    BY DEF Grown
<1>2. Len(history) = L /\ \A i \in 1..L : Good(i, bindings)
    BY <1>1 DEF LineageVerifies
<1>3. history = <<>> <=> L = 0
    BY <1>2 DEF Listed
<1>4. ASSUME NEW i \in 1..L PROVE Good(i, more)
    <2>1. Good(i, bindings) /\ more[i] = bindings[i]
        BY <1>1, <1>2
    <2>2. i # 1 => more[i - 1] = bindings[i - 1]
        BY <1>1
    <2> QED
        BY <2>1, <2>2
<1>5. Good(L + 1, more)
    <2>1. binding.start.ordinal = L + 1
        BY <1>2
    <2>2. CASE L = 0
        BY <1>1, <1>3, <2>1, <2>2
    <2>3. CASE L # 0
        <3>1. L \in 1..L /\ L + 1 # 1 /\ (L + 1) - 1 = L
            BY <1>1, <2>3
        <3>2. more[L] = bindings[L] /\ Last(bindings) = bindings[L] /\ Last(history) = history[L]
            BY <1>1, <1>2, <3>1 DEF Last
        <3> QED
            BY <1>1, <1>2, <1>3, <2>1, <2>3, <3>1, <3>2
    <2> QED
        BY <2>2, <2>3
<1>6. Len(more) = Len(history) + (IF TRUE THEN 1 ELSE 0)
    BY <1>1, <1>2
<1>7. \A i \in 1..(L + 1) : Good(i, more)
    <2> HIDE DEF Good
    <2>1. \A i \in 1..(L + 1) : i \in 1..L \/ i = L + 1
        BY <1>1
    <2> QED
        BY <1>4, <1>5, <2>1
<1> QED
    BY <1>1, <1>6, <1>7 DEF LineageVerifies

\* A stage closed keeps it.
LEMMA LineageCloses ==
    ASSUME NEW history, NEW bindings, NEW more, NEW handoff, Grown(more, history, handoff),
           LineageVerifies(history, bindings, TRUE), Listed(bindings)
    PROVE  LineageVerifies(more, bindings, FALSE)
<1>1. /\ Len(history) \in Nat /\ Len(more) = Len(history) + 1
      /\ \A i \in 1..Len(history) : more[i] = history[i]
    BY DEF Grown
<1>2. Len(bindings) = Len(history) + 1 /\ DOMAIN bindings = 1..(Len(history) + 1)
    BY DEF LineageVerifies, Listed
<1>3. \A i \in DOMAIN bindings : i # 1 => more[i - 1] = history[i - 1]
    BY <1>1, <1>2
<1>4. Len(bindings) = Len(more) + (IF FALSE THEN 1 ELSE 0)
    BY <1>1, <1>2
<1> QED
    BY <1>3, <1>4 DEF LineageVerifies

\* Opened stages stand on what was granted when a receipt comes in, if its own does.
LEMMA OpeningsNext ==
    ASSUME NEW log, NEW more, NEW e, NEW granted, Grown(more, log, e),
           OpeningsIn(log, granted),
           e.kind = "opened" /\ e.binding.start.ordinal > 1 =>
               /\ Granted(e.binding.inheritance, granted)
               /\ ClosedLast(log, e.binding.inheritance.transfer.handoff, Len(log))
    PROVE  OpeningsIn(more, granted)
<1> DEFINE L == Len(log)
<1>1. /\ L \in Nat /\ DOMAIN log = 1..L /\ DOMAIN more = 1..(L + 1) /\ Len(more) = L + 1
      /\ \A i \in 1..L : more[i] = log[i]
      /\ more[L + 1] = e
    BY DEF Grown
<1>2. ASSUME NEW i \in CampaignReceipts(more, "opened"), more[i].binding.start.ordinal > 1
      PROVE  /\ Granted(more[i].binding.inheritance, granted)
             /\ ClosedLast(more, more[i].binding.inheritance.transfer.handoff, i)
    <2>1. i \in 1..(L + 1) /\ more[i].kind = "opened"
        BY <1>1 DEF CampaignReceipts
    <2>2. CASE i \in 1..L
        <3>1. i \in CampaignReceipts(log, "opened") /\ more[i] = log[i]
            BY <1>1, <2>1, <2>2 DEF CampaignReceipts
        <3>2. /\ Granted(log[i].binding.inheritance, granted)
              /\ ClosedLast(log, log[i].binding.inheritance.transfer.handoff, i)
            BY <1>2, <3>1 DEF OpeningsIn
        <3>3. i \in 0..Len(log)
            BY <2>2
        <3>4. ClosedLast(more, log[i].binding.inheritance.transfer.handoff, i)
            BY <3>2, <3>3, ClosedNext
        <3> QED
            BY <3>1, <3>2, <3>4
    <2>3. CASE i = L + 1
        <3>1. more[i] = e /\ e.kind = "opened" /\ Len(more) = i
            BY <1>1, <2>1, <2>3
        <3>2. /\ Granted(e.binding.inheritance, granted)
              /\ ClosedLast(log, e.binding.inheritance.transfer.handoff, Len(log))
            BY <1>2, <3>1
        <3>3. e.kind # "closed"
            BY <3>1
        <3>4. ClosedLast(more, e.binding.inheritance.transfer.handoff, i)
            BY <3>1, <3>2, <3>3, ClosedNext
        <3> QED
            BY <3>1, <3>2, <3>4
    <2> QED
        BY <1>1, <2>1, <2>2, <2>3
<1> QED
    BY <1>2 DEF OpeningsIn

\* Workspaces only come to be.
LEMMA StateStays ==
    ASSUME NEW history, NEW start, NEW bindings, NEW working,
           StateHolds(history, start, bindings, working), workspaces \subseteq workspaces'
    PROVE  StateHolds(history, start, bindings, working)'
BY DEF StateHolds

\* Reviews stand while nothing is closed again under a source's handoff.
LEMMA ReviewsStay ==
    ASSUME ReviewsHold, UNCHANGED reviewLedgers, sources \subseteq sources',
           \A source \in sources :
               ClosuresWith(campaign', source.handoff) = ClosuresWith(campaign, source.handoff)
    PROVE  ReviewsHold'
<1>1. ASSUME NEW l \in 1..MaxReviews, reviewLedgers[l] # NoReview
      PROVE  reviewLedgers[l].source \in sources' /\ SourceVerifies(reviewLedgers[l].source)'
    <2>1. reviewLedgers[l].source \in sources /\ SourceVerifies(reviewLedgers[l].source)
        BY <1>1 DEF ReviewsHold
    <2> QED
        BY <2>1 DEF SourceVerifies
<1> QED
    BY <1>1 DEF ReviewsHold

\* Nothing is there at first.
LEMMA InitCampaign == CampaignInit => CampaignInv
<1> SUFFICES ASSUME CampaignInit PROVE CampaignInv
    OBVIOUS
<1>1. /\ campaign = <<>> /\ sidecar = NoSidecar /\ sources = {} /\ inheritances = {}
      /\ handoffs = <<>> /\ stage = NoStage
      /\ reviewLedgers = [l \in 1..MaxReviews |-> NoReview]
    BY DEF CampaignInit, CurriculumInit
<1>2. Listed(<<>>) /\ \A kind : CampaignReceipts(<<>>, kind) = {}
    BY DEF Listed, CampaignReceipts
<1>3. LedgerHolds /\ SidecarHolds /\ ReviewsHold /\ InheritancesHold
    BY <1>1, <1>2 DEF LedgerHolds, SidecarHolds, ReviewsHold, InheritancesHold
<1>4. ReviewLedgersTyped /\ OpeningsIn(campaign, inheritances)
    BY <1>1, <1>2 DEF ReviewLedgersTyped, OpeningsIn
<1> QED
    BY <1>3, <1>4 DEF CampaignInv

\* The stage at work is the next one to be closed.
LEMMA AtWorkPlace ==
    ASSUME CampaignInv, sidecar # NoSidecar, sidecar.working
    PROVE  stage.ordinal = Len(handoffs) + 1
<1>1. PICK B : B = sidecar.bindings
    OBVIOUS
<1>2. PICK w \in BOOLEAN : w = sidecar.working
    BY DEF CampaignInv, SidecarHolds, MemoryHolds, StateHolds
<1>3. StateHolds(handoffs, stage, B, w) /\ w = TRUE
    BY <1>1, <1>2 DEF CampaignInv, SidecarHolds, MemoryHolds
<1>4. /\ Listed(B) /\ LineageVerifies(handoffs, B, TRUE) /\ stage = Last(B).start
      /\ Listed(handoffs)
    BY <1>3 DEF StateHolds
<1>5. Len(B) = Len(handoffs) + 1 /\ DOMAIN B = 1..Len(B) /\ Len(handoffs) \in Nat
    BY <1>4 DEF LineageVerifies, Listed
<1>6. B[Len(B)].start.ordinal = Len(B)
    BY <1>4, <1>5 DEF LineageVerifies
<1> QED
    BY <1>4, <1>5, <1>6 DEF Last

\* A closure, in the ledger and perhaps in a checkpoint: its handoff is of a place
\* that no source's is, so it doubles no closure that was exported.
LEMMA FinishesStep ==
    ASSUME CampaignInv, NEW handoff, NEW n \in 1..2, Finishes(handoff, n),
           UNCHANGED <<workspaces, reviewLedgers, inheritances>>, sources \subseteq sources',
           \A source \in sources' :
               source \in sources \/ (n = 2 /\ source.handoff.start.ordinal = Len(handoffs) + 1)
    PROVE  /\ LedgerHolds' /\ ReviewLedgersTyped' /\ ReviewsHold' /\ InheritancesHold'
           /\ OpeningsIn(campaign, inheritances)'
           /\ CampaignReceipts(campaign', "checkpoint") # {}
           /\ OpenedBindings(campaign') = sidecar.bindings
           /\ LastCheckpoint(campaign') = IF n = 2 THEN FinishedRecord(handoff) ELSE sidecar.record
           /\ \A bindings : bindings = sidecar.bindings =>
                \A history : history = Append(handoffs, handoff) =>
                    StateHolds(history, NoStage, bindings, FALSE)'
           /\ ClosedLast(campaign', handoff, Len(campaign'))
           /\ Len(sidecar.record.handoffs) <= Len(handoffs)
           /\ sidecar.record.bindings = sidecar.bindings => sidecar.record.working
           /\ handoff.start.ordinal = Len(handoffs) + 1
           /\ Len(handoffs) \in Nat
<1>1. /\ sidecar # NoSidecar /\ sidecar.working
      /\ stage # NoStage /\ handoff.start = stage
      /\ Stores(<<[kind |-> "closed", handoff |-> handoff], FinishedRecord(handoff)>>, n)
    BY DEF Finishes, MayFinish
<1>2. PICK K : K = LastCheckpoint(campaign)
    OBVIOUS
<1>3. PICK B : B = OpenedBindings(campaign)
    OBVIOUS
<1>4. PICK H : H = Append(handoffs, handoff)
    OBVIOUS
<1>5. PICK c : c = [kind |-> "closed", handoff |-> handoff]
    OBVIOUS
<1>6. PICK d : d = FinishedRecord(handoff)
    OBVIOUS
<1>7. PICK log : log = campaign
    OBVIOUS
<1>8. /\ Listed(log) /\ CampaignReceipts(log, "checkpoint") # {} /\ RecordHolds(K)
      /\ MemoryHolds(K)
    BY <1>1, <1>2, <1>7 DEF CampaignInv, LedgerHolds, SidecarHolds
<1>9. /\ sidecar.bindings = B /\ sidecar.record = K
      /\ StateHolds(handoffs, stage, B, TRUE)
      /\ Len(K.handoffs) <= Len(handoffs)
      /\ K.bindings = B => K.working
    <2>1. sidecar = [bindings |-> B, working |-> sidecar.working, record |-> K]
        BY <1>3, <1>8 DEF MemoryHolds
    <2>2. sidecar.bindings = B /\ sidecar.record = K
        BY <2>1
    <2>3. StateHolds(handoffs, stage, B, sidecar.working) /\ sidecar.working \in BOOLEAN
        BY <1>8, <2>2 DEF MemoryHolds, StateHolds
    <2>4. sidecar.working = TRUE
        BY <1>1, <2>3
    <2>5. StateHolds(handoffs, stage, B, TRUE)
        BY <2>3, <2>4
    <2> QED
        BY <1>1, <1>8, <2>2, <2>5 DEF MemoryHolds
<1>10. /\ Listed(handoffs) /\ Listed(B) /\ LineageVerifies(handoffs, B, TRUE)
       /\ stage = Last(B).start /\ Len(handoffs) \in Nat
    <2>1. /\ Listed(handoffs) /\ Listed(B) /\ LineageVerifies(handoffs, B, TRUE)
          /\ stage = Last(B).start
        BY <1>9 DEF StateHolds
    <2>2. Len(handoffs) \in Nat
        BY <2>1 DEF Listed
    <2> QED
        BY <2>1, <2>2
<1>11. handoff.start.ordinal = Len(handoffs) + 1
    BY <1>1, AtWorkPlace
<1>12. Grown(H, handoffs, handoff)
    BY <1>4, <1>10, AppendGrows
<1>13. StateHolds(H, NoStage, B, FALSE)'
    <2>1. LineageVerifies(H, B, FALSE)
        BY <1>10, <1>12, LineageCloses
    <2> QED
        BY <1>10, <1>12, <2>1 DEF StateHolds, Grown
<1>14. /\ d = [kind |-> "checkpoint", handoffs |-> H, stage |-> NoStage, bindings |-> B,
               working |-> FALSE]
       /\ c.kind = "closed" /\ c.handoff = handoff
    BY <1>4, <1>5, <1>6, <1>9 DEF FinishedRecord, CheckpointReceipt
<1>15. PICK mid : mid = Append(log, c)
    OBVIOUS
<1>16. Grown(mid, log, c)
    BY <1>8, <1>15, AppendGrows
<1>17. PICK more : more = campaign'
    OBVIOUS
<1>18. /\ n = 1 => more = mid
       /\ n = 2 => more = Append(mid, d)
    <2>1. Stores(<<c, d>>, n) /\ Listed(campaign) /\ n \in 0..2
        BY <1>1, <1>5, <1>6, <1>7, <1>8
    <2> QED
        BY <1>7, <1>15, <1>17, <2>1, StoresReached
<1>19. n = 2 => Grown(more, mid, d)
    <2>1. Listed(mid)
        BY <1>16 DEF Grown
    <2> QED
        BY <1>18, <2>1, AppendGrows
\* What the receipts say.
<1>20. Listed(more) /\ more # <<>>
    BY <1>16, <1>18, <1>19 DEF Grown
<1>21. OpenedBindings(more) = B
    <2>1. OpenedBindings(mid) = B
        BY <1>3, <1>7, <1>14, <1>16, OpenedNext
    <2>2. n = 2 => OpenedBindings(more) = OpenedBindings(mid)
        BY <1>14, <1>19, OpenedNext
    <2> QED
        BY <1>18, <2>1, <2>2
<1>22. /\ CampaignReceipts(more, "checkpoint") # {}
       /\ n = 1 => LastCheckpoint(more) = K
       /\ n = 2 => LastCheckpoint(more) = d
    <2>1. /\ CampaignReceipts(mid, "checkpoint") # {} /\ LastCheckpoint(mid) = K
        BY <1>2, <1>7, <1>8, <1>14, <1>16, CheckpointNext
    <2>2. n = 2 => CampaignReceipts(more, "checkpoint") # {} /\ LastCheckpoint(more) = d
        BY <1>14, <1>19, CheckpointNext
    <2> QED
        BY <1>18, <2>1, <2>2
<1>23. ClosedLast(more, handoff, Len(more))
    <2>1. ClosedLast(mid, handoff, Len(mid))
        BY <1>14, <1>16, ClosedNext
    <2>2. n = 2 => ClosedLast(more, handoff, Len(more))
        BY <1>14, <1>19, <2>1, ClosedNext
    <2> QED
        BY <1>18, <2>1, <2>2
<1>24. \A h : h # handoff => ClosuresWith(more, h) = ClosuresWith(log, h)
    <2>1. \A h : h # handoff => ClosuresWith(mid, h) = ClosuresWith(log, h)
        BY <1>14, <1>16, ClosedNext
    <2>2. n = 2 => \A h : ClosuresWith(more, h) = ClosuresWith(mid, h)
        BY <1>14, <1>19, ClosedNext
    <2> QED
        BY <1>18, <2>1, <2>2
<1>25. OpeningsIn(more, inheritances)
    <2>1. OpeningsIn(mid, inheritances)
        BY <1>7, <1>14, <1>16, OpeningsNext DEF CampaignInv
    <2>2. n = 2 => OpeningsIn(more, inheritances)
        BY <1>14, <1>19, <2>1, OpeningsNext
    <2> QED
        BY <1>18, <2>1, <2>2
\* What holds of them.
<1>26. \A source \in sources : source.handoff.start.ordinal \in 1..Len(K.handoffs)
    BY <1>8 DEF RecordHolds
<1>27. Len(K.handoffs) \in Nat /\ Len(H) = Len(handoffs) + 1 /\ Last(H) = handoff /\ H # <<>>
    BY <1>8, <1>12 DEF RecordHolds, StateHolds, Listed, Grown, Last
<1>28. \A source \in sources : source.handoff # handoff
    <2>1. ~(Len(handoffs) + 1 <= Len(K.handoffs))
        BY <1>9, <1>10, <1>27
    <2> QED
        BY <1>11, <1>26, <2>1
<1>29. ReviewsHold'
    <2>1. \A source \in sources :
             ClosuresWith(campaign', source.handoff) = ClosuresWith(campaign, source.handoff)
        BY <1>7, <1>17, <1>24, <1>28
    <2> QED
        BY <2>1, ReviewsStay DEF CampaignInv
<1>30. RecordHolds(LastCheckpoint(campaign))'
    <2>1. CASE n = 1
        <3>1. LastCheckpoint(campaign') = K
            BY <1>17, <1>22, <2>1
        <3>2. StateHolds(K.handoffs, K.stage, K.bindings, K.working)'
            BY <1>8, StateStays DEF RecordHolds
        <3>3. Len(K.bindings) <= Len(B) /\ (K.bindings = B => K.working)
            BY <1>3, <1>8, <1>9 DEF RecordHolds
        <3>4. \A source \in sources' : source.handoff.start.ordinal \in 1..Len(K.handoffs)
            BY <1>26, <2>1
        <3> QED
            BY <1>17, <1>21, <3>1, <3>2, <3>3, <3>4 DEF RecordHolds
    <2>2. CASE n = 2
        <3>1. LastCheckpoint(campaign') = d
            BY <1>17, <1>22, <2>2
        <3>2. /\ d.handoffs = H /\ d.stage = NoStage /\ d.bindings = B /\ d.working = FALSE
            BY <1>14
        <3>3. StateHolds(d.handoffs, d.stage, d.bindings, d.working)'
            BY <1>13, <3>2
        <3>4. ASSUME NEW source \in sources' PROVE source.handoff.start.ordinal \in 1..Len(H)
            <4>1. CASE source \in sources
                <5>1. source.handoff.start.ordinal \in 1..Len(K.handoffs)
                    BY <1>26, <4>1
                <5>2. Len(K.handoffs) <= Len(H)
                    BY <1>9, <1>10, <1>27
                <5> QED
                    BY <1>27, <5>1, <5>2
            <4>2. CASE source.handoff.start.ordinal = Len(handoffs) + 1
                BY <1>10, <1>27, <4>2
            <4> QED
                BY <4>1, <4>2
        <3>5. Len(B) <= Len(B)
            BY <1>10 DEF Listed
        <3> QED
            BY <1>17, <1>21, <1>23, <1>27, <3>1, <3>2, <3>3, <3>4, <3>5 DEF RecordHolds
    <2> QED
        BY <2>1, <2>2
<1>31. LedgerHolds'
    BY <1>17, <1>20, <1>30 DEF LedgerHolds
<1>32. InheritancesHold' /\ ReviewLedgersTyped' /\ OpeningsIn(campaign, inheritances)'
    <2>1. InheritancesHold /\ ReviewLedgersTyped
        BY DEF CampaignInv
    <2>2. InheritancesHold'
        BY <2>1 DEF InheritancesHold, InheritanceHolds
    <2>3. ReviewLedgersTyped'
        BY <2>1 DEF ReviewLedgersTyped
    <2>4. OpeningsIn(campaign, inheritances)'
        BY <1>17, <1>25
    <2> QED
        BY <2>2, <2>3, <2>4
<1>33. \A bindings : bindings = sidecar.bindings =>
        \A history : history = Append(handoffs, handoff) =>
            StateHolds(history, NoStage, bindings, FALSE)'
    BY <1>4, <1>9, <1>13
<1>34. LastCheckpoint(campaign') = IF n = 2 THEN FinishedRecord(handoff) ELSE sidecar.record
    BY <1>6, <1>9, <1>17, <1>22
<1> QED
    BY <1>9, <1>10, <1>11, <1>17, <1>21, <1>22, <1>23, <1>29, <1>31, <1>32, <1>33, <1>34

\* A checkpoint is in no empty ledger.
LEMMA NotBlank ==
    ASSUME CampaignReceipts(campaign, "checkpoint") # {}
    PROVE  campaign # <<>>
BY DEF CampaignReceipts

\* What the ledger says stays true while nothing is stored.
LEMMA LedgerStays ==
    ASSUME CampaignInv, UNCHANGED <<campaign, sources>>, workspaces \subseteq workspaces',
           campaign # <<>> \/ UNCHANGED <<handoffs, stage>>
    PROVE  LedgerHolds'
<1>1. LedgerHolds
    BY DEF CampaignInv
<1>2. ASSUME CampaignReceipts(campaign, "checkpoint") # {}
      PROVE  RecordHolds(LastCheckpoint(campaign))'
    <2>1. PICK K : K = LastCheckpoint(campaign)
        OBVIOUS
    <2>2. RecordHolds(K)
        BY <1>1, <1>2, <2>1 DEF LedgerHolds
    <2>3. StateHolds(K.handoffs, K.stage, K.bindings, K.working)'
        BY <2>2, StateStays DEF RecordHolds
    <2>4. LastCheckpoint(campaign') = K
        BY <2>1
    <2> QED
        BY <2>2, <2>3, <2>4 DEF RecordHolds
<1> QED
    BY <1>1, <1>2 DEF LedgerHolds

\* What reviews and inheritances rest on, while nothing is stored, reviewed or decided.
LEMMA ReviewsQuiet ==
    ASSUME CampaignInv, UNCHANGED <<campaign, reviewLedgers, inheritances>>,
           sources \subseteq sources'
    PROVE  /\ ReviewLedgersTyped' /\ ReviewsHold' /\ InheritancesHold'
           /\ OpeningsIn(campaign, inheritances)'
<1>1. /\ ReviewLedgersTyped /\ ReviewsHold /\ InheritancesHold
      /\ OpeningsIn(campaign, inheritances)
    BY DEF CampaignInv
<1>2. ReviewsHold'
    BY <1>1, ReviewsStay
<1>3. ReviewLedgersTyped' /\ InheritancesHold'
    BY <1>1 DEF ReviewLedgersTyped, InheritancesHold, InheritanceHolds
<1> QED
    BY <1>1, <1>2, <1>3

\* A sidecar that is gone holds nothing.
LEMMA NoSidecarHolds == ASSUME sidecar' = NoSidecar PROVE SidecarHolds'
BY DEF SidecarHolds

\* A sidecar is closed or its process ends; the ledger stays.
LEMMA LoseSidecarStep == ASSUME CampaignInv, LoseSidecar PROVE CampaignInv'
<1>1. /\ sidecar # NoSidecar /\ sidecar' = NoSidecar /\ handoffs' = <<>> /\ stage' = NoStage
      /\ UNCHANGED <<campaign, workspaces, sources, reviewLedgers, inheritances>>
    BY DEF LoseSidecar, transitionVars
<1>2. campaign # <<>>
    BY <1>1, NotBlank DEF CampaignInv, SidecarHolds
<1>3. LedgerHolds'
    BY <1>1, <1>2, LedgerStays
<1>4. SidecarHolds'
    BY <1>1, NoSidecarHolds
<1> QED
    BY <1>1, <1>3, <1>4, ReviewsQuiet DEF CampaignInv

\* A restored sidecar holds what the last checkpoint does, which names every stage opened.
LEMMA RestoreSidecarStep == ASSUME CampaignInv, RestoreSidecar PROVE CampaignInv'
<1>1. PICK K : K = LastCheckpoint(campaign)
    OBVIOUS
<1>2. /\ CampaignReceipts(campaign, "checkpoint") # {}
      /\ K.bindings = OpenedBindings(campaign)
      /\ sidecar' = [bindings |-> K.bindings, working |-> K.working, record |-> K]
      /\ handoffs' = K.handoffs /\ stage' = K.stage
      /\ UNCHANGED <<campaign, workspaces, sources, reviewLedgers, inheritances>>
    BY <1>1 DEF RestoreSidecar, CampaignRestorable, transitionVars
<1>3. campaign # <<>>
    BY <1>2, NotBlank
<1>4. LedgerHolds'
    BY <1>2, <1>3, LedgerStays
<1>5. RecordHolds(K)
    BY <1>1, <1>2 DEF CampaignInv, LedgerHolds
<1>6. StateHolds(K.handoffs, K.stage, K.bindings, K.working)'
    BY <1>2, <1>5, StateStays DEF RecordHolds
<1>7. Len(K.handoffs) <= Len(K.handoffs)
    BY <1>5 DEF RecordHolds, StateHolds, Listed
<1>8. MemoryHolds(LastCheckpoint(campaign))'
    <2>1. LastCheckpoint(campaign') = K
        BY <1>1, <1>2
    <2>2. /\ sidecar'.bindings = K.bindings /\ sidecar'.working = K.working
          /\ OpenedBindings(campaign') = K.bindings
        BY <1>2
    <2>3. ~K.working /\ K.handoffs # <<>> =>
            ClosedLast(campaign', Last(K.handoffs), Len(campaign'))
        BY <1>2, <1>5 DEF RecordHolds
    <2> QED
        BY <1>2, <1>6, <1>7, <2>1, <2>2, <2>3 DEF MemoryHolds
<1>9. SidecarHolds'
    BY <1>2, <1>8 DEF SidecarHolds
<1> QED
    BY <1>2, <1>4, <1>9, ReviewsQuiet DEF CampaignInv

\* A stage is finished, in the ledger, in memory and, if the call got so far, in a checkpoint.
LEMMA FinishStageStep ==
    ASSUME CampaignInv, NEW handoff, NEW n \in 1..2, FinishStage(handoff, n)
    PROVE  CampaignInv'
<1>1. /\ Finishes(handoff, n)
      /\ handoffs' = Append(handoffs, handoff) /\ stage' = NoStage
      /\ sidecar' = [sidecar EXCEPT !.working = FALSE,
                                    !.record = IF n = 2 THEN FinishedRecord(handoff) ELSE @]
      /\ UNCHANGED <<workspaces, sources, reviewLedgers, inheritances>>
    BY DEF FinishStage, transitionVars
<1>2. /\ LedgerHolds' /\ ReviewLedgersTyped' /\ ReviewsHold' /\ InheritancesHold'
      /\ OpeningsIn(campaign, inheritances)'
      /\ CampaignReceipts(campaign', "checkpoint") # {}
      /\ OpenedBindings(campaign') = sidecar.bindings
      /\ LastCheckpoint(campaign') = IF n = 2 THEN FinishedRecord(handoff) ELSE sidecar.record
      /\ \A bindings : bindings = sidecar.bindings =>
            \A history : history = Append(handoffs, handoff) =>
                StateHolds(history, NoStage, bindings, FALSE)'
      /\ ClosedLast(campaign', handoff, Len(campaign'))
      /\ Len(sidecar.record.handoffs) <= Len(handoffs)
      /\ Len(handoffs) \in Nat
    BY <1>1, FinishesStep
<1>3. PICK B : B = sidecar.bindings
    OBVIOUS
<1>4. PICK H : H = Append(handoffs, handoff)
    OBVIOUS
<1>5. PICK K : K = IF n = 2 THEN FinishedRecord(handoff) ELSE sidecar.record
    OBVIOUS
<1>6. sidecar' = [bindings |-> B, working |-> FALSE, record |-> K]
    <2>1. PICK w, r : sidecar = [bindings |-> B, working |-> w, record |-> r]
        BY <1>1, <1>3 DEF Finishes, CampaignInv, SidecarHolds, MemoryHolds
    <2>2. sidecar' = [sidecar EXCEPT !.working = FALSE, !.record = K]
        <3>1. sidecar.record = r
            BY <2>1
        <3>2. CASE n = 1
            <4>1. n # 2 /\ K = r
                BY <1>5, <3>1, <3>2
            <4> QED
                BY <1>1, <2>1, <4>1
        <3>3. CASE n = 2
            <4>1. K = FinishedRecord(handoff)
                BY <1>5, <3>3
            <4> QED
                BY <1>1, <2>1, <3>3, <4>1
        <3> QED
            BY <3>2, <3>3
    <2> QED
        BY <2>1, <2>2
<1>7. Listed(handoffs) /\ Listed(H)
    <2>1. Listed(handoffs)
        BY <1>1 DEF Finishes, CampaignInv, SidecarHolds, MemoryHolds, StateHolds
    <2> QED
        BY <1>4, <2>1, AppendGrows DEF Grown
<1>8. Grown(H, handoffs, handoff)
    BY <1>4, <1>7, AppendGrows
<1>9. Last(H) = handoff /\ Len(H) = Len(handoffs) + 1
    BY <1>8 DEF Grown, Last
<1>10. Len(K.handoffs) <= Len(H)
    <2>1. CASE n = 1
        <3>1. K = sidecar.record
            BY <1>5, <2>1
        <3>2. Len(sidecar.record.handoffs) \in Nat
            BY <1>1 DEF Finishes, CampaignInv, LedgerHolds, SidecarHolds, MemoryHolds, RecordHolds,
                        StateHolds, Listed
        <3> QED
            BY <1>2, <1>9, <3>1, <3>2
    <2>2. CASE n = 2
        <3>1. K.handoffs = H
            BY <1>4, <1>5, <2>2 DEF FinishedRecord, CheckpointReceipt
        <3> QED
            BY <1>2, <1>9, <3>1
    <2> QED
        BY <2>1, <2>2
<1>11. StateHolds(H, NoStage, B, FALSE)'
    BY <1>2, <1>3, <1>4
<1>12. MemoryHolds(LastCheckpoint(campaign))'
    <2>1. LastCheckpoint(campaign') = K /\ OpenedBindings(campaign') = B
        BY <1>2, <1>3, <1>5
    <2>2. handoffs' = H /\ stage' = NoStage
        BY <1>1, <1>4
    <2>3. sidecar'.bindings = B /\ sidecar'.working = FALSE
        BY <1>6
    <2> QED
        BY <1>2, <1>6, <1>9, <1>10, <1>11, <2>1, <2>2, <2>3 DEF MemoryHolds
<1>13. SidecarHolds'
    BY <1>2, <1>12 DEF SidecarHolds
<1> QED
    BY <1>2, <1>13 DEF CampaignInv

\* A stage is finished and perhaps exported; no sidecar is left.
LEMMA CloseSourceStep ==
    ASSUME CampaignInv, NEW handoff, NEW reached \in 1..3, CloseSource(handoff, reached)
    PROVE  CampaignInv'
<1>1. PICK n \in 1..2 : n = IF reached < 2 THEN reached ELSE 2
    OBVIOUS
<1>2. /\ Finishes(handoff, n) /\ sidecar' = NoSidecar
      /\ sources' = IF reached < 3 THEN sources
                    ELSE sources \cup {[handoff |-> handoff, workspace |-> WorkspaceOf(stage)]}
      /\ UNCHANGED <<workspaces, reviewLedgers, inheritances>>
    BY <1>1 DEF CloseSource
<1>3. handoff.start.ordinal = Len(handoffs) + 1
    BY <1>2, AtWorkPlace DEF Finishes, MayFinish
<1>4. /\ sources \subseteq sources'
      /\ \A source \in sources' :
            source \in sources \/ (n = 2 /\ source.handoff.start.ordinal = Len(handoffs) + 1)
    <2>1. CASE reached < 3
        BY <1>2, <2>1
    <2>2. CASE ~(reached < 3)
        <3>1. n = 2
            BY <1>1, <2>2
        <3>2. sources' = sources \cup {[handoff |-> handoff, workspace |-> WorkspaceOf(stage)]}
            BY <1>2, <2>2
        <3>3. [handoff |-> handoff, workspace |-> WorkspaceOf(stage)].handoff = handoff
            OBVIOUS
        <3> QED
            BY <1>3, <3>1, <3>2, <3>3
    <2> QED
        BY <2>1, <2>2
<1>5. /\ LedgerHolds' /\ ReviewLedgersTyped' /\ ReviewsHold' /\ InheritancesHold'
      /\ OpeningsIn(campaign, inheritances)'
    BY <1>2, <1>4, FinishesStep
<1>6. SidecarHolds'
    BY <1>2, NoSidecarHolds
<1> QED
    BY <1>5, <1>6 DEF CampaignInv

\* A campaign begins, with or without its first checkpoint.
LEMMA CreateCampaignStep ==
    ASSUME CampaignInv, NEW reached \in 1..2, CreateCampaign(reached)
    PROVE  CampaignInv'
<1>1. PICK K : K = CheckpointReceipt(<<>>, NoStage, <<>>, FALSE)
    OBVIOUS
<1>2. /\ campaign = <<>> /\ sidecar = NoSidecar
      /\ Stores(<<[kind |-> "genesis"], K>>, reached)
      /\ sidecar' = IF reached < 2 THEN NoSidecar
                    ELSE [bindings |-> <<>>, working |-> FALSE, record |-> K]
      /\ UNCHANGED <<handoffs, stage, workspaces, sources, reviewLedgers, inheritances>>
    BY <1>1 DEF CreateCampaign, transitionVars
<1>3. /\ Listed(<<>>) /\ sources = {} /\ handoffs = <<>> /\ stage = NoStage
    BY <1>2 DEF CampaignInv, LedgerHolds
<1>4. /\ K = [kind |-> "checkpoint", handoffs |-> <<>>, stage |-> NoStage, bindings |-> <<>>,
              working |-> FALSE]
    BY <1>1 DEF CheckpointReceipt
<1>5. PICK c : c = [kind |-> "genesis"]
    OBVIOUS
<1>6. PICK mid : mid = Append(<<>>, c)
    OBVIOUS
<1>7. Grown(mid, <<>>, c)
    BY <1>3, <1>6, AppendGrows
<1>8. PICK more : more = campaign'
    OBVIOUS
<1>9. /\ reached = 1 => more = mid
      /\ reached = 2 => more = Append(mid, K)
    <2>1. Stores(<<c, K>>, reached) /\ Listed(campaign) /\ reached \in 0..2
        BY <1>2, <1>3, <1>5
    <2> QED
        BY <1>2, <1>6, <1>8, <2>1, StoresReached
<1>10. reached = 2 => Grown(more, mid, K)
    <2>1. Listed(mid)
        BY <1>7 DEF Grown
    <2> QED
        BY <1>9, <2>1, AppendGrows
<1>11. c.kind = "genesis" /\ K.kind = "checkpoint"
    BY <1>4, <1>5
<1>12. Listed(more) /\ more # <<>>
    BY <1>7, <1>9, <1>10 DEF Grown
<1>13. OpenedBindings(more) = <<>>
    <2>1. OpenedBindings(mid) = <<>>
        BY <1>7, <1>11, OpenedNext, OpenedNothing
    <2>2. reached = 2 => OpenedBindings(more) = OpenedBindings(mid)
        BY <1>10, <1>11, OpenedNext
    <2> QED
        BY <1>9, <2>1, <2>2
<1>14. /\ reached = 1 => CampaignReceipts(more, "checkpoint") = {}
       /\ reached = 2 => CampaignReceipts(more, "checkpoint") # {} /\ LastCheckpoint(more) = K
    <2>1. CampaignReceipts(mid, "checkpoint") = {}
        <3>1. CampaignReceipts(<<>>, "checkpoint") = {}
            BY DEF CampaignReceipts
        <3> QED
            BY <1>7, <1>11, <3>1, CheckpointNext
    <2> QED
        BY <1>9, <1>10, <1>11, <2>1, CheckpointNext
<1>15. OpeningsIn(more, inheritances)
    <2>1. OpeningsIn(mid, inheritances)
        BY <1>2, <1>7, <1>11, OpeningsNext DEF CampaignInv
    <2>2. reached = 2 => OpeningsIn(more, inheritances)
        BY <1>10, <1>11, <2>1, OpeningsNext
    <2> QED
        BY <1>9, <2>1, <2>2
<1>16. StateHolds(<<>>, NoStage, <<>>, FALSE)'
    <2>1. Len(<<>>) = 0 /\ DOMAIN <<>> = {}
        OBVIOUS
    <2>2. LineageVerifies(<<>>, <<>>, FALSE)
        BY <2>1 DEF LineageVerifies
    <2> QED
        BY <1>3, <2>2 DEF StateHolds
<1>17. Len(<<>>) <= Len(<<>>)
    OBVIOUS
<1>18. /\ K.handoffs = <<>> /\ K.stage = NoStage /\ K.bindings = <<>> /\ K.working = FALSE
    BY <1>4
<1>19. CASE reached = 1
    <2>1. LedgerHolds'
        BY <1>8, <1>12, <1>14, <1>19 DEF LedgerHolds
    <2>2. SidecarHolds'
        BY <1>2, <1>19, NoSidecarHolds
    <2>3. ReviewLedgersTyped' /\ ReviewsHold' /\ InheritancesHold'
        BY <1>2, <1>3 DEF CampaignInv, ReviewLedgersTyped, ReviewsHold, InheritancesHold,
                          InheritanceHolds
    <2> QED
        BY <1>2, <1>8, <1>15, <2>1, <2>2, <2>3 DEF CampaignInv
<1>20. CASE reached = 2
    <2>1. LastCheckpoint(campaign') = K
        BY <1>8, <1>14, <1>20
    <2>2. RecordHolds(LastCheckpoint(campaign))'
        BY <1>2, <1>3, <1>8, <1>13, <1>16, <1>17, <1>18, <2>1 DEF RecordHolds
    <2>3. LedgerHolds'
        BY <1>8, <1>12, <2>2 DEF LedgerHolds
    <2>4. sidecar' = [bindings |-> <<>>, working |-> FALSE, record |-> K]
        BY <1>2, <1>20
    <2>5. sidecar'.bindings = <<>> /\ sidecar'.working = FALSE
        BY <2>4
    <2>6. handoffs' = <<>> /\ stage' = NoStage
        BY <1>2, <1>3
    <2>7. MemoryHolds(LastCheckpoint(campaign))'
        BY <1>8, <1>13, <1>16, <1>17, <1>18, <2>1, <2>4, <2>5, <2>6 DEF MemoryHolds
    <2>8. SidecarHolds'
        BY <1>8, <1>14, <1>20, <2>7 DEF SidecarHolds
    <2>9. ReviewLedgersTyped' /\ ReviewsHold' /\ InheritancesHold'
        BY <1>2, <1>3 DEF CampaignInv, ReviewLedgersTyped, ReviewsHold, InheritancesHold,
                          InheritanceHolds
    <2> QED
        BY <1>2, <1>8, <1>15, <2>3, <2>8, <2>9 DEF CampaignInv
<1> QED
    BY <1>19, <1>20

\* A review of a source, while its closure is the only one.
LEMMA ReviewSourceStep ==
    ASSUME CampaignInv, NEW source \in sources, NEW ledger \in 1..MaxReviews, NEW disposition,
           NEW reached \in 1..2, ReviewSource(source, ledger, disposition, reached)
    PROVE  CampaignInv'
<1>1. PICK review : review =
          [source |-> source, reviewed |-> IF reached = 2 THEN disposition ELSE "cut",
           adopted |-> {}, outcome |-> NoReview]
    OBVIOUS
<1>2. /\ reviewLedgers[ledger] = NoReview /\ SourceVerifies(source)
      /\ reviewLedgers' = [reviewLedgers EXCEPT ![ledger] = review]
      /\ UNCHANGED <<handoffs, stage, campaign, workspaces, sidecar, sources, inheritances>>
    BY <1>1 DEF ReviewSource
<1>3. review.source = source
    BY <1>1
<1>4. ReviewLedgersTyped
    BY DEF CampaignInv
<1>5. \A l \in 1..MaxReviews :
         reviewLedgers'[l] = IF l = ledger THEN review ELSE reviewLedgers[l]
    BY <1>2, <1>4 DEF ReviewLedgersTyped
<1>6. ReviewLedgersTyped'
    <2>1. /\ DOMAIN reviewLedgers' = 1..MaxReviews
          /\ reviewLedgers' = [l \in 1..MaxReviews |-> reviewLedgers'[l]]
        BY <1>2, <1>4 DEF ReviewLedgersTyped
    <2>2. ASSUME NEW l \in 1..MaxReviews, reviewLedgers'[l] # NoReview
          PROVE  reviewLedgers'[l] = [source |-> reviewLedgers'[l].source,
                                      reviewed |-> reviewLedgers'[l].reviewed,
                                      adopted |-> reviewLedgers'[l].adopted,
                                      outcome |-> reviewLedgers'[l].outcome]
        <3>1. CASE l = ledger
            <4>1. reviewLedgers'[l] = review
                BY <1>5, <3>1
            <4> QED
                BY <1>1, <4>1
        <3>2. CASE l # ledger
            <4>1. reviewLedgers'[l] = reviewLedgers[l]
                BY <1>5, <3>2
            <4> QED
                BY <1>4, <2>2, <4>1 DEF ReviewLedgersTyped
        <3> QED
            BY <3>1, <3>2
    <2> QED
        BY <2>1, <2>2 DEF ReviewLedgersTyped
<1>7. ReviewsHold'
    <2>1. ASSUME NEW l \in 1..MaxReviews, reviewLedgers'[l] # NoReview
          PROVE  reviewLedgers'[l].source \in sources /\ SourceVerifies(reviewLedgers'[l].source)
        <3>1. CASE l = ledger
            BY <1>2, <1>3, <1>5, <3>1
        <3>2. CASE l # ledger
            BY <1>5, <2>1, <3>2 DEF CampaignInv, ReviewsHold
        <3> QED
            BY <3>1, <3>2
    <2> QED
        BY <1>2, <2>1 DEF ReviewsHold, SourceVerifies
<1>8. InheritancesHold'
    <2>1. ASSUME NEW inheritance \in inheritances PROVE InheritanceHolds(inheritance)'
        <3>1. InheritanceHolds(inheritance)
            BY DEF CampaignInv, InheritancesHold
        <3>2. inheritance.ledger \in 1..MaxReviews /\ inheritance.ledger # ledger
            BY <1>2, <3>1 DEF InheritanceHolds, Approved
        <3>3. reviewLedgers'[inheritance.ledger] = reviewLedgers[inheritance.ledger]
            BY <1>5, <3>2
        <3> QED
            BY <3>1, <3>3 DEF InheritanceHolds
    <2> QED
        BY <1>2, <2>1 DEF InheritancesHold
<1>9. LedgerHolds'
    BY <1>2, LedgerStays
<1>10. SidecarHolds'
    <2>1. SidecarHolds
        BY DEF CampaignInv
    <2> QED
        BY <1>2, <2>1 DEF SidecarHolds, MemoryHolds, StateHolds
<1>11. OpeningsIn(campaign, inheritances)'
    BY <1>2 DEF CampaignInv
<1> QED
    BY <1>6, <1>7, <1>8, <1>9, <1>10, <1>11 DEF CampaignInv

\* A decision of control is something.
LEMMA RulingIsOne == \A ruling \in ControlDecisions : ruling # NoReview
<1> SUFFICES ASSUME NEW ruling \in ControlDecisions, ruling = NoReview PROVE FALSE
    OBVIOUS
<1>1. DOMAIN ruling = {"id", "by", "approve"}
    BY DEF ControlDecisions
<1>2. DOMAIN ruling = {"none"}
    BY DEF NoReview
<1> QED
    BY <1>1, <1>2

\* What control decides stands once, and only what it approved is inherited.
LEMMA ApplyControlStep ==
    ASSUME CampaignInv, NEW ledger \in 1..MaxReviews, NEW ruling \in ControlDecisions,
           NEW reached \in 1..3, ApplyControl(ledger, ruling, reached)
    PROVE  CampaignInv'
<1>1. ReviewLedgersTyped /\ ReviewsHold /\ InheritancesHold
    BY DEF CampaignInv
<1>2. PICK s, v, a, o : reviewLedgers[ledger] =
                            [source |-> s, reviewed |-> v, adopted |-> a, outcome |-> o]
    BY <1>1 DEF ReviewLedgersTyped, ApplyControl
<1>3. PICK review : review = reviewLedgers[ledger]
    OBVIOUS
<1>4. review.source = s /\ review.reviewed = v /\ review.adopted = a /\ review.outcome = o
    BY <1>2, <1>3
<1>5. PICK o2 : o2 = IF reached < 2 THEN o ELSE ruling
    OBVIOUS
<1>6. PICK after : after = [source |-> s, reviewed |-> v, adopted |-> a \cup {ruling},
                            outcome |-> o2]
    OBVIOUS
<1>7. after.source = s /\ after.reviewed = v /\ after.outcome = o2 /\ after # NoReview
    <2>1. DOMAIN after = {"source", "reviewed", "adopted", "outcome"} /\ DOMAIN NoReview = {"none"}
        BY <1>6 DEF NoReview
    <2>2. after # NoReview
        BY <2>1
    <2> QED
        BY <1>6, <2>2
<1>8. /\ review # NoReview /\ ruling.by = "control" /\ (ruling.approve => v = "accept")
      /\ (reached >= 2 => o = NoReview)
      /\ UNCHANGED <<handoffs, stage, campaign, workspaces, sidecar, sources>>
    BY <1>3, <1>4 DEF ApplyControl, ControlBinds
<1>9. reviewLedgers' = [reviewLedgers EXCEPT ![ledger] = after]
    <2>1. reviewLedgers' = [reviewLedgers EXCEPT
                               ![ledger].adopted = @ \cup {ruling},
                               ![ledger].outcome = IF reached < 2 THEN @ ELSE ruling]
        BY DEF ApplyControl
    <2>2. PICK g : g = [reviewLedgers EXCEPT ![ledger].adopted = @ \cup {ruling}]
        OBVIOUS
    <2>3. g[ledger] = [source |-> s, reviewed |-> v, adopted |-> a \cup {ruling}, outcome |-> o]
        <3>1. PICK x : x = a \cup {ruling}
            OBVIOUS
        <3>2. g[ledger] = [reviewLedgers[ledger] EXCEPT !.adopted = x]
            BY <1>1, <1>3, <1>4, <2>2, <3>1 DEF ReviewLedgersTyped
        <3>3. [reviewLedgers[ledger] EXCEPT !.adopted = x] =
                  [source |-> s, reviewed |-> v, adopted |-> x, outcome |-> o]
            BY <1>2
        <3> QED
            BY <3>1, <3>2, <3>3
    <2>4. reviewLedgers' = [g EXCEPT ![ledger].outcome = IF reached < 2 THEN @ ELSE ruling]
        BY <2>1, <2>2
    <2>5. g[ledger].outcome = o
        BY <2>3
    <2>6. reviewLedgers' = [g EXCEPT ![ledger] = [g[ledger] EXCEPT !.outcome = o2]]
        BY <1>5, <2>4, <2>5
    <2>7. [g[ledger] EXCEPT !.outcome = o2] = after
        BY <1>6, <2>3
    <2>8. g = [reviewLedgers EXCEPT ![ledger] = g[ledger]]
        BY <1>1, <2>2 DEF ReviewLedgersTyped
    <2> QED
        BY <1>1, <2>6, <2>7, <2>8 DEF ReviewLedgersTyped
<1>10. \A l \in 1..MaxReviews :
          reviewLedgers'[l] = IF l = ledger THEN after ELSE reviewLedgers[l]
    BY <1>1, <1>9 DEF ReviewLedgersTyped
<1>11. ReviewLedgersTyped'
    <2>1. /\ DOMAIN reviewLedgers' = 1..MaxReviews
          /\ reviewLedgers' = [l \in 1..MaxReviews |-> reviewLedgers'[l]]
        BY <1>1, <1>9 DEF ReviewLedgersTyped
    <2>2. ASSUME NEW l \in 1..MaxReviews, reviewLedgers'[l] # NoReview
          PROVE  reviewLedgers'[l] = [source |-> reviewLedgers'[l].source,
                                      reviewed |-> reviewLedgers'[l].reviewed,
                                      adopted |-> reviewLedgers'[l].adopted,
                                      outcome |-> reviewLedgers'[l].outcome]
        <3>1. CASE l = ledger
            <4>1. reviewLedgers'[l] = after
                BY <1>10, <3>1
            <4> QED
                BY <1>6, <4>1
        <3>2. CASE l # ledger
            <4>1. reviewLedgers'[l] = reviewLedgers[l]
                BY <1>10, <3>2
            <4> QED
                BY <1>1, <2>2, <4>1 DEF ReviewLedgersTyped
        <3> QED
            BY <3>1, <3>2
    <2> QED
        BY <2>1, <2>2 DEF ReviewLedgersTyped
<1>12. ReviewsHold'
    <2>1. ASSUME NEW l \in 1..MaxReviews, reviewLedgers'[l] # NoReview
          PROVE  reviewLedgers'[l].source \in sources /\ SourceVerifies(reviewLedgers'[l].source)
        <3>1. CASE l = ledger
            <4>1. s \in sources /\ SourceVerifies(s)
                BY <1>1, <1>3, <1>4, <1>8 DEF ReviewsHold
            <4> QED
                BY <1>7, <1>10, <3>1, <4>1
        <3>2. CASE l # ledger
            BY <1>1, <1>10, <2>1, <3>2 DEF ReviewsHold
        <3> QED
            BY <3>1, <3>2
    <2> QED
        BY <1>8, <2>1 DEF ReviewsHold, SourceVerifies
<1>13. ASSUME NEW inheritance \in inheritances PROVE InheritanceHolds(inheritance)'
    <2>1. InheritanceHolds(inheritance)
        BY <1>1 DEF InheritancesHold
    <2>2. CASE inheritance.ledger = ledger
        <3>1. Approved(review) /\ review.source.handoff = inheritance.transfer.handoff
            BY <1>3, <2>1, <2>2 DEF InheritanceHolds
        <3>2. ~(reached >= 2) /\ o2 = o
            BY <1>4, <1>5, <1>8, <3>1 DEF Approved
        <3>3. Approved(after)
            BY <1>4, <1>7, <3>1, <3>2 DEF Approved
        <3>4. reviewLedgers'[inheritance.ledger] = after
            BY <1>10, <2>2
        <3> QED
            BY <1>4, <1>7, <2>1, <3>1, <3>3, <3>4 DEF InheritanceHolds
    <2>3. CASE inheritance.ledger # ledger
        <3>1. reviewLedgers'[inheritance.ledger] = reviewLedgers[inheritance.ledger]
            BY <1>10, <2>1, <2>3 DEF InheritanceHolds
        <3> QED
            BY <2>1, <3>1 DEF InheritanceHolds
    <2> QED
        BY <2>2, <2>3
<1>14. InheritancesHold' /\ inheritances \subseteq inheritances'
    <2>1. CASE reached < 3 \/ ~ruling.approve
        <3>1. inheritances' = inheritances
            BY <2>1 DEF ApplyControl
        <3> QED
            BY <1>13, <3>1 DEF InheritancesHold
    <2>2. CASE ~(reached < 3) /\ ruling.approve
        <3>1. PICK new : new = Inheritance(ledger, review.source.handoff,
                                           review.source.workspace,
                                           review.source.handoff.start.ordinal + 1)
            OBVIOUS
        <3>2. inheritances' = inheritances \cup {new}
            BY <1>3, <2>2, <3>1 DEF ApplyControl
        <3>3. new.ledger = ledger /\ new.transfer.handoff = s.handoff
            BY <1>4, <3>1 DEF Inheritance
        <3>4. o2 = ruling /\ ruling # NoReview
            BY <1>5, <2>2, RulingIsOne
        <3>5. Approved(after)
            BY <1>7, <1>8, <2>2, <3>4 DEF Approved
        <3>6. reviewLedgers'[new.ledger] = after
            BY <1>10, <3>3
        <3>7. InheritanceHolds(new)'
            BY <1>7, <3>3, <3>5, <3>6 DEF InheritanceHolds
        <3> QED
            BY <1>13, <3>2, <3>7 DEF InheritancesHold
    <2> QED
        BY <2>1, <2>2
<1>15. LedgerHolds'
    BY <1>8, LedgerStays
<1>16. SidecarHolds'
    <2>1. SidecarHolds
        BY DEF CampaignInv
    <2> QED
        BY <1>8, <2>1 DEF SidecarHolds, MemoryHolds, StateHolds
<1>17. OpeningsIn(campaign, inheritances)'
    <2>1. OpeningsIn(campaign, inheritances)
        BY DEF CampaignInv
    <2> QED
        BY <1>8, <1>14, <2>1 DEF OpeningsIn, Granted
<1> QED
    BY <1>11, <1>12, <1>14, <1>15, <1>16, <1>17 DEF CampaignInv

\* A stage opened: blank, or out of the inheritance of the handoff closed last.
LEMMA OpenStageStep ==
    ASSUME CampaignInv, NEW run, NEW inheritance, NEW reached \in 0..2,
           inheritance # NoStage => Granted(inheritance, inheritances),
           OpenStage(run, inheritance, reached)
    PROVE  CampaignInv'
<1>1. PICK start : start = StartOf(run, IF inheritance = NoStage THEN NoStage
                                        ELSE inheritance.transfer)
    OBVIOUS
<1>2. PICK binding : binding = [start |-> start, inheritance |-> inheritance]
    OBVIOUS
<1>3. PICK B : B = OpenedBindings(campaign)
    OBVIOUS
<1>4. PICK K : K = LastCheckpoint(campaign)
    OBVIOUS
<1>5. PICK log : log = campaign
    OBVIOUS
<1>6. PICK H : H = handoffs
    OBVIOUS
<1>7. sidecar # NoSidecar /\ ~sidecar.working
    BY DEF OpenStage
<1>8. /\ Listed(log) /\ CampaignReceipts(log, "checkpoint") # {} /\ RecordHolds(K)
      /\ MemoryHolds(K)
    BY <1>4, <1>5, <1>7 DEF CampaignInv, LedgerHolds, SidecarHolds
<1>9. sidecar.bindings = B /\ sidecar.record = K
    <2>1. sidecar = [bindings |-> B, working |-> sidecar.working, record |-> K]
        BY <1>3, <1>8 DEF MemoryHolds
    <2> QED
        BY <2>1
<1>10. /\ StateHolds(H, stage, B, FALSE) /\ Len(K.handoffs) <= Len(H)
       /\ H # <<>> => ClosedLast(log, Last(H), Len(log))
    <2>1. StateHolds(H, stage, B, sidecar.working) /\ sidecar.working \in BOOLEAN
        BY <1>6, <1>8, <1>9 DEF MemoryHolds, StateHolds
    <2>2. sidecar.working = FALSE
        BY <1>7, <2>1
    <2>3. StateHolds(H, stage, B, FALSE)
        BY <2>1, <2>2
    <2> QED
        BY <1>5, <1>6, <1>7, <1>8, <2>3 DEF MemoryHolds
<1>11. /\ Listed(H) /\ Listed(B) /\ LineageVerifies(H, B, FALSE)
    BY <1>10 DEF StateHolds
<1>12. Len(H) \in Nat /\ Len(B) \in Nat /\ (H = <<>> <=> Len(H) = 0)
    BY <1>11 DEF Listed
<1>13. PICK BB : BB = Append(B, binding)
    OBVIOUS
<1>14. Grown(BB, B, binding)
    BY <1>11, <1>13, AppendGrows
<1>15. Listed(BB) /\ Last(BB) = binding /\ Len(BB) = Len(B) + 1
    BY <1>14 DEF Grown, Last
<1>16. PICK d : d = CheckpointReceipt(H, start, BB, TRUE)
    OBVIOUS
<1>17. PICK c : c = [kind |-> "opened", binding |-> binding]
    OBVIOUS
<1>18. /\ ExactInheritance(inheritance)
       /\ workspaces' = workspaces \cup {WorkspaceOf(start)}
       /\ Stores(<<c, d>>, reached)
       /\ reached = 0 => UNCHANGED <<sidecar, stage>>
       /\ reached # 0 =>
            /\ stage' = start
            /\ sidecar' = [bindings |-> BB, working |-> TRUE,
                           record |-> IF reached = 2 THEN d ELSE K]
       /\ UNCHANGED <<handoffs, sources, reviewLedgers, inheritances>>
    BY <1>1, <1>2, <1>6, <1>9, <1>13, <1>15, <1>16, <1>17 DEF OpenStage, transitionVars
<1>19. binding.start = start /\ binding.inheritance = inheritance /\ start.ordinal = Len(H) + 1
    BY <1>1, <1>2, <1>6 DEF StartOf
<1>20. /\ H = <<>> => inheritance = NoStage
       /\ H # <<>> =>
            /\ Granted(inheritance, inheritances)
            /\ inheritance.transfer.handoff = Last(H)
            /\ inheritance.transfer.target = Len(H) + 1
            /\ inheritance.workspace = WorkspaceOf(Last(B).start)
    BY <1>6, <1>9, <1>18 DEF ExactInheritance
<1>21. LineageVerifies(H, BB, TRUE)
    BY <1>11, <1>14, <1>19, <1>20, LineageOpens
<1>22. StateHolds(H, start, BB, TRUE)'
    BY <1>11, <1>15, <1>18, <1>19, <1>21 DEF StateHolds
<1>23. d = [kind |-> "checkpoint", handoffs |-> H, stage |-> start, bindings |-> BB,
            working |-> TRUE]
    BY <1>16 DEF CheckpointReceipt
<1>24. /\ d.kind = "checkpoint" /\ d.handoffs = H /\ d.stage = start /\ d.bindings = BB
       /\ d.working = TRUE /\ c.kind = "opened" /\ c.binding = binding
    BY <1>17, <1>23
<1>25. campaign # <<>>
    BY <1>5, <1>8, NotBlank
<1>26. CASE reached = 0
    <2>1. UNCHANGED <<campaign, sidecar, stage, handoffs, sources, reviewLedgers, inheritances>>
        <3>1. Listed(campaign)
            BY <1>5, <1>8
        <3>2. campaign' = campaign
            BY <1>18, <1>26, <3>1, StoresReached
        <3> QED
            BY <1>18, <1>26, <3>2
    <2>2. LedgerHolds'
        BY <1>18, <2>1, LedgerStays
    <2>3. StateHolds(H, stage, B, FALSE)'
        BY <1>18, <2>1, <1>10 DEF StateHolds
    <2>4. SidecarHolds'
        <3>1. StateHolds(handoffs, stage, sidecar.bindings, sidecar.working)'
            <4>1. workspaces \subseteq workspaces'
                BY <1>18
            <4> QED
                BY <1>8, <2>1, <4>1 DEF MemoryHolds, StateHolds
        <3> QED
            BY <1>4, <1>5, <1>8, <2>1, <3>1 DEF SidecarHolds, MemoryHolds
    <2> QED
        BY <2>1, <2>2, <2>4, ReviewsQuiet DEF CampaignInv
<1>27. CASE reached # 0
    <2>1. PICK mid : mid = Append(log, c)
        OBVIOUS
    <2>2. Grown(mid, log, c)
        BY <1>8, <2>1, AppendGrows
    <2>3. PICK more : more = campaign'
        OBVIOUS
    <2>4. /\ reached = 1 => more = mid
          /\ reached = 2 => more = Append(mid, d)
        <3>1. Listed(campaign)
            BY <1>5, <1>8
        <3> QED
            BY <1>5, <1>18, <2>1, <2>3, <3>1, StoresReached
    <2>5. reached = 2 => Grown(more, mid, d)
        <3>1. Listed(mid)
            BY <2>2 DEF Grown
        <3> QED
            BY <2>4, <3>1, AppendGrows
    <2>6. reached = 1 \/ reached = 2
        BY <1>27
    <2>7. Listed(more) /\ more # <<>>
        BY <2>2, <2>4, <2>5, <2>6 DEF Grown
    <2>8. OpenedBindings(more) = BB
        <3>1. OpenedBindings(mid) = BB
            BY <1>3, <1>5, <1>13, <1>24, <2>2, OpenedNext
        <3>2. reached = 2 => OpenedBindings(more) = OpenedBindings(mid)
            BY <1>24, <2>5, OpenedNext
        <3> QED
            BY <2>4, <2>6, <3>1, <3>2
    <2>9. /\ CampaignReceipts(more, "checkpoint") # {}
          /\ reached = 1 => LastCheckpoint(more) = K
          /\ reached = 2 => LastCheckpoint(more) = d
        <3>1. CampaignReceipts(mid, "checkpoint") # {} /\ LastCheckpoint(mid) = K
            BY <1>4, <1>5, <1>8, <1>24, <2>2, CheckpointNext
        <3>2. reached = 2 => CampaignReceipts(more, "checkpoint") # {} /\ LastCheckpoint(more) = d
            BY <1>24, <2>5, CheckpointNext
        <3> QED
            BY <2>4, <2>6, <3>1, <3>2
    <2>10. \A h : ClosuresWith(more, h) = ClosuresWith(log, h)
        <3>1. \A h : ClosuresWith(mid, h) = ClosuresWith(log, h)
            BY <1>24, <2>2, ClosedNext
        <3>2. reached = 2 => \A h : ClosuresWith(more, h) = ClosuresWith(mid, h)
            BY <1>24, <2>5, ClosedNext
        <3> QED
            BY <2>4, <2>6, <3>1, <3>2
    <2>11. OpeningsIn(more, inheritances)
        <3>1. binding.start.ordinal > 1 =>
                /\ Granted(binding.inheritance, inheritances)
                /\ ClosedLast(log, binding.inheritance.transfer.handoff, Len(log))
            <4>1. binding.start.ordinal > 1 => H # <<>>
                BY <1>12, <1>19
            <4> QED
                BY <1>10, <1>19, <1>20, <4>1
        <3>2. OpeningsIn(log, inheritances)
            BY <1>5 DEF CampaignInv
        <3>3. OpeningsIn(mid, inheritances)
            BY <1>24, <2>2, <3>1, <3>2, OpeningsNext
        <3>4. reached = 2 => OpeningsIn(more, inheritances)
            BY <1>24, <2>5, <3>3, OpeningsNext
        <3> QED
            BY <2>4, <2>6, <3>3, <3>4
    <2>12. PICK R : R = IF reached = 2 THEN d ELSE K
        OBVIOUS
    <2>13. LastCheckpoint(campaign') = R
        BY <2>3, <2>6, <2>9, <2>12
    <2>14. RecordHolds(LastCheckpoint(campaign))'
        <3>1. StateHolds(R.handoffs, R.stage, R.bindings, R.working)'
            <4>1. CASE reached = 2
                <5>1. R = d
                    BY <2>12, <4>1
                <5> QED
                    BY <1>22, <1>24, <5>1
            <4>2. CASE reached = 1
                <5>1. R = K
                    BY <2>12, <4>2
                <5> QED
                    BY <1>8, <1>18, <5>1, StateStays DEF RecordHolds
            <4> QED
                BY <2>6, <4>1, <4>2
        <3>2. /\ Len(R.bindings) <= Len(BB)
              /\ R.bindings = BB => R.working
            <4>1. CASE reached = 2
                <5>1. R = d
                    BY <2>12, <4>1
                <5> QED
                    BY <1>12, <1>15, <1>24, <5>1
            <4>2. CASE reached = 1
                <5>1. R = K
                    BY <2>12, <4>2
                <5>2. Len(K.bindings) <= Len(B) /\ Len(K.bindings) \in Nat
                    BY <1>3, <1>8 DEF RecordHolds, StateHolds, Listed
                <5> QED
                    BY <1>12, <1>15, <5>1, <5>2
            <4> QED
                BY <2>6, <4>1, <4>2
        <3>3. \A source \in sources : source.handoff.start.ordinal \in 1..Len(R.handoffs)
            <4>1. \A source \in sources : source.handoff.start.ordinal \in 1..Len(K.handoffs)
                BY <1>8 DEF RecordHolds
            <4>2. Len(K.handoffs) \in Nat
                BY <1>8 DEF RecordHolds, StateHolds, Listed
            <4>3. R.handoffs = K.handoffs \/ R.handoffs = H
                BY <1>24, <2>12
            <4> QED
                BY <1>10, <1>12, <4>1, <4>2, <4>3
        <3> QED
            BY <1>18, <2>3, <2>8, <2>13, <3>1, <3>2, <3>3 DEF RecordHolds
    <2>15. LedgerHolds'
        BY <2>3, <2>7, <2>14 DEF LedgerHolds
    <2>16. sidecar' = [bindings |-> BB, working |-> TRUE, record |-> R] /\ stage' = start
        BY <1>18, <1>27, <2>12
    <2>17. sidecar'.bindings = BB /\ sidecar'.working = TRUE
        BY <2>16
    <2>18. MemoryHolds(LastCheckpoint(campaign))'
        <3>1. Len(R.handoffs) <= Len(H)
            BY <1>10, <1>12, <1>24, <2>12
        <3>2. R.bindings = BB => R.working
            <4>1. CASE reached = 2
                BY <1>24, <2>12, <4>1
            <4>2. CASE reached = 1
                <5>1. Len(K.bindings) <= Len(B) /\ Len(K.bindings) \in Nat
                    BY <1>3, <1>8 DEF RecordHolds, StateHolds, Listed
                <5> QED
                    BY <1>12, <1>15, <2>12, <4>2, <5>1
            <4> QED
                BY <2>6, <4>1, <4>2
        <3>3. handoffs' = H
            BY <1>6, <1>18
        <3> QED
            BY <1>22, <2>3, <2>8, <2>13, <2>16, <2>17, <3>1, <3>2, <3>3 DEF MemoryHolds
    <2>19. SidecarHolds'
        BY <2>3, <2>9, <2>18 DEF SidecarHolds
    <2>20. ReviewsHold'
        <3>1. \A source \in sources :
                 ClosuresWith(campaign', source.handoff) = ClosuresWith(campaign, source.handoff)
            BY <1>5, <2>3, <2>10
        <3> QED
            BY <1>18, <3>1, ReviewsStay DEF CampaignInv
    <2>21. ReviewLedgersTyped' /\ InheritancesHold'
        BY <1>18 DEF CampaignInv, ReviewLedgersTyped, InheritancesHold, InheritanceHolds
    <2>22. OpeningsIn(campaign, inheritances)'
        BY <1>18, <2>3, <2>11
    <2> QED
        BY <2>15, <2>19, <2>20, <2>21, <2>22 DEF CampaignInv
<1> QED
    BY <1>26, <1>27

\* Ledgers of receipts, checkpoints, memory, reviews and inheritances agree wherever
\* calls are cut and campaigns restored.
THEOREM CampaignInvariant == CampaignSpec => []CampaignInv
<1>1. CampaignInv /\ [CampaignNext]_campaignVars => CampaignInv'
    <2> SUFFICES ASSUME CampaignInv, [CampaignNext]_campaignVars PROVE CampaignInv'
        OBVIOUS
    <2>1. ASSUME NEW reached \in 1..2, CreateCampaign(reached) PROVE CampaignInv'
        BY <2>1, CreateCampaignStep
    <2>2. CASE RestoreSidecar
        BY <2>2, RestoreSidecarStep
    <2>3. CASE LoseSidecar
        BY <2>3, LoseSidecarStep
    <2>4. ASSUME NEW run, NEW i \in inheritances \cup CallerInheritances \cup {NoStage},
                 NEW n \in 0..2, OpenStage(run, i, n)
          PROVE  CampaignInv'
        <3>1. i # NoStage => Granted(i, inheritances)
            BY DEF Granted, CallerInheritances, Inheritance
        <3> QED
            BY <2>4, <3>1, OpenStageStep
    <2>5. ASSUME NEW handoff, NEW n \in 1..3, CloseSource(handoff, n) PROVE CampaignInv'
        BY <2>5, CloseSourceStep
    <2>6. ASSUME NEW handoff, NEW n \in 1..2, FinishStage(handoff, n) PROVE CampaignInv'
        BY <2>6, FinishStageStep
    <2>7. ASSUME NEW source \in sources, NEW l \in FirstNew(ReviewsMade, MaxReviews),
                 NEW n \in 1..2, NEW d, ReviewSource(source, l, d, n)
          PROVE  CampaignInv'
        <3>1. l \in 1..MaxReviews
            BY DEF FirstNew
        <3> QED
            BY <2>7, <3>1, ReviewSourceStep
    <2>8. ASSUME NEW l \in ReviewsMade, NEW ruling \in ControlDecisions, NEW n \in 1..3,
                 ApplyControl(l, ruling, n)
          PROVE  CampaignInv'
        <3>1. l \in 1..MaxReviews
            BY DEF ReviewsMade
        <3> QED
            BY <2>8, <3>1, ApplyControlStep
    <2>9. CASE UNCHANGED campaignVars
        <3>1. UNCHANGED <<campaign, workspaces, sidecar, sources, reviewLedgers, inheritances,
                          handoffs, stage>>
            BY <2>9 DEF campaignVars
        <3>2. LedgerHolds'
            BY <3>1, LedgerStays
        <3>3. SidecarHolds'
            <4>1. SidecarHolds
                BY DEF CampaignInv
            <4> QED
                BY <3>1, <4>1 DEF SidecarHolds, MemoryHolds, StateHolds
        <3> QED
            BY <3>1, <3>2, <3>3, ReviewsQuiet DEF CampaignInv
    <2> QED
        BY <2>1, <2>2, <2>3, <2>4, <2>5, <2>6, <2>7, <2>8, <2>9 DEF CampaignNext
<1> QED
    BY <1>1, InitCampaign, PTL DEF CampaignSpec

\* For every plan and every cut of the calls: a successor stage opens out of the stage
\* closed last, and one whose inheritance control handed out stands on the accepted
\* review that it approved (open_stage, transition.py).
THEOREM SuccessorsControlled == CampaignSpec => []SuccessorsFollowControl
<1>1. CampaignInv => SuccessorsFollowControl
    <2> SUFFICES ASSUME CampaignInv,
                        NEW i \in CampaignReceipts(campaign, "opened"),
                        campaign[i].binding.start.ordinal > 1,
                        NEW inheritance, inheritance = campaign[i].binding.inheritance,
                        NEW review, review = reviewLedgers[inheritance.ledger]
                 PROVE  /\ ClosedLast(campaign, inheritance.transfer.handoff, i)
                        /\ inheritance.ledger # 0 =>
                            /\ review # NoReview /\ review.reviewed = "accept"
                            /\ review.outcome # NoReview
                            /\ review.outcome.approve /\ review.outcome.by = "control"
                            /\ review.source.handoff = inheritance.transfer.handoff
                            /\ SourceVerifies(review.source)
        BY DEF SuccessorsFollowControl
    <2>1. ClosedLast(campaign, inheritance.transfer.handoff, i)
        BY DEF CampaignInv, OpeningsIn
    <2> SUFFICES ASSUME inheritance.ledger # 0
                 PROVE  /\ review # NoReview /\ review.reviewed = "accept"
                        /\ review.outcome # NoReview
                        /\ review.outcome.approve /\ review.outcome.by = "control"
                        /\ review.source.handoff = inheritance.transfer.handoff
                        /\ SourceVerifies(review.source)
        BY <2>1
    <2>2. inheritance \in inheritances
        BY DEF CampaignInv, OpeningsIn, Granted
    <2>3. /\ inheritance.ledger \in 1..MaxReviews /\ Approved(review)
          /\ review.source.handoff = inheritance.transfer.handoff
        BY <2>2 DEF CampaignInv, InheritancesHold, InheritanceHolds
    <2>4. SourceVerifies(review.source)
        BY <2>3 DEF CampaignInv, ReviewsHold, Approved
    <2> QED
        BY <2>3, <2>4 DEF Approved
<1> QED
    BY <1>1, CampaignInvariant, PTL

\* A campaign restores, wherever its calls were cut, but for the window that the code
\* leaves (restore, learning.py).
THEOREM CampaignRestored == CampaignSpec => []CampaignRestores
<1>1. CampaignInv => CampaignRestores
    <2> SUFFICES ASSUME CampaignInv, ~OpeningCut PROVE CampaignRestorable
        BY DEF CampaignRestores
    <2>1. PICK K : K = LastCheckpoint(campaign)
        OBVIOUS
    <2>2. CampaignReceipts(campaign, "checkpoint") # {} /\ K.bindings = OpenedBindings(campaign)
        BY <2>1 DEF OpeningCut
    <2>3. RecordHolds(K)
        BY <2>1, <2>2 DEF CampaignInv, LedgerHolds
    <2>4. /\ K.working => WorkspaceOf(Last(K.bindings).start) \in workspaces
          /\ LineageVerifies(K.handoffs, K.bindings, K.working)
        BY <2>3 DEF RecordHolds, StateHolds
    <2> QED
        BY <2>1, <2>2, <2>4 DEF CampaignRestorable
<1> QED
    BY <1>1, CampaignInvariant, PTL

-----------------------------------------------------------------------------
\* The heartbeat.

\* What an owner observes, and a durable witness of it.
HeartbeatStates == [run : HeartbeatRuns, material : MaterialStates, snapshot : Snapshots]
Boundaries == [state : HeartbeatStates, reasons : SUBSET (MaterialFields \cup {"initial"})]

\* What the heartbeat shows is the state, and the state's material is the last
\* boundary's.
ShownIs(state) ==
    /\ state \in HeartbeatStates
    /\ boundaries # <<>>
    /\ boundaries[Len(boundaries)].state.material = state.material
    /\ boundaries[Len(boundaries)].state.run = state.run
    /\ lastView.boundary = Len(boundaries)
    /\ lastView.shown = [f \in MaterialFields \ {"residual_refs"} |-> state.material[f]]

\* Each boundary after the first is of the run, and for exactly what changed.
ChainTells ==
    \A i \in 2..Len(boundaries) :
        /\ boundaries[i].state.run = boundaries[i - 1].state.run
        /\ boundaries[i].reasons # {}
        /\ boundaries[i].reasons =
             MaterialReasons(boundaries[i - 1].state, boundaries[i].state)

HeartbeatInv ==
    /\ boundaries \in Seq(Boundaries)
    /\ steering = Undisplayed => boundaries = <<>>
    /\ steering # Undisplayed => ShownIs(steering)
    /\ ChainTells

\* A state is not mistaken for the absence of one.
LEMMA StateDisplayed == \A s \in HeartbeatStates : s # Undisplayed
<1> SUFFICES ASSUME NEW s \in HeartbeatStates PROVE s # Undisplayed
    OBVIOUS
<1>1. "material" \in DOMAIN s
    BY DEF HeartbeatStates
<1>2. DOMAIN Undisplayed = {"run", "boundary"}
    BY DEF Undisplayed
<1>3. "material" \notin {"run", "boundary"}
    OBVIOUS
<1> QED
    BY <1>1, <1>2, <1>3

\* A new boundary shows the state it was written for.
LEMMA EmitStep ==
    ASSUME HeartbeatInv, NEW state \in HeartbeatStates,
           NEW reasons \in SUBSET (MaterialFields \cup {"initial"}), Emit(state, reasons),
           boundaries # <<>> =>
              /\ boundaries[Len(boundaries)].state.run = state.run
              /\ reasons # {}
              /\ reasons = MaterialReasons(boundaries[Len(boundaries)].state, state)
    PROVE  HeartbeatInv'
<1> DEFINE b == [state |-> state, reasons |-> reasons]
           n == Len(boundaries)
<1>1. b \in Boundaries /\ b.state = state /\ b.reasons = reasons
    BY DEF Boundaries
<1> HIDE DEF b
<1>2. /\ boundaries' = Append(boundaries, b) /\ steering' = state
      /\ lastView' = Render(state, n + 1, FALSE)
    BY DEF Emit, b
<1>3. boundaries \in Seq(Boundaries) /\ n \in Nat
    BY DEF HeartbeatInv
<1>4. /\ boundaries' \in Seq(Boundaries) /\ Len(boundaries') = n + 1
      /\ boundaries'[n + 1] = b /\ \A i \in 1..n : boundaries'[i] = boundaries[i]
    BY <1>1, <1>2, <1>3
<1>5. n = 0 \/ boundaries # <<>>
    BY <1>3
<1>6. ShownIs(steering)'
    BY <1>1, <1>2, <1>3, <1>4 DEF ShownIs, Render
<1>7. ChainTells'
  <2> SUFFICES ASSUME NEW i \in 2..(n + 1)
               PROVE  /\ boundaries'[i].state.run = boundaries'[i - 1].state.run
                      /\ boundaries'[i].reasons # {}
                      /\ boundaries'[i].reasons =
                           MaterialReasons(boundaries'[i - 1].state, boundaries'[i].state)
    BY <1>4 DEF ChainTells
  <2>1. CASE i \in 2..n
    <3>1. i \in 1..n /\ i - 1 \in 1..n
      BY <1>3, <2>1
    <3> QED
      BY <2>1, <3>1, <1>4 DEF HeartbeatInv, ChainTells
  <2>2. CASE i = n + 1
    <3>1. n \in 1..n /\ n # 0
      BY <1>3, <2>2
    <3>2. boundaries'[i] = b /\ boundaries'[i - 1] = boundaries[n]
      BY <1>3, <1>4, <2>2, <3>1
    <3> QED
      BY <1>1, <1>5, <3>1, <3>2
  <2> QED
    BY <2>1, <2>2, <1>3
<1>8. steering' # Undisplayed
    BY <1>2, StateDisplayed
<1> QED
    BY <1>4, <1>6, <1>7, <1>8 DEF HeartbeatInv

\* The boundaries and the views of any run of observations, views and restores agree.
THEOREM HeartbeatInvariant == HeartbeatSpec => []HeartbeatInv
<1>1. HeartbeatInit => HeartbeatInv
    BY DEF HeartbeatInit, HeartbeatInv, ChainTells
<1>2. HeartbeatInv /\ [HeartbeatNext]_heartbeatVars => HeartbeatInv'
  <2> SUFFICES ASSUME HeartbeatInv, [HeartbeatNext]_heartbeatVars PROVE HeartbeatInv'
    OBVIOUS
  <2>0. boundaries \in Seq(Boundaries) /\ Len(boundaries) \in Nat
    BY DEF HeartbeatInv
  <2>1. ASSUME NEW run \in HeartbeatRuns, NEW material \in MaterialStates,
               NEW snapshot \in Snapshots,
               LET state == HeartbeatState(run, material, snapshot) IN
               ObserveFirst(state) \/ ObserveChange(state) \/ ObserveQuiet(state)
        PROVE  HeartbeatInv'
    <3>s. PICK state \in HeartbeatStates : state = HeartbeatState(run, material, snapshot)
      BY DEF HeartbeatStates, HeartbeatState
    <3>1. CASE ObserveFirst(state)
      <4>1. steering = Undisplayed /\ Emit(state, {"initial"})
        BY <3>1 DEF ObserveFirst
      <4>2. boundaries = <<>>
        BY <4>1 DEF HeartbeatInv
      <4> QED
        BY <4>1, <4>2, EmitStep
    <3>2. CASE ObserveChange(state)
      <4>1. PICK r \in SUBSET MaterialFields : r = MaterialReasons(steering, state)
        BY DEF MaterialReasons
      <4>2. /\ ShownIs(steering) /\ state.run = steering.run /\ r # {} /\ Emit(state, r)
        BY <3>2, <4>1 DEF ObserveChange, HeartbeatInv
      <4>3. /\ boundaries[Len(boundaries)].state.run = state.run
            /\ r = MaterialReasons(boundaries[Len(boundaries)].state, state)
        BY <4>1, <4>2 DEF ShownIs, MaterialReasons
      <4> QED
        BY <4>2, <4>3, EmitStep
    <3>3. CASE ObserveQuiet(state)
      <4>1. /\ ShownIs(steering) /\ state.run = steering.run /\ steering' = state
            /\ MaterialReasons(steering, state) = {} /\ UNCHANGED <<boundaries, lastView>>
        BY <3>3 DEF ObserveQuiet, HeartbeatInv
      <4>2. \A s \in HeartbeatStates : s.material \in [MaterialFields -> BOOLEAN]
        BY DEF HeartbeatStates, MaterialStates
      <4>3. \A f \in MaterialFields : steering.material[f] = state.material[f]
        BY <4>1 DEF MaterialReasons
      <4>4. steering.material = state.material
        BY <4>1, <4>2, <4>3 DEF ShownIs
      <4>5. ShownIs(steering)'
        BY <4>1, <4>4 DEF ShownIs
      <4>6. ChainTells'
        BY <4>1 DEF HeartbeatInv, ChainTells
      <4> QED
        BY <4>1, <4>5, <4>6, StateDisplayed DEF HeartbeatInv
    <3> QED
      BY <2>1, <3>s, <3>1, <3>2, <3>3
  <2>2. ASSUME NEW run \in HeartbeatRuns, NEW ordinal \in 0..MaxProgress,
               ShowLiveness(run, ordinal)
        PROVE  HeartbeatInv'
    <3>1. /\ ShownIs(steering) /\ UNCHANGED <<steering, boundaries>>
          /\ lastView' = Render(steering, Len(boundaries), TRUE)
      BY <2>2 DEF ShowLiveness, HeartbeatInv
    <3>2. ShownIs(steering)' /\ ChainTells'
      BY <3>1 DEF ShownIs, Render, HeartbeatInv, ChainTells
    <3> QED
      BY <3>1, <3>2 DEF HeartbeatInv, ShownIs
  <2>3. ASSUME RestoreHeartbeat PROVE HeartbeatInv'
    <3>l. PICK l \in Boundaries : l = boundaries[Len(boundaries)]
      BY <2>0, <2>3 DEF RestoreHeartbeat
    <3>1. /\ steering' = l.state /\ UNCHANGED boundaries /\ boundaries # <<>>
          /\ lastView' = Render(l.state, Len(boundaries), FALSE)
      BY <2>3, <3>l DEF RestoreHeartbeat, Last
    <3>2. l.state \in HeartbeatStates
      BY DEF Boundaries
    <3>3. ShownIs(steering)' /\ ChainTells'
      BY <3>l, <3>1, <3>2 DEF ShownIs, Render, HeartbeatInv, ChainTells
    <3> QED
      BY <3>1, <3>2, <3>3, StateDisplayed DEF HeartbeatInv
  <2>4. CASE UNCHANGED heartbeatVars
    BY <2>4 DEF heartbeatVars, HeartbeatInv, ShownIs, ChainTells
  <2> QED
    BY <2>1, <2>2, <2>3, <2>4 DEF HeartbeatNext
<1> QED
    BY <1>1, <1>2, PTL DEF HeartbeatSpec

\* Silence means no material change, for any fields and any length of the chain
\* (EventDrivenHeartbeat, heartbeat.py).
THEOREM SilenceMeansNoChange == HeartbeatSpec => []HeartbeatShowsState
<1>1. HeartbeatInv => HeartbeatShowsState
    BY DEF HeartbeatInv, ShownIs, ChainTells, HeartbeatShowsState, Last, MaterialReasons
<1> QED
    BY <1>1, HeartbeatInvariant, PTL

-----------------------------------------------------------------------------
\* Experiments: what steps cost, what an arm reports, and who runs it.

\* f[n] is the cost of the first n steps.
Sums(f, steps, N) ==
    f = [n \in 0..N |-> IF n = 0 THEN 0 ELSE f[n - 1] + steps[n].cost]

\* There is such a function: one for N steps extends to N + 1.
LEMMA SumsExist == ASSUME NEW steps, NEW N \in Nat PROVE \E f : Sums(f, steps, N)
<1> DEFINE T == {M \in Nat : ~ \E f : Sums(f, steps, M)}
<1> SUFFICES ASSUME T # {} PROVE FALSE
    OBVIOUS
<1>1. PICK M \in T : \A y \in T : M <= y
    BY LeastOf
<1>2. CASE M = 0
    <2>1. Sums([n \in 0..0 |-> 0], steps, 0)
        BY DEF Sums
    <2> QED
        BY <1>2, <2>1
<1>3. CASE M # 0
    <2>1. PICK L \in Nat : M = L + 1
        BY <1>3
    <2>2. PICK f : Sums(f, steps, L)
        BY <1>1, <2>1
    <2> DEFINE g == [n \in 0..(L + 1) |-> IF n <= L THEN f[n] ELSE f[L] + steps[n].cost]
    <2>3. ASSUME NEW n \in 0..(L + 1)
          PROVE  g[n] = IF n = 0 THEN 0 ELSE g[n - 1] + steps[n].cost
        <3>1. CASE n <= L
            <4>1. f[n] = IF n = 0 THEN 0 ELSE f[n - 1] + steps[n].cost
                BY <2>2, <3>1 DEF Sums
            <4>2. n # 0 => n - 1 \in 0..L
                OBVIOUS
            <4> QED
                BY <3>1, <4>1, <4>2
        <3>2. CASE n = L + 1
            BY <3>2
        <3> QED
            BY <3>1, <3>2
    <2>4. Sums(g, steps, L + 1)
      <3> HIDE DEF g
      <3>1. DOMAIN g = 0..(L + 1) /\ g = [n \in 0..(L + 1) |-> g[n]]
        BY DEF g
      <3> QED
        BY <2>3, <3>1 DEF Sums
    <2> QED
        BY <2>1, <2>4
<1> QED
    BY <1>2, <1>3

\* Cost is what the function says of all the steps.
LEMMA CostSums ==
    ASSUME NEW steps, Len(steps) \in Nat
    PROVE  \E f : Sums(f, steps, Len(steps)) /\ Cost(steps) = f[Len(steps)]
<1>1. PICK f : Sums(f, steps, Len(steps))
    BY SumsExist
<1> DEFINE F == CHOOSE h : h = [n \in 0..Len(steps) |->
                                  IF n = 0 THEN 0 ELSE h[n - 1] + steps[n].cost]
<1>2. Sums(F, steps, Len(steps))
    BY <1>1 DEF Sums
<1>3. Cost(steps) = F[Len(steps)]
    BY DEF Cost
<1> QED
    BY <1>2, <1>3

\* The first M of more are the first N steps at their costs, then free ones.
Padded(more, M, steps, N) ==
    /\ N <= M
    /\ \A n \in 1..N : more[n].cost = steps[n].cost
    /\ \A n \in 1..M : more[n].cost \in Nat
    /\ \A n \in (N + 1)..M : more[n].cost = 0

\* Steps that cost the same, then nothing, add up to the same.
LEMMA SumsAgree ==
    ASSUME NEW steps, NEW more, NEW N \in Nat, NEW M \in Nat,
           NEW f, Sums(f, steps, N), NEW g, Sums(g, more, M), Padded(more, M, steps, N)
    PROVE  f[N] = g[M] /\ g[M] \in Nat
<1>1. \A n \in 0..N : f[n] = IF n = 0 THEN 0 ELSE f[n - 1] + steps[n].cost
    BY DEF Sums
<1>2. \A n \in 0..M : g[n] = IF n = 0 THEN 0 ELSE g[n - 1] + more[n].cost
    BY DEF Sums
<1> USE DEF Padded
<1> DEFINE Good(n) == g[n] \in Nat /\ g[n] = f[IF n <= N THEN n ELSE N]
           T == {n \in 0..M : ~Good(n)}
<1>3. T = {}
    <2> SUFFICES ASSUME T # {} PROVE FALSE
        OBVIOUS
    <2>1. PICK n \in T : \A y \in T : n <= y
      <3> HIDE DEF Good
      <3>1. T \in SUBSET Nat
        OBVIOUS
      <3> QED
        BY <3>1, LeastOf
    <2>2. CASE n = 0
        BY <1>1, <1>2, <2>2
    <2>3. CASE n # 0
        <3>1. n - 1 \in 0..M /\ n - 1 \notin T
            BY <2>1, <2>3
        <3>2. Good(n - 1) /\ g[n] = g[n - 1] + more[n].cost /\ n \in 1..M
            BY <1>2, <2>3, <3>1
        <3>3. CASE n <= N
            <4>1. f[n] = f[n - 1] + steps[n].cost /\ n \in 1..N
                BY <1>1, <2>3, <3>3
            <4> QED
                BY <3>2, <3>3, <4>1
        <3>4. CASE n > N
            <4>1. more[n].cost = 0
                BY <3>4, <3>2
            <4> QED
                BY <3>2, <3>4, <4>1
        <3> QED
            BY <3>3, <3>4
    <2> QED
        BY <2>2, <2>3
<1>4. Good(M)
    BY <1>3
<1> QED
    BY <1>4

\* A cost is a number.
LEMMA CostNat == ASSUME NEW steps \in Seq(StepType) PROVE Cost(steps) \in Nat
<1>1. PICK f : Sums(f, steps, Len(steps)) /\ Cost(steps) = f[Len(steps)]
    BY CostSums
<1>2. Len(steps) \in Nat /\ \A n \in 1..Len(steps) : steps[n].cost \in Nat
  <2>1. Len(steps) \in Nat /\ \A n \in 1..Len(steps) : steps[n] \in StepType
    OBVIOUS
  <2> QED
    BY <2>1 DEF StepType
<1>3. Padded(steps, Len(steps), steps, Len(steps))
    BY <1>2 DEF Padded
<1> QED
    BY <1>1, <1>2, <1>3, SumsAgree

\* Steps kept as unattempted cost nothing: a fixed denominator leaves the cost.
LEMMA PaddedCost ==
    ASSUME NEW steps \in Seq(StepType), Len(steps) <= Denominator
    PROVE  /\ FixedSteps(steps) \in Seq(StepType) /\ Len(FixedSteps(steps)) = Denominator
           /\ Cost(FixedSteps(steps)) = Cost(steps)
<1> DEFINE fixed == FixedSteps(steps)
<1>1. Unattempted \in StepType /\ Unattempted.cost = 0
    BY DEF Unattempted, StepType
<1>2. Denominator \in Nat /\ Len(steps) \in Nat
    BY ExperimentAssumption
<1>3. fixed \in [1..Denominator -> StepType]
    BY <1>1, <1>2 DEF FixedSteps
<1>4. fixed \in Seq(StepType) /\ Len(fixed) = Denominator
    BY <1>2, <1>3
<1>5. /\ \A n \in 1..Len(steps) : fixed[n].cost = steps[n].cost
      /\ \A n \in (Len(steps) + 1)..Denominator : fixed[n].cost = 0
    BY <1>1, <1>2 DEF FixedSteps
<1>6. \A n \in 1..Denominator : fixed[n].cost \in Nat
    BY <1>3 DEF StepType
<1> HIDE DEF fixed
<1>7. PICK f : Sums(f, steps, Len(steps)) /\ Cost(steps) = f[Len(steps)]
    BY <1>2, CostSums
<1>8. PICK g : Sums(g, fixed, Denominator) /\ Cost(fixed) = g[Denominator]
  <2>1. Len(fixed) \in Nat
    BY <1>2, <1>4
  <2> QED
    BY <1>4, <2>1, CostSums
<1>8n. PICK N, M \in Nat : N = Len(steps) /\ M = Denominator
    BY <1>2
<1>9. Cost(fixed) = Cost(steps)
    <2>1. Sums(f, steps, N) /\ Sums(g, fixed, M)
        BY <1>4, <1>7, <1>8, <1>8n
    <2>2. Padded(fixed, M, steps, N)
        BY <1>5, <1>6, <1>8n DEF Padded
    <2>3. f[N] = g[M]
        BY <1>8n, <2>1, <2>2, SumsAgree
    <2> QED
        BY <1>7, <1>8, <1>8n, <2>3
<1> QED
    BY <1>4, <1>9 DEF fixed

\* Nothing returned costs nothing.
LEMMA NothingCosts == Cost(<<>>) = 0
<1>1. Len(<<>>) = 0
    OBVIOUS
<1>2. PICK f : Sums(f, <<>>, 0) /\ Cost(<<>>) = f[0]
    BY <1>1, CostSums
<1> QED
    BY <1>2 DEF Sums

-----------------------------------------------------------------------------
Dispositions == {"complete", "partial", "failed_mechanism", "failed_assertion",
                 "failed_infrastructure"}

\* What an arm may report.
OutcomeHolds(arm) ==
    /\ Len(arm.steps) = Denominator
    /\ Cost(arm.steps) > StepBudget => arm.disposition = "failed_assertion"
    /\ arm.disposition \in {"complete", "partial"} =>
         \A j \in DOMAIN arm.steps : arm.steps[j].attempted => arm.steps[j].valid
    /\ arm.disposition = "complete" => \A j \in 1..Denominator : arm.steps[j].valid
Outcomes == {o \in [disposition : Dispositions, steps : Seq(StepType)] : OutcomeHolds(o)}

\* A failure of any kind reports the full denominator, at no cost.
LEMMA FailedOutcome ==
    ASSUME NEW failure \in RaisedFailures
    PROVE  Failed(failure) \in Outcomes /\ Failed(failure).disposition = failure
<1>1. PICK first : first = [Unattempted EXCEPT !.attempted = (failure = "failed_mechanism")]
    OBVIOUS
<1>1a. first = [attempted |-> failure = "failed_mechanism", valid |-> FALSE, cost |-> 0]
    BY <1>1 DEF Unattempted
<1>1b. first \in StepType /\ first.cost = 0
  <2>1. (failure = "failed_mechanism") \in BOOLEAN
    OBVIOUS
  <2> QED
    BY <1>1a, <2>1 DEF StepType
<1>2. <<first>> \in Seq(StepType) /\ Len(<<first>>) = 1 /\ <<first>>[1] = first
    BY <1>1b
<1>3. /\ FixedSteps(<<first>>) \in Seq(StepType) /\ Len(FixedSteps(<<first>>)) = Denominator
      /\ Cost(FixedSteps(<<first>>)) = Cost(<<first>>)
    <2>1. Len(<<first>>) <= Denominator
        BY <1>2, ExperimentAssumption
    <2> QED
        BY <1>2, <2>1, PaddedCost
<1>4. PICK f : Sums(f, <<first>>, 1) /\ Cost(<<first>>) = f[1]
    BY <1>2, CostSums
<1>5. f[1] = f[0] + first.cost /\ f[0] = 0
    BY <1>2, <1>4 DEF Sums
<1>6. Cost(<<first>>) = 0
    BY <1>1b, <1>4, <1>5
<1>7. Failed(failure) = [disposition |-> failure, steps |-> FixedSteps(<<first>>)]
    BY <1>1 DEF Failed, FailureSteps
<1> QED
    BY <1>3, <1>6, <1>7, ExperimentAssumption
       DEF RaisedFailures, Outcomes, OutcomeHolds, Dispositions

\* Whatever a runner returns, the report keeps denominator, budget and verdict together.
LEMMA JudgedOutcome == ASSUME NEW r \in Returns PROVE Judged(r) \in Outcomes
<1>1. r \in Seq(StepType) /\ Len(r) \in Nat /\ Denominator \in Nat /\ StepBudget \in Nat
    BY ExperimentAssumption
<1>2. CASE Len(r) > Denominator
    BY <1>2, FailedOutcome DEF Judged, RaisedFailures
<1>3. CASE Len(r) <= Denominator /\ OverBudget(r) # {}
    <2>1. PICK first \in DOMAIN r :
            WithinBudget(r) = [SubSeq(r, 1, first) EXCEPT ![first].valid = FALSE]
        <3>1. OverBudget(r) \in SUBSET Nat
            BY <1>1 DEF OverBudget
        <3>2. \E i \in OverBudget(r) : \A j \in OverBudget(r) : i <= j
            BY <1>3, <3>1, LeastOf
        <3> QED
            BY <1>3, <3>2 DEF WithinBudget, OverBudget
    <2>2. PICK w : w = WithinBudget(r)
        OBVIOUS
    <2>3. w \in Seq(StepType) /\ Len(w) <= Denominator
        <3> DEFINE u == SubSeq(r, 1, first)
        <3>1. first \in 1..Len(r) /\ first \in Nat /\ first <= Denominator
            BY <1>1, <1>3
        <3>2. u \in Seq(StepType) /\ Len(u) = first
            BY <1>1, <3>1
        <3>3. PICK v : v = [u EXCEPT ![first].valid = FALSE]
            OBVIOUS
        <3> HIDE DEF u
        <3>4. u \in [1..first -> StepType] /\ u[first] \in StepType
            BY <3>1, <3>2
        <3>5. [u[first] EXCEPT !.valid = FALSE] \in StepType
            BY <3>4 DEF StepType
        <3>6. v \in [1..first -> StepType]
            BY <3>1, <3>3, <3>4, <3>5
        <3>7. v \in Seq(StepType) /\ Len(v) = first
            BY <3>1, <3>6
        <3> QED
            BY <2>1, <2>2, <3>1, <3>3, <3>7 DEF u
    <2>4. FixedSteps(w) \in Seq(StepType) /\ Len(FixedSteps(w)) = Denominator
        BY <2>3, PaddedCost
    <2>5. Judged(r) = [disposition |-> "failed_assertion", steps |-> FixedSteps(w)]
        BY <1>1, <1>3, <2>2 DEF Judged
    <2> QED
        BY <2>4, <2>5 DEF Outcomes, OutcomeHolds, Dispositions
<1>4. CASE Len(r) <= Denominator /\ OverBudget(r) = {}
    <2>1. Cost(r) <= StepBudget
        <3>1. CASE r = <<>>
            BY <1>1, <3>1, NothingCosts
        <3>2. CASE r # <<>>
            <4>1. Len(r) \in DOMAIN r /\ SubSeq(r, 1, Len(r)) = r
                BY <1>1, <3>2
            <4>2. ~(Cost(r) > StepBudget)
                BY <1>4, <4>1 DEF OverBudget
            <4>3. Cost(r) \in Nat
                BY <1>1, CostNat
            <4> QED
                BY <1>1, <4>2, <4>3
        <3> QED
            BY <3>1, <3>2
    <2>2. PICK s : s = FixedSteps(r)
        OBVIOUS
    <2>3. s \in Seq(StepType) /\ Len(s) = Denominator /\ Cost(s) = Cost(r)
        BY <1>1, <1>4, <2>2, PaddedCost
    <2>3b. ~(Cost(s) > StepBudget)
        <3>1. Cost(r) \in Nat
            BY <1>1, CostNat
        <3> QED
            BY <1>1, <2>1, <2>3, <3>1
    <2>4. WithinBudget(r) = r /\ ~(Len(r) > Denominator)
        BY <1>1, <1>4 DEF WithinBudget
    <2>5. CASE \E i \in DOMAIN s : s[i].attempted /\ ~s[i].valid
        <3>1. Judged(r) = [disposition |-> "failed_mechanism", steps |-> s]
            BY <1>4, <2>2, <2>4, <2>5 DEF Judged
        <3> QED
            BY <2>3, <2>3b, <3>1 DEF Outcomes, OutcomeHolds, Dispositions
    <2>6. CASE \A i \in DOMAIN s : s[i].valid
        <3>1. Judged(r) = [disposition |-> "complete", steps |-> s]
            BY <1>4, <2>2, <2>4, <2>6 DEF Judged
        <3>2. \A j \in 1..Denominator : s[j].valid
            BY <1>1, <2>3, <2>6
        <3> QED
            BY <2>3, <2>3b, <2>6, <3>1, <3>2 DEF Outcomes, OutcomeHolds, Dispositions
    <2>7. CASE /\ \A i \in DOMAIN s : s[i].attempted => s[i].valid
               /\ ~ \A i \in DOMAIN s : s[i].valid
        <3>1. Judged(r) = [disposition |-> "partial", steps |-> s]
            BY <1>4, <2>2, <2>4, <2>7 DEF Judged
        <3> QED
            BY <2>3, <2>3b, <2>7, <3>1 DEF Outcomes, OutcomeHolds, Dispositions
    <2> QED
        BY <2>5, <2>6, <2>7
<1> QED
    BY <1>1, <1>2, <1>3, <1>4

-----------------------------------------------------------------------------
Trials == [experiment : ExperimentIds, binding : Bindings, arms : Seq(Outcomes), runners : Nat]
TrialKeys(x) == KeysOf(x.experiment, x.binding)
KeyOfArm(x, i) == <<x.experiment, Arms[i], x.binding[Arms[i]]>>

\* An experiment at work: what it reserved is reserved, the arms still to run have
\* asked for no runner, and arms that are all complete had a runner each.
TrialHolds(x) ==
    /\ TrialKeys(x) \subseteq reserved
    /\ Len(x.arms) <= Len(Arms)
    /\ \A i \in (Len(x.arms) + 1)..Len(Arms) : factoryCalls[KeyOfArm(x, i)] = 0
    /\ (\A i \in DOMAIN x.arms : x.arms[i].disposition = "complete") => x.runners = Len(x.arms)

ExperimentInv ==
    /\ factoryCalls \in [ArmKeys -> 0..1]
    /\ \A k \in ArmKeys : factoryCalls[k] = 1 => k \in reserved
    /\ trials \in [Threads -> Trials \cup {NoTrial}]
    /\ \A t \in Threads : trials[t] # NoTrial => TrialHolds(trials[t])
    /\ \A t, u \in Threads : t # u /\ trials[t] # NoTrial /\ trials[u] # NoTrial
            => TrialKeys(trials[t]) \cap TrialKeys(trials[u]) = {}

\* An experiment is not mistaken for the absence of one.
LEMMA TrialIsOne == \A x \in Trials : x # NoTrial
<1> SUFFICES ASSUME NEW x \in Trials PROVE x # NoTrial
    OBVIOUS
<1>1. "runners" \in DOMAIN x
    BY DEF Trials
<1>2. DOMAIN NoTrial = {"none"}
    BY DEF NoTrial
<1> QED
    BY <1>1, <1>2

\* The key of an arm is one of its experiment, and arms have keys of their own.
LEMMA ArmKey ==
    ASSUME NEW x \in Trials, NEW i \in 1..Len(Arms)
    PROVE  /\ KeyOfArm(x, i) \in TrialKeys(x) /\ KeyOfArm(x, i) \in ArmKeys
           /\ \A j \in 1..Len(Arms) : j # i => KeyOfArm(x, j) # KeyOfArm(x, i)
<1>1. DOMAIN Arms = 1..Len(Arms)
    BY ExperimentAssumption
<1>2. Arms[i] \in Range(Arms)
    BY <1>1 DEF Range
<1>3. x.binding[Arms[i]] \in Occurrences /\ x.experiment \in ExperimentIds
    BY <1>2 DEF Trials, Bindings
<1>4. \A j \in 1..Len(Arms) : j # i => Arms[j] # Arms[i]
    BY <1>1, ExperimentAssumption DEF IsInjective
<1> QED
    BY <1>2, <1>3, <1>4 DEF KeyOfArm, TrialKeys, KeysOf, ArmKeys

\* A reservation takes keys that nobody has.
LEMMA ReserveStep ==
    ASSUME ExperimentInv, NEW t \in Threads, NEW experiment \in ExperimentIds,
           NEW b \in Bindings, ReserveOccurrences(t, experiment, b)
    PROVE  ExperimentInv'
<1> DEFINE x == [experiment |-> experiment, binding |-> b, arms |-> <<>>, runners |-> 0]
<1>1. /\ trials[t] = NoTrial /\ TrialKeys(x) \cap reserved = {}
      /\ reserved' = reserved \cup TrialKeys(x) /\ trials' = [trials EXCEPT ![t] = x]
      /\ factoryCalls' = factoryCalls
    BY DEF ReserveOccurrences, Unreserved, TrialKeys
<1>2. x \in Trials /\ x.arms = <<>> /\ x.runners = 0
    BY DEF Trials
<1> HIDE DEF x
<1>3. \A i \in 1..Len(Arms) : factoryCalls[KeyOfArm(x, i)] = 0
  <2> SUFFICES ASSUME NEW i \in 1..Len(Arms) PROVE factoryCalls[KeyOfArm(x, i)] = 0
    OBVIOUS
  <2>1. KeyOfArm(x, i) \in TrialKeys(x) /\ KeyOfArm(x, i) \in ArmKeys
    BY <1>2, ArmKey
  <2> QED
    BY <1>1, <2>1 DEF ExperimentInv
<1>4. trials' \in [Threads -> Trials \cup {NoTrial}] /\ trials'[t] = x
      /\ \A u \in Threads \ {t} : trials'[u] = trials[u]
    BY <1>1, <1>2 DEF ExperimentInv
<1>5. \A y : TrialHolds(y) => TrialHolds(y)'
    BY <1>1 DEF TrialHolds, KeyOfArm, TrialKeys
<1>6. TrialHolds(x)'
    BY <1>1, <1>2, <1>3, ExperimentAssumption DEF TrialHolds
<1>7. \A u \in Threads \ {t} : trials[u] # NoTrial => TrialKeys(trials[u]) \subseteq reserved
    BY DEF ExperimentInv, TrialHolds
<1> QED
    BY <1>1, <1>4, <1>5, <1>6, <1>7 DEF ExperimentInv

\* An arm that ran asked once for a runner under its own key.
LEMMA RunArmStep ==
    ASSUME ExperimentInv, NEW t \in Threads, trials[t] # NoTrial,
           NEW fresh \in 0..1, NEW o \in Outcomes, o.disposition = "complete" => fresh = 1,
           RunArm(t, fresh, o)
    PROVE  ExperimentInv'
<1>1. PICK x \in Trials : x = trials[t]
    BY DEF ExperimentInv
<1>2. PICK k : k = Len(x.arms) + 1
    OBVIOUS
<1>3. PICK y : y = [x EXCEPT !.arms = Append(@, o), !.runners = @ + fresh]
    OBVIOUS
<1>4. /\ x.arms \in Seq(Outcomes) /\ Len(x.arms) \in Nat /\ x.runners \in Nat
      /\ x.experiment \in ExperimentIds /\ x.binding \in Bindings
    BY <1>1 DEF Trials
<1>5. /\ trials' = [trials EXCEPT ![t] = y] /\ reserved' = reserved
      /\ factoryCalls' = [factoryCalls EXCEPT ![KeyOfArm(x, k)] = @ + 1]
      /\ Len(x.arms) < Len(Arms)
    BY <1>1, <1>2, <1>3 DEF RunArm, KeyOfArm
<1>6. y = [experiment |-> x.experiment, binding |-> x.binding,
           arms |-> Append(x.arms, o), runners |-> x.runners + fresh]
    BY <1>1, <1>3 DEF Trials
<1>7. y \in Trials /\ Len(y.arms) = k
    BY <1>2, <1>4, <1>6 DEF Trials
<1>8. Len(Arms) \in Nat /\ k \in 1..Len(Arms)
    BY <1>2, <1>4, <1>5, ExperimentAssumption
<1>9. /\ TrialHolds(x) /\ TrialKeys(x) \subseteq reserved
      /\ KeyOfArm(x, k) \in TrialKeys(x) /\ KeyOfArm(x, k) \in ArmKeys
      /\ factoryCalls[KeyOfArm(x, k)] = 0
    BY <1>1, <1>2, <1>8, ArmKey DEF ExperimentInv, TrialHolds
<1>10. /\ factoryCalls' \in [ArmKeys -> 0..1]
       /\ \A a \in ArmKeys : factoryCalls'[a] = 1 => a \in reserved
    BY <1>5, <1>9 DEF ExperimentInv
<1>11. TrialKeys(y) = TrialKeys(x) /\ \A i : KeyOfArm(y, i) = KeyOfArm(x, i)
    BY <1>6 DEF TrialKeys, KeyOfArm
<1>12. TrialHolds(y)'
  <2>1. ASSUME NEW i \in (k + 1)..Len(Arms) PROVE factoryCalls'[KeyOfArm(x, i)] = 0
    <3>1. i \in 1..Len(Arms) /\ i # k /\ i \in (Len(x.arms) + 1)..Len(Arms)
      BY <1>2, <1>4, <1>8
    <3>2. KeyOfArm(x, i) # KeyOfArm(x, k) /\ KeyOfArm(x, i) \in ArmKeys
      BY <1>8, <3>1, ArmKey
    <3>3. factoryCalls[KeyOfArm(x, i)] = 0
      BY <1>9, <3>1 DEF TrialHolds
    <3> QED
      BY <1>5, <3>2, <3>3 DEF ExperimentInv
  <2>2. ASSUME \A i \in DOMAIN y.arms : y.arms[i].disposition = "complete"
        PROVE  y.runners = k
    <3>1. \A i \in DOMAIN x.arms : i \in DOMAIN y.arms /\ y.arms[i] = x.arms[i]
      BY <1>4, <1>6
    <3>2. k \in DOMAIN y.arms /\ y.arms[k] = o
      BY <1>2, <1>4, <1>6
    <3>3. x.runners = Len(x.arms) /\ fresh = 1
      BY <1>9, <2>2, <3>1, <3>2 DEF TrialHolds
    <3> QED
      BY <1>2, <1>4, <1>6, <3>3
  <2>3. TrialKeys(y) \subseteq reserved'
    BY <1>5, <1>9, <1>11
  <2> QED
    BY <1>7, <1>8, <1>11, <2>1, <2>2, <2>3 DEF TrialHolds, TrialKeys, KeyOfArm
<1>13. /\ trials' \in [Threads -> Trials \cup {NoTrial}] /\ trials'[t] = y
       /\ \A u \in Threads \ {t} : trials'[u] = trials[u]
    BY <1>5, <1>7 DEF ExperimentInv
<1>14. ASSUME NEW u \in Threads \ {t}, trials[u] # NoTrial PROVE TrialHolds(trials[u])'
  <2>1. PICK z \in Trials : z = trials[u]
    BY <1>14 DEF ExperimentInv
  <2>2. TrialHolds(z) /\ TrialKeys(z) \cap TrialKeys(x) = {}
    BY <1>1, <1>14, <2>1, TrialIsOne DEF ExperimentInv
  <2>3. ASSUME NEW i \in (Len(z.arms) + 1)..Len(Arms)
        PROVE  factoryCalls'[KeyOfArm(z, i)] = 0
    <3>1. i \in 1..Len(Arms)
      BY <2>1, <1>8 DEF Trials
    <3>2. KeyOfArm(z, i) # KeyOfArm(x, k) /\ KeyOfArm(z, i) \in ArmKeys
      BY <1>9, <2>2, <3>1, ArmKey
    <3> QED
      BY <1>5, <2>2, <3>2 DEF TrialHolds, ExperimentInv
  <2>4. TrialHolds(z)'
    BY <1>5, <2>2, <2>3 DEF TrialHolds, KeyOfArm, TrialKeys
  <2> QED
    BY <1>13, <1>14, <2>1, <2>4
<1> QED
    BY <1>1, <1>5, <1>10, <1>11, <1>12, <1>13, <1>14 DEF ExperimentInv

\* Threads that reserve, run, fail, return and are interrupted keep the invariant.
THEOREM ExperimentInvariant == ExperimentSpec => []ExperimentInv
<1>1. ExperimentInit => ExperimentInv
    BY DEF ExperimentInit, ExperimentInv
<1>2. ExperimentInv /\ [ExperimentNext]_experimentVars => ExperimentInv'
  <2> SUFFICES ASSUME ExperimentInv, [ExperimentNext]_experimentVars PROVE ExperimentInv'
    OBVIOUS
  <2>1. ASSUME NEW t \in Threads, NEW experiment \in ExperimentIds, NEW b \in Bindings,
               ReserveOccurrences(t, experiment, b)
        PROVE  ExperimentInv'
    BY <2>1, ReserveStep
  <2>2. ASSUME NEW t \in Threads, trials[t] # NoTrial, RunArmOnce(t) PROVE ExperimentInv'
    <3>1. ASSUME NEW returned \in Returns, RunArm(t, 1, Judged(returned)) PROVE ExperimentInv'
      BY <2>2, <3>1, RunArmStep, JudgedOutcome
    <3>2. ASSUME NEW failure \in RaisedFailures, NEW fresh \in 0..1,
                 RunArm(t, fresh, Failed(failure))
          PROVE  ExperimentInv'
      <4>1. Failed(failure) \in Outcomes /\ Failed(failure).disposition # "complete"
        BY FailedOutcome DEF RaisedFailures
      <4> QED
        BY <2>2, <3>2, <4>1, RunArmStep
    <3>3. "failed_assertion" \in RaisedFailures
      BY DEF RaisedFailures
    <3> QED
      BY <2>2, <3>1, <3>2, <3>3 DEF RunArmOnce
  <2>3. ASSUME NEW t \in Threads, EndTrial(t) PROVE ExperimentInv'
    <3>1. /\ UNCHANGED <<reserved, factoryCalls>> /\ trials' = [trials EXCEPT ![t] = NoTrial]
      BY <2>3 DEF EndTrial
    <3>2. \A y : TrialHolds(y) => TrialHolds(y)'
      BY <3>1 DEF TrialHolds, KeyOfArm, TrialKeys
    <3>3. /\ trials' \in [Threads -> Trials \cup {NoTrial}] /\ trials'[t] = NoTrial
          /\ \A u \in Threads \ {t} : trials'[u] = trials[u]
      BY <3>1 DEF ExperimentInv
    <3> QED
      BY <3>1, <3>2, <3>3 DEF ExperimentInv
  <2>4. CASE UNCHANGED experimentVars
    BY <2>4 DEF experimentVars, ExperimentInv, TrialHolds, KeyOfArm, TrialKeys
  <2> QED
    BY <2>1, <2>2, <2>3, <2>4 DEF ExperimentNext
<1> QED
    BY <1>1, <1>2, PTL DEF ExperimentSpec

\* For any threads, arms, runners and budget: an occurrence is attempted once, an arm
\* keeps its denominator and its budget, and a comparison is complete only if every
\* arm did every step with a runner of its own (experiments.py).
THEOREM AttemptsWhole == ExperimentSpec => []AttemptsAreWhole
<1>1. ExperimentInv => AttemptsAreWhole
  <2> SUFFICES ASSUME ExperimentInv PROVE AttemptsAreWhole
    OBVIOUS
  <2>1. \A k \in ArmKeys : factoryCalls[k] <= 1
    BY DEF ExperimentInv
  <2>2. ASSUME NEW t \in Threads, trials[t] # NoTrial, NEW i \in DOMAIN trials[t].arms
        PROVE  OutcomeHolds(trials[t].arms[i])
    <3>1. trials[t].arms \in Seq(Outcomes)
      BY <2>2 DEF ExperimentInv, Trials
    <3>2. trials[t].arms[i] \in Outcomes
      BY <2>2, <3>1
    <3> QED
      BY <3>2 DEF Outcomes
  <2>3. ASSUME NEW t \in Threads, trials[t] # NoTrial, MechanicallyComplete(trials[t])
        PROVE  /\ trials[t].runners = Len(Arms)
               /\ \A i \in DOMAIN Arms :
                    \A j \in 1..Denominator : trials[t].arms[i].steps[j].valid
    <3>1. trials[t].arms \in Seq(Outcomes) /\ TrialHolds(trials[t])
      BY <2>3 DEF ExperimentInv, Trials
    <3>2. Len(trials[t].arms) = Len(Arms) /\ DOMAIN trials[t].arms = DOMAIN Arms
      BY <2>3, <3>1, ExperimentAssumption DEF MechanicallyComplete
    <3>3. \A i \in DOMAIN trials[t].arms : trials[t].arms[i].disposition = "complete"
      BY <2>3 DEF MechanicallyComplete
    <3>4. trials[t].runners = Len(Arms)
      BY <3>1, <3>2, <3>3 DEF TrialHolds
    <3>5. \A i \in DOMAIN Arms : OutcomeHolds(trials[t].arms[i])
      BY <2>2, <2>3, <3>2
    <3> QED
      BY <3>2, <3>3, <3>4, <3>5 DEF OutcomeHolds
  <2> QED
    BY <2>1, <2>2, <2>3 DEF AttemptsAreWhole, OutcomeHolds
<1> QED
    BY <1>1, ExperimentInvariant, PTL

-----------------------------------------------------------------------------
\* Facts.

EarnedFact ==
    [subject : Subjects, version : Nat, status : FactStatuses, deps : SUBSET Nat,
     transferable : BOOLEAN]
FactTypeOK ==
    /\ facts \in Seq(EarnedFact) /\ Len(facts) <= MaxFacts
    /\ active \in SUBSET (DOMAIN facts)
    /\ subjectVersion \in [Subjects -> Int]

\* A fact stands on earlier ones, of a version its subject has reached; the rest is
\* what the store promises of dependencies.
FactsOrdered ==
    \A i \in DOMAIN facts :
        /\ facts[i].deps \subseteq 1..(i - 1)
        /\ facts[i].version <= subjectVersion[facts[i].subject]
ActiveStands == \A i \in active : facts[i].deps \subseteq active
InactiveRests == \A i \in DOMAIN facts \ active : ~Issuable(facts[i])
FactInv == FactTypeOK /\ FactsOrdered /\ ActiveStands /\ InactiveRests

\* f[n] is what is reached from the facts of a subject in n rounds.
Rounds(f, subject, N) ==
    f = [n \in 0..N |->
            IF n = 0 THEN {i \in active : facts[i].subject = subject}
            ELSE f[n - 1] \cup {i \in active : facts[i].deps \cap f[n - 1] # {}}]

\* There is such a function: one for N rounds extends to N + 1.
LEMMA RoundsExist == ASSUME NEW subject, NEW N \in Nat PROVE \E f : Rounds(f, subject, N)
<1> DEFINE T == {M \in Nat : ~ \E f : Rounds(f, subject, M)}
<1> SUFFICES ASSUME T # {} PROVE FALSE
    OBVIOUS
<1>1. PICK M \in T : \A y \in T : M <= y
    BY LeastOf
<1>2. CASE M = 0
    <2>1. Rounds([n \in 0..0 |-> {i \in active : facts[i].subject = subject}], subject, 0)
        BY DEF Rounds
    <2> QED
        BY <1>2, <2>1
<1>3. CASE M # 0
    <2>1. PICK L \in Nat : M = L + 1
        BY <1>3
    <2>2. PICK f : Rounds(f, subject, L)
        BY <1>1, <2>1
    <2> DEFINE Round(S) == S \cup {i \in active : facts[i].deps \cap S # {}}
               First == {i \in active : facts[i].subject = subject}
               g == [n \in 0..(L + 1) |-> IF n <= L THEN f[n] ELSE Round(f[L])]
    <2>3. \A n \in 0..L : f[n] = IF n = 0 THEN First ELSE Round(f[n - 1])
        BY <2>2 DEF Rounds
    <2>4. ASSUME NEW n \in 0..(L + 1) PROVE g[n] = IF n = 0 THEN First ELSE Round(g[n - 1])
        <3> HIDE DEF Round, First
        <3>1. CASE n <= L
            <4>1. f[n] = IF n = 0 THEN First ELSE Round(f[n - 1])
                BY <2>3, <3>1
            <4>2. n # 0 => n - 1 \in 0..L
                OBVIOUS
            <4> QED
                BY <3>1, <4>1, <4>2
        <3>2. CASE n = L + 1
            BY <3>2
        <3> QED
            BY <3>1, <3>2
    <2>5. Rounds(g, subject, L + 1)
      <3> HIDE DEF g
      <3>1. DOMAIN g = 0..(L + 1) /\ g = [n \in 0..(L + 1) |-> g[n]]
        BY DEF g
      <3> QED
        BY <2>4, <3>1 DEF Rounds
    <2> QED
        BY <2>1, <2>5
<1> QED
    BY <1>2, <1>3

\* What mutate_subject implicates: the active facts of the subject, those that stand on
\* an implicated one, and no others.  The rounds suffice because facts stand on earlier
\* ones, so that a fact is reached within as many rounds as there are facts before it.
LEMMA ImplicatedClosed ==
    ASSUME FactInv, NEW subject \in Subjects
    PROVE  /\ Implicated(subject) \subseteq active
           /\ \A i \in active : facts[i].subject = subject => i \in Implicated(subject)
           /\ \A i \in active :
                facts[i].deps \cap Implicated(subject) # {} => i \in Implicated(subject)
           /\ \A i \in Implicated(subject) :
                facts[i].subject = subject \/ facts[i].deps \cap Implicated(subject) # {}
<1> DEFINE First == {i \in active : facts[i].subject = subject}
           Round(S) == S \cup {i \in active : facts[i].deps \cap S # {}}
           N == MaxFacts
<1>1. N \in Nat
    BY EarnedFactsAssumption
<1>2. PICK f : Rounds(f, subject, N)
    BY <1>1, RoundsExist
<1>3. PICK R : Rounds(R, subject, N) /\ Implicated(subject) = R[N]
  <2> DEFINE E(h) == [n \in 0..MaxFacts |->
                        IF n = 0 THEN {i \in active : facts[i].subject = subject}
                        ELSE h[n - 1] \cup {i \in active : facts[i].deps \cap h[n - 1] # {}}]
             F == CHOOSE h : h = E(h)
  <2>1. \E h : h = E(h)
    BY <1>2 DEF Rounds
  <2>2. F = E(F)
    <3> HIDE DEF E
    <3> QED
      BY <2>1
  <2>3. Rounds(F, subject, N)
    BY <2>2 DEF Rounds
  <2>4. Implicated(subject) = F[N]
    BY DEF Implicated
  <2> QED
    BY <2>3, <2>4
<1>4. R[0] = First /\ \A n \in 1..N : R[n] = Round(R[n - 1])
  <2>1. \A n \in 0..N : R[n] = IF n = 0 THEN First ELSE Round(R[n - 1])
    BY <1>3 DEF Rounds
  <2> HIDE DEF Round, First
  <2> QED
    BY <1>1, <2>1
\* Nothing is lost from round to round.
<1>5. ASSUME NEW j, NEW m \in 0..N, j \in R[m], NEW n \in 0..N, m <= n PROVE j \in R[n]
  <2> DEFINE T == {k \in 0..N : m <= k /\ j \notin R[k]}
  <2>1. T \in SUBSET Nat
    BY <1>1
  <2> SUFFICES ASSUME T # {} PROVE FALSE
    BY <1>5
  <2>2. PICK k \in T : \A y \in T : k <= y
    BY <2>1, LeastOf
  <2>3. k \in 0..N /\ m <= k /\ k # m /\ j \notin R[k]
    BY <1>5, <2>2
  <2>4. k \in 1..N /\ k - 1 \in 0..N /\ m <= k - 1 /\ k - 1 \notin T
    BY <1>1, <2>2, <2>3
  <2>5. j \in R[k - 1]
    BY <2>4
  <2> QED
    BY <1>4, <2>3, <2>4, <2>5
<1>6. \A n \in 0..N : R[n] \subseteq active
  <2> DEFINE T == {k \in 0..N : ~(R[k] \subseteq active)}
  <2>1. T \in SUBSET Nat
    BY <1>1
  <2> SUFFICES ASSUME T # {} PROVE FALSE
    OBVIOUS
  <2>2. PICK k \in T : \A y \in T : k <= y
    BY <2>1, LeastOf
  <2>3. CASE k = 0
    BY <1>4, <2>2, <2>3
  <2>4. CASE k # 0
    <3>1. k \in 1..N /\ k - 1 \in 0..N /\ k - 1 \notin T
      BY <1>1, <2>2, <2>4
    <3> QED
      BY <1>4, <2>2, <3>1
  <2> QED
    BY <2>3, <2>4
\* The first round that reaches a fact, and what it was reached from.
<1>7. ASSUME NEW j, NEW n \in 0..N, j \in R[n]
      PROVE  j \in First \/ \E k \in 1..n : \E d \in facts[j].deps : j \in R[k] /\ d \in R[k - 1]
  <2> DEFINE T == {k \in 0..N : j \in R[k]}
  <2>1. T \in SUBSET Nat /\ T # {}
    BY <1>1, <1>7
  <2>2. PICK k \in T : \A y \in T : k <= y
    BY <2>1, LeastOf
  <2>3. CASE k = 0
    BY <1>4, <2>2, <2>3
  <2>4. CASE k # 0
    <3>1. k \in 1..N /\ k <= n /\ k - 1 \in 0..N /\ k - 1 \notin T
      BY <1>1, <1>7, <2>2, <2>4
    <3>2. j \in R[k] /\ j \notin R[k - 1] /\ R[k] = Round(R[k - 1])
      BY <1>4, <2>2, <3>1
    <3>3. facts[j].deps \cap R[k - 1] # {}
      BY <3>2
    <3> QED
      BY <3>1, <3>2, <3>3
  <2> QED
    BY <2>3, <2>4
<1>8. active \subseteq 1..N /\ \A j \in active : facts[j].deps \subseteq 1..(j - 1)
  <2>1. Len(facts) \in Nat /\ DOMAIN facts = 1..Len(facts)
    BY DEF FactInv, FactTypeOK
  <2> QED
    BY <1>1, <2>1 DEF FactInv, FactTypeOK, FactsOrdered
<1>9. ASSUME NEW n \in 0..N, NEW j \in R[n] PROVE j \in R[j - 1]
  <2> DEFINE T == {j2 \in 1..N : (\E m \in 0..N : j2 \in R[m]) /\ j2 \notin R[j2 - 1]}
  <2>1. T \in SUBSET Nat
    BY <1>1
  <2>2. j \in 1..N
    BY <1>6, <1>8
  <2> SUFFICES ASSUME T # {} PROVE FALSE
    BY <2>2
  <2>3. PICK i \in T : \A y \in T : i <= y
    BY <2>1, LeastOf
  <2>4. PICK m \in 0..N : i \in R[m]
    BY <2>3
  <2>5. i \in 1..N /\ i - 1 \in 0..N /\ i \in active /\ i \notin R[i - 1]
    BY <1>1, <1>6, <2>3, <2>4
  <2>6. i \notin First
    BY <1>1, <1>4, <1>5, <2>5
  <2>7. PICK k \in 1..m, d \in facts[i].deps : i \in R[k] /\ d \in R[k - 1]
    BY <1>7, <2>4, <2>6
  <2>8. d \in 1..(i - 1) /\ k - 1 \in 0..N
    <3>1. k - 1 \in 0..N
      BY <1>1, <2>4, <2>7
    <3> QED
      BY <1>8, <2>5, <2>7, <3>1
  <2>9. d \in R[d - 1]
    <3>1. d \in 1..N /\ d \notin T
      BY <1>1, <2>3, <2>5, <2>8
    <3> QED
      BY <2>7, <2>8, <3>1
  <2>10. i - 1 \in 1..N /\ d - 1 \in 0..N /\ i - 2 \in 0..N /\ d - 1 <= i - 2 /\ (i - 1) - 1 = i - 2
    BY <1>1, <2>5, <2>8
  <2>11. d \in R[i - 2]
    BY <1>5, <2>9, <2>10
  <2>12. i \in R[i - 1]
    BY <1>4, <2>5, <2>7, <2>10, <2>11
  <2> QED
    BY <2>5, <2>12
<1>10. ASSUME NEW i \in active, facts[i].deps \cap R[N] # {} PROVE i \in R[N]
  <2>1. PICK d \in facts[i].deps : d \in R[N]
    BY <1>10
  <2>2. i \in 1..N /\ d \in 1..(i - 1)
    BY <1>8, <2>1
  <2>3. d \in R[d - 1] /\ d - 1 \in 0..N /\ N - 1 \in 0..N /\ d - 1 <= N - 1 /\ N \in 1..N
    BY <1>1, <1>9, <2>1, <2>2
  <2>4. d \in R[N - 1]
    BY <1>5, <2>3
  <2> QED
    BY <1>4, <2>1, <2>3, <2>4
<1>11. ASSUME NEW i \in R[N] PROVE facts[i].subject = subject \/ facts[i].deps \cap R[N] # {}
  <2>1. N \in 0..N
    BY <1>1
  <2>2. CASE i \in First
    BY <2>2
  <2>3. CASE i \notin First
    <3>1. PICK k \in 1..N, d \in facts[i].deps : i \in R[k] /\ d \in R[k - 1]
      BY <1>7, <2>1, <2>3
    <3>2. k - 1 \in 0..N /\ k - 1 <= N
      BY <1>1, <3>1
    <3>3. d \in R[N]
      BY <1>5, <2>1, <3>1, <3>2
    <3> QED
      BY <3>1, <3>3
  <2> QED
    BY <2>2, <2>3
<1>12. \A i \in active : facts[i].subject = subject => i \in R[N]
  <2>1. 0 \in 0..N /\ N \in 0..N /\ 0 <= N
    BY <1>1
  <2>2. First \subseteq R[N]
    BY <1>4, <1>5, <2>1
  <2> QED
    BY <2>2
<1>13. R[N] \subseteq active
    BY <1>1, <1>6
<1> HIDE DEF N
<1> QED
    BY <1>3, <1>10, <1>11, <1>12, <1>13

-----------------------------------------------------------------------------
\* What could not be issued still cannot when versions have grown and none of what it
\* stands on has come into force.
LEMMA StillRests ==
    ASSUME NEW old, old.subject \in Subjects, old.version \in Nat, ~Issuable(old),
           subjectVersion \in [Subjects -> Int], subjectVersion' \in [Subjects -> Int],
           \A s \in Subjects : subjectVersion[s] <= subjectVersion'[s],
           old.deps \cap active' \subseteq active
    PROVE  ~Issuable(old)'
<1>1. /\ subjectVersion[old.subject] \in Int /\ subjectVersion'[old.subject] \in Int
      /\ subjectVersion[old.subject] <= subjectVersion'[old.subject]
    OBVIOUS
<1>2. CASE ~(old.version >= subjectVersion[old.subject])
    BY <1>1, <1>2 DEF Issuable
<1>3. CASE ~(old.deps \subseteq active)
    BY <1>3 DEF Issuable
<1> QED
    BY <1>2, <1>3 DEF Issuable

\* A fact issued again or for the first time, on facts in force.
LEMMA IssuesStep ==
    ASSUME FactInv, NEW fact \in EarnedFact, Issues(fact)
    PROVE  FactInv'
<1> DEFINE L == Len(facts)
<1>1. /\ L \in Nat /\ facts \in Seq(EarnedFact) /\ DOMAIN facts = 1..L
      /\ active \subseteq 1..L /\ subjectVersion \in [Subjects -> Int]
      /\ fact.subject \in Subjects /\ fact.version \in Nat
  <2>1. /\ facts \in Seq(EarnedFact) /\ active \subseteq DOMAIN facts
        /\ subjectVersion \in [Subjects -> Int]
    BY DEF FactInv, FactTypeOK
  <2>2. L \in Nat /\ DOMAIN facts = 1..L
    BY <2>1
  <2>3. fact.subject \in Subjects /\ fact.version \in Nat
    BY DEF EarnedFact
  <2> QED
    BY <2>1, <2>2, <2>3
<1>2. L \in Nat /\ L + 1 \in 1..(L + 1) /\ (L + 1) - 1 = L
      /\ \A i \in active : i \in 1..L /\ i \in 1..(L + 1)
  <2> HIDE DEF L
  <2>1. L \in Nat /\ active \subseteq 1..L
    BY <1>1
  <2> QED
    BY <2>1
<1>3. \A i \in 1..L : facts[i] \in EarnedFact
    BY <1>1
<1>4. /\ subjectVersion' \in [Subjects -> Int]
      /\ subjectVersion'[fact.subject] = fact.version
      /\ \A s \in Subjects : subjectVersion[s] <= subjectVersion'[s]
    BY <1>1 DEF Issues, Issuable
<1>5. fact.deps \subseteq active
    BY DEF Issues, Issuable
<1>6. CASE \E i \in Places(fact) : active' = active \cup {i} /\ UNCHANGED facts
  <2>1. PICK i \in 1..L : facts[i] = fact /\ active' = active \cup {i} /\ facts' = facts
    BY <1>1, <1>6 DEF Places
  <2>2. i \in active
    <3>1. Issuable(fact)
      BY DEF Issues
    <3>2. i \notin active => ~Issuable(facts[i])
      BY <1>1, <2>1 DEF FactInv, InactiveRests
    <3> QED
      BY <2>1, <3>1, <3>2 DEF Issuable
  <2>3. active' = active
    BY <2>1, <2>2
  <2>4. FactTypeOK'
    BY <1>4, <2>1, <2>3 DEF FactInv, FactTypeOK
  <2>5. FactsOrdered'
    <3>1. \A j \in 1..L : /\ facts[j].subject \in Subjects /\ facts[j].version \in Nat
      BY <1>3 DEF EarnedFact
    <3> QED
      BY <1>1, <1>4, <2>1, <3>1 DEF FactInv, FactsOrdered
  <2>6. InactiveRests'
    <3>1. ASSUME NEW j \in 1..L, j \notin active PROVE ~Issuable(facts[j])'
      <4>1. PICK old \in EarnedFact : old = facts[j]
        BY <1>3
      <4>2. ~Issuable(old) /\ old.subject \in Subjects /\ old.version \in Nat
        BY <1>1, <3>1, <4>1 DEF FactInv, InactiveRests, EarnedFact
      <4>3. ~Issuable(old)'
        BY <1>1, <1>4, <2>3, <4>2, StillRests
      <4> QED
        BY <2>1, <4>1, <4>3 DEF Issuable
    <3> QED
      BY <1>1, <2>1, <2>3, <3>1 DEF InactiveRests
  <2> QED
    BY <1>1, <2>1, <2>3, <2>4, <2>5, <2>6 DEF FactInv, ActiveStands
<1>7. CASE /\ Len(facts) < MaxFacts /\ facts' = Append(facts, fact)
           /\ active' = active \cup {Len(facts) + 1}
  <2>1. /\ facts' \in Seq(EarnedFact) /\ Len(facts') = L + 1 /\ DOMAIN facts' = 1..(L + 1)
        /\ facts'[L + 1] = fact /\ \A j \in 1..L : facts'[j] = facts[j]
    BY <1>1, <1>7
  <2>2. FactTypeOK'
    <3>1. Len(facts') <= MaxFacts
      <4>1. L < MaxFacts /\ Len(facts') = L + 1 /\ L \in Nat /\ MaxFacts \in Nat
        BY <1>2, <1>7, <2>1, EarnedFactsAssumption
      <4> HIDE DEF L
      <4> QED
        BY <4>1
    <3>2. active' \in SUBSET (DOMAIN facts')
      BY <1>2, <1>7, <2>1
    <3> QED
      BY <1>4, <2>1, <3>1, <3>2 DEF FactTypeOK
  <2>3. \A j \in 1..L : /\ facts[j].subject \in Subjects /\ facts[j].version \in Nat
    BY <1>3 DEF EarnedFact
  <2>4. FactsOrdered'
    <3>1. (L + 1) - 1 = L /\ fact.deps \subseteq 1..L
      BY <1>2, <1>5
    <3>2. ASSUME NEW j \in 1..L
          PROVE  /\ facts'[j].deps \subseteq 1..(j - 1)
                 /\ facts'[j].version <= subjectVersion'[facts'[j].subject]
      <4>1. PICK old : old = facts[j]
        OBVIOUS
      <4>2. /\ old.deps \subseteq 1..(j - 1) /\ old.version <= subjectVersion[old.subject]
            /\ old.subject \in Subjects /\ old.version \in Nat /\ facts'[j] = old
        BY <1>1, <2>1, <2>3, <4>1 DEF FactInv, FactsOrdered
      <4> QED
        BY <1>1, <1>4, <4>2
    <3>3. /\ facts'[L + 1].deps \subseteq 1..((L + 1) - 1)
          /\ facts'[L + 1].version <= subjectVersion'[facts'[L + 1].subject]
      BY <1>1, <1>4, <2>1, <3>1
    <3>4. \A j \in DOMAIN facts' : j \in 1..L \/ j = L + 1
      BY <1>1, <2>1
    <3> QED
      BY <3>2, <3>3, <3>4 DEF FactsOrdered
  <2>5. ActiveStands'
    BY <1>1, <1>5, <1>7, <2>1 DEF FactInv, ActiveStands
  <2>6. ASSUME NEW j \in 1..(L + 1), j \notin active', NEW old, old = facts'[j]
        PROVE  ~Issuable(old)'
    <3>1. j \in 1..L /\ j \notin active
      BY <1>1, <1>7, <2>6
    <3>2. old = facts[j] /\ old.subject \in Subjects /\ old.version \in Nat
      BY <2>1, <2>3, <2>6, <3>1
    <3>3. ~Issuable(old)
      BY <1>1, <3>1, <3>2 DEF FactInv, InactiveRests
    <3>4. old.deps \subseteq 1..(j - 1)
      BY <1>1, <3>1, <3>2 DEF FactInv, FactsOrdered
    <3>5. L + 1 \notin old.deps
      BY <1>1, <3>1, <3>4
    <3>6. old.deps \cap active' \subseteq active
      BY <1>7, <3>5
    <3> QED
      BY <1>1, <1>4, <3>2, <3>3, <3>6, StillRests
  <2>7. InactiveRests'
    <3>1. \A j \in 1..(L + 1) : j \notin active' => ~Issuable(facts[j])'
      <4> SUFFICES ASSUME NEW j \in 1..(L + 1), j \notin active' PROVE ~Issuable(facts[j])'
        OBVIOUS
      <4>1. PICK old : old = facts'[j]
        OBVIOUS
      <4>2. ~Issuable(old)'
        BY <2>6, <4>1
      <4> QED
        BY <4>1, <4>2 DEF Issuable
    <3> QED
      BY <2>1, <3>1 DEF InactiveRests
  <2> QED
    BY <2>2, <2>4, <2>5, <2>7 DEF FactInv
<1> QED
    BY <1>6, <1>7 DEF Issues

\* A subject moves on: what it implicates falls, and cannot be issued again.
LEMMA MutateSubjectStep ==
    ASSUME FactInv, NEW subject \in Subjects, NEW version \in Nat,
           MutateSubject(subject, version)
    PROVE  FactInv'
<1> DEFINE L == Len(facts)
<1>1. /\ L \in Nat /\ facts \in Seq(EarnedFact) /\ DOMAIN facts = 1..L
      /\ active \subseteq 1..L /\ subjectVersion \in [Subjects -> Int]
    BY DEF FactInv, FactTypeOK
<1>2. \A i \in 1..L : facts[i].subject \in Subjects /\ facts[i].version \in Nat
  <2>1. \A i \in 1..L : facts[i] \in EarnedFact
    BY <1>1
  <2> QED
    BY <2>1 DEF EarnedFact
<1>3. PICK I : I = Implicated(subject)
    OBVIOUS
<1>4. /\ I \subseteq active
      /\ \A i \in active : facts[i].subject = subject => i \in I
      /\ \A i \in active : facts[i].deps \cap I # {} => i \in I
      /\ \A i \in I : facts[i].subject = subject \/ facts[i].deps \cap I # {}
    BY <1>3, ImplicatedClosed
<1>5. /\ active' = active \ I /\ facts' = facts /\ rule' = rule
      /\ subjectVersion' \in [Subjects -> Int] /\ subjectVersion'[subject] = version
      /\ subjectVersion[subject] < version
      /\ \A s \in Subjects : subjectVersion[s] <= subjectVersion'[s]
    BY <1>1, <1>3 DEF MutateSubject, KnownVersion
<1>6. FactTypeOK'
    BY <1>5 DEF FactInv, FactTypeOK
<1>7. FactsOrdered'
    BY <1>1, <1>2, <1>5 DEF FactInv, FactsOrdered
<1>8. ActiveStands'
    BY <1>4, <1>5 DEF FactInv, ActiveStands
<1>9. ASSUME NEW i \in 1..L, i \notin active' PROVE ~Issuable(facts[i])'
  <2>1. CASE i \notin active
    <3>1. PICK old : old = facts[i]
      OBVIOUS
    <3>2. old.subject \in Subjects /\ old.version \in Nat /\ ~Issuable(old)
      BY <1>1, <1>2, <2>1, <3>1 DEF FactInv, InactiveRests
    <3>3. ~Issuable(old)'
      BY <1>1, <1>5, <3>2, StillRests
    <3> QED
      BY <1>5, <3>1, <3>3 DEF Issuable
  <2>2. CASE i \in I /\ facts[i].subject = subject
    <3>1. facts[i].version <= subjectVersion[subject]
      BY <1>1, <2>2 DEF FactInv, FactsOrdered
    <3> QED
      BY <1>1, <1>2, <1>5, <2>2, <3>1 DEF Issuable
  <2>3. CASE i \in I /\ facts[i].deps \cap I # {}
    BY <1>5, <2>3 DEF Issuable
  <2> QED
    BY <1>4, <1>5, <1>9, <2>1, <2>2, <2>3
<1> QED
    BY <1>1, <1>5, <1>6, <1>7, <1>8, <1>9 DEF FactInv, InactiveRests

\* A lookup finds the last of the active facts that match.
LEMMA LookupFinds ==
    ASSUME FactInv, NEW s, NEW v, Lookup(s, v).kind = "hit"
    PROVE  /\ Lookup(s, v).fact \in active /\ facts[Lookup(s, v).fact].version = v
<1> DEFINE matched == Matching(s, v) \cap active
           L == Len(facts)
           T == {L - i : i \in matched}
<1>1. L \in Nat /\ matched \subseteq 1..L /\ matched # {}
    BY DEF FactInv, FactTypeOK, Lookup, Matching
<1>2. T \in SUBSET Nat /\ T # {}
    BY <1>1
<1> HIDE DEF matched
<1>3. PICK t \in T : \A y \in T : t <= y
    BY <1>2, LeastOf
<1>4. \E i \in matched : \A j \in matched : j <= i
  <2>1. PICK i \in matched : t = L - i
    BY <1>3
  <2>2. \A j \in matched : L - i <= L - j
    BY <1>3, <2>1
  <2> QED
    BY <1>1, <2>1, <2>2
<1>5. Lookup(s, v).fact = CHOOSE i \in matched : \A j \in matched : j <= i
    BY <1>1 DEF Lookup, matched
<1>6. Lookup(s, v).fact \in matched
    BY <1>4, <1>5
<1> QED
    BY <1>6 DEF matched, Matching

\* For any subjects, facts and chains of derivation: nothing in force stands on what was
\* invalidated, and what fell stays down (facts.py).
THEOREM FactsStand == FactSpec => []FactsStandOnActive
<1>1. FactInit => FactInv
  <2> SUFFICES ASSUME FactInit PROVE FactInv
    OBVIOUS
  <2>1. facts = <<>> /\ active = {} /\ subjectVersion = [s \in Subjects |-> -1]
    BY DEF FactInit
  <2>2. FactTypeOK
    BY <2>1, EarnedFactsAssumption DEF FactTypeOK
  <2> QED
    BY <2>1, <2>2 DEF FactInv, FactsOrdered, ActiveStands, InactiveRests
<1>2. FactInv /\ [FactNext]_factVars => FactInv'
  <2> SUFFICES ASSUME FactInv, [FactNext]_factVars PROVE FactInv'
    OBVIOUS
  <2>1. ASSUME NEW r \in TransferRules, RegisterTransferRule(r) PROVE FactInv'
    <3>1. rule \in {NoRule, r} /\ rule' = r /\ UNCHANGED <<facts, active, subjectVersion>>
      BY <2>1 DEF RegisterTransferRule
    <3> QED
      BY <3>1 DEF FactInv, FactTypeOK, FactsOrdered, ActiveStands, InactiveRests, Issuable
  <2>2. ASSUME NEW s \in Subjects, NEW v \in SubjectVersions, NEW status \in FactStatuses,
               NEW deps \in SUBSET active, NEW transferable \in BOOLEAN,
               Issue(s, v, status, deps, transferable)
        PROVE  FactInv'
    <3>1. PICK fact : fact = [subject |-> s, version |-> v, status |-> status, deps |-> deps,
                              transferable |-> transferable]
      OBVIOUS
    <3>2. v \in Nat /\ deps \in SUBSET Nat
      BY EarnedFactsAssumption DEF SubjectVersions, FactInv, FactTypeOK
    <3>3. fact \in EarnedFact
      BY <3>1, <3>2 DEF EarnedFact
    <3>4. Issues(fact)
      BY <2>2, <3>1 DEF Issue
    <3> QED
      BY <3>3, <3>4, IssuesStep
  <2>3. ASSUME NEW s \in Subjects, NEW v \in SubjectVersions, MutateSubject(s, v) PROVE FactInv'
    <3>1. v \in Nat
      BY EarnedFactsAssumption DEF SubjectVersions
    <3> QED
      BY <2>3, <3>1, MutateSubjectStep
  <2>4. ASSUME NEW s \in Subjects, NEW v \in SubjectVersions, NEW i \in DOMAIN facts,
               NEW validated \in BOOLEAN, Transfer(i, s, v, validated)
        PROVE  FactInv'
    <3>1. PICK old : old = facts[i]
      OBVIOUS
    <3>2. PICK fact : fact = [old EXCEPT !.subject = s, !.version = v, !.deps = @ \cup {i}]
      OBVIOUS
    <3>3. old \in EarnedFact /\ i \in Nat /\ v \in Nat
      BY <3>1, EarnedFactsAssumption DEF SubjectVersions, FactInv, FactTypeOK
    <3>4. fact \in EarnedFact
      BY <3>2, <3>3 DEF EarnedFact
    <3>5. Issues(fact)
      BY <2>4, <3>1, <3>2 DEF Transfer
    <3> QED
      BY <3>4, <3>5, IssuesStep
  <2>5. CASE UNCHANGED factVars
    BY <2>5 DEF factVars, FactInv, FactTypeOK, FactsOrdered, ActiveStands, InactiveRests, Issuable
  <2>6. ASSUME FactNext PROVE FactInv'
    <3>1. {"lower_bound", "exact", "exact_negative"} \subseteq FactStatuses
      BY DEF FactStatuses
    <3>2. \A deps \in {{}} \cup {{i} : i \in active} : deps \in SUBSET active
      OBVIOUS
    <3> QED
      BY <2>1, <2>2, <2>3, <2>4, <2>6, <3>1, <3>2 DEF FactNext
  <2> QED
    BY <2>5, <2>6
<1>3. FactInv => FactsStandOnActive
  <2> SUFFICES ASSUME FactInv PROVE FactsStandOnActive
    OBVIOUS
  <2>1. ASSUME NEW s \in Subjects, NEW v \in SubjectVersions, Lookup(s, v).kind = "hit"
        PROVE  LET i == Lookup(s, v).fact
               IN  facts[i].version = v /\ {i} \cup facts[i].deps \subseteq active
    BY <2>1, LookupFinds DEF FactInv, ActiveStands
  <2> QED
    BY <2>1 DEF FactInv, ActiveStands, InactiveRests, FactsStandOnActive
<1> QED
    BY <1>1, <1>2, <1>3, PTL DEF FactSpec

-----------------------------------------------------------------------------
\* The account book.

AccountInv ==
    /\ exact \subseteq headers /\ \A h \in headers : h.version \in Nat
    /\ AccountsResolve

\* A header that may be recorded is added, and none is lost.
LEMMA RecordAdds ==
    ASSUME NEW header, NEW from, RecordHeader(header, from)
    PROVE  /\ headers' = headers \cup {header} /\ residuals' = residuals
           /\ exact' = exact \cup (IF from \in headers THEN {header} ELSE {})
BY DEF RecordHeader, Recordable

\* What the book holds it holds for good, so what named it still does.
LEMMA RecordKeeps ==
    ASSUME AccountInv, NEW header, NEW from, RecordHeader(header, from),
           header.version \in Nat, from = OpenedFrom(header),
           from # NoHeader => Required(from),
           header.version # 0 =>
                header.prior.id = header.id /\ header.prior.version = header.version - 1,
           header.version # 0 => header.origin = header.prior.origin
    PROVE  AccountInv'
<1>1. /\ headers' = headers \cup {header} /\ residuals' = residuals
      /\ exact' = exact \cup (IF from \in headers THEN {header} ELSE {})
    BY RecordAdds
<1>2. ASSUME NEW h \in headers'
      PROVE  /\ h.version \in Nat
             /\ OpenedFrom(h) # NoHeader =>
                    \E g \in headers' : g.id = OpenedFrom(h).id /\ g.version = OpenedFrom(h).version
             /\ h.version # 0 => h.prior.id = h.id /\ h.prior.version = h.version - 1
             /\ h \in exact' => OpenedFrom(h) \in headers'
             /\ h \in exact' /\ h.version # 0 => h.origin = h.prior.origin
  <2>1. CASE h = header
    <3>1. /\ h.version \in Nat /\ OpenedFrom(h) = from
          /\ h.version # 0 => h.prior.id = h.id /\ h.prior.version = h.version - 1
          /\ h.version # 0 => h.origin = h.prior.origin
      BY <2>1
    <3>2. from # NoHeader =>
            \E g \in headers' : g.id = from.id /\ g.version = from.version
      BY <1>1 DEF Required
    <3>3. h \in exact' => from \in headers'
      BY <1>1, <2>1 DEF AccountInv, AccountsResolve
    <3> QED
      BY <3>1, <3>2, <3>3
  <2>2. CASE h \in headers /\ h # header
    BY <1>1, <2>2 DEF AccountInv, AccountsResolve, Required
  <2> QED
    BY <1>1, <2>1, <2>2
<1>3. /\ \A r \in residuals' :
            /\ \E h \in headers' : h.id = r.account /\ h.version = r.version
            /\ r.parents \subseteq residuals'
            /\ r.status = "active" <=> r.parents = {}
    BY <1>1 DEF AccountInv, AccountsResolve
<1>4. exact' \subseteq headers'
    BY <1>1 DEF AccountInv
<1>5. AccountsResolve'
    BY <1>2, <1>3 DEF AccountsResolve, Required, OpenedFrom
<1> QED
    BY <1>2, <1>4, <1>5 DEF AccountInv

\* An account of its own, opened from nothing or from a header the caller passed.
LEMMA OpenAccountStep ==
    ASSUME AccountInv, NEW kind, NEW scope, NEW from, from # NoHeader => Required(from),
           NEW witness,
           RecordHeader(Header(AccountId(kind, scope, from), AccountId(kind, scope, from), 0,
                               NoHeader, witness), from)
    PROVE  AccountInv'
<1> DEFINE h == Header(AccountId(kind, scope, from), AccountId(kind, scope, from), 0,
                       NoHeader, witness)
<1>1. h.id.from = from /\ h.version = 0
    BY DEF Header, AccountId
<1>2. OpenedFrom(h) = from
    BY <1>1 DEF OpenedFrom
<1>3. RecordHeader(h, from)
    OBVIOUS
<1> HIDE DEF h
<1> QED
    BY <1>1, <1>2, <1>3, RecordKeeps

\* The next version of the account that a header passed by the caller names.
LEMMA OpenVersionStep ==
    ASSUME AccountInv, NEW h, NEW witness, OpenVersion(h, witness)
    PROVE  AccountInv'
<1> DEFINE n == Header(h.id, h.origin, h.version + 1, h, witness)
<1>1. /\ n.id = h.id /\ n.origin = h.origin /\ n.version = h.version + 1 /\ n.prior = h
    BY DEF Header
<1>2. RecordHeader(n, h) /\ Required(h)
    BY DEF OpenVersion
<1> HIDE DEF n
<1>3. h.version \in Nat
    BY <1>2 DEF AccountInv, Required
<1>4. n.version \in Nat /\ n.version # 0 /\ h.version = n.version - 1
    BY <1>1, <1>3
<1>5. OpenedFrom(n) = h
    BY <1>1, <1>4 DEF OpenedFrom
<1> QED
    BY <1>1, <1>2, <1>4, <1>5, RecordKeeps

\* A residual registered against a version in the book, with parents or without.
LEMMA ResidualStep ==
    ASSUME AccountInv, NEW h, Required(h), NEW statement, NEW status,
           NEW parents \in SUBSET residuals, status = "active" <=> parents = {},
           residuals' = residuals \cup {[account |-> h.id, version |-> h.version,
                statement |-> statement, status |-> status, parents |-> parents]},
           headers' = headers, exact' = exact
    PROVE  AccountInv'
<1>1. PICK new : new = [account |-> h.id, version |-> h.version, statement |-> statement,
                        status |-> status, parents |-> parents]
    OBVIOUS
<1>2. /\ new.account = h.id /\ new.version = h.version /\ new.status = status
      /\ new.parents = parents /\ residuals' = residuals \cup {new}
    BY <1>1
<1>3. \A r \in residuals' :
        /\ \E g \in headers' : g.id = r.account /\ g.version = r.version
        /\ r.parents \subseteq residuals'
        /\ r.status = "active" <=> r.parents = {}
    BY <1>2 DEF AccountInv, AccountsResolve, Required
<1> QED
    BY <1>3 DEF AccountInv, AccountsResolve, Required, OpenedFrom

\* For any book, and whatever headers callers pass: every account, version and residual
\* names an account and version that the book holds, and what was opened from a header of
\* the book that very header (accounts.py).
THEOREM AccountsLineage == AccountSpec => []AccountsResolve
<1>1. AccountInit => AccountInv
    BY DEF AccountInit, AccountInv, AccountsResolve
<1>2. AccountInv /\ [AccountNext]_accountVars => AccountInv'
  <2> SUFFICES ASSUME AccountInv, [AccountNext]_accountVars PROVE AccountInv'
    OBVIOUS
  <2>1. ASSUME NEW w \in Witnesses, NEW s \in Scopes, OpenRoot(s, w) PROVE AccountInv'
    BY <2>1, OpenAccountStep DEF OpenRoot
  <2>2. ASSUME NEW w \in Witnesses, NEW s \in Scopes, NEW h, NEW kind, OpenFrom(kind, h, s, w)
        PROVE  AccountInv'
    BY <2>2, OpenAccountStep DEF OpenFrom
  <2>3. ASSUME NEW w \in Witnesses, NEW h, OpenVersion(h, w) PROVE AccountInv'
    BY <2>3, OpenVersionStep
  <2>4. ASSUME NEW w \in Witnesses, NEW h, RegisterResidual(h, w) PROVE AccountInv'
    BY <2>4, ResidualStep DEF RegisterResidual
  <2>5. ASSUME NEW w \in Witnesses, NEW h, NEW r \in residuals,
               NEW status \in {"discharged", "reopened"}, TransitionResidual({r}, h, w, status)
        PROVE  AccountInv'
    <3>1. {r} \in SUBSET residuals /\ {r} # {} /\ status # "active"
      OBVIOUS
    <3>2. PICK parents : parents = {r}
      OBVIOUS
    <3> QED
      BY <2>5, <3>1, <3>2, ResidualStep DEF TransitionResidual
  <2>6. CASE UNCHANGED accountVars
    BY <2>6 DEF accountVars, AccountInv, AccountsResolve, Required, OpenedFrom
  <2> QED
    BY <2>1, <2>2, <2>3, <2>4, <2>5, <2>6 DEF AccountNext
<1>3. AccountInv => AccountsResolve
    BY DEF AccountInv
<1> QED
    BY <1>1, <1>2, <1>3, PTL DEF AccountSpec

-----------------------------------------------------------------------------
\* Continuations.

ContinuationInv ==
    /\ invalid \subseteq states /\ forked \subseteq states
    /\ \A s \in forked : \A parent \in s.parents :
         /\ parent \in states
         /\ <<parent.producer, parent.version, parent.epoch>> = <<s.producer, s.version, s.epoch>>
         /\ parent \in invalid => s \in invalid

\* For any states that callers put, and any depth of forks: what is served of a branch the
\* store took is served of its parent, under the same producer, version and epoch
\* (feedback.py).
THEOREM BranchesHold == ContinuationSpec => []BranchesFollowParents
<1>1. ContinuationInit => ContinuationInv
    BY DEF ContinuationInit, ContinuationInv
<1>2. ContinuationInv /\ [ContinuationNext]_continuationVars => ContinuationInv'
  <2> SUFFICES ASSUME ContinuationInv, [ContinuationNext]_continuationVars
               PROVE  ContinuationInv'
    OBVIOUS
  <2>1. ASSUME NEW p, NEW n, NEW b, NEW parents, PutState(p, n, n, b, parents)
        PROVE  ContinuationInv'
    BY <2>1 DEF PutState, Holds, ContinuationInv
  <2>2. ASSUME NEW s \in states, NEW branch \in Branches, Fork(s, branch)
        PROVE  ContinuationInv'
    <3>1. PICK fork : fork = Forked(s, branch)
      OBVIOUS
    <3>2. /\ fork.parents = {s} /\ fork.producer = s.producer
          /\ fork.version = s.version /\ fork.epoch = s.epoch
      BY <3>1 DEF Forked, Continuation
    <3>3. /\ states' = states \cup {fork} /\ forked' = forked \cup {fork}
          /\ invalid' = invalid /\ s \notin invalid
      BY <2>2, <3>1 DEF Fork, Holds
    <3>4. ASSUME NEW t \in forked', NEW parent \in t.parents
          PROVE  /\ parent \in states'
                 /\ <<parent.producer, parent.version, parent.epoch>>
                      = <<t.producer, t.version, t.epoch>>
                 /\ parent \in invalid' => t \in invalid'
      <4>1. CASE t = fork
        BY <3>2, <3>3, <3>4, <4>1
      <4>2. CASE t \in forked
        BY <3>3, <3>4, <4>2 DEF ContinuationInv
      <4> QED
        BY <3>3, <4>1, <4>2
    <3> QED
      BY <3>3, <3>4 DEF ContinuationInv
  <2>3. ASSUME NEW p \in Producers, InvalidateProducer(p) PROVE ContinuationInv'
    BY <2>3 DEF InvalidateProducer, ContinuationInv
  <2>4. CASE UNCHANGED continuationVars
    BY <2>4 DEF continuationVars, ContinuationInv
  <2> QED
    BY <2>1, <2>2, <2>3, <2>4 DEF ContinuationNext
<1>3. ContinuationInv => BranchesFollowParents
    BY DEF ContinuationInv, BranchesFollowParents, Gets
<1> QED
    BY <1>1, <1>2, <1>3, PTL DEF ContinuationSpec

-----------------------------------------------------------------------------
\* Mechanics.

Versions == [vector : Vectors, by : {"register", "revise", "support"}]
MechanicInv == mechanic \in Seq(Versions) /\ ChangesAreImplicated

\* The version in use is one of them.
LEMMA CurrentTyped ==
    ASSUME MechanicInv, mechanic # <<>> PROVE CurrentMechanic.vector \in Vectors
<1>1. PICK versions \in Seq(Versions) : versions = mechanic
    BY DEF MechanicInv
<1>2. Len(versions) \in 1..Len(versions)
    BY <1>1
<1>3. versions[Len(versions)] \in Versions
    BY <1>1, <1>2
<1> QED
    BY <1>1, <1>3 DEF CurrentMechanic, Versions

\* One more version, registered by a caller or explained by an assessment against the
\* current one.
LEMMA RegistersStep ==
    ASSUME MechanicInv, NEW vector \in Vectors, NEW by \in {"register", "revise", "support"},
           Registers(vector, by),
           by # "register" =>
                /\ mechanic # <<>>
                /\ \E a \in assessments :
                    /\ BindsCurrent(a)
                    /\ {c \in Channels : vector[c] # CurrentMechanic.vector[c]}
                          \subseteq ImplicatedChannels(a)
                    /\ by = "support" <=> ExactMatch(a)
    PROVE  MechanicInv'
<1> DEFINE N == Len(mechanic)
<1>1. N \in Nat /\ mechanic \in Seq(Versions)
    BY DEF MechanicInv
<1>2. PICK new : new = [vector |-> vector, by |-> by]
    OBVIOUS
<1>3. new \in Versions /\ new.vector = vector /\ new.by = by
    BY <1>2 DEF Versions
<1>4. mechanic' = Append(mechanic, new) /\ assessments' = assessments
    BY <1>2 DEF Registers
<1>5. /\ mechanic' \in Seq(Versions) /\ Len(mechanic') = N + 1
      /\ mechanic'[N + 1] = new /\ \A n \in 1..N : mechanic'[n] = mechanic[n]
    BY <1>1, <1>3, <1>4
<1>6. ASSUME NEW n \in 1..Len(mechanic'), mechanic'[n].by # "register"
      PROVE  /\ n # 1
             /\ LET v == mechanic'[n]
                    old == mechanic'[n - 1]
                    changed == {c \in Channels : v.vector[c] # old.vector[c]}
                IN  \E b \in assessments' :
                        /\ b.prediction = old.vector
                        /\ changed \subseteq ImplicatedChannels(b)
                        /\ v.by = "support" <=> ExactMatch(b)
  <2>1. CASE n = N + 1
    <3>1. by # "register" /\ mechanic # <<>>
      BY <1>3, <1>5, <1>6, <2>1
    <3>2. N # 0 /\ N \in 1..N /\ mechanic'[n - 1] = CurrentMechanic
      BY <1>1, <1>5, <2>1, <3>1 DEF CurrentMechanic
    <3>3. PICK a \in assessments :
            /\ BindsCurrent(a)
            /\ {c \in Channels : vector[c] # CurrentMechanic.vector[c]} \subseteq ImplicatedChannels(a)
            /\ by = "support" <=> ExactMatch(a)
      BY <3>1
    <3> QED
      BY <1>1, <1>3, <1>4, <1>5, <2>1, <3>2, <3>3 DEF BindsCurrent
  <2>2. CASE n # N + 1
    <3>1. n \in 1..N
      BY <1>1, <1>5, <2>2
    <3>2. mechanic'[n] = mechanic[n] /\ mechanic[n].by # "register"
      BY <1>5, <1>6, <3>1
    <3>3. n # 1 /\ n - 1 \in 1..N
      BY <1>1, <3>1, <3>2 DEF MechanicInv, ChangesAreImplicated
    <3>4. mechanic'[n - 1] = mechanic[n - 1]
      BY <1>5, <3>3
    <3> QED
      BY <1>4, <3>1, <3>2, <3>3, <3>4 DEF MechanicInv, ChangesAreImplicated
  <2> QED
    BY <2>1, <2>2
<1> QED
    BY <1>4, <1>5, <1>6 DEF MechanicInv, ChangesAreImplicated, ImplicatedChannels, ExactMatch

\* For any channels and vectors, and whatever callers register themselves: a repair differs
\* from the version before it only in channels an assessment of that prediction found wrong,
\* and support repeats a prediction observed whole (learning.py).
THEOREM RepairsImplicated == MechanicSpec => []ChangesAreImplicated
<1>1. MechanicInit => MechanicInv
    BY DEF MechanicInit, MechanicInv, ChangesAreImplicated
<1>2. MechanicInv /\ [MechanicNext]_mechanicVars => MechanicInv'
  <2> SUFFICES ASSUME MechanicInv, [MechanicNext]_mechanicVars PROVE MechanicInv'
    OBVIOUS
  <2>1. ASSUME NEW v \in Vectors, RegisterMechanic(v) PROVE MechanicInv'
    BY <2>1, RegistersStep DEF RegisterMechanic
  <2>2. ASSUME NEW v \in Vectors, NEW expected \in Vectors, AssessMechanic(expected, v)
        PROVE  MechanicInv'
    <3>1. PICK b : b = Assessment(expected, v)
      OBVIOUS
    <3>2. mechanic' = mechanic /\ assessments' = assessments \cup {b}
      BY <2>2, <3>1 DEF AssessMechanic
    <3> QED
      BY <3>2 DEF MechanicInv, ChangesAreImplicated, ImplicatedChannels, ExactMatch
  <2>3. ASSUME NEW a \in assessments, SupportMechanic(a) PROVE MechanicInv'
    <3>1. CurrentMechanic.vector \in Vectors
      BY <2>3, CurrentTyped DEF SupportMechanic
    <3>2. PICK w \in Vectors : w = CurrentMechanic.vector
      BY <3>1
    <3>3. /\ mechanic # <<>> /\ BindsCurrent(a) /\ ExactMatch(a) /\ Registers(w, "support")
      BY <2>3, <3>2 DEF SupportMechanic
    <3>4. {c \in Channels : w[c] # CurrentMechanic.vector[c]} \subseteq ImplicatedChannels(a)
      BY <3>2
    <3> QED
      BY <3>3, <3>4, RegistersStep
  <2>4. ASSUME NEW a \in assessments, NEW r \in [ImplicatedChannels(a) -> ChannelValues],
               ReviseImplicated(a, r)
        PROVE  MechanicInv'
    <3> DEFINE w == [c \in Channels |->
                        IF c \in DOMAIN r THEN r[c] ELSE CurrentMechanic.vector[c]]
    <3>2. CurrentMechanic.vector \in Vectors
      BY <2>4, CurrentTyped DEF ReviseImplicated
    <3>3. w \in Vectors
      BY <3>2 DEF Vectors
    <3>4. {c \in Channels : w[c] # CurrentMechanic.vector[c]} \subseteq ImplicatedChannels(a)
      OBVIOUS
    <3>5. /\ mechanic # <<>> /\ BindsCurrent(a) /\ ~ExactMatch(a) /\ Registers(w, "revise")
      BY <2>4 DEF ReviseImplicated, ExactMatch
    <3> HIDE DEF w
    <3> QED
      BY <3>3, <3>4, <3>5, RegistersStep
  <2>5. CASE UNCHANGED mechanicVars
    BY <2>5 DEF mechanicVars, MechanicInv, ChangesAreImplicated, ImplicatedChannels, ExactMatch
  <2> QED
    BY <2>1, <2>2, <2>3, <2>4, <2>5 DEF MechanicNext
<1>3. MechanicInv => ChangesAreImplicated
    BY DEF MechanicInv
<1> QED
    BY <1>1, <1>2, <1>3, PTL DEF MechanicSpec

-----------------------------------------------------------------------------
\* Planning.

\* The estimated total of a seen node; a node is open while its best entry is in the heap.
Est(n) == bestCost[n] + problem.estimate[n]
Queued(n) == n \in DOMAIN bestCost /\ <<Est(n), bestCost[n], n>> \in frontier

SearchTypeOK ==
    /\ problem \in [cost : [Arcs -> EdgeCosts], estimate : Heuristics, ceiling : Ceilings]
    /\ DOMAIN bestCost \in SUBSET SearchNodes
    /\ bestCost \in [DOMAIN bestCost -> Nat]
    /\ cameFrom \in [DOMAIN bestCost \ {StartNode} -> DOMAIN bestCost]
    /\ frontier \in SUBSET (Nat \X Nat \X SearchNodes)
    /\ \A e \in frontier : e[3] \in DOMAIN bestCost /\ e[1] = e[2] + problem.estimate[e[3]]

\* What a node cost is at least what its parent costs now and the edge between them.
ParentsReach ==
    /\ StartNode \in DOMAIN bestCost /\ bestCost[StartNode] = 0
    /\ \A n \in DOMAIN cameFrom :
        /\ n \in Successors(cameFrom[n])
        /\ bestCost[cameFrom[n]] + problem.cost[<<cameFrom[n], n>>] <= bestCost[n]

\* A node that is not open has relaxed its edges, and is no goal.
Settled(n) ==
    /\ n \notin GoalNodes
    /\ \A m \in Successors(n) :
        m \in DOMAIN bestCost /\ bestCost[m] <= bestCost[n] + problem.cost[<<n, m>>]
ClosedSettled == \A n \in DOMAIN bestCost : Queued(n) \/ Settled(n)

\* The nodes on the path kept to n: the least set with n and its members' parents.
OnPath(n) ==
    {a \in DOMAIN bestCost :
        \A S \in SUBSET DOMAIN bestCost :
            n \in S /\ (\A b \in S : b \in DOMAIN cameFrom => cameFrom[b] \in S) => a \in S}

\* The walks of the graph, by their ends and their cost: the least relation that has the
\* empty ones and is closed under going one edge before.
WalkClosed(R) ==
    /\ \A n \in SearchNodes : <<n, n, 0>> \in R
    /\ \A n \in SearchNodes : \A m \in Successors(n) : \A z \in SearchNodes : \A w \in Nat :
         <<m, z, w>> \in R => <<n, z, problem.cost[<<n, m>>] + w>> \in R
Walks ==
    {t \in SearchNodes \X SearchNodes \X Nat :
        \A R \in SUBSET (SearchNodes \X SearchNodes \X Nat) : WalkClosed(R) => t \in R}

\* A node on the path to an open one that may still be reached better from another open
\* one is not estimated above both, and if it is open, not as high as the first.
LateIsWorse ==
    \A x \in DOMAIN bestCost : Queued(x) => \A p \in OnPath(x) :
        /\ p # x /\ Queued(p) => Est(p) < Est(x)
        /\ \A c \in DOMAIN bestCost, w \in Nat :
             /\ Queued(c) /\ <<c, p, w>> \in Walks
             /\ bestCost[c] + w < bestCost[p]
             => Est(p) <= Est(x) \/ Est(p) <= Est(c)

SearchGoesOn == SearchTypeOK /\ ParentsReach /\ ClosedSettled /\ LateIsWorse
SearchInv ==
    /\ found = Searching => SearchGoesOn
    /\ SearchIsOptimal

-----------------------------------------------------------------------------
\* Edges have positive costs, nodes have estimates.
LEMMA ProblemTyped ==
    ASSUME SearchTypeOK
    PROVE  /\ \A n \in SearchNodes : problem.estimate[n] \in Nat
           /\ \A n \in SearchNodes : Successors(n) \subseteq SearchNodes
           /\ \A n \in SearchNodes : \A m \in Successors(n) :
                problem.cost[<<n, m>>] \in Nat /\ problem.cost[<<n, m>>] > 0
<1>1. problem.cost \in [Arcs -> EdgeCosts] /\ problem.estimate \in Heuristics
    BY DEF SearchTypeOK
<1>2. problem.estimate \in [SearchNodes -> Nat]
    BY <1>1, BoundedSearchAssumption
<1>3. \A a \in Arcs : problem.cost[a] \in Nat
    BY <1>1, BoundedSearchAssumption
<1> QED
    BY <1>2, <1>3 DEF Successors

\* The least entry of the heap.
LEMMA LeastFirst ==
    ASSUME SearchTypeOK, frontier # {}
    PROVE  /\ Least \in frontier
           /\ \A d \in frontier : Least[1] <= d[1]
<1>1. \A e \in frontier : e[1] \in Nat /\ e[2] \in Nat /\ e[3] \in Nat
                          /\ e = <<e[1], e[2], e[3]>>
    BY BoundedSearchAssumption DEF SearchTypeOK
<1> DEFINE A == {e[1] : e \in frontier}
<1>2. PICK a \in A : \A y \in A : a <= y
  <2>1. A \in SUBSET Nat /\ A # {}
    BY <1>1
  <2> HIDE DEF A
  <2> QED
    BY <2>1, LeastOf
<1> DEFINE F == {e \in frontier : e[1] = a}
           B == {e[2] : e \in F}
<1>3. PICK b \in B : \A y \in B : b <= y
  <2>1. B \in SUBSET Nat /\ B # {}
    BY <1>1
  <2> HIDE DEF B
  <2> QED
    BY <2>1, LeastOf
<1> DEFINE G == {e \in F : e[2] = b}
           C == {e[3] : e \in G}
<1>4. PICK c \in C : \A y \in C : c <= y
  <2>1. C \in SUBSET Nat /\ C # {}
    BY <1>1
  <2> HIDE DEF C
  <2> QED
    BY <2>1, LeastOf
<1>5. PICK e \in frontier : e[1] = a /\ e[2] = b /\ e[3] = c
    OBVIOUS
<1>6. ASSUME NEW d \in frontier \ {e} PROVE Before(e, d)
  <2>1. a <= d[1] /\ (d[1] = a => b <= d[2]) /\ (d[1] = a /\ d[2] = b => c <= d[3])
    BY <1>2, <1>3, <1>4
  <2>2. ~(d[1] = a /\ d[2] = b /\ d[3] = c)
    BY <1>1, <1>5, <1>6
  <2> QED
    BY <1>1, <1>5, <1>6, <2>1, <2>2 DEF Before
<1>7. Least \in frontier /\ \A d \in frontier \ {Least} : Before(Least, d)
    BY <1>6 DEF Least
<1> QED
    BY <1>1, <1>7 DEF Before

\* What is on a path: its end, the parents of what is on it, nothing that a closed set
\* around the end leaves out; and nothing dearer than the end.
LEMMA PathOwn ==
    ASSUME SearchTypeOK, NEW n \in DOMAIN bestCost
    PROVE  /\ OnPath(n) \subseteq DOMAIN bestCost /\ n \in OnPath(n)
           /\ \A b \in OnPath(n) : b \in DOMAIN cameFrom => cameFrom[b] \in OnPath(n)
  BY DEF OnPath, SearchTypeOK

\* A set that holds the end and the parents of its members holds the path.
LEMMA PathWithin ==
    ASSUME NEW n \in DOMAIN bestCost, NEW S \in SUBSET DOMAIN bestCost, n \in S,
           \A b \in S : b \in DOMAIN cameFrom => cameFrom[b] \in S
    PROVE  OnPath(n) \subseteq S
  BY DEF OnPath

\* Nothing on a path costs more than its end.
LEMMA PathCheaper ==
    ASSUME SearchTypeOK, ParentsReach, NEW n \in DOMAIN bestCost
    PROVE  \A a \in OnPath(n) : bestCost[a] <= bestCost[n]
<1> DEFINE S == {a \in DOMAIN bestCost : bestCost[a] <= bestCost[n]}
<1>1. \A b \in S : b \in DOMAIN cameFrom => cameFrom[b] \in S
  <2> SUFFICES ASSUME NEW b \in S, b \in DOMAIN cameFrom PROVE cameFrom[b] \in S
    OBVIOUS
  <2>1. cameFrom[b] \in DOMAIN bestCost /\ cameFrom[b] \in SearchNodes
    BY DEF SearchTypeOK
  <2>2. /\ bestCost[cameFrom[b]] + problem.cost[<<cameFrom[b], b>>] <= bestCost[b]
        /\ b \in Successors(cameFrom[b])
    BY DEF ParentsReach
  <2>3. problem.cost[<<cameFrom[b], b>>] \in Nat
    BY <2>1, <2>2, ProblemTyped
  <2>4. bestCost[cameFrom[b]] \in Nat /\ bestCost[b] \in Nat /\ bestCost[n] \in Nat
    BY <2>1 DEF SearchTypeOK
  <2> QED
    BY <2>1, <2>2, <2>3, <2>4
<1>2. n \in S
    BY DEF SearchTypeOK
<1> HIDE DEF S
<1>3. S \in SUBSET DOMAIN bestCost
    BY DEF S
<1>4. OnPath(n) \subseteq S
    BY <1>1, <1>2, <1>3, PathWithin
<1> QED
    BY <1>4 DEF S

\* Walks: the empty one, and one edge more.
LEMMA WalkSteps ==
    ASSUME SearchTypeOK
    PROVE  /\ \A n \in SearchNodes : <<n, n, 0>> \in Walks
           /\ \A n \in SearchNodes : \A m \in Successors(n) : \A z \in SearchNodes :
                \A w \in Nat :
                  <<m, z, w>> \in Walks => <<n, z, problem.cost[<<n, m>>] + w>> \in Walks
           /\ \A n \in SearchNodes : \A m \in Successors(n) :
                <<n, m, problem.cost[<<n, m>>]>> \in Walks
<1>1. \A n \in SearchNodes : <<n, n, 0>> \in Walks
    BY DEF Walks, WalkClosed
<1>2. ASSUME NEW n \in SearchNodes, NEW m \in Successors(n), NEW z \in SearchNodes,
             NEW w \in Nat, <<m, z, w>> \in Walks
      PROVE  <<n, z, problem.cost[<<n, m>>] + w>> \in Walks
  <2>1. problem.cost[<<n, m>>] + w \in Nat
    BY ProblemTyped
  <2>2. \A R \in SUBSET (SearchNodes \X SearchNodes \X Nat) :
          WalkClosed(R) => <<n, z, problem.cost[<<n, m>>] + w>> \in R
    BY <1>2 DEF Walks, WalkClosed
  <2> QED
    BY <2>1, <2>2 DEF Walks
<1>3. ASSUME NEW n \in SearchNodes, NEW m \in Successors(n)
      PROVE  <<n, m, problem.cost[<<n, m>>]>> \in Walks
  <2>1. m \in SearchNodes /\ problem.cost[<<n, m>>] \in Nat
    BY ProblemTyped
  <2>2. <<n, m, problem.cost[<<n, m>>] + 0>> \in Walks
    BY <1>1, <1>2, <2>1
  <2> QED
    BY <2>1, <2>2
<1> QED
    BY <1>1, <1>2, <1>3

-----------------------------------------------------------------------------
\* An entry overtaken by a better one is nobody's best.
LEMMA PassOverStep == ASSUME SearchGoesOn, PassOver PROVE SearchGoesOn'
<1>1. /\ frontier' = frontier \ {Least} /\ Least[2] # bestCost[Least[3]]
      /\ problem' = problem /\ bestCost' = bestCost /\ cameFrom' = cameFrom
    BY DEF PassOver
<1>2. \A n : (Queued(n)' <=> Queued(n)) /\ Est(n)' = Est(n)
    BY <1>1 DEF Queued, Est
<1>3. Walks' = Walks /\ \A n : OnPath(n)' = OnPath(n)
    BY <1>1 DEF Walks, WalkClosed, Successors, OnPath
<1>4. SearchTypeOK'
    BY <1>1 DEF SearchGoesOn, SearchTypeOK
<1>5. ParentsReach'
    BY <1>1 DEF SearchGoesOn, ParentsReach, Successors
<1>6. ClosedSettled'
    BY <1>1, <1>2 DEF SearchGoesOn, ClosedSettled, Settled, Successors
<1>7. LateIsWorse'
    BY <1>1, <1>2, <1>3 DEF SearchGoesOn, LateIsWorse
<1> QED
    BY <1>4, <1>5, <1>6, <1>7 DEF SearchGoesOn

\* What is popped as a node's best entry.
LEMMA Popped ==
    ASSUME SearchGoesOn, frontier # {}, Least[2] = bestCost[Least[3]]
    PROVE  /\ Least[3] \in DOMAIN bestCost /\ Least[3] \in SearchNodes
           /\ Least = <<Est(Least[3]), bestCost[Least[3]], Least[3]>> /\ Queued(Least[3])
           /\ Est(Least[3]) \in Nat
           /\ \A n \in DOMAIN bestCost : Queued(n) => Est(Least[3]) <= Est(n)
           /\ \A p \in OnPath(Least[3]) : p # Least[3] => ~Queued(p)
<1>1. Least \in frontier /\ \A d \in frontier : Least[1] <= d[1]
    BY LeastFirst DEF SearchGoesOn
<1>2. /\ Least[1] \in Nat /\ Least[2] \in Nat /\ Least[3] \in SearchNodes
      /\ Least = <<Least[1], Least[2], Least[3]>>
      /\ Least[3] \in DOMAIN bestCost /\ Least[1] = Least[2] + problem.estimate[Least[3]]
    BY <1>1 DEF SearchGoesOn, SearchTypeOK
<1>3. Est(Least[3]) = Least[1]
    BY <1>2 DEF Est
<1>4. Queued(Least[3]) /\ Least = <<Est(Least[3]), bestCost[Least[3]], Least[3]>>
    BY <1>1, <1>2, <1>3 DEF Queued
<1>5. \A n \in DOMAIN bestCost : Queued(n) => Est(Least[3]) <= Est(n)
    BY <1>1, <1>3 DEF Queued
<1>6. \A n \in DOMAIN bestCost : Est(n) \in Nat
  <2>1. \A n \in DOMAIN bestCost : n \in SearchNodes /\ bestCost[n] \in Nat
    BY DEF SearchGoesOn, SearchTypeOK
  <2>2. \A n \in SearchNodes : problem.estimate[n] \in Nat
    BY ProblemTyped DEF SearchGoesOn
  <2> QED
    BY <2>1, <2>2 DEF Est
<1>7. ASSUME NEW p \in OnPath(Least[3]), p # Least[3], Queued(p) PROVE FALSE
  <2>1. Est(p) < Est(Least[3]) /\ p \in DOMAIN bestCost
    BY <1>2, <1>4, <1>7 DEF SearchGoesOn, LateIsWorse, OnPath
  <2> QED
    BY <1>2, <1>5, <1>6, <1>7, <2>1
<1> QED
    BY <1>2, <1>3, <1>4, <1>5, <1>7

\* A node expanded: its edges are relaxed, and who is reached better is open again.
LEMMA ExpandStep == ASSUME SearchGoesOn, Expand PROVE SearchGoesOn'
<1>1. PICK y : y = Least[3]
    OBVIOUS
<1>2. PICK B : B = {m \in Successors(y) : Improves(m, Least[2] + problem.cost[<<y, m>>])}
    OBVIOUS
<1>3. /\ frontier # {} /\ Least[2] = bestCost[y] /\ y \notin GoalNodes
      /\ problem' = problem
    BY <1>1 DEF Expand
<1>4. /\ bestCost' = [m \in DOMAIN bestCost \cup B |->
                        IF m \in B THEN bestCost[y] + problem.cost[<<y, m>>] ELSE bestCost[m]]
      /\ cameFrom' = [m \in DOMAIN cameFrom \cup B |-> IF m \in B THEN y ELSE cameFrom[m]]
      /\ frontier' = (frontier \ {Least})
                       \cup {<<bestCost[y] + problem.cost[<<y, m>>] + problem.estimate[m],
                              bestCost[y] + problem.cost[<<y, m>>], m>> : m \in B}
    BY <1>1, <1>2, <1>3 DEF Expand
<1>5. /\ y \in DOMAIN bestCost /\ y \in SearchNodes /\ Queued(y) /\ Est(y) \in Nat
      /\ Least = <<Est(y), bestCost[y], y>>
      /\ \A n \in DOMAIN bestCost : Queued(n) => Est(y) <= Est(n)
      /\ \A p \in OnPath(y) : p # y => ~Queued(p)
    BY <1>1, <1>3, Popped
<1> DEFINE D == DOMAIN bestCost
           h(n) == problem.estimate[n]
           k(m) == problem.cost[<<y, m>>]
<1>6. /\ D \subseteq SearchNodes /\ \A n \in D : bestCost[n] \in Nat
      /\ DOMAIN cameFrom = D \ {StartNode}
      /\ \A n \in DOMAIN cameFrom : cameFrom[n] \in D
    BY DEF SearchGoesOn, SearchTypeOK
<1>7. /\ \A n \in SearchNodes : h(n) \in Nat
      /\ \A m \in Successors(y) : m \in SearchNodes /\ k(m) \in Nat /\ k(m) > 0
    BY <1>5, ProblemTyped DEF SearchGoesOn
<1>8. /\ B \subseteq Successors(y)
      /\ \A m \in Successors(y) : m \in B <=> m \notin D \/ bestCost[y] + k(m) < bestCost[m]
    BY <1>2, <1>3 DEF Improves
<1>9. y \notin B /\ StartNode \notin B /\ StartNode \in D /\ bestCost[StartNode] = 0
  <2>1. StartNode \in D /\ bestCost[StartNode] = 0
    BY DEF SearchGoesOn, ParentsReach
  <2>2. ASSUME NEW n \in D \cap B PROVE bestCost[y] < bestCost[n] /\ bestCost[n] > 0
    <3>1. /\ bestCost[y] + k(n) < bestCost[n] /\ k(n) \in Nat /\ k(n) > 0
          /\ bestCost[y] \in Nat /\ bestCost[n] \in Nat
      BY <1>5, <1>6, <1>7, <1>8
    <3> HIDE DEF k
    <3> QED
      BY <3>1
  <2>3. bestCost[y] \in Nat
    BY <1>5, <1>6
  <2> QED
    BY <1>5, <2>1, <2>2, <2>3
\* What the variables become, node by node.
<1>10. /\ DOMAIN bestCost' = D \cup B /\ DOMAIN cameFrom' = (D \cup B) \ {StartNode}
       /\ \A m \in B : bestCost'[m] = bestCost[y] + k(m) /\ cameFrom'[m] = y
       /\ \A n \in D \ B : bestCost'[n] = bestCost[n]
       /\ \A n \in DOMAIN cameFrom \ B : cameFrom'[n] = cameFrom[n]
       /\ \A n \in D \cup B : bestCost'[n] \in Nat
       /\ \A n \in D : bestCost'[n] <= bestCost[n]
       /\ \A m \in B \cap D : bestCost'[m] < bestCost[m]
  <2>1. /\ DOMAIN bestCost' = D \cup B
        /\ \A m \in B : bestCost'[m] = bestCost[y] + k(m) /\ cameFrom'[m] = y
        /\ \A n \in D \ B : bestCost'[n] = bestCost[n]
        /\ \A n \in DOMAIN cameFrom \ B : cameFrom'[n] = cameFrom[n]
    BY <1>4
  <2>2. DOMAIN cameFrom' = (D \cup B) \ {StartNode}
    BY <1>4, <1>6, <1>9
  <2>3. ASSUME NEW m \in B
        PROVE  bestCost'[m] \in Nat /\ (m \in D => bestCost'[m] < bestCost[m])
    <3>1. /\ bestCost'[m] = bestCost[y] + k(m) /\ k(m) \in Nat /\ bestCost[y] \in Nat
          /\ m \in D => bestCost[y] + k(m) < bestCost[m]
      BY <1>5, <1>6, <1>7, <1>8, <2>1
    <3> HIDE DEF k
    <3> QED
      BY <3>1
  <2>4. ASSUME NEW n \in D PROVE bestCost'[n] \in Nat /\ bestCost'[n] <= bestCost[n]
    <3>1. bestCost[n] \in Nat
      BY <1>6
    <3> QED
      BY <2>1, <2>3, <3>1
  <2> QED
    BY <2>1, <2>2, <2>3, <2>4
<1>11. \A n : Est(n)' = bestCost'[n] + h(n)
    BY <1>3 DEF Est
<1>12. /\ \A n \in D \ B : Est(n)' = Est(n)
       /\ \A m \in B \cap D : Est(m)' < Est(m)
       /\ \A n \in D : Est(n) \in Nat
       /\ \A n \in D \cup B : Est(n)' \in Nat
  <2>1. \A n \in D \cup B : h(n) \in Nat
    BY <1>6, <1>7, <1>8
  <2>2. \A n \in D : Est(n) = bestCost[n] + h(n)
    BY DEF Est
  <2> HIDE DEF h
  <2>3. \A n \in D \ B : Est(n)' = Est(n)
    BY <1>10, <1>11, <2>2
  <2>4. ASSUME NEW n \in D
        PROVE  Est(n) \in Nat /\ Est(n)' \in Nat /\ (n \in B => Est(n)' < Est(n))
    <3>1. /\ bestCost[n] \in Nat /\ bestCost'[n] \in Nat /\ h(n) \in Nat
          /\ n \in B => bestCost'[n] < bestCost[n]
      BY <1>6, <1>10, <2>1
    <3> QED
      BY <1>11, <2>2, <3>1
  <2>5. ASSUME NEW n \in B PROVE Est(n)' \in Nat
    <3>1. bestCost'[n] \in Nat /\ h(n) \in Nat
      BY <1>10, <2>1
    <3> QED
      BY <1>11, <3>1
  <2> QED
    BY <2>3, <2>4, <2>5
<1>13. \A m \in B : Queued(m)'
    BY <1>3, <1>4, <1>10 DEF Queued, Est
<1>14. \A n \in D \ B : Queued(n)' <=> Queued(n) /\ n # y
  <2> SUFFICES ASSUME NEW n \in D \ B PROVE Queued(n)' <=> Queued(n) /\ n # y
    OBVIOUS
  <2>1. Queued(n)' <=> <<Est(n), bestCost[n], n>> \in frontier'
    BY <1>10, <1>12 DEF Queued
  <2>2. <<Est(n), bestCost[n], n>> \in frontier' <=>
            <<Est(n), bestCost[n], n>> \in frontier /\ <<Est(n), bestCost[n], n>> # Least
    BY <1>4
  <2>3. <<Est(n), bestCost[n], n>> = Least <=> n = y
    BY <1>5
  <2> QED
    BY <2>1, <2>2, <2>3 DEF Queued
<1>15. SearchTypeOK'
  <2>1. bestCost' \in [DOMAIN bestCost' -> Nat] /\ DOMAIN bestCost' \in SUBSET SearchNodes
    BY <1>4, <1>6, <1>7, <1>8, <1>10
  <2>2. cameFrom' \in [DOMAIN bestCost' \ {StartNode} -> DOMAIN bestCost']
    BY <1>4, <1>5, <1>6, <1>9, <1>10
  <2>3. ASSUME NEW e \in frontier'
        PROVE  /\ e \in Nat \X Nat \X SearchNodes /\ e[3] \in DOMAIN bestCost'
               /\ e[1] = e[2] + problem.estimate[e[3]]
    <3>1. CASE e \in frontier
      BY <1>10, <3>1 DEF SearchGoesOn, SearchTypeOK
    <3>2. CASE e \notin frontier
      <4>1. PICK m \in B : e = <<bestCost[y] + k(m) + h(m), bestCost[y] + k(m), m>>
        BY <1>4, <3>2
      <4>2. /\ bestCost[y] \in Nat /\ k(m) \in Nat /\ h(m) \in Nat /\ m \in SearchNodes
        BY <1>5, <1>6, <1>7, <1>8
      <4> HIDE DEF k, h
      <4>3. /\ e \in Nat \X Nat \X SearchNodes /\ e[3] = m /\ e[1] = e[2] + h(m)
        BY <4>1, <4>2
      <4> QED
        BY <1>10, <4>3 DEF h
    <3> QED
      BY <3>1, <3>2
  <2> QED
    BY <1>3, <2>1, <2>2, <2>3 DEF SearchGoesOn, SearchTypeOK
<1>16. ParentsReach'
  <2>1. ASSUME NEW n \in DOMAIN cameFrom'
        PROVE  /\ n \in Successors(cameFrom'[n])
               /\ bestCost'[cameFrom'[n]] + problem.cost[<<cameFrom'[n], n>>] <= bestCost'[n]
    <3>1. CASE n \in B
      <4>1. /\ cameFrom'[n] = y /\ bestCost'[n] = bestCost[y] + k(n)
            /\ bestCost'[y] = bestCost[y] /\ n \in Successors(y)
        BY <1>5, <1>8, <1>9, <1>10, <3>1
      <4>2. bestCost[y] \in Nat /\ k(n) \in Nat
        BY <1>5, <1>6, <1>7, <4>1
      <4> QED
        BY <4>1, <4>2
    <3>2. CASE n \notin B
      <4>1. PICK q : q = cameFrom[n]
        OBVIOUS
      <4>2. /\ n \in DOMAIN cameFrom /\ cameFrom'[n] = q /\ n \in Successors(q) /\ q \in D
            /\ bestCost[q] + problem.cost[<<q, n>>] <= bestCost[n] /\ bestCost'[n] = bestCost[n]
        BY <1>6, <1>10, <2>1, <3>2, <4>1 DEF SearchGoesOn, ParentsReach
      <4>3. problem.cost[<<q, n>>] \in Nat
        BY <1>6, <4>2, ProblemTyped DEF SearchGoesOn
      <4>4. bestCost'[q] <= bestCost[q] /\ bestCost'[q] \in Nat /\ bestCost[q] \in Nat
            /\ bestCost[n] \in Nat
        BY <1>6, <1>10, <2>1, <3>2, <4>2
      <4> QED
        BY <4>2, <4>3, <4>4
    <3> QED
      BY <3>1, <3>2
  <2> QED
    BY <1>3, <1>9, <1>10, <2>1 DEF ParentsReach, Successors
<1>17. ClosedSettled'
  <2> SUFFICES ASSUME NEW n \in D \cup B, ~Queued(n)' PROVE Settled(n)'
    BY <1>10 DEF ClosedSettled
  <2>1. n \in D \ B
    BY <1>13
  <2>2. CASE n = y
    <3>1. ASSUME NEW m \in Successors(y)
          PROVE  m \in D \cup B /\ bestCost'[m] <= bestCost[y] + k(m)
      <4>1. CASE m \in B
        BY <1>5, <1>6, <1>7, <1>10, <4>1
      <4>2. CASE m \notin B
        <5>1. m \in D /\ ~(bestCost[y] + k(m) < bestCost[m]) /\ bestCost'[m] = bestCost[m]
          BY <1>8, <1>10, <3>1, <4>2
        <5>2. bestCost[m] \in Nat /\ bestCost[y] \in Nat /\ k(m) \in Nat
          BY <1>5, <1>6, <1>7, <5>1
        <5> HIDE DEF k
        <5> QED
          BY <5>1, <5>2
      <4> QED
        BY <4>1, <4>2
    <3> QED
      BY <1>3, <1>5, <1>9, <1>10, <2>2, <3>1 DEF Settled, Successors
  <2>3. CASE n # y
    <3>1. Settled(n)
      BY <1>14, <2>1, <2>3 DEF SearchGoesOn, ClosedSettled
    <3>2. ASSUME NEW m \in Successors(n)
          PROVE  m \in D \cup B /\ bestCost'[m] <= bestCost'[n] + problem.cost[<<n, m>>]
      <4>1. m \in D /\ bestCost[m] <= bestCost[n] + problem.cost[<<n, m>>]
        BY <3>1 DEF Settled
      <4>2. problem.cost[<<n, m>>] \in Nat
        BY <1>6, <2>1, ProblemTyped DEF SearchGoesOn
      <4>3. /\ bestCost'[m] \in Nat /\ bestCost[m] \in Nat /\ bestCost[n] \in Nat
            /\ bestCost'[m] <= bestCost[m] /\ bestCost'[n] = bestCost[n]
        BY <1>6, <1>10, <2>1, <4>1
      <4> QED
        BY <4>1, <4>2, <4>3
    <3> QED
      BY <1>3, <1>10, <3>1, <3>2 DEF Settled, Successors
  <2> QED
    BY <2>2, <2>3
\* The paths change only below y, and lead through it.
<1>18. \A p \in OnPath(y) : p \in D \ B /\ ~Queued(p)' /\ bestCost[p] <= bestCost[y]
  <2> SUFFICES ASSUME NEW p \in OnPath(y)
               PROVE  p \in D \ B /\ ~Queued(p)' /\ bestCost[p] <= bestCost[y]
    OBVIOUS
  <2>1. p \in D /\ bestCost[p] <= bestCost[y]
    BY <1>5, PathOwn, PathCheaper DEF SearchGoesOn
  <2>2. ASSUME p \in B PROVE FALSE
    <3>1. bestCost[y] + k(p) < bestCost[p] /\ k(p) \in Nat /\ k(p) > 0
      BY <1>7, <1>8, <2>1, <2>2
    <3>2. bestCost[p] \in Nat /\ bestCost[y] \in Nat
      BY <1>5, <1>6, <2>1
    <3> HIDE DEF k
    <3> QED
      BY <2>1, <3>1, <3>2
  <2>3. p \in D \ B /\ ~Queued(p)'
    BY <1>5, <1>14, <2>1, <2>2
  <2> QED
    BY <2>1, <2>3
<1>19. ASSUME NEW x \in B PROVE OnPath(x)' \subseteq {x} \cup OnPath(y)
  <2>1. {x} \cup OnPath(y) \in SUBSET (D \cup B)
    BY <1>18
  <2>2. \A b \in {x} \cup OnPath(y) :
          b \in DOMAIN cameFrom' => cameFrom'[b] \in {x} \cup OnPath(y)
    <3>1. y \in OnPath(y) /\ \A b \in OnPath(y) : b \in DOMAIN cameFrom => cameFrom[b] \in OnPath(y)
      BY <1>5, PathOwn DEF SearchGoesOn
    <3>2. \A b \in OnPath(y) : b \in DOMAIN cameFrom' =>
              b \in DOMAIN cameFrom \ B /\ cameFrom'[b] = cameFrom[b]
      BY <1>6, <1>10, <1>18
    <3> QED
      BY <1>10, <3>1, <3>2
  <2> QED
    BY <1>10, <2>1, <2>2 DEF OnPath
<1>20. ASSUME NEW x \in D \ B PROVE OnPath(x)' \subseteq OnPath(x) \cup OnPath(y)
  <2>1. OnPath(x) \cup OnPath(y) \in SUBSET (D \cup B) /\ x \in OnPath(x)
    BY <1>18, PathOwn DEF SearchGoesOn
  <2>2. \A b \in OnPath(x) \cup OnPath(y) :
          b \in DOMAIN cameFrom' => cameFrom'[b] \in OnPath(x) \cup OnPath(y)
    <3>1. /\ y \in OnPath(y) /\ OnPath(x) \subseteq D
          /\ \A b \in OnPath(y) : b \in DOMAIN cameFrom => cameFrom[b] \in OnPath(y)
          /\ \A b \in OnPath(x) : b \in DOMAIN cameFrom => cameFrom[b] \in OnPath(x)
      BY <1>5, PathOwn DEF SearchGoesOn
    <3>2. \A b \in D : b \in DOMAIN cameFrom' =>
              b \in DOMAIN cameFrom /\ (b \notin B => cameFrom'[b] = cameFrom[b])
      BY <1>6, <1>10
    <3> QED
      BY <1>10, <1>18, <3>1, <3>2
  <2>3. PICK S : S = OnPath(x) \cup OnPath(y)
    OBVIOUS
  <2>4. /\ S \in SUBSET (D \cup B) /\ x \in S
        /\ \A b \in S : b \in DOMAIN cameFrom' => cameFrom'[b] \in S
    BY <2>1, <2>2, <2>3
  <2>5. OnPath(x)' \subseteq S
    BY <1>10, <2>4 DEF OnPath
  <2> QED
    BY <2>3, <2>5
<1>21. Walks' = Walks
    BY <1>3 DEF Walks, WalkClosed, Successors
\* An open node's path, seen from y: y is open and least, so what may be reached better
\* from it is not estimated above the open node.
<1>22. ASSUME NEW x \in D, Queued(x), NEW p \in OnPath(x), NEW w \in Nat,
              <<y, p, w>> \in Walks, bestCost[y] + w < bestCost[p]
       PROVE  Est(p) <= Est(x)
  <2>1. Est(p) <= Est(x) \/ Est(p) <= Est(y)
    BY <1>5, <1>22 DEF SearchGoesOn, LateIsWorse
  <2>2. Est(y) <= Est(x) /\ Est(x) \in Nat /\ Est(y) \in Nat /\ p \in D
    BY <1>5, <1>12, <1>22, PathOwn DEF SearchGoesOn
  <2> QED
    BY <1>12, <2>1, <2>2
<1>23. LateIsWorse'
  <2> SUFFICES ASSUME NEW x \in D \cup B, Queued(x)', NEW p \in OnPath(x)'
               PROVE  /\ p # x /\ Queued(p)' => Est(p)' < Est(x)'
                      /\ \A c \in D \cup B, w \in Nat :
                           /\ Queued(c)' /\ <<c, p, w>> \in Walks
                           /\ bestCost'[c] + w < bestCost'[p]
                           => Est(p)' <= Est(x)' \/ Est(p)' <= Est(c)'
    BY <1>10, <1>21 DEF LateIsWorse
  <2>1. CASE p \in OnPath(y)
    <3>1. /\ p \in D \ B /\ ~Queued(p)' /\ bestCost[p] <= bestCost[y]
          /\ bestCost'[p] = bestCost[p] /\ Est(p)' = Est(p)
          /\ bestCost[p] \in Nat /\ bestCost[y] \in Nat
      BY <1>5, <1>6, <1>10, <1>12, <1>18, <2>1
    <3>2. ASSUME NEW c \in D \cup B, NEW w \in Nat, Queued(c)', <<c, p, w>> \in Walks,
                 bestCost'[c] + w < bestCost'[p]
          PROVE  Est(p)' <= Est(c)'
      <4>1. CASE c \in B
        <5>1. bestCost'[c] = bestCost[y] + k(c) /\ k(c) \in Nat
          BY <1>7, <1>8, <1>10, <4>1
        <5> HIDE DEF k
        <5> QED
          BY <3>1, <3>2, <5>1
      <4>2. CASE c \notin B
        <5>1. c \in D /\ Queued(c) /\ bestCost'[c] = bestCost[c] /\ Est(c)' = Est(c)
          BY <1>10, <1>12, <1>14, <3>2, <4>2
        <5>2. Est(p) <= Est(y) \/ Est(p) <= Est(c)
          BY <1>5, <2>1, <3>1, <3>2, <5>1 DEF SearchGoesOn, LateIsWorse
        <5>3. Est(y) <= Est(c) /\ Est(y) \in Nat /\ Est(c) \in Nat /\ Est(p) \in Nat
          BY <1>5, <1>12, <3>1, <5>1
        <5> QED
          BY <3>1, <5>1, <5>2, <5>3
      <4> QED
        BY <4>1, <4>2
    <3> QED
      BY <3>1, <3>2
  <2>2. CASE p = x
    <3>1. Est(x)' \in Nat
      BY <1>12
    <3> QED
      BY <2>2, <3>1
  <2>3. CASE p \notin OnPath(y) /\ p # x
    <3>1. x \in D \ B
      BY <1>19, <2>3
    <3>2. Queued(x) /\ Est(x)' = Est(x) /\ Est(x) \in Nat
      BY <1>12, <1>14, <3>1
    <3>3. p \in OnPath(x) /\ p \in D
      BY <1>20, <2>3, <3>1, PathOwn DEF SearchGoesOn
    <3>4. CASE p \in B
      <4>1. /\ p \in Successors(y) /\ k(p) \in Nat /\ bestCost[y] + k(p) < bestCost[p]
        BY <1>7, <1>8, <3>3, <3>4
      <4>2. <<y, p, k(p)>> \in Walks
        BY <1>5, <4>1, WalkSteps DEF SearchGoesOn
      <4>3. Est(p) <= Est(x)
        BY <1>22, <3>1, <3>2, <3>3, <4>1, <4>2
      <4>4. Est(p)' < Est(p) /\ Est(p) \in Nat /\ Est(p)' \in Nat
        BY <1>12, <3>3, <3>4
      <4> QED
        BY <3>2, <4>3, <4>4
    <3>5. CASE p \notin B
      <4>1. Est(p)' = Est(p) /\ bestCost'[p] = bestCost[p] /\ (Queued(p)' => Queued(p))
        BY <1>10, <1>12, <1>14, <3>3, <3>5
      <4>2. p # x /\ Queued(p)' => Est(p)' < Est(x)'
        BY <3>1, <3>2, <3>3, <4>1 DEF SearchGoesOn, LateIsWorse
      <4>3. ASSUME NEW c \in D \cup B, NEW w \in Nat, Queued(c)', <<c, p, w>> \in Walks,
                   bestCost'[c] + w < bestCost'[p]
            PROVE  Est(p)' <= Est(x)' \/ Est(p)' <= Est(c)'
        <5>1. CASE c \in B
          <6>1. bestCost'[c] = bestCost[y] + k(c) /\ k(c) \in Nat /\ c \in Successors(y)
            BY <1>7, <1>8, <1>10, <5>1
          <6>2. <<y, p, k(c) + w>> \in Walks
            <7>1. p \in SearchNodes
              BY <1>6, <3>3
            <7> QED
              BY <1>5, <4>3, <6>1, <7>1, WalkSteps DEF SearchGoesOn
          <6>3. k(c) + w \in Nat /\ bestCost[y] + (k(c) + w) < bestCost[p]
            <7>1. bestCost[y] \in Nat /\ bestCost[p] \in Nat
              BY <1>5, <1>6, <3>3
            <7> HIDE DEF k
            <7> QED
              BY <4>1, <4>3, <6>1, <7>1
          <6>4. Est(p) <= Est(x)
            BY <1>22, <3>1, <3>2, <3>3, <6>2, <6>3
          <6> QED
            BY <3>2, <4>1, <6>4
        <5>2. CASE c \notin B
          <6>1. c \in D /\ Queued(c) /\ bestCost'[c] = bestCost[c] /\ Est(c)' = Est(c)
            BY <1>10, <1>12, <1>14, <4>3, <5>2
          <6>2. Est(p) <= Est(x) \/ Est(p) <= Est(c)
            BY <3>1, <3>2, <3>3, <4>1, <4>3, <6>1 DEF SearchGoesOn, LateIsWorse
          <6> QED
            BY <3>2, <4>1, <6>1, <6>2
        <5> QED
          BY <5>1, <5>2
      <4> QED
        BY <4>2, <4>3
    <3> QED
      BY <3>4, <3>5
  <2> QED
    BY <2>1, <2>2, <2>3
<1> QED
  BY <1>15, <1>16, <1>17, <1>23 DEF SearchGoesOn
-----------------------------------------------------------------------------
\* Finitely many naturals have a bound.
LEMMA FiniteBound ==
    ASSUME NEW S, IsFiniteSet(S), NEW f \in [S -> Nat]
    PROVE  \E b \in Nat : \A x \in S : f[x] <= b
<1>1a. PICK n \in Nat : ExistsBijection(1..n, S)
  BY FS_NatBijection
<1>1. PICK g \in [1..n -> S] : \A x \in S : \E i \in 1..n : g[i] = x
  BY <1>1a DEF ExistsBijection, Bijection, Surjection
<1> DEFINE T == {k \in Nat : k <= n /\ ~ \E b \in Nat : \A i \in 1..k : f[g[i]] <= b}
<1>2. ASSUME T # {} PROVE FALSE
  <2>1. PICK k \in T : \A y \in T : k <= y
    BY <1>2, LeastOf
  <2>2. CASE k = 0
    BY <2>1, <2>2
  <2>3. CASE k # 0
    <3>0. k \in Nat /\ k <= n
      BY <2>1
    <3>1. k - 1 \in Nat /\ k - 1 <= n /\ k - 1 \notin T /\ k \in 1..n
      <4> HIDE DEF T
      <4> QED
        BY <2>1, <2>3, <3>0
    <3>2. PICK b \in Nat : \A i \in 1..(k - 1) : f[g[i]] <= b
      BY <3>1
    <3>3. PICK a \in Nat : a = f[g[k]]
      BY <1>1, <3>1
    <3>4. \A i \in 1..k : f[g[i]] \in Nat
      BY <1>1, <3>1
    <3>5. \A i \in 1..k : f[g[i]] <= b + a
      BY <3>1, <3>2, <3>3, <3>4
    <3>6. b + a \in Nat
      OBVIOUS
    <3> QED
      BY <2>1, <3>5, <3>6
  <2> QED
    BY <2>2, <2>3
<1>3. n \notin T
  <2> HIDE DEF T
  <2> QED
    BY <1>2
<1>4. PICK b \in Nat : \A i \in 1..n : f[g[i]] <= b
  <2>1. n <= n
    OBVIOUS
  <2> QED
    BY <1>3, <2>1
<1> QED
  BY <1>1, <1>4

\* walk of PathCost, where n costs at most b.
Walked(f, b) ==
    /\ f \in [DOMAIN bestCost -> Nat]
    /\ \A n \in DOMAIN bestCost : bestCost[n] <= b =>
         f[n] = IF n \in DOMAIN cameFrom
                THEN f[cameFrom[n]] + problem.cost[<<cameFrom[n], n>>] ELSE 0

\* There is such a walk back: costs fall towards the start.
LEMMA WalkedExists ==
    ASSUME SearchTypeOK, ParentsReach, NEW b \in Nat
    PROVE  \E f : Walked(f, b)
<1> DEFINE D == DOMAIN bestCost
           T == {k \in Nat : ~ \E f : Walked(f, k)}
           k(n) == problem.cost[<<cameFrom[n], n>>]
<1>0. \A n \in DOMAIN cameFrom :
        /\ n \in D /\ cameFrom[n] \in D /\ k(n) \in Nat
        /\ bestCost[cameFrom[n]] \in Nat /\ bestCost[n] \in Nat
        /\ bestCost[cameFrom[n]] < bestCost[n]
  <2> SUFFICES ASSUME NEW n \in DOMAIN cameFrom
               PROVE  /\ n \in D /\ cameFrom[n] \in D /\ k(n) \in Nat
                      /\ bestCost[cameFrom[n]] \in Nat /\ bestCost[n] \in Nat
                      /\ bestCost[cameFrom[n]] < bestCost[n]
    OBVIOUS
  <2>1. n \in D /\ cameFrom[n] \in D /\ cameFrom[n] \in SearchNodes
    BY DEF SearchTypeOK
  <2>2. bestCost[cameFrom[n]] + k(n) <= bestCost[n] /\ n \in Successors(cameFrom[n])
    BY DEF ParentsReach
  <2>3. k(n) \in Nat /\ k(n) > 0
    BY <2>1, <2>2, ProblemTyped
  <2>4. bestCost[cameFrom[n]] \in Nat /\ bestCost[n] \in Nat
    BY <2>1 DEF SearchTypeOK
  <2> HIDE DEF k
  <2> QED
    BY <2>1, <2>2, <2>3, <2>4
<1>1. ASSUME T # {} PROVE FALSE
  <2>1. PICK l \in T : \A y \in T : l <= y
    BY <1>1, LeastOf
  <2>2. PICK f \in [D -> Nat] :
          \A n \in D : bestCost[n] < l =>
             f[n] = IF n \in DOMAIN cameFrom THEN f[cameFrom[n]] + k(n) ELSE 0
    <3>1. CASE l = 0
      <4>1. [n \in D |-> 0] \in [D -> Nat] /\ \A n \in D : ~(bestCost[n] < l)
        BY <3>1 DEF SearchTypeOK
      <4> QED
        BY <4>1
    <3>2. CASE l # 0
      <4>1. l - 1 \in Nat /\ l - 1 \notin T
        BY <2>1, <3>2
      <4>2. PICK f : Walked(f, l - 1)
        BY <4>1
      <4>3. \A n \in D : bestCost[n] < l => bestCost[n] <= l - 1
        BY <2>1 DEF SearchTypeOK
      <4> QED
        BY <4>2, <4>3 DEF Walked
    <3> QED
      BY <3>1, <3>2
  <2> DEFINE next(n) == IF n \in DOMAIN cameFrom THEN f[cameFrom[n]] + k(n) ELSE 0
             g == [n \in D |-> IF bestCost[n] < l THEN f[n] ELSE next(n)]
  <2>3. \A n \in D : next(n) \in Nat
    BY <1>0
  <2>4. g \in [D -> Nat]
    <3> HIDE DEF next
    <3> QED
      BY <2>3
  <2>5. ASSUME NEW n \in D, bestCost[n] <= l
        PROVE  g[n] = IF n \in DOMAIN cameFrom THEN g[cameFrom[n]] + k(n) ELSE 0
    <3>1. n \in DOMAIN cameFrom => cameFrom[n] \in D /\ bestCost[cameFrom[n]] < l
      <4>1. l \in Nat
        BY <2>1
      <4> HIDE DEF T, k, next, g
      <4> QED
        BY <1>0, <2>5, <4>1
    <3>2. n \in DOMAIN cameFrom => g[cameFrom[n]] = f[cameFrom[n]]
      BY <3>1
    <3>3. g[n] = next(n)
      BY <2>2
    <3> QED
      BY <3>2, <3>3
  <2>6. Walked(g, l)
    <3> HIDE DEF g
    <3> QED
      BY <2>4, <2>5 DEF Walked
  <2> QED
    BY <2>1, <2>6
<1> QED
  BY <1>1

\* PathCost is the sum it says, of every seen node.
LEMMA PathCostIs ==
    ASSUME SearchTypeOK, ParentsReach
    PROVE  \E f : /\ \A n \in SearchNodes : PathCost(n) = f[n]
                  /\ \A n \in DOMAIN bestCost :
                        f[n] = IF n \in DOMAIN cameFrom
                               THEN f[cameFrom[n]] + problem.cost[<<cameFrom[n], n>>] ELSE 0
<1> DEFINE D == DOMAIN bestCost
           E(f) == [n \in SearchNodes |->
                      IF n \in DOMAIN cameFrom
                      THEN f[cameFrom[n]] + problem.cost[<<cameFrom[n], n>>] ELSE 0]
           F == CHOOSE f : f = E(f)
<1>1. D \subseteq SearchNodes /\ DOMAIN cameFrom \subseteq D
      /\ \A n \in DOMAIN cameFrom : cameFrom[n] \in D
  BY DEF SearchTypeOK
<1>2. PICK b \in Nat : \A n \in D : bestCost[n] <= b
  <2>1. IsFiniteSet(D)
    BY <1>1, BoundedSearchAssumption, FS_Subset
  <2> QED
    BY <2>1, FiniteBound DEF SearchTypeOK
<1>3. PICK f : Walked(f, b)
  BY WalkedExists
<1>4. \E h : h = E(h)
  <2> DEFINE h == [n \in SearchNodes |-> IF n \in D THEN f[n] ELSE 0]
  <2>1. ASSUME NEW n \in SearchNodes
        PROVE  h[n] = IF n \in DOMAIN cameFrom
                      THEN h[cameFrom[n]] + problem.cost[<<cameFrom[n], n>>] ELSE 0
    <3>1. CASE n \in D
      <4>1. f[n] = IF n \in DOMAIN cameFrom
                   THEN f[cameFrom[n]] + problem.cost[<<cameFrom[n], n>>] ELSE 0
        BY <1>2, <1>3, <3>1 DEF Walked
      <4>2. n \in DOMAIN cameFrom => h[cameFrom[n]] = f[cameFrom[n]]
        BY <1>1
      <4> QED
        BY <3>1, <4>1, <4>2
    <3>2. CASE n \notin D
      BY <1>1, <3>2
    <3> QED
      BY <3>1, <3>2
  <2>2. h = [n \in SearchNodes |-> h[n]]
    OBVIOUS
  <2> HIDE DEF h
  <2>3. h = E(h)
    BY <2>1, <2>2
  <2> QED
    BY <2>3
<1>5. F = E(F)
  <2> HIDE DEF E
  <2> QED
    BY <1>4
<1>6. \A n \in SearchNodes : PathCost(n) = F[n]
  BY DEF PathCost
<1> HIDE DEF F
<1>7. \A n \in D : F[n] = IF n \in DOMAIN cameFrom
                          THEN F[cameFrom[n]] + problem.cost[<<cameFrom[n], n>>] ELSE 0
  BY <1>1, <1>5
<1> QED
  BY <1>6, <1>7

\* Where a path is settled all the way, each node on it costs what the path does.
LEMMA PathTight ==
    ASSUME SearchGoesOn, NEW y \in DOMAIN bestCost,
           \A p \in OnPath(y) : p # y => ~Queued(p)
    PROVE  PathCost(y) = bestCost[y]
<1> DEFINE D == DOMAIN bestCost
<1>1. PICK f : /\ \A n \in SearchNodes : PathCost(n) = f[n]
               /\ \A n \in D : f[n] = IF n \in DOMAIN cameFrom
                                      THEN f[cameFrom[n]] + problem.cost[<<cameFrom[n], n>>]
                                      ELSE 0
  BY PathCostIs DEF SearchGoesOn
<1>2. OnPath(y) \subseteq D /\ y \in OnPath(y) /\ \A n \in D : bestCost[n] \in Nat
      /\ D \subseteq SearchNodes
  BY PathOwn DEF SearchGoesOn, SearchTypeOK
<1> DEFINE Wrong == {n \in OnPath(y) : f[n] # bestCost[n]}
           T == {bestCost[n] : n \in Wrong}
<1>3. ASSUME Wrong # {} PROVE FALSE
  <2>1. T \in SUBSET Nat /\ T # {}
    BY <1>2, <1>3
  <2>2. PICK t \in T : \A u \in T : t <= u
    <3> HIDE DEF T
    <3> QED
      BY <2>1, LeastOf
  <2>3. PICK n \in Wrong : \A m \in Wrong : bestCost[n] <= bestCost[m]
    BY <2>2
  <2>4. CASE n \in DOMAIN cameFrom
    <3>1. PICK q : q = cameFrom[n]
      OBVIOUS
    <3>2. q \in OnPath(y) /\ q \in D /\ q \in SearchNodes /\ n \in D
      BY <1>2, <2>3, <2>4, <3>1, PathOwn DEF SearchGoesOn
    <3>3. PICK k \in Nat : k = problem.cost[<<q, n>>] /\ k > 0 /\ n \in Successors(q)
                           /\ bestCost[q] + k <= bestCost[n]
      <4>1. n \in Successors(q) /\ bestCost[q] + problem.cost[<<q, n>>] <= bestCost[n]
        BY <2>4, <3>1 DEF SearchGoesOn, ParentsReach
      <4> QED
        BY <3>2, <4>1, ProblemTyped DEF SearchGoesOn
    <3>4. bestCost[n] <= bestCost[y] /\ bestCost[n] \in Nat /\ bestCost[q] \in Nat
          /\ bestCost[y] \in Nat
      BY <1>2, <2>3, <3>2, PathCheaper DEF SearchGoesOn
    <3>5. q # y
      BY <3>3, <3>4
    <3>6. Settled(q)
      BY <3>2, <3>5 DEF SearchGoesOn, ClosedSettled
    <3>7. bestCost[n] = bestCost[q] + k
      BY <3>3, <3>4, <3>6 DEF Settled
    <3>8. q \notin Wrong
      BY <2>3, <3>3, <3>4
    <3>9. f[n] = f[q] + k
      BY <1>1, <2>4, <3>1, <3>2, <3>3
    <3> QED
      BY <2>3, <3>2, <3>7, <3>8, <3>9
  <2>5. CASE n \notin DOMAIN cameFrom
    <3>1. n = StartNode /\ n \in D
      BY <1>2, <2>3, <2>5 DEF SearchGoesOn, SearchTypeOK
    <3>2. f[n] = 0 /\ bestCost[n] = 0
      BY <1>1, <2>5, <3>1 DEF SearchGoesOn, ParentsReach
    <3> QED
      BY <2>3, <3>2
  <2> QED
    BY <2>4, <2>5
<1> QED
  BY <1>1, <1>2, <1>3

-----------------------------------------------------------------------------
\* costs of WalkCosts, over at most N edges.
StepCosts(C, last, n) ==
    (IF n \in GoalNodes THEN {0} ELSE {})
    \cup (IF last THEN {}
          ELSE UNION {{problem.cost[<<n, m>>] + c : c \in C[m]} : m \in Successors(n)})
Costed(f, N) == f = [k \in 0..N |-> [n \in SearchNodes |-> StepCosts(f[k - 1], k = 0, n)]]

\* There is such a function: one for N rows extends to N + 1.
LEMMA CostedExists == ASSUME NEW N \in Nat PROVE \E f : Costed(f, N)
<1> DEFINE T == {M \in Nat : ~ \E f : Costed(f, M)}
           Row(C, last) == [n \in SearchNodes |-> StepCosts(C, last, n)]
<1> SUFFICES ASSUME T # {} PROVE FALSE
  OBVIOUS
<1>1. PICK M \in T : \A y \in T : M <= y
  BY LeastOf
<1>2. \A C, D : Row(C, TRUE) = Row(D, TRUE)
  BY DEF StepCosts
<1>3. CASE M = 0
  <2> DEFINE f == [k \in 0..0 |-> Row({}, TRUE)]
  <2>1. Costed(f, 0)
    <3>1. ASSUME NEW k \in 0..0 PROVE f[k] = Row(f[k - 1], k = 0)
      <4>1. (k = 0) = TRUE
        OBVIOUS
      <4>2. f[k] = Row({}, TRUE)
        OBVIOUS
      <4> HIDE DEF Row, f
      <4> QED
        BY <1>2, <4>1, <4>2
    <3>2. f = [k \in 0..0 |-> f[k]]
      OBVIOUS
    <3> HIDE DEF f
    <3> QED
      BY <3>1, <3>2 DEF Costed
  <2> QED
    BY <1>1, <1>3, <2>1
<1>4. CASE M # 0
  <2>1. PICK L \in Nat : M = L + 1
    BY <1>1, <1>4
  <2>2. PICK f : Costed(f, L)
    BY <1>1, <2>1
  <2> DEFINE g == [k \in 0..(L + 1) |-> IF k <= L THEN f[k] ELSE Row(f[L], FALSE)]
  <2>3. \A k \in 0..L : f[k] = Row(f[k - 1], k = 0)
    BY <2>2 DEF Costed
  <2>4. ASSUME NEW k \in 0..(L + 1) PROVE g[k] = Row(g[k - 1], k = 0)
    <3> HIDE DEF Row
    <3>1. CASE k = 0
      <4>0. (k = 0) = TRUE /\ k \in 0..L /\ k <= L
        BY <3>1
      <4>1. g[k] = f[k] /\ f[k] = Row(f[k - 1], TRUE)
        <5>1. f[k] = Row(f[k - 1], k = 0)
          BY <2>3, <4>0
        <5>2. g[k] = f[k]
          BY <4>0
        <5> HIDE DEF g
        <5> QED
          BY <4>0, <5>1, <5>2
      <4>2. Row(f[k - 1], TRUE) = Row(g[k - 1], TRUE)
        BY <1>2
      <4> HIDE DEF g
      <4> QED
        BY <4>0, <4>1, <4>2
    <3>2. CASE k # 0 /\ k <= L
      <4>1. k \in 0..L /\ k - 1 \in 0..(L + 1) /\ k - 1 <= L
        BY <3>2
      <4>2. g[k] = f[k] /\ g[k - 1] = f[k - 1]
        BY <3>2, <4>1
      <4> HIDE DEF g
      <4> QED
        BY <2>3, <4>1, <4>2
    <3>3. CASE k = L + 1
      <4>1. k # 0 /\ k - 1 = L /\ L \in 0..(L + 1) /\ L <= L /\ ~(k <= L)
        BY <3>3
      <4>3. (k = 0) = FALSE
        BY <4>1
      <4>2. g[k] = Row(f[L], FALSE) /\ g[k - 1] = f[L]
        BY <4>1
      <4> HIDE DEF g
      <4> QED
        BY <4>2, <4>3
    <3>4. k = 0 \/ (k # 0 /\ k <= L) \/ k = L + 1
      OBVIOUS
    <3> HIDE DEF g
    <3> QED
      BY <3>1, <3>2, <3>3, <3>4
  <2>5. Costed(g, L + 1)
    <3>1. g = [k \in 0..(L + 1) |-> g[k]]
      OBVIOUS
    <3> HIDE DEF g
    <3> QED
      BY <2>4, <3>1 DEF Costed
  <2> QED
    BY <1>1, <2>1, <2>5
<1> QED
  BY <1>3, <1>4

\* WalkCosts by rows, each no less than the one before it.
LEMMA WalkCostsRows ==
    \E f : /\ WalkCosts = f[Cardinality(SearchNodes)]
           /\ \A k \in 0..Cardinality(SearchNodes) : \A n \in SearchNodes :
                 f[k][n] = StepCosts(f[k - 1], k = 0, n)
           /\ \A k \in 0..Cardinality(SearchNodes) : \A n \in SearchNodes :
                 k # 0 => f[k - 1][n] \subseteq f[k][n]
<1>1. PICK N \in Nat : N = Cardinality(SearchNodes)
  BY BoundedSearchAssumption, FS_CardinalityType
<1> DEFINE E(f) == [k \in 0..N |-> [n \in SearchNodes |->
                      (IF n \in GoalNodes THEN {0} ELSE {})
                      \cup (IF k = 0 THEN {}
                            ELSE UNION {{problem.cost[<<n, m>>] + c : c \in f[k - 1][m]}
                                          : m \in Successors(n)})]]
           F == CHOOSE f : f = E(f)
<1>2. \E f : f = E(f)
  BY CostedExists DEF Costed, StepCosts
<1>3. F = E(F)
  <2> HIDE DEF E
  <2> QED
    BY <1>2
<1>4. WalkCosts = F[N]
  BY <1>1 DEF WalkCosts
<1> HIDE DEF F
<1>5. \A k \in 0..N : \A n \in SearchNodes : F[k][n] = StepCosts(F[k - 1], k = 0, n)
  <2>1. \A k \in 0..N : F[k] = E(F)[k]
    BY <1>3
  <2>2. \A k \in 0..N : \A n \in SearchNodes : E(F)[k][n] = StepCosts(F[k - 1], k = 0, n)
    BY DEF StepCosts
  <2> HIDE DEF E
  <2> QED
    BY <2>1, <2>2
<1> HIDE DEF E
<1> DEFINE T == {k \in Nat : k <= N /\ k # 0
                              /\ ~ \A n \in SearchNodes : F[k - 1][n] \subseteq F[k][n]}
<1>6. ASSUME T # {} PROVE FALSE
  <2>1. PICK k \in T : \A j \in T : k <= j
    BY <1>6, LeastOf
  <2>2a. PICK n \in SearchNodes : \E c \in F[k - 1][n] : c \notin F[k][n]
    BY <2>1
  <2>2. PICK c \in F[k - 1][n] : c \notin F[k][n]
    BY <2>2a
  <2>3. k \in 0..N /\ k - 1 \in 0..N /\ k # 0
    BY <2>1
  <2>4. /\ F[k][n] = StepCosts(F[k - 1], FALSE, n)
        /\ F[k - 1][n] = StepCosts(F[(k - 1) - 1], k - 1 = 0, n)
    <3>1. (k = 0) = FALSE
      BY <2>3
    <3> QED
      BY <1>5, <2>3, <3>1
  <2>5. k - 1 # 0 /\ c \in UNION {{problem.cost[<<n, m>>] + d : d \in F[(k - 1) - 1][m]}
                                     : m \in Successors(n)}
    BY <2>2, <2>4 DEF StepCosts
  <2>6a. PICK m \in Successors(n) : \E d \in F[(k - 1) - 1][m] : c = problem.cost[<<n, m>>] + d
    BY <2>5
  <2>6. PICK d \in F[(k - 1) - 1][m] : c = problem.cost[<<n, m>>] + d
    BY <2>6a
  <2>7. k - 1 \in Nat /\ k - 1 <= N /\ k - 1 \notin T
    BY <2>1, <2>3
  <2>8. m \in SearchNodes /\ F[(k - 1) - 1][m] \subseteq F[k - 1][m]
    BY <2>5, <2>7 DEF Successors
  <2> QED
    BY <2>2, <2>4, <2>6, <2>8 DEF StepCosts
<1> QED
  BY <1>1, <1>4, <1>5, <1>6

\* Every walk from a seen node to a goal still has an open node to pass.
LEMMA WalkOpen ==
    ASSUME SearchGoesOn, NEW c \in WalkCosts[StartNode]
    PROVE  \E m \in DOMAIN bestCost : \E d \in WalkCosts[m] :
              Queued(m) /\ c \in Nat /\ d \in Nat /\ bestCost[m] + d <= c
<1> DEFINE D == DOMAIN bestCost
<1>0. PICK f : /\ WalkCosts = f[Cardinality(SearchNodes)]
               /\ \A k \in 0..Cardinality(SearchNodes) : \A n \in SearchNodes :
                     f[k][n] = StepCosts(f[k - 1], k = 0, n)
               /\ \A k \in 0..Cardinality(SearchNodes) : \A n \in SearchNodes :
                     k # 0 => f[k - 1][n] \subseteq f[k][n]
  BY WalkCostsRows
<1>1. PICK N \in Nat : N = Cardinality(SearchNodes)
  BY BoundedSearchAssumption, FS_CardinalityType
<1>2. D \subseteq SearchNodes /\ \A n \in D : bestCost[n] \in Nat
  BY DEF SearchGoesOn, SearchTypeOK
<1> DEFINE Passes(k, n, v) == \E m \in D : \E d \in f[k][m] :
                Queued(m) /\ v \in Nat /\ d \in Nat /\ bestCost[m] + d <= bestCost[n] + v
           T == {k \in Nat : k <= N /\ ~ \A n \in D : \A v \in f[k][n] : Passes(k, n, v)}
           V == {k \in Nat : k <= N /\ ~ \A n \in SearchNodes : f[k][n] \subseteq Nat}
<1>3. ASSUME V # {} PROVE FALSE
  <2>1. PICK k \in V : \A j \in V : k <= j
    BY <1>3, LeastOf
  <2>2a. PICK n \in SearchNodes : \E v \in f[k][n] : v \notin Nat
    BY <2>1
  <2>2. PICK v \in f[k][n] : v \notin Nat
    BY <2>2a
  <2>3. k \in 0..N /\ f[k][n] = StepCosts(f[k - 1], k = 0, n)
    BY <1>0, <1>1, <2>1, <2>2
  <2>4a. PICK m \in Successors(n) : \E u \in f[k - 1][m] : k # 0 /\ v = problem.cost[<<n, m>>] + u
    BY <2>2, <2>3 DEF StepCosts
  <2>4. PICK u \in f[k - 1][m] : k # 0 /\ v = problem.cost[<<n, m>>] + u
    BY <2>4a
  <2>5. k - 1 \in Nat /\ k - 1 <= N /\ k - 1 \notin V
    BY <2>1, <2>4
  <2>6. m \in SearchNodes /\ problem.cost[<<n, m>>] \in Nat /\ u \in Nat
    BY <2>2, <2>4, <2>5, ProblemTyped DEF SearchGoesOn
  <2> QED
    BY <2>2, <2>4, <2>6
<1>4. ASSUME T # {} PROVE FALSE
  <2>1. PICK k \in T : \A j \in T : k <= j
    BY <1>4, LeastOf
  <2>2a. PICK n \in D : \E v \in f[k][n] : ~Passes(k, n, v)
    BY <2>1
  <2>2. PICK v \in f[k][n] : ~Passes(k, n, v)
    BY <2>2a
  <2>3. k \in 0..N /\ n \in SearchNodes /\ v \in Nat /\ bestCost[n] \in Nat
    BY <1>2, <1>3, <2>1, <2>2
  <2>4. ~Queued(n)
    BY <2>2, <2>3
  <2>5. Settled(n)
    BY <2>4 DEF SearchGoesOn, ClosedSettled
  <2>6. f[k][n] = StepCosts(f[k - 1], k = 0, n)
    BY <1>0, <1>1, <2>3
  <2>7a. PICK m \in Successors(n) : \E u \in f[k - 1][m] : k # 0 /\ v = problem.cost[<<n, m>>] + u
    BY <2>2, <2>5, <2>6 DEF StepCosts, Settled
  <2>7. PICK u \in f[k - 1][m] : k # 0 /\ v = problem.cost[<<n, m>>] + u
    BY <2>7a
  <2>8. k - 1 \in Nat /\ k - 1 <= N /\ k - 1 \notin T
    BY <2>1, <2>7
  <2>9. m \in D /\ m \in SearchNodes /\ bestCost[m] <= bestCost[n] + problem.cost[<<n, m>>]
        /\ problem.cost[<<n, m>>] \in Nat
    BY <2>3, <2>5, <2>7, ProblemTyped DEF SearchGoesOn, Settled
  <2>10. Passes(k - 1, m, u)
    BY <2>7, <2>8, <2>9
  <2>11a. PICK z \in D : \E d \in f[k - 1][z] :
           Queued(z) /\ u \in Nat /\ d \in Nat /\ bestCost[z] + d <= bestCost[m] + u
    BY <2>10
  <2>11. PICK d \in f[k - 1][z] :
           Queued(z) /\ u \in Nat /\ d \in Nat /\ bestCost[z] + d <= bestCost[m] + u
    BY <2>11a
  <2>12. d \in f[k][z]
    BY <1>0, <1>1, <1>2, <2>3, <2>7, <2>11
  <2>13. bestCost[z] + d <= bestCost[n] + v
    <3>1. bestCost[z] \in Nat /\ bestCost[m] \in Nat
      BY <1>2, <2>9
    <3> QED
      BY <2>3, <2>7, <2>9, <2>11, <3>1
  <2> QED
    BY <2>2, <2>3, <2>11, <2>12, <2>13
<1>5. N \notin T /\ StartNode \in D /\ bestCost[StartNode] = 0
  BY <1>4 DEF SearchGoesOn, ParentsReach
<1>6. Passes(N, StartNode, c)
  BY <1>0, <1>1, <1>5
<1> QED
  BY <1>0, <1>1, <1>5, <1>6

-----------------------------------------------------------------------------
\* The start is queued, and nothing else is known.
LEMMA InitSearch == SearchInit => SearchInv
<1> SUFFICES ASSUME SearchInit PROVE SearchInv
  OBVIOUS
<1>1. /\ problem \in [cost : [Arcs -> EdgeCosts], estimate : Heuristics, ceiling : Ceilings]
      /\ frontier = {<<problem.estimate[StartNode], 0, StartNode>>}
      /\ bestCost = [n \in {StartNode} |-> 0] /\ DOMAIN bestCost = {StartNode}
      /\ bestCost[StartNode] = 0
      /\ cameFrom = [n \in {} |-> StartNode] /\ DOMAIN cameFrom = {}
  BY DEF SearchInit
<1>2. problem.estimate[StartNode] \in Nat /\ StartNode \in SearchNodes
  BY <1>1, BoundedSearchAssumption
<1>3. SearchTypeOK
  <2>1. cameFrom \in [DOMAIN bestCost \ {StartNode} -> DOMAIN bestCost]
    BY <1>1
  <2>2. \A e \in frontier : /\ e \in Nat \X Nat \X SearchNodes /\ e[3] \in DOMAIN bestCost
                            /\ e[1] = e[2] + problem.estimate[e[3]]
    BY <1>1, <1>2
  <2> QED
    BY <1>1, <1>2, <2>1, <2>2 DEF SearchTypeOK
<1>4. Queued(StartNode)
  BY <1>1, <1>2 DEF Queued, Est
<1>5. ParentsReach /\ ClosedSettled
  BY <1>1, <1>4 DEF ParentsReach, ClosedSettled
<1>6. LateIsWorse
  <2>1. \A x \in DOMAIN bestCost : OnPath(x) \subseteq {StartNode} /\ x = StartNode
    BY <1>1 DEF OnPath
  <2>2. Est(StartNode) \in Nat
    BY <1>1, <1>2 DEF Est
  <2> QED
    BY <1>1, <2>1, <2>2 DEF LateIsWorse
<1>7. SearchIsOptimal
  BY DEF SearchInit, Searching, SearchIsOptimal
<1> QED
  BY <1>3, <1>5, <1>6, <1>7 DEF SearchInv, SearchGoesOn

\* What each way to end answers for.
LEMMA ReachGoalStep == ASSUME SearchGoesOn, ReachGoal PROVE SearchIsOptimal'
<1>1. PICK y : y = Least[3]
  OBVIOUS
<1>2. /\ frontier # {} /\ Least[2] = bestCost[y] /\ y \in GoalNodes
      /\ found' = SearchResult("found", bestCost[y])
      /\ problem' = problem /\ bestCost' = bestCost /\ cameFrom' = cameFrom
  BY <1>1 DEF ReachGoal, Pops
<1>3. /\ y \in DOMAIN bestCost /\ y \in SearchNodes /\ Est(y) \in Nat
      /\ \A n \in DOMAIN bestCost : Queued(n) => Est(y) <= Est(n)
      /\ \A p \in OnPath(y) : p # y => ~Queued(p)
  BY <1>1, <1>2, Popped
<1>4. PathCost(y) = bestCost[y]
  BY <1>2, <1>3, PathTight
<1>5. PathCost(y)' = PathCost(y) /\ WalkCosts' = WalkCosts
  BY <1>2 DEF PathCost, WalkCosts, Successors
<1>6. /\ \A n \in SearchNodes : problem.estimate[n] \in Nat
      /\ \A n \in DOMAIN bestCost : bestCost[n] \in Nat /\ n \in SearchNodes
  BY ProblemTyped DEF SearchGoesOn, SearchTypeOK
<1>7. ASSUME \A n \in SearchNodes : \A c \in WalkCosts[n] : problem.estimate[n] <= c,
             NEW c \in WalkCosts[StartNode]
      PROVE  bestCost[y] <= c
  <2>1a. PICK m \in DOMAIN bestCost : \E d \in WalkCosts[m] :
          Queued(m) /\ c \in Nat /\ d \in Nat /\ bestCost[m] + d <= c
    BY WalkOpen
  <2>1. PICK d \in WalkCosts[m] :
          Queued(m) /\ c \in Nat /\ d \in Nat /\ bestCost[m] + d <= c
    BY <2>1a
  <2>2. problem.estimate[m] <= d
    BY <1>6, <1>7
  <2>3. /\ bestCost[y] + problem.estimate[y] <= bestCost[m] + problem.estimate[m]
        /\ bestCost[y] \in Nat /\ bestCost[m] \in Nat
        /\ problem.estimate[y] \in Nat /\ problem.estimate[m] \in Nat
    BY <1>3, <1>6, <2>1 DEF Est
  <2> QED
    BY <2>1, <2>2, <2>3
<1>8. found'.disposition = "found" /\ found'.total = bestCost[y]
  BY <1>2 DEF SearchResult
<1> QED
  BY <1>2, <1>3, <1>4, <1>5, <1>7, <1>8 DEF SearchIsOptimal

\* A search stopped by a ceiling claims nothing.
LEMMA CeilingStep ==
    ASSUME ReachExpansionCeiling \/ ReachNeighborCeiling PROVE SearchIsOptimal' /\ found' # Searching
<1>1. found'.disposition = "budget_exhausted"
  BY DEF ReachExpansionCeiling, ReachNeighborCeiling, SearchResult
<1> QED
  BY <1>1 DEF SearchIsOptimal, Searching

\* An exhausted search has closed all that any walk leads to.
LEMMA ExhaustFrontierStep == ASSUME SearchGoesOn, ExhaustFrontier PROVE SearchIsOptimal'
<1>1. /\ frontier = {} /\ found'.disposition = "exhausted"
      /\ problem' = problem /\ bestCost' = bestCost /\ cameFrom' = cameFrom
  BY DEF ExhaustFrontier, SearchResult
<1>2. WalkCosts' = WalkCosts
  BY <1>1 DEF WalkCosts, Successors
<1>3. WalkCosts[StartNode] = {}
  <2>1. \A m \in DOMAIN bestCost : ~Queued(m)
    BY <1>1 DEF Queued
  <2> QED
    BY <2>1, WalkOpen
<1> QED
  BY <1>1, <1>2, <1>3 DEF SearchIsOptimal

\* SearchInv is inductive.
THEOREM SearchInvariant == SearchSpec => []SearchInv
<1>1. ASSUME SearchInv, [SearchNext]_searchVars PROVE SearchInv'
  <2>1. CASE UNCHANGED searchVars
    <3>1. (found' = Searching <=> found = Searching) /\ (SearchGoesOn' <=> SearchGoesOn)
      BY <2>1 DEF searchVars, SearchGoesOn, SearchTypeOK, ParentsReach, ClosedSettled,
                  LateIsWorse, Settled, Successors, Queued, Est, OnPath, Walks, WalkClosed
    <3>2. SearchIsOptimal' <=> SearchIsOptimal
      BY <2>1 DEF searchVars, SearchIsOptimal, PathCost, WalkCosts, Successors
    <3> QED
      BY <1>1, <3>1, <3>2 DEF SearchInv
  <2>2. CASE SearchNext
    <3>1. found = Searching /\ SearchGoesOn
      BY <1>1, <2>2 DEF SearchNext, SearchInv
    <3>2. CASE PassOver \/ Expand
      <4>1. found' = found
        BY <3>2 DEF PassOver, Expand
      <4>2. SearchGoesOn'
        BY <3>1, <3>2, PassOverStep, ExpandStep
      <4>3. SearchIsOptimal'
        BY <3>1, <4>1 DEF SearchIsOptimal, Searching
      <4> QED
        BY <4>2, <4>3 DEF SearchInv
    <3>3. CASE ReachGoal
      <4>1. found' # Searching
        BY <3>3 DEF ReachGoal, SearchResult, Searching
      <4> QED
        BY <3>1, <3>3, <4>1, ReachGoalStep DEF SearchInv
    <3>4. CASE ReachExpansionCeiling \/ ReachNeighborCeiling
      BY <3>4, CeilingStep DEF SearchInv
    <3>5. CASE ExhaustFrontier
      <4>1. found' # Searching
        BY <3>5 DEF ExhaustFrontier, SearchResult, Searching
      <4> QED
        BY <3>1, <3>5, <4>1, ExhaustFrontierStep DEF SearchInv
    <3> QED
      BY <2>2, <3>2, <3>3, <3>4, <3>5 DEF SearchNext
  <2> QED
    BY <1>1, <2>1, <2>2
<1> QED
  BY <1>1, InitSearch, PTL DEF SearchSpec

\* A search that ends within its ceilings answers for the whole graph.
THEOREM SearchOptimal == SearchSpec => []SearchIsOptimal
  BY SearchInvariant, PTL DEF SearchInv

-----------------------------------------------------------------------------
\* The stores together.

\* Whatever callers do to the stores of facts and of continuations, nothing that is
\* served stands on what was invalidated (facts.py, feedback.py).
THEOREM NothingInvalidStands ==
    FactSpec /\ ContinuationSpec => []NothingStandsOnInvalid
<1>1. FactsStandOnActive /\ BranchesFollowParents => NothingStandsOnInvalid
    BY DEF NothingStandsOnInvalid
<1> QED
    BY <1>1, FactsStand, BranchesHold, PTL

\* Whatever callers do to mechanics and to the account book, every repair resolves to an
\* assessment, every account, version and residual to accounts and versions of the book,
\* and what was opened from a header of the book to that header (learning.py, accounts.py).
THEOREM LineagesHold ==
    MechanicSpec /\ AccountSpec => []LineagesResolve
<1>1. ChangesAreImplicated /\ AccountsResolve => LineagesResolve
    BY DEF LineagesResolve
<1> QED
    BY <1>1, RepairsImplicated, AccountsLineage, PTL
==============================================================================
