-------------------------------- MODULE Postrun --------------------------------
(***************************************************************************)
(* The streaming finalizer (scripts/strongwiz_streaming_postrun.py): it    *)
(* verifies and copies a closed run, publishes the run's seal, moves the   *)
(* staged capsule to its destination, and writes the delivery receipt,     *)
(* which is the commit record.  A caught failure before the commit rolls   *)
(* back what the transaction published.  The lock is that of a capsule     *)
(* destination; the run and the receipt path may be shared.                *)
(*                                                                         *)
(* Two parts of the source stand for all of it: the ledger, which is       *)
(* pinned by its file identity like the control contracts, and the domain  *)
(* state, a tree that is walked file by file, once to copy it and once     *)
(* more to compare it by content.  That a file is not there is a content   *)
(* of it.  Staging and scratch paths have random names, so nobody else's;  *)
(* formats and bounded reading are left out.  A check of the source that   *)
(* fails is a failure of its step.                                         *)
(***************************************************************************)
EXTENDS Naturals, Sequences, SequencesExt

CONSTANTS
    Finalizers,
    Capsules,           \* capsule destinations
    ReceiptPaths,       \* delivery receipt destinations
    DomainFiles,        \* number of files of the domain state
    MaxTransactions,    \* bound on transactions
    MaxMoments          \* bound on what the source ever was
ASSUME PostrunAssumption ==
    DomainFiles \in Nat /\ MaxTransactions \in Nat /\ MaxMoments \in Nat

VARIABLES
    moments,            \* what the source was, up to now
    locks,              \* transaction in the lock file of a capsule, 0 for none
    runSeal,            \* the seal in the run, or NoArtifact
    packed,             \* the capsule at each destination
    delivered,          \* the receipt at each path
    finalizer,          \* the transaction of each process
    transactions        \* number of transactions begun

postrunVars == <<moments, locks, runSeal, packed, delivered, finalizer, transactions>>
publishedVars == <<runSeal, packed, delivered>>

NoArtifact == [none |-> TRUE]
ForeignReceipt == [foreign |-> TRUE]
NoTransaction == [none |-> TRUE]
Source == Last(moments)
Content(x) == [ledger |-> x.ledger, domain |-> x.domain]
FirstDomain == [i \in 1..DomainFiles |-> 0]

PostrunInit ==
    /\ moments = <<[ledger |-> 0, domain |-> FirstDomain]>>
    /\ locks = [c \in Capsules |-> 0]
    /\ runSeal = NoArtifact
    /\ packed = [c \in Capsules |-> NoArtifact]
    /\ delivered \in [ReceiptPaths -> {NoArtifact, ForeignReceipt}]
    /\ finalizer = [f \in Finalizers |-> NoTransaction]
    /\ transactions = 0

-----------------------------------------------------------------------------
\* A source that is not quiescent after all: a ledger file that is written is
\* another one, a domain file may be what it was before, and any of them may
\* change between two looks, one after the other.
ChangeSource ==
    /\ Len(moments) < MaxMoments
    /\ \/ moments' = Append(moments, [Source EXCEPT !.ledger = @ + 1])
       \/ \E i \in 1..DomainFiles :
            moments' = Append(moments, [Source EXCEPT !.domain[i] = 1 - @])
    /\ UNCHANGED <<locks, publishedVars, finalizer, transactions>>

\* A finalizer goes from one point to the next, with these fields set.
At(f, point) == finalizer[f] # NoTransaction /\ finalizer[f].at = point
Reaches(f, point, fields) ==
    finalizer' = [finalizer EXCEPT ![f] = [fields EXCEPT !.at = point]]
Moves(f, from, to, fields) == At(f, from) /\ Reaches(f, to, fields)
Staged(f) == Content(finalizer[f])

\* _destination_finalizer_lock, and under it the identities that are pinned:
\* _pin_contract, _file_identity.
AcquireLock(f, c, r) ==
    /\ finalizer[f] = NoTransaction
    /\ locks[c] = 0
    /\ transactions < MaxTransactions
    /\ transactions' = transactions + 1
    /\ locks' = [locks EXCEPT ![c] = transactions']
    /\ finalizer' = [finalizer EXCEPT ![f] =
            [txn |-> transactions', capsule |-> c, receipt |-> r, at |-> "pinned",
             pinned |-> Source.ledger, ledger |-> 0, domain |-> FirstDomain, walked |-> 0,
             sealHere |-> FALSE, packedHere |-> FALSE, wasPacked |-> FALSE,
             pointed |-> NoArtifact]]
    /\ UNCHANGED <<moments, publishedVars>>

\* _stream_source_ledger
StreamLedger(f) ==
    /\ Moves(f, "pinned", "streamed", [finalizer[f] EXCEPT !.ledger = Source.ledger])
    /\ UNCHANGED <<moments, locks, publishedVars, transactions>>
\* The next file of a walk through the domain state.
NextFile(f) == finalizer[f].walked + 1
\* _snapshot_domain, file by file.
CopyFile(f) ==
    /\ At(f, "streamed") /\ NextFile(f) <= DomainFiles
    /\ Reaches(f, "streamed",
            [finalizer[f] EXCEPT !.domain[NextFile(f)] = Source.domain[NextFile(f)],
                                 !.walked = @ + 1])
    /\ UNCHANGED <<moments, locks, publishedVars, transactions>>
\* Seal, manifest and capsule are staged and verified, and a capsule that is
\* already at the destination must be the staged one.
StageCapsule(f) ==
    LET there == packed[finalizer[f].capsule]
    IN  /\ At(f, "streamed") /\ finalizer[f].walked = DomainFiles
        /\ Reaches(f, "staged",
                   [finalizer[f] EXCEPT !.walked = 0, !.wasPacked = (there # NoArtifact)])
        /\ there # NoArtifact => Content(there) = Staged(f)
        /\ UNCHANGED <<moments, locks, publishedVars, transactions>>

\* Mutant of RecheckFile: the second walk finds what there is, and compares nothing.
RecheckFileNot(f) ==
    /\ At(f, "staged") /\ NextFile(f) <= DomainFiles
    /\ Reaches(f, "staged", [finalizer[f] EXCEPT !.walked = @ + 1])
    /\ UNCHANGED <<moments, locks, publishedVars, transactions>>
\* _recheck_source_before_publication: the domain, walked again, and then the
\* identity of the ledger, which it also compares first.
RecheckFile(f) ==
    /\ At(f, "staged") /\ NextFile(f) <= DomainFiles
    /\ Reaches(f, "staged", [finalizer[f] EXCEPT !.walked = @ + 1])
    /\ Source.domain[NextFile(f)] = finalizer[f].domain[NextFile(f)]
    /\ UNCHANGED <<moments, locks, publishedVars, transactions>>
RecheckLedger(f) ==
    /\ At(f, "staged") /\ finalizer[f].walked = DomainFiles
    /\ Reaches(f, "rechecked", finalizer[f])
    /\ Source.ledger = finalizer[f].pinned
    /\ UNCHANGED <<moments, locks, publishedVars, transactions>>

-----------------------------------------------------------------------------
\* _publish_immutable_file: linked if it is not there, else it must be the same.
PublishSeal(f) ==
    LET new == runSeal = NoArtifact
    IN  /\ Moves(f, "rechecked", "sealed", [finalizer[f] EXCEPT !.sealHere = new])
        /\ ~new => Content(runSeal) = Staged(f)
        /\ runSeal' = IF new THEN [by |-> finalizer[f].txn, ledger |-> finalizer[f].ledger,
                                   domain |-> finalizer[f].domain]
                      ELSE runSeal
        /\ UNCHANGED <<moments, locks, packed, delivered, transactions>>
\* It fails after the link: the seal stands, and nobody knows whose it is.
PublishSealFails(f) ==
    /\ Moves(f, "rechecked", "undo_capsule", finalizer[f])
    /\ runSeal = NoArtifact
    /\ runSeal' = [by |-> finalizer[f].txn, ledger |-> finalizer[f].ledger,
                   domain |-> finalizer[f].domain]
    /\ UNCHANGED <<moments, locks, packed, delivered, transactions>>

SealReadsBack(f) == runSeal # NoArtifact /\ Content(runSeal) = Staged(f)
\* The staged directory becomes the capsule, if there was none.
PublishCapsule(f) ==
    LET c == finalizer[f].capsule
        new == ~finalizer[f].wasPacked
    IN  /\ Moves(f, "sealed", "packed", [finalizer[f] EXCEPT !.packedHere = new])
        /\ SealReadsBack(f)
        /\ new => packed[c] = NoArtifact
        /\ packed' = IF new
                     THEN [packed EXCEPT ![c] = [by |-> finalizer[f].txn,
                                                 ledger |-> finalizer[f].ledger,
                                                 domain |-> finalizer[f].domain]]
                     ELSE packed
        /\ UNCHANGED <<moments, locks, runSeal, delivered, transactions>>

\* The receipt names a capsule read back, and points at the seal it finds in the
\* run.
DrawReceipt(f) ==
    /\ At(f, "packed")
    /\ runSeal # NoArtifact /\ packed[finalizer[f].capsule] # NoArtifact
    /\ Content(packed[finalizer[f].capsule]) = Staged(f)
    /\ Reaches(f, "drawn", [finalizer[f] EXCEPT !.pointed = Content(runSeal)])
    /\ UNCHANGED <<moments, locks, publishedVars, transactions>>
\* What it says, and whether its writer published the seal, which is remembered
\* for the properties only.
ReceiptOf(f) ==
    [capsule |-> finalizer[f].capsule, ledger |-> finalizer[f].ledger,
     domain |-> finalizer[f].domain, pointed |-> finalizer[f].pointed,
     ownSeal |-> finalizer[f].sealHere]
SameReceipt(x, y) ==
    x.capsule = y.capsule /\ Content(x) = Content(y) /\ x.pointed = y.pointed
Receipted(r) == delivered[r] \notin {NoArtifact, ForeignReceipt}
\* _atomic_write_receipt: linked if it is not there, else it must be the same.
DeliverReceipt(f) ==
    LET r == finalizer[f].receipt
    IN  /\ Moves(f, "drawn", "delivered", finalizer[f])
        /\ \/ /\ delivered[r] = NoArtifact
              /\ delivered' = [delivered EXCEPT ![r] = ReceiptOf(f)]
           \/ /\ Receipted(r) /\ SameReceipt(delivered[r], ReceiptOf(f))
              /\ UNCHANGED delivered
        /\ UNCHANGED <<moments, locks, runSeal, packed, transactions>>

-----------------------------------------------------------------------------
\* The receipt on disk, not the memory of having written it, says whether the
\* transaction is committed.
Committed(f) ==
    LET r == finalizer[f].receipt
    IN  /\ finalizer[f].at \in {"drawn", "delivered"}
        /\ Receipted(r) /\ SameReceipt(delivered[r], ReceiptOf(f))
\* A step raises: what is committed is kept.
FailStep(f) ==
    /\ finalizer[f] # NoTransaction
    /\ finalizer[f].at \notin {"undo_capsule", "undo_seal", "release"}
    /\ Reaches(f, IF Committed(f) THEN "release" ELSE "undo_capsule", finalizer[f])
    /\ UNCHANGED <<moments, locks, publishedVars, transactions>>
\* The capsule goes back to staging, if it is the one published here.
UndoCapsule(f) ==
    LET c == finalizer[f].capsule
    IN  /\ Moves(f, "undo_capsule", "undo_seal", finalizer[f])
        /\ finalizer[f].packedHere => packed[c] # NoArtifact /\ packed[c].by = finalizer[f].txn
        /\ packed' = IF finalizer[f].packedHere THEN [packed EXCEPT ![c] = NoArtifact] ELSE packed
        /\ UNCHANGED <<moments, locks, runSeal, delivered, transactions>>

\* The seal to remove is the file that was published here, unchanged.
OwnSeal(f) ==
    /\ finalizer[f].sealHere
    /\ SealReadsBack(f)
    /\ runSeal.by = finalizer[f].txn
UndoSeal(f) ==
    /\ Moves(f, "undo_seal", "release", finalizer[f])
    /\ OwnSeal(f)
    /\ runSeal' = NoArtifact
    /\ UNCHANGED <<moments, locks, packed, delivered, transactions>>
\* Nothing to undo, or the undoing fails.
LeaveRest(f) ==
    /\ At(f, "undo_capsule") \/ At(f, "undo_seal")
    /\ Reaches(f, "release", finalizer[f])
    /\ UNCHANGED <<moments, locks, publishedVars, transactions>>

\* Return or raise: staging and the lock, still one's own, are removed.
ReleaseLock(f) ==
    LET c == finalizer[f].capsule
    IN  /\ At(f, "delivered") \/ At(f, "release")
        /\ locks' = IF locks[c] = finalizer[f].txn THEN [locks EXCEPT ![c] = 0] ELSE locks
        /\ finalizer' = [finalizer EXCEPT ![f] = NoTransaction]
        /\ UNCHANGED <<moments, publishedVars, transactions>>
\* The process stops: the lock and what was published stay.
StopFinalizer(f) ==
    /\ finalizer[f] # NoTransaction
    /\ finalizer' = [finalizer EXCEPT ![f] = NoTransaction]
    /\ UNCHANGED <<moments, locks, publishedVars, transactions>>
\* The operator removes a lock whose transaction is no longer at work.
ClearLock(c) ==
    /\ locks[c] # 0
    /\ \A f \in Finalizers : finalizer[f] # NoTransaction => finalizer[f].txn # locks[c]
    /\ locks' = [locks EXCEPT ![c] = 0]
    /\ UNCHANGED <<moments, publishedVars, finalizer, transactions>>

SealAndPackRun(f) ==
    \/ StreamLedger(f) \/ CopyFile(f) \/ StageCapsule(f) \/ RecheckFile(f) \/ RecheckLedger(f)
    \/ PublishSeal(f) \/ PublishSealFails(f) \/ PublishCapsule(f) \/ DrawReceipt(f) \/ DeliverReceipt(f)
    \/ FailStep(f) \/ UndoCapsule(f) \/ UndoSeal(f) \/ LeaveRest(f)
    \/ ReleaseLock(f) \/ StopFinalizer(f)
PostrunNext ==
    \/ ChangeSource
    \/ \E f \in Finalizers, c \in Capsules, r \in ReceiptPaths : AcquireLock(f, c, r)
    \/ \E f \in Finalizers : SealAndPackRun(f)
    \/ \E c \in Capsules : ClearLock(c)
PostrunSpec == PostrunInit /\ [][PostrunNext]_postrunVars

\* A domain file was this, then something else, then this again.
CameBack(log, i, content) ==
    \E a, b, c \in DOMAIN log :
        /\ a < b /\ b < c
        /\ log[a].domain[i] = content /\ log[c].domain[i] = content
        /\ log[b].domain[i] # content
\* What joins a ledger and a domain state is shown by what the source was: each file
\* stood beside that ledger, and all of them at one moment, unless one came back to
\* what is shown of it, which two walks cannot tell.
ShownBy(log, x) ==
    /\ \A i \in 1..DomainFiles : \E m \in Range(log) :
        m.ledger = x.ledger /\ m.domain[i] = x.domain[i]
    /\ \/ Content(x) \in Range(log)
       \/ \E i \in 1..DomainFiles : CameBack(log, i, x.domain[i])
\* What finalizers leave on disk can be relied on, however they raced, failed and
\* stopped, and whatever was written in the source meanwhile: each seal and capsule
\* shows what the source was, a committed receipt's capsule stands as the receipt names it,
\* and so does its seal if the transaction that wrote the receipt published it.
DeliveriesStand ==
    /\ runSeal # NoArtifact => ShownBy(moments, runSeal)
    /\ \A c \in Capsules : packed[c] # NoArtifact => ShownBy(moments, packed[c])
    /\ \A r \in ReceiptPaths : Receipted(r) =>
        LET there == packed[delivered[r].capsule]
        IN  /\ there # NoArtifact /\ Content(there) = Content(delivered[r])
            /\ delivered[r].ownSeal =>
                runSeal # NoArtifact /\ Content(runSeal) = Content(delivered[r])

\* "receipt-committed outputs are retained" (strongwiz_streaming_postrun.py:1835):
\* the seal that a delivery receipt points at stands in the run.
DeliveredSealStands ==
    \A r \in ReceiptPaths : Receipted(r) =>
        runSeal # NoArtifact /\ Content(runSeal) = Content(delivered[r])
=============================================================================
