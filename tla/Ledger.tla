-------------------------------- MODULE Ledger --------------------------------
(***************************************************************************)
(* What the evidence ledger of src/strongwiz/ledger.py promises: content   *)
(* objects are stored once and never rewritten, and receipts form one      *)
(* append-only chain in which an occurrence identity is used for a single  *)
(* content.                                                                *)
(*                                                                         *)
(* Both objects and receipt contents are addressed by SHA-256 digests,     *)
(* taken here to be collision-free: a digest stands for what it names, so  *)
(* the content behind a receipt_id is a function of it.                    *)
(***************************************************************************)
EXTENDS Naturals, Sequences

CONSTANTS
    Objects,     \* digests of content objects
    Ids,         \* receipt_id digests
    Occurrence,  \* occurrence_id bound by each receipt_id
    Payload,     \* payload_hash bound by each receipt_id
    ObjectRefs,  \* object_refs bound by each receipt_id
    Parents,     \* parent_refs bound by each receipt_id
    Genesis      \* the absent predecessor of the first receipt

ASSUME LedgerAssumption ==
    /\ Payload \in [Ids -> Objects]
    /\ ObjectRefs \in [Ids -> SUBSET Objects]
    /\ Parents \in [Ids -> SUBSET Ids]
    /\ DOMAIN Occurrence = Ids

VARIABLES
    objects,   \* the objects table
    receipts   \* the receipts table in sequence order

ledgerVars == <<objects, receipts>>

\* receipt_hash commits to the content, the position and the predecessor.
ReceiptHash(id, sequence, previous) == <<id, sequence, previous>>

\* ReceiptEnvelope as append builds it; sequences start at 0.
Envelope(id, sequence, previous) ==
    [id |-> id, sequence |-> sequence, previous |-> previous,
     hash |-> ReceiptHash(id, sequence, previous)]

\* The tail append reads: the next sequence and the predecessor hash.
TailHash(log) == IF log = <<>> THEN Genesis ELSE log[Len(log)].hash
NextEnvelope(log, id) == Envelope(id, Len(log), TailHash(log))

IdsIn(log) == {log[i].id : i \in 1..Len(log)}
OccurrencesIn(log) == {Occurrence[id] : id \in IdsIn(log)}

\* append refuses dangling object or parent references before anything else.
ReferencesResolve(id) == ObjectRefs[id] \subseteq objects /\ Parents[id] \subseteq IdsIn(receipts)

Init ==
    /\ objects = {}
    /\ receipts = <<>>

\* put_object: idempotent by content.
PutObject(o) ==
    /\ objects' = objects \cup {o}
    /\ UNCHANGED receipts

\* append of a new occurrence.  Repeating the content of an occurrence returns
\* the stored envelope, and any other content for it is refused: no change.
AppendReceipt(id) ==
    /\ ReferencesResolve(id)
    /\ Occurrence[id] \notin OccurrencesIn(receipts)
    /\ objects' = objects \cup {Payload[id]}
    /\ receipts' = Append(receipts, NextEnvelope(receipts, id))

Next ==
    \/ \E o \in Objects : PutObject(o)
    \/ \E id \in Ids : AppendReceipt(id)

Spec == Init /\ [][Next]_ledgerVars

-----------------------------------------------------------------------------
\* The receipt checks of verify, against the set of objects it has read.
Verifies(log, stored) ==
    \A i \in 1..Len(log) :
        /\ log[i].hash = ReceiptHash(log[i].id, log[i].sequence, log[i].previous)
        /\ log[i].sequence = i - 1
        /\ log[i].previous = IF i = 1 THEN Genesis ELSE log[i - 1].hash
        /\ Payload[log[i].id] \in stored
        /\ ObjectRefs[log[i].id] \subseteq stored
        /\ \A p \in Parents[log[i].id] : \E j \in 1..(i - 1) : log[j].id = p

\* Whatever was appended, the table passes the exact-replay verification.
LedgerVerifies == Verifies(receipts, objects)

\* An occurrence identity is never bound twice.
OccurrencesUnique ==
    \A i, j \in 1..Len(receipts) :
        Occurrence[receipts[i].id] = Occurrence[receipts[j].id] => i = j
=============================================================================
