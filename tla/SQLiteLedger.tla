----------------------------- MODULE SQLiteLedger -----------------------------
(***************************************************************************)
(* SQLiteLedger of src/strongwiz/ledger.py as its connections run it: each *)
(* append is a BEGIN IMMEDIATE transaction that reads the tail, stages an  *)
(* envelope and commits it, or rolls back on any exception; several        *)
(* processes may have the file open, and a process may die at any point.   *)
(* verify reads the two tables with two statements and no transaction, so  *)
(* a writer can slip between them.                                         *)
(*                                                                         *)
(* SQLite itself is external: IMMEDIATE admits one writer at a time, a     *)
(* commit is atomic and durable, and the uncommitted writes of a dead      *)
(* process vanish with its lock.                                           *)
(***************************************************************************)
EXTENDS Ledger

CONSTANTS
    Connections,  \* SQLiteLedger instances open for writing
    Unlocked      \* no connection is in a write transaction

ASSUME ConnectionAssumption == Unlocked \notin Connections

VARIABLES
    lock,      \* holder of SQLite's write lock
    request,   \* the content the holder was asked to append
    staged,    \* the envelope it has inserted and not yet committed, if any
    acked,     \* every envelope append has returned to a caller
    reading,   \* verify between its two statements: the object digests read so
               \* far, and how long the receipt table was then
    verdict    \* what the last verify said, and whether receipts grew under it

connectionVars == <<lock, request, staged, acked>>
verifyVars == <<reading, verdict>>
vars == <<ledgerVars, connectionVars, verifyVars>>

TypeOK ==
    /\ objects \subseteq Objects
    /\ \A i \in 1..Len(receipts) : receipts[i].id \in Ids
    /\ lock \in Connections \cup {Unlocked}
    /\ request \in Ids
    /\ \A e \in staged : e.id = request
    /\ \A e \in acked : e.id \in Ids
    /\ reading.objects \subseteq Objects
    /\ verdict.intact \in BOOLEAN /\ verdict.overtaken \in BOOLEAN

ConnectionsInit ==
    /\ Init
    /\ lock = Unlocked
    /\ request \in Ids
    /\ staged = {}
    /\ acked = {}
    /\ reading = [open |-> FALSE, objects |-> {}, length |-> 0]
    /\ verdict = [intact |-> TRUE, overtaken |-> FALSE]

-----------------------------------------------------------------------------
\* put_object: a whole transaction of its own.
Put(o) ==
    /\ lock = Unlocked
    /\ PutObject(o)
    /\ UNCHANGED <<connectionVars, verifyVars>>

\* append, up to BEGIN IMMEDIATE.
Begin(c, id) ==
    /\ lock = Unlocked
    /\ lock' = c
    /\ request' = id
    /\ UNCHANGED <<ledgerVars, staged, acked, verifyVars>>

\* The transaction ends, committed or rolled back, and the lock is released.
EndTransaction ==
    /\ lock' = Unlocked
    /\ staged' = {}
    /\ UNCHANGED request

Stored(id) == {receipts[i] : i \in {j \in 1..Len(receipts) : receipts[j].id = id}}

\* Mutant of Refuse: the exception leaves without a rollback.
RefuseLocked(c) ==
    /\ lock = c /\ staged = {}
    /\ \/ ~ReferencesResolve(request)
       \/ Occurrence[request] \in OccurrencesIn(receipts) /\ Stored(request) = {}
    /\ UNCHANGED vars

\* append, dangling references or a rewritten occurrence: roll back and raise.
Refuse(c) ==
    /\ lock = c /\ staged = {}
    /\ \/ ~ReferencesResolve(request)
       \/ Occurrence[request] \in OccurrencesIn(receipts) /\ Stored(request) = {}
    /\ EndTransaction
    /\ UNCHANGED <<ledgerVars, acked, verifyVars>>

\* append, the same content again: return the stored envelope.
Repeat(c) ==
    /\ lock = c /\ staged = {}
    /\ ReferencesResolve(request)
    /\ Stored(request) # {}
    /\ EndTransaction
    /\ acked' = acked \cup Stored(request)
    /\ UNCHANGED <<ledgerVars, verifyVars>>

\* Mutant of Stage: parents and objects are not looked up.
StageDangling(c) ==
    /\ lock = c /\ staged = {}
    /\ Occurrence[request] \notin OccurrencesIn(receipts)
    /\ staged' = {NextEnvelope(receipts, request)}
    /\ UNCHANGED <<ledgerVars, lock, request, acked, verifyVars>>

\* Mutant of Stage: the envelope is returned before the commit.
StageAcked(c) ==
    /\ lock = c /\ staged = {}
    /\ ReferencesResolve(request)
    /\ Occurrence[request] \notin OccurrencesIn(receipts)
    /\ staged' = {NextEnvelope(receipts, request)}
    /\ acked' = acked \cup staged'
    /\ UNCHANGED <<ledgerVars, lock, request, verifyVars>>

\* append, a new occurrence: read the tail and insert object and receipt.
Stage(c) ==
    /\ lock = c /\ staged = {}
    /\ ReferencesResolve(request)
    /\ Occurrence[request] \notin OccurrencesIn(receipts)
    /\ staged' = {NextEnvelope(receipts, request)}
    /\ UNCHANGED <<ledgerVars, lock, request, acked, verifyVars>>

\* Mutant of Commit: the payload object is left to a later transaction.
CommitBare(c) ==
    /\ lock = c /\ staged # {}
    /\ \E e \in staged :
          /\ receipts' = Append(receipts, e)
          /\ acked' = acked \cup {e}
    /\ EndTransaction
    /\ UNCHANGED <<objects, verifyVars>>

\* append, commit: object and receipt become visible together, then the
\* envelope is returned.
Commit(c) ==
    /\ lock = c /\ staged # {}
    /\ \E e \in staged :
          /\ objects' = objects \cup {Payload[e.id]}
          /\ receipts' = Append(receipts, e)
          /\ acked' = acked \cup {e}
    /\ EndTransaction
    /\ UNCHANGED verifyVars

\* An exception inside the transaction (rollback), or the death of the process.
Abort(c) ==
    /\ lock = c
    /\ EndTransaction
    /\ UNCHANGED <<ledgerVars, acked, verifyVars>>

\* The process dies after the commit and before its caller learns of it.
CommitUnacknowledged(c) ==
    /\ lock = c /\ staged # {}
    /\ \E e \in staged :
          /\ objects' = objects \cup {Payload[e.id]}
          /\ receipts' = Append(receipts, e)
    /\ EndTransaction
    /\ UNCHANGED <<acked, verifyVars>>

\* verify: all objects first ...
VerifyObjects ==
    /\ ~reading.open
    /\ reading' = [open |-> TRUE, objects |-> objects, length |-> Len(receipts)]
    /\ UNCHANGED <<ledgerVars, connectionVars, verdict>>

\* ... then all receipts, against the objects read before.
VerifyReceipts ==
    /\ reading.open
    /\ verdict' = [intact |-> Verifies(receipts, reading.objects),
                   overtaken |-> Len(receipts) > reading.length]
    /\ reading' = [reading EXCEPT !.open = FALSE]
    /\ UNCHANGED <<ledgerVars, connectionVars>>

Transaction(c) == Refuse(c) \/ Repeat(c) \/ Stage(c) \/ Commit(c)

ConnectionsNext ==
    \/ \E o \in Objects : Put(o)
    \/ \E c \in Connections, id \in Ids : Begin(c, id)
    \/ \E c \in Connections : Transaction(c)
    \/ \E c \in Connections : Abort(c)
    \/ \E c \in Connections : CommitUnacknowledged(c)
    \/ VerifyObjects
    \/ VerifyReceipts

ConnectionsSpec == ConnectionsInit /\ [][ConnectionsNext]_vars

\* append runs straight through: a live connection finishes its transaction.
FairConnectionsSpec ==
    ConnectionsSpec /\ \A c \in Connections : WF_vars(Transaction(c))

-----------------------------------------------------------------------------
\* The transactions implement the ledger's promise: concurrent, failing and
\* dying connections only ever append whole receipts to one chain.
LedgerPromise == Spec

\* What append has returned is in the ledger, at the place it said, for good.
AckedIsDurable ==
    \A e \in acked : e.sequence < Len(receipts) /\ receipts[e.sequence + 1] = e

\* verify raises on an untampered ledger only if a receipt was committed
\* between its two statements.
VerifyRaisesOnlyOvertaken == ~verdict.intact => verdict.overtaken

\* A process that keeps running never leaves the ledger locked.
TransactionsEnd == \A c \in Connections : lock = c ~> lock # c
=============================================================================
