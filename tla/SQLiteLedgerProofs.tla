-------------------------- MODULE SQLiteLedgerProofs --------------------------
(***************************************************************************)
(* Proofs about Ledger and SQLiteLedger, for any number of connections and *)
(* any contents: the promised chain always verifies, and the transactions  *)
(* implement the promise, so what holds of the one holds of the other.     *)
(***************************************************************************)
EXTENDS SQLiteLedger, SequenceTheorems, TLAPS

\* The receipts table is a sequence; what its elements are does not matter.
IsLog(log) == \E S : log \in Seq(S)

\* What appending to the receipts does.
LEMMA AppendToLog ==
    ASSUME NEW log, IsLog(log), NEW e
    PROVE  /\ IsLog(Append(log, e))
           /\ Len(log) \in Nat
           /\ Len(Append(log, e)) = Len(log) + 1
           /\ \A i \in 1..Len(log) : Append(log, e)[i] = log[i]
           /\ Append(log, e)[Len(log) + 1] = e
<1>1. PICK S : log \in Seq(S)
  BY DEF IsLog
<1>2. log \in Seq(S \cup {e}) /\ e \in S \cup {e}
  BY <1>1
<1>3. Len(log) \in Nat
  BY <1>2, LenProperties
<1>4. /\ Append(log, e) \in Seq(S \cup {e})
      /\ Len(Append(log, e)) = Len(log) + 1
      /\ \A i \in 1..Len(log) : Append(log, e)[i] = log[i]
      /\ Append(log, e)[Len(log) + 1] = e
  <2> DEFINE T == S \cup {e}
  <2>1. log \in Seq(T) /\ e \in T
    BY <1>2
  <2> HIDE DEF T
  <2>2. /\ Append(log, e) \in Seq(T)
        /\ Len(Append(log, e)) = Len(log) + 1
        /\ \A i \in 1..Len(log) : Append(log, e)[i] = log[i]
        /\ Append(log, e)[Len(log) + 1] = e
    BY <2>1, AppendProperties
  <2>3. QED
    BY <2>2 DEF T
<1>5. IsLog(Append(log, e))
  BY <1>4 DEF IsLog
<1>6. QED
  <2> HIDE DEF IsLog
  <2>1. \A i \in 1..Len(log) : Append(log, e)[i] = log[i]
    BY <1>4
  <2>2. Len(Append(log, e)) = Len(log) + 1 /\ Append(log, e)[Len(log) + 1] = e
    BY <1>4
  <2>3. QED
    BY <1>3, <1>5, <2>1, <2>2, Zenon

-----------------------------------------------------------------------------
(* The promise: Ledger.                                                     *)

ChainInv ==
    /\ IsLog(receipts)
    /\ \A i \in 1..Len(receipts) : receipts[i].id \in Ids
    /\ LedgerVerifies
    /\ OccurrencesUnique

\* More stored objects under the same receipts never invalidate the table.
LEMMA SameTableKeepsChain ==
    ASSUME ChainInv, receipts' = receipts, objects \subseteq objects'
    PROVE  ChainInv'
<1>1. LedgerVerifies' /\ OccurrencesUnique'
  BY DEF ChainInv, LedgerVerifies, Verifies, OccurrencesUnique
<1>2. IsLog(receipts')
  BY DEF ChainInv, IsLog
<1>3. QED
  BY <1>1, <1>2 DEF ChainInv

\* An appended receipt extends the chain: its predecessor is the old tail, its
\* references resolve to earlier receipts and stored objects.
LEMMA AppendKeepsChain == ASSUME ChainInv, NEW id \in Ids, AppendReceipt(id) PROVE ChainInv'
<1> DEFINE e == NextEnvelope(receipts, id)
           n == Len(receipts)
<1>1. /\ e.id = id /\ e.sequence = n /\ e.previous = TailHash(receipts)
      /\ e.hash = ReceiptHash(e.id, e.sequence, e.previous)
  BY DEF NextEnvelope, Envelope
<1>2. receipts' = Append(receipts, e) /\ objects' = objects \cup {Payload[id]}
  BY DEF AppendReceipt
<1> HIDE DEF e
<1>3. /\ IsLog(receipts')
      /\ n \in Nat /\ Len(receipts') = n + 1
      /\ \A i \in 1..n : receipts'[i] = receipts[i]
      /\ receipts'[n + 1] = e
  BY <1>2, AppendToLog DEF ChainInv
<1>4. \A i \in 1..Len(receipts') : receipts'[i].id \in Ids
  BY <1>1, <1>3 DEF ChainInv
<1>5. LedgerVerifies'
  <2> SUFFICES ASSUME NEW i \in 1..(n + 1)
               PROVE  LET log == receipts' IN
                  /\ log[i].hash = ReceiptHash(log[i].id, log[i].sequence, log[i].previous)
                  /\ log[i].sequence = i - 1
                  /\ log[i].previous = IF i = 1 THEN Genesis ELSE log[i - 1].hash
                  /\ Payload[log[i].id] \in objects'
                  /\ ObjectRefs[log[i].id] \subseteq objects'
                  /\ \A p \in Parents[log[i].id] : \E j \in 1..(i - 1) : log[j].id = p
    BY <1>3 DEF LedgerVerifies, Verifies
  <2>1. CASE i \in 1..n
    <3>1. /\ receipts'[i] = receipts[i]
          /\ i # 1 => receipts'[i - 1] = receipts[i - 1]
          /\ \A j \in 1..(i - 1) : receipts'[j] = receipts[j]
      BY <1>3, <2>1
    <3>2. QED
      BY <1>2, <2>1, <3>1 DEF ChainInv, LedgerVerifies, Verifies
  <2>2. CASE i = n + 1
    <3>1. receipts'[i] = e
      BY <1>3, <2>2
    <3>2. e.previous = IF i = 1 THEN Genesis ELSE receipts'[i - 1].hash
      <4>1. CASE n = 0
        BY <1>1, <2>2, <4>1 DEF TailHash, ChainInv, IsLog
      <4>2. CASE n # 0
        BY <1>1, <1>3, <2>2, <4>2 DEF TailHash, ChainInv, IsLog
      <4>3. QED
        BY <4>1, <4>2
    <3>3. /\ Payload[id] \in objects' /\ ObjectRefs[id] \subseteq objects'
      BY <1>2 DEF AppendReceipt, ReferencesResolve
    <3>4. \A p \in Parents[id] : \E j \in 1..n : receipts'[j].id = p
      BY <1>3 DEF AppendReceipt, ReferencesResolve, IdsIn
    <3>5. i - 1 = n
      BY <1>3, <2>2
    <3>6. QED
      BY <1>1, <3>1, <3>2, <3>3, <3>4, <3>5
  <2>3. QED
    BY <1>3, <2>1, <2>2
<1>6. OccurrencesUnique'
  <2>1. \A i \in 1..n : Occurrence[receipts[i].id] # Occurrence[id]
    BY DEF AppendReceipt, OccurrencesIn, IdsIn
  <2>2. QED
    BY <1>1, <1>3, <2>1 DEF ChainInv, OccurrencesUnique
<1>7. QED
  BY <1>3, <1>4, <1>5, <1>6 DEF ChainInv

\* Every ledger built by put_object and append passes verify.
THEOREM ChainHolds == Spec => []ChainInv
<1>1. Init => ChainInv
  <2> SUFFICES ASSUME Init PROVE ChainInv
    OBVIOUS
  <2>1. IsLog(receipts) /\ Len(receipts) = 0
    BY EmptySeq DEF Init, IsLog
  <2>2. 1..Len(receipts) = {}
    BY <2>1
  <2>3. LedgerVerifies
    BY <2>2 DEF LedgerVerifies, Verifies
  <2>4. OccurrencesUnique
    BY <2>2 DEF OccurrencesUnique
  <2>5. QED
    BY <2>1, <2>2, <2>3, <2>4 DEF ChainInv
<1>2. ChainInv /\ [Next]_ledgerVars => ChainInv'
  <2>1. ASSUME NEW o \in Objects, PutObject(o)
        PROVE  receipts' = receipts /\ objects \subseteq objects'
    BY <2>1 DEF PutObject
  <2>2. ASSUME UNCHANGED ledgerVars
        PROVE  receipts' = receipts /\ objects \subseteq objects'
    BY <2>2 DEF ledgerVars
  <2>3. QED
    BY <2>1, <2>2, SameTableKeepsChain, AppendKeepsChain DEF Next
<1>3. QED
  BY <1>1, <1>2, PTL DEF Spec

-----------------------------------------------------------------------------
(* The connections: SQLiteLedger.                                           *)

\* What a connection has staged is what the table would take next: the write
\* lock keeps the tail it read current until it commits.
StagedIsFresh ==
    staged # {} =>
        /\ lock \in Connections
        /\ staged = {NextEnvelope(receipts, request)}
        /\ ReferencesResolve(request)
        /\ Occurrence[request] \notin OccurrencesIn(receipts)

ConnInv ==
    /\ request \in Ids
    /\ StagedIsFresh

\* Every step of a connection is a step of the promise or leaves the tables
\* alone.
LEMMA TransactionsStep ==
    ASSUME ConnInv, [ConnectionsNext]_vars
    PROVE  [Next]_ledgerVars /\ ConnInv'
<1>1. CASE \E o \in Objects : Put(o)
  <2>1. PICK o \in Objects : Put(o)
    BY <1>1
  <2>2. staged = {} /\ staged' = {} /\ request' = request
    BY <2>1, ConnectionAssumption
       DEF Put, ConnInv, StagedIsFresh, connectionVars
  <2>3. QED
    BY <2>1, <2>2 DEF Put, Next, ConnInv, StagedIsFresh
<1>2. CASE \E c \in Connections, id \in Ids : Begin(c, id)
  <2>1. PICK c \in Connections, id \in Ids : Begin(c, id)
    BY <1>2
  <2>2. staged = {} /\ staged' = {} /\ request' \in Ids
    BY <2>1, ConnectionAssumption DEF Begin, ConnInv, StagedIsFresh
  <2>3. QED
    BY <2>1, <2>2 DEF Begin, ConnInv, StagedIsFresh, ledgerVars
<1>3. ASSUME NEW c \in Connections, Refuse(c) \/ Repeat(c) \/ Abort(c)
      PROVE  [Next]_ledgerVars /\ ConnInv'
  BY <1>3 DEF Refuse, Repeat, Abort, EndTransaction, ConnInv, StagedIsFresh, ledgerVars
<1>4. ASSUME NEW c \in Connections, Stage(c)
      PROVE  [Next]_ledgerVars /\ ConnInv'
  <2>1. /\ UNCHANGED <<objects, receipts>> /\ lock' = c /\ request' = request
        /\ staged' = {NextEnvelope(receipts, request)}
        /\ ReferencesResolve(request) /\ Occurrence[request] \notin OccurrencesIn(receipts)
    BY <1>4 DEF Stage, ledgerVars
  <2>2. StagedIsFresh'
    BY <2>1 DEF StagedIsFresh, NextEnvelope, ReferencesResolve, OccurrencesIn, IdsIn, TailHash
  <2>3. QED
    BY <2>1, <2>2 DEF ConnInv, ledgerVars
<1>5. ASSUME NEW c \in Connections, Commit(c) \/ CommitUnacknowledged(c)
      PROVE  [Next]_ledgerVars /\ ConnInv'
  <2>1. /\ staged = {NextEnvelope(receipts, request)}
        /\ ReferencesResolve(request) /\ Occurrence[request] \notin OccurrencesIn(receipts)
    BY <1>5 DEF ConnInv, StagedIsFresh, Commit, CommitUnacknowledged
  <2>2. NextEnvelope(receipts, request).id = request
    BY DEF NextEnvelope, Envelope
  <2>3. AppendReceipt(request)
    BY <1>5, <2>1, <2>2 DEF Commit, CommitUnacknowledged, AppendReceipt
  <2>4. staged' = {} /\ request' = request
    BY <1>5 DEF Commit, CommitUnacknowledged, EndTransaction
  <2>5. QED
    BY <2>3, <2>4 DEF Next, ConnInv, StagedIsFresh
<1>6. CASE VerifyObjects \/ VerifyReceipts \/ UNCHANGED vars
  <2>1. UNCHANGED <<objects, receipts, lock, request, staged>>
    BY <1>6 DEF VerifyObjects, VerifyReceipts, vars, ledgerVars, connectionVars
  <2>2. QED
    BY <2>1 DEF ConnInv, StagedIsFresh, NextEnvelope, ReferencesResolve, OccurrencesIn,
                IdsIn, TailHash, ledgerVars
<1>7. QED
  BY <1>1, <1>2, <1>3, <1>4, <1>5, <1>6 DEF ConnectionsNext, Transaction

\* Interleaved, failing and dying transactions implement the atomic ledger.
THEOREM ConnectionsImplementLedger == ConnectionsSpec => LedgerPromise
<1>1. ConnectionsInit => Init /\ ConnInv
  BY DEF ConnectionsInit, ConnInv, StagedIsFresh
<1>2. ConnInv /\ [ConnectionsNext]_vars => [Next]_ledgerVars /\ ConnInv'
  BY TransactionsStep
<1>3. QED
  BY <1>1, <1>2, PTL DEF ConnectionsSpec, Spec, LedgerPromise

\* Hence the table on disk always verifies, under any number of connections.
THEOREM LedgerVerifiesHolds == ConnectionsSpec => []LedgerVerifies
BY ConnectionsImplementLedger, ChainHolds, PTL DEF LedgerPromise, ChainInv

\* And no occurrence identity is ever bound twice.
THEOREM OccurrencesUniqueHolds == ConnectionsSpec => []OccurrencesUnique
BY ConnectionsImplementLedger, ChainHolds, PTL DEF LedgerPromise, ChainInv

-----------------------------------------------------------------------------
\* Every returned envelope is somewhere in the table; LedgerVerifies then says
\* that it is at the place its sequence names.
AckedIsStored == \A e \in acked : \E i \in 1..Len(receipts) : receipts[i] = e

\* What append returned stays in the table.
LEMMA AckedStep ==
    ASSUME ChainInv, ConnInv, AckedIsStored, [ConnectionsNext]_vars
    PROVE  AckedIsStored'
<1>1. [Next]_ledgerVars
  BY TransactionsStep
<1>2. /\ Len(receipts') \in Nat /\ Len(receipts) \in Nat /\ Len(receipts) <= Len(receipts')
      /\ \A i \in 1..Len(receipts) : receipts'[i] = receipts[i]
  <2>1. CASE UNCHANGED receipts
    BY <2>1, LenProperties DEF ChainInv, IsLog
  <2>2. CASE \E id \in Ids : AppendReceipt(id)
    <3>1. PICK id \in Ids : receipts' = Append(receipts, NextEnvelope(receipts, id))
      BY <2>2 DEF AppendReceipt
    <3>2. /\ Len(receipts) \in Nat /\ Len(receipts') = Len(receipts) + 1
          /\ \A i \in 1..Len(receipts) : receipts'[i] = receipts[i]
      BY <3>1, AppendToLog DEF ChainInv
    <3>3. QED
      BY <3>2
  <2>3. QED
    BY <1>1, <2>1, <2>2 DEF Next, PutObject, ledgerVars
<1>3. ASSUME NEW e \in acked', e \notin acked
      PROVE  \E i \in 1..Len(receipts') : receipts'[i] = e
  <2>1. CASE \E c \in Connections : Repeat(c)
    BY <1>3, <2>1 DEF Repeat, Stored, ledgerVars
  <2>2. CASE \E c \in Connections : Commit(c)
    <3>1. receipts' = Append(receipts, e)
      BY <1>3, <2>2 DEF Commit
    <3>2. receipts'[Len(receipts) + 1] = e /\ Len(receipts') = Len(receipts) + 1
      BY <3>1, AppendToLog DEF ChainInv
    <3>3. QED
      BY <1>2, <3>2
  <2>3. CASE ~(\E c \in Connections : Repeat(c) \/ Commit(c))
    BY <1>3, <2>3
       DEF ConnectionsNext, Transaction, vars, connectionVars, Put, Begin, Refuse, Stage,
           Abort, CommitUnacknowledged, VerifyObjects, VerifyReceipts
  <2>4. QED
    BY <2>1, <2>2, <2>3
<1>4. ASSUME NEW e \in acked
      PROVE  \E i \in 1..Len(receipts') : receipts'[i] = e
  <2>1. PICK i \in 1..Len(receipts) : receipts[i] = e
    BY DEF AckedIsStored
  <2>2. i \in 1..Len(receipts')
    BY <1>2
  <2>3. QED
    BY <1>2, <2>1, <2>2
<1>5. QED
  BY <1>3, <1>4 DEF AckedIsStored

\* What append has returned stays in the ledger at the place it said, whatever
\* crashes, rollbacks and other writers follow.
THEOREM AckedIsDurableHolds == ConnectionsSpec => []AckedIsDurable
<1>1. ConnectionsInit => ConnInv /\ AckedIsStored
  BY DEF ConnectionsInit, ConnInv, StagedIsFresh, AckedIsStored
<1>2. ConnectionsSpec => []ChainInv
  BY ConnectionsImplementLedger, ChainHolds, PTL DEF LedgerPromise
<1>3. ConnInv /\ [ConnectionsNext]_vars => ConnInv'
  BY TransactionsStep
<1>4. ChainInv /\ ConnInv /\ AckedIsStored /\ [ConnectionsNext]_vars => AckedIsStored'
  BY AckedStep
<1>5. ChainInv /\ AckedIsStored => AckedIsDurable
  <2> SUFFICES ASSUME ChainInv, AckedIsStored, NEW e \in acked
               PROVE  e.sequence < Len(receipts) /\ receipts[e.sequence + 1] = e
    BY DEF AckedIsDurable
  <2>1. PICK i \in 1..Len(receipts) : receipts[i] = e
    BY DEF AckedIsStored
  <2>2. e.sequence = i - 1
    BY <2>1 DEF ChainInv, LedgerVerifies, Verifies
  <2>3. Len(receipts) \in Nat
    BY LenProperties DEF ChainInv, IsLog
  <2>4. QED
    BY <2>1, <2>2, <2>3
<1>6. QED
  BY <1>1, <1>2, <1>3, <1>4, <1>5, PTL DEF ConnectionsSpec

-----------------------------------------------------------------------------
\* verify compares the receipts with the objects it read first: as long as no
\* receipt was committed in between, those objects are enough.
ReadingInv ==
    /\ objects \subseteq Objects
    /\ reading \in [open : BOOLEAN, objects : SUBSET Objects, length : Nat]
    /\ reading.open =>
          /\ reading.length <= Len(receipts)
          /\ Len(receipts) = reading.length => Verifies(receipts, reading.objects)
    /\ VerifyRaisesOnlyOvertaken

\* A commit grows the table past the length the reader noted; everything else
\* leaves the receipts, or the reader, alone.
LEMMA ReadingStep ==
    ASSUME ChainInv, ConnInv, ReadingInv, [ConnectionsNext]_vars
    PROVE  ReadingInv'
<1>1. Len(receipts) \in Nat
  BY LenProperties DEF ChainInv, IsLog
<1>2. CASE VerifyObjects
  <2>1. /\ reading' = [open |-> TRUE, objects |-> objects, length |-> Len(receipts)]
        /\ receipts' = receipts /\ verdict' = verdict
    BY <1>2 DEF VerifyObjects, ledgerVars
  <2>2. Verifies(receipts, objects) /\ objects' = objects
    BY <1>2 DEF ChainInv, LedgerVerifies, VerifyObjects, ledgerVars
  <2>3. QED
    BY <1>1, <2>1, <2>2 DEF ReadingInv, VerifyRaisesOnlyOvertaken
<1>3. CASE VerifyReceipts
  <2>1. /\ reading.open /\ receipts' = receipts
        /\ verdict'.intact = Verifies(receipts, reading.objects)
        /\ verdict'.overtaken = (Len(receipts) > reading.length)
    BY <1>3 DEF VerifyReceipts, ledgerVars
  <2>2. /\ ~reading'.open /\ objects' = objects
        /\ reading' \in [open : BOOLEAN, objects : SUBSET Objects, length : Nat]
    <3>1. reading' = [reading EXCEPT !.open = FALSE] /\ objects' = objects
      BY <1>3 DEF VerifyReceipts, ledgerVars
    <3>2. QED
      BY <3>1 DEF ReadingInv
  <2>3. Len(receipts) > reading.length \/ Len(receipts) = reading.length
    BY <1>1, <2>1 DEF ReadingInv
  <2>4. VerifyRaisesOnlyOvertaken'
    BY <2>1, <2>3 DEF ReadingInv, VerifyRaisesOnlyOvertaken
  <2>5. QED
    BY <2>2, <2>4 DEF ReadingInv
<1>4. CASE UNCHANGED verifyVars
  <2>1. reading' = reading /\ verdict' = verdict
    BY <1>4 DEF verifyVars
  <2>2. [Next]_ledgerVars
    BY TransactionsStep
  <2>3. objects' \subseteq Objects
    <3>1. \A id \in Ids : Payload[id] \in Objects
      BY LedgerAssumption
    <3>2. QED
      BY <2>2, <3>1 DEF ReadingInv, Next, PutObject, AppendReceipt, ledgerVars
  <2>4. CASE receipts' = receipts
    BY <2>1, <2>4, <2>3 DEF ReadingInv, VerifyRaisesOnlyOvertaken
  <2>5. CASE \E id \in Ids : AppendReceipt(id)
    <3>1. Len(receipts') = Len(receipts) + 1
      BY <2>5, AppendToLog DEF ChainInv, AppendReceipt
    <3>2. reading.open => reading.length <= Len(receipts') /\ Len(receipts') # reading.length
      BY <1>1, <3>1 DEF ReadingInv
    <3>3. QED
      BY <2>1, <2>3, <3>2 DEF ReadingInv, VerifyRaisesOnlyOvertaken
  <2>6. QED
    BY <2>2, <2>4, <2>5 DEF Next, PutObject, ledgerVars
<1>5. QED
  BY <1>2, <1>3, <1>4
     DEF ConnectionsNext, Transaction, Put, Begin, Refuse, Repeat, Stage, Commit, Abort,
         CommitUnacknowledged, vars

\* verify never calls an untampered ledger broken unless a receipt was
\* committed between its two statements.
THEOREM VerifyOnlyOvertaken == ConnectionsSpec => []VerifyRaisesOnlyOvertaken
<1>1. ConnectionsInit => ConnInv /\ ReadingInv
  BY DEF ConnectionsInit, Init, ConnInv, StagedIsFresh, ReadingInv, VerifyRaisesOnlyOvertaken
<1>2. ConnectionsSpec => []ChainInv
  BY ConnectionsImplementLedger, ChainHolds, PTL DEF LedgerPromise
<1>3. ConnInv /\ [ConnectionsNext]_vars => ConnInv'
  BY TransactionsStep
<1>4. ChainInv /\ ConnInv /\ ReadingInv /\ [ConnectionsNext]_vars => ReadingInv'
  BY ReadingStep
<1>5. ReadingInv => VerifyRaisesOnlyOvertaken
  BY DEF ReadingInv
<1>6. QED
  BY <1>1, <1>2, <1>3, <1>4, <1>5, PTL DEF ConnectionsSpec
=============================================================================
