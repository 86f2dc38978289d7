----------------------------- MODULE SessionProofs -----------------------------
(***************************************************************************)
(* Proofs about Session, for any handles, requests, actions and number of  *)
(* receipts: memory is what the receipts tell, every lineage of the ledger *)
(* is a lawful session, a failed action is not repeated, and a checkpoint  *)
(* of an unforked history restores, whole or not at all.                   *)
(*                                                                         *)
(* The argument has one invariant, SessionInv.  A live handle stands on a  *)
(* lineage: its receipts are one branch of the ledger, its fields are what *)
(* Replay reads in that branch, and they cohere as the validators demand.  *)
(* And each receipt was due in the state its own parent's lineage tells;   *)
(* a checkpoint is that state's snapshot.  Since the ledger only grows, a  *)
(* lineage once written never changes, so only the handle that acts has to *)
(* be looked at, and restore finds in the receipts what was true when the  *)
(* checkpoint was written.                                                 *)
(***************************************************************************)
EXTENDS Session, SequenceTheorems, WellFoundedInduction, TLAPS

-----------------------------------------------------------------------------
\* Well-founded induction over the naturals, and what it gives.

\* A nonempty set of naturals has a least element: the order is well-founded.
LEMMA Least ==
    ASSUME NEW T \in SUBSET Nat, T # {}
    PROVE  \E x \in T : \A y \in T : x <= y
<1> DEFINE R == {p \in Nat \X Nat : p[1] < p[2]}
<1>1. IsWellFoundedOn(R, Nat)
  BY NatLessThanWellFounded DEF OpToRel
<1>2. \A x, y \in Nat : <<y, x>> \in R <=> y < x
  OBVIOUS
<1> HIDE DEF R
<1>3. PICK x \in T : \A y \in T : <<y, x>> \notin R
  BY <1>1, WFMin
<1>4. \A y \in T : ~(y < x)
  BY <1>2, <1>3
<1>5. QED
  BY <1>4

\* Induction on the naturals, with a set in the place of the predicate.
LEMMA Induction ==
    ASSUME NEW S, 0 \in S, \A n \in Nat : n \in S => n + 1 \in S
    PROVE  Nat \subseteq S
<1> DEFINE T == Nat \ S
<1>1. SUFFICES ASSUME T # {} PROVE FALSE
  OBVIOUS
<1>2. PICK x \in T : \A y \in T : x <= y
  BY <1>1, Least
<1>3. x - 1 \in Nat /\ x - 1 \notin T
  BY <1>2
<1>4. QED
  BY <1>2, <1>3

\* A nonempty set of places has a greatest.
LEMMA Greatest ==
    ASSUME NEW n \in Nat, NEW T \in SUBSET (1..n), T # {}
    PROVE  \E x \in T : \A y \in T : x >= y
<1> DEFINE D == {n - x : x \in T}
<1>1. D \in SUBSET Nat
  OBVIOUS
<1>5. D # {}
  OBVIOUS
<1>2. PICK d \in D : \A y \in D : d <= y
  BY <1>1, <1>5, Least
<1>3. PICK x \in T : d = n - x
  OBVIOUS
<1>4. ASSUME NEW y \in T PROVE x >= y
  <2>1. n - y \in D
    OBVIOUS
  <2>2. QED
    BY <1>2, <1>3, <2>1
<1>6. QED
  BY <1>4

\* Max, defined by CHOOSE, is that greatest place.
LEMMA MaxIs ==
    ASSUME NEW n \in Nat, NEW T \in SUBSET (1..n), NEW x \in T, \A y \in T : x >= y
    PROVE  Max(T) = x
<1>1. Max(T) \in T /\ \A y \in T : Max(T) >= y
  BY DEF Max
<1> DEFINE m == Max(T)
<1>2. m \in T /\ m >= x
  BY <1>1
<1> HIDE DEF m
<1>3. m = x
  BY <1>2
<1>4. QED
  BY <1>3 DEF m

\* Min, defined by CHOOSE, is in the set it is the least of.
LEMMA MinIn ==
    ASSUME NEW n \in Nat, NEW T \in SUBSET (1..n), T # {}
    PROVE  Min(T) \in T
<1>1. \E x \in T : \A y \in T : x <= y
  BY Least
<1>2. QED
  BY <1>1 DEF Min

-----------------------------------------------------------------------------
\* The recursive functions of the model are total.

\* f[n] collects, in order, the values at the places of K up to n.
Collects(f, N, K, val) ==
    f = [n \in 1..N |->
            LET before == IF n = 1 THEN <<>> ELSE f[n - 1]
            IN  IF n \in K THEN Append(before, val[n]) ELSE before]

\* Such a function exists: its values up to M extend to M + 1.
LEMMA CollectExists == ASSUME NEW N \in Nat, NEW K, NEW val PROVE \E f : Collects(f, N, K, val)
<1> USE DEF Collects
<1> DEFINE Good(M, f) == Collects(f, M, K, val)
           S == {M \in Nat : \E f : Good(M, f)}
<1>1. 0 \in S
  <2>1. Good(0, [n \in 1..0 |-> n])
    OBVIOUS
  <2>2. QED
    BY <2>1
<1>2. ASSUME NEW M \in Nat, M \in S PROVE M + 1 \in S
  <2>1. PICK f : Good(M, f)
    BY <1>2
  <2> DEFINE before == IF M = 0 THEN <<>> ELSE f[M]
             g == [n \in 1..(M + 1) |->
                     IF n <= M THEN f[n]
                     ELSE IF n \in K THEN Append(before, val[n]) ELSE before]
  <2>2. ASSUME NEW n \in 1..(M + 1)
        PROVE  g[n] = LET prior == IF n = 1 THEN <<>> ELSE g[n - 1]
                      IN  IF n \in K THEN Append(prior, val[n]) ELSE prior
    <3>1. CASE n \in 1..M
      <4>1. g[n] = f[n] /\ (n # 1 => g[n - 1] = f[n - 1])
        BY <3>1
      <4>2. QED
        BY <2>1, <3>1, <4>1
    <3>2. CASE n = M + 1
      <4>1. M # 0 => g[M] = f[M]
        OBVIOUS
      <4>2. QED
        BY <3>2, <4>1
    <3>3. QED
      BY <3>1, <3>2
  <2>3. Good(M + 1, g)
    <3> HIDE DEF g
    <3> SUFFICES g = [n \in 1..(M + 1) |-> g[n]]
      BY <2>2
    <3>1. QED
      BY DEF g
  <2>4. M + 1 \in Nat
    OBVIOUS
  <2>5. QED
    <3> HIDE DEF g, Good
    <3>1. QED BY <2>3, <2>4
<1>3. N \in S
  <2> HIDE DEF S
  <2>1. QED BY <1>1, <1>2, Induction
<1>4. QED
  BY <1>3

\* Its recursive equation, applied.
LEMMA CollectStep ==
    ASSUME NEW N, NEW K, NEW val, NEW f, Collects(f, N, K, val), NEW n \in 1..N
    PROVE  f[n] = LET before == IF n = 1 THEN <<>> ELSE f[n - 1]
                  IN  IF n \in K THEN Append(before, val[n]) ELSE before
BY DEF Collects

\* Two that collect the same up to M agree up to M.
LEMMA CollectAgrees ==
    ASSUME NEW N \in Nat, NEW M \in Nat, N <= M, NEW K, NEW L, NEW val, NEW wal, NEW f, NEW g,
           Collects(f, N, K, val), Collects(g, M, L, wal),
           \A n \in 1..N : (n \in K <=> n \in L) /\ val[n] = wal[n]
    PROVE  \A n \in 1..N : f[n] = g[n]
<1> DEFINE T == {n \in 1..N : f[n] # g[n]}
<1>1. SUFFICES ASSUME T # {} PROVE FALSE
  OBVIOUS
<1>2. PICK n \in T : \A m \in T : n <= m
  <2>1. T \in SUBSET Nat
    OBVIOUS
  <2> HIDE DEF T
  <2>2. QED BY <1>1, <2>1, Least
<1>3. n # 1 => n - 1 \in 1..N /\ f[n - 1] = g[n - 1]
  BY <1>2
<1> DEFINE before == IF n = 1 THEN <<>> ELSE f[n - 1]
           prior == IF n = 1 THEN <<>> ELSE g[n - 1]
<1>4. before = prior
  BY <1>3
<1>5. n \in 1..N /\ n \in 1..M /\ (n \in K <=> n \in L) /\ val[n] = wal[n]
  OBVIOUS
<1>6. f[n] = IF n \in K THEN Append(before, val[n]) ELSE before
  BY <1>5, CollectStep
<1>7. g[n] = IF n \in L THEN Append(prior, wal[n]) ELSE prior
  BY <1>5, CollectStep
<1>8. f[n] = g[n]
  <2> HIDE DEF before, prior
  <2>1. QED BY <1>4, <1>5, <1>6, <1>7
<1>9. QED
  BY <1>8

\* What it collects is a sequence of the values.
LEMMA CollectType ==
    ASSUME NEW N \in Nat, NEW K, NEW val, NEW f, NEW V,
           Collects(f, N, K, val), \A n \in 1..N : n \in K => val[n] \in V
    PROVE  \A n \in 1..N : f[n] \in Seq(V)
<1> DEFINE T == {n \in 1..N : f[n] \notin Seq(V)}
<1>1. SUFFICES ASSUME T # {} PROVE FALSE
  OBVIOUS
<1>2. PICK n \in T : \A m \in T : n <= m
  <2>1. T \in SUBSET Nat
    OBVIOUS
  <2> HIDE DEF T
  <2>2. QED BY <1>1, <2>1, Least
<1> DEFINE before == IF n = 1 THEN <<>> ELSE f[n - 1]
<1>3. before \in Seq(V)
  BY <1>2
<1>4. f[n] = IF n \in K THEN Append(before, val[n]) ELSE before
  BY DEF Collects
<1>5. f[n] \in Seq(V)
  <2>1. n \in K => val[n] \in V
    OBVIOUS
  <2> HIDE DEF before
  <2>2. QED BY <1>3, <1>4, <2>1
<1>6. QED
  BY <1>5

\* Bodies collects the bodies of the receipts of one kind,
LEMMA BodiesCollect ==
    ASSUME NEW S, NEW entries \in Seq(S), NEW kind
    PROVE  \E f : /\ Collects(f, Len(entries), {n \in 1..Len(entries) : entries[n].kind = kind},
                              [n \in 1..Len(entries) |-> entries[n].body])
                  /\ Bodies(entries, kind) = IF entries = <<>> THEN <<>> ELSE f[Len(entries)]
<1> DEFINE K == {n \in 1..Len(entries) : entries[n].kind = kind}
           val == [n \in 1..Len(entries) |-> entries[n].body]
           Good(f) == f = [n \in 1..Len(entries) |->
                          LET before == IF n = 1 THEN <<>> ELSE f[n - 1]
                          IN  IF entries[n].kind = kind THEN Append(before, entries[n].body)
                              ELSE before]
<1>1. PICK f : Collects(f, Len(entries), K, val)
  <2> HIDE DEF K, val
  <2>1. Len(entries) \in Nat
    OBVIOUS
  <2>2. QED
    BY <2>1, CollectExists
<1>2. Good(f)
  BY <1>1 DEF Collects
<1> DEFINE u == CHOOSE g : Good(g)
<1>3. Good(u)
  <2> HIDE DEF Good
  <2>1. QED BY <1>2
<1>4. Bodies(entries, kind) = IF entries = <<>> THEN <<>> ELSE u[Len(entries)]
  BY DEF Bodies
<1> HIDE DEF u
<1>5. Collects(u, Len(entries), K, val)
  BY <1>3 DEF Collects
<1>6. QED
  BY <1>4, <1>5

\* and Admitted the proposals that decisions selected.
LEMMA AdmittedCollect ==
    ASSUME NEW S, NEW decisions \in Seq(S)
    PROVE  \E f : /\ Collects(f, Len(decisions),
                              {n \in 1..Len(decisions) : decisions[n].selected # Nothing},
                              [n \in 1..Len(decisions) |-> decisions[n].selected])
                  /\ Admitted(decisions) = IF decisions = <<>> THEN <<>> ELSE f[Len(decisions)]
<1> DEFINE K == {n \in 1..Len(decisions) : decisions[n].selected # Nothing}
           val == [n \in 1..Len(decisions) |-> decisions[n].selected]
           Good(f) == f = [n \in 1..Len(decisions) |->
                          LET before == IF n = 1 THEN <<>> ELSE f[n - 1]
                              p == decisions[n].selected
                          IN  IF p # Nothing THEN Append(before, p) ELSE before]
<1>1. PICK f : Collects(f, Len(decisions), K, val)
  <2> HIDE DEF K, val
  <2>1. Len(decisions) \in Nat
    OBVIOUS
  <2>2. QED
    BY <2>1, CollectExists
<1>2. Good(f)
  BY <1>1 DEF Collects
<1> DEFINE u == CHOOSE g : Good(g)
<1>3. Good(u)
  <2> HIDE DEF Good
  <2>1. QED BY <1>2
<1>4. Admitted(decisions) = IF decisions = <<>> THEN <<>> ELSE u[Len(decisions)]
  BY DEF Admitted
<1> HIDE DEF u
<1>5. Collects(u, Len(decisions), K, val)
  BY <1>3 DEF Collects
<1>6. QED
  BY <1>4, <1>5

\* No receipts, no bodies.
LEMMA BodiesOfNone == ASSUME NEW kind PROVE Bodies(<<>>, kind) = <<>>
BY DEF Bodies

\* The bodies of one kind are a sequence of that kind's bodies.
LEMMA BodiesType ==
    ASSUME NEW S, NEW entries \in Seq(S), NEW kind, NEW V,
           \A e \in S : e.kind = kind => e.body \in V
    PROVE  Bodies(entries, kind) \in Seq(V)
<1> DEFINE K == {n \in 1..Len(entries) : entries[n].kind = kind}
           val == [n \in 1..Len(entries) |-> entries[n].body]
<1>1. PICK f : /\ Collects(f, Len(entries), K, val)
               /\ Bodies(entries, kind) = IF entries = <<>> THEN <<>> ELSE f[Len(entries)]
  BY BodiesCollect
<1>2. Len(entries) \in Nat /\ \A n \in 1..Len(entries) : n \in K => val[n] \in V
  OBVIOUS
<1>3. \A n \in 1..Len(entries) : f[n] \in Seq(V)
  <2> HIDE DEF K, val
  <2>1. QED BY <1>1, <1>2, CollectType
<1>4. QED
  BY <1>1, <1>3, EmptySeq

\* One more receipt adds its body to its own kind.
LEMMA BodiesAppend ==
    ASSUME NEW S, NEW entries \in Seq(S), NEW e \in S, NEW kind
    PROVE  Bodies(Append(entries, e), kind) =
              IF e.kind = kind THEN Append(Bodies(entries, kind), e.body)
              ELSE Bodies(entries, kind)
<1> DEFINE N == Len(entries)
           longer == Append(entries, e)
           K == {n \in 1..N : entries[n].kind = kind}
           val == [n \in 1..N |-> entries[n].body]
           L == {n \in 1..Len(longer) : longer[n].kind = kind}
           wal == [n \in 1..Len(longer) |-> longer[n].body]
<1>1. /\ N \in Nat /\ longer \in Seq(S) /\ Len(longer) = N + 1 /\ longer # <<>>
      /\ longer[N + 1] = e /\ \A n \in 1..N : longer[n] = entries[n]
  BY AppendProperties
<1>2. PICK f : /\ Collects(f, N, K, val)
               /\ Bodies(entries, kind) = IF entries = <<>> THEN <<>> ELSE f[N]
  BY BodiesCollect
<1>3. PICK g : /\ Collects(g, Len(longer), L, wal)
               /\ Bodies(longer, kind) = IF longer = <<>> THEN <<>> ELSE g[Len(longer)]
  <2> HIDE DEF longer
  <2>1. QED BY <1>1, BodiesCollect
<1> HIDE DEF longer
<1>4. \A n \in 1..N : (n \in K <=> n \in L) /\ val[n] = wal[n]
  BY <1>1
<1>5. N + 1 \in 1..Len(longer) /\ (N + 1 \in L <=> e.kind = kind) /\ wal[N + 1] = e.body
  BY <1>1
<1>6. entries = <<>> <=> N = 0
  BY EmptySeq
<1> HIDE DEF K, L, val, wal, N
<1>7. \A n \in 1..N : f[n] = g[n]
  <2>1. N + 1 \in Nat /\ N <= N + 1
    BY <1>1
  <2>2. QED
    BY <1>1, <1>2, <1>3, <1>4, <2>1, CollectAgrees
<1> DEFINE before == IF N = 0 THEN <<>> ELSE g[N]
<1>8. g[N + 1] = IF N + 1 \in L THEN Append(before, wal[N + 1]) ELSE before
  BY <1>1, <1>3, <1>5, CollectStep
<1>9. before = Bodies(entries, kind)
  BY <1>1, <1>2, <1>6, <1>7
<1>10. Bodies(longer, kind) = g[N + 1]
  BY <1>1, <1>3
<1>11. QED
  <2> HIDE DEF before
  <2>1. QED BY <1>5, <1>8, <1>9, <1>10 DEF longer

\* No decisions, no proposals.
LEMMA AdmittedOfNone == Admitted(<<>>) = <<>>
BY DEF Admitted

\* Admitted proposals are proposals.
LEMMA AdmittedType ==
    ASSUME NEW decisions \in Seq(Decisions)
    PROVE  Admitted(decisions) \in Seq(Proposals)
<1> DEFINE K == {n \in 1..Len(decisions) : decisions[n].selected # Nothing}
           val == [n \in 1..Len(decisions) |-> decisions[n].selected]
<1>1. PICK f : /\ Collects(f, Len(decisions), K, val)
               /\ Admitted(decisions) = IF decisions = <<>> THEN <<>> ELSE f[Len(decisions)]
  BY AdmittedCollect
<1>2. Len(decisions) \in Nat /\ \A n \in 1..Len(decisions) : n \in K => val[n] \in Proposals
  <2>1. \A d \in Decisions : d.selected \in Proposals \cup {Nothing}
    BY DEF Decisions
  <2>2. QED
    BY <2>1
<1>3. \A n \in 1..Len(decisions) : f[n] \in Seq(Proposals)
  <2> HIDE DEF K, val
  <2>1. QED BY <1>1, <1>2, CollectType
<1>4. QED
  BY <1>1, <1>3, EmptySeq

\* One more decision admits the proposal it selected, if it did.
LEMMA AdmittedAppend ==
    ASSUME NEW S, NEW decisions \in Seq(S), NEW d \in S
    PROVE  Admitted(Append(decisions, d)) =
              IF d.selected # Nothing THEN Append(Admitted(decisions), d.selected)
              ELSE Admitted(decisions)
<1> DEFINE N == Len(decisions)
           longer == Append(decisions, d)
           K == {n \in 1..N : decisions[n].selected # Nothing}
           val == [n \in 1..N |-> decisions[n].selected]
           L == {n \in 1..Len(longer) : longer[n].selected # Nothing}
           wal == [n \in 1..Len(longer) |-> longer[n].selected]
<1>1. /\ N \in Nat /\ longer \in Seq(S) /\ Len(longer) = N + 1 /\ longer # <<>>
      /\ longer[N + 1] = d /\ \A n \in 1..N : longer[n] = decisions[n]
  BY AppendProperties
<1>2. PICK f : /\ Collects(f, N, K, val)
               /\ Admitted(decisions) = IF decisions = <<>> THEN <<>> ELSE f[N]
  BY AdmittedCollect
<1>3. PICK g : /\ Collects(g, Len(longer), L, wal)
               /\ Admitted(longer) = IF longer = <<>> THEN <<>> ELSE g[Len(longer)]
  <2> HIDE DEF longer
  <2>1. QED BY <1>1, AdmittedCollect
<1> HIDE DEF longer
<1>4. \A n \in 1..N : (n \in K <=> n \in L) /\ val[n] = wal[n]
  BY <1>1
<1>5. N + 1 \in 1..Len(longer) /\ (N + 1 \in L <=> d.selected # Nothing) /\ wal[N + 1] = d.selected
  BY <1>1
<1>6. decisions = <<>> <=> N = 0
  BY EmptySeq
<1> HIDE DEF K, L, val, wal, N
<1>7. \A n \in 1..N : f[n] = g[n]
  <2>1. N + 1 \in Nat /\ N <= N + 1
    BY <1>1
  <2>2. QED
    BY <1>1, <1>2, <1>3, <1>4, <2>1, CollectAgrees
<1> DEFINE before == IF N = 0 THEN <<>> ELSE g[N]
<1>8. g[N + 1] = IF N + 1 \in L THEN Append(before, wal[N + 1]) ELSE before
  BY <1>1, <1>3, <1>5, CollectStep
<1>9. before = Admitted(decisions)
  BY <1>1, <1>2, <1>6, <1>7
<1>10. Admitted(longer) = g[N + 1]
  BY <1>1, <1>3
<1>11. QED
  <2> HIDE DEF before
  <2>1. QED BY <1>5, <1>8, <1>9, <1>10 DEF longer

-----------------------------------------------------------------------------
\* f[k] is the line of receipts that ends in the k-th.
Branches(f, receipts) ==
    f = [k \in 1..Len(receipts) |->
            Append(IF receipts[k].parent = 0 THEN <<>> ELSE f[receipts[k].parent], receipts[k])]

ParentsPrecede(receipts) == \A i \in 1..Len(receipts) : receipts[i].parent \in 0..(i - 1)

\* When parents precede, every receipt has its line.
LEMMA BranchesExist ==
    ASSUME NEW S, NEW receipts \in Seq(S), ParentsPrecede(receipts)
    PROVE  \E f : Branches(f, receipts)
<1> DEFINE N == Len(receipts)
           last(f, k) == Append(IF receipts[k].parent = 0 THEN <<>> ELSE f[receipts[k].parent],
                                receipts[k])
           Good(M, f) == f = [k \in 1..M |-> last(f, k)]
           T == {M \in Nat : M <= N => \E f : Good(M, f)}
<1>1. 0 \in T
  <2>1. Good(0, [n \in 1..0 |-> n])
    OBVIOUS
  <2>2. QED
    BY <2>1
<1>2. ASSUME NEW M \in Nat, M \in T PROVE M + 1 \in T
  <2>2. N \in Nat
    OBVIOUS
  <2>1. SUFFICES ASSUME M + 1 <= N PROVE \E g : Good(M + 1, g)
    <3> HIDE DEF Good
    <3>1. QED OBVIOUS
  <2>3. PICK f : Good(M, f)
    <3> HIDE DEF Good, N
    <3>1. QED BY <1>2, <2>1, <2>2
  <2> DEFINE g == [k \in 1..(M + 1) |-> IF k <= M THEN f[k] ELSE last(f, k)]
  <2>4. ASSUME NEW k \in 1..(M + 1) PROVE g[k] = last(g, k)
    <3>1. receipts[k].parent \in 0..(k - 1)
      BY <2>1, <2>2 DEF ParentsPrecede
    <3>2. receipts[k].parent # 0 => g[receipts[k].parent] = f[receipts[k].parent]
      BY <3>1
    <3>3. g[k] = last(f, k)
      <4>1. CASE k <= M
        <5>1. k \in 1..M
          BY <4>1
        <5>2. f[k] = last(f, k)
          BY <2>3, <5>1
        <5> HIDE DEF last
        <5>3. QED
          BY <4>1, <5>2
      <4>2. CASE k > M
        <5> HIDE DEF last
        <5>1. QED BY <4>2
      <4>3. QED
        BY <4>1, <4>2
    <3>4. QED
      BY <3>2, <3>3
  <2>5. Good(M + 1, g)
    <3> HIDE DEF g
    <3> SUFFICES g = [k \in 1..(M + 1) |-> g[k]]
      BY <2>4
    <3>1. QED
      BY DEF g
  <2>6. QED
    <3> HIDE DEF g, Good
    <3>1. QED BY <2>5
<1>3. N \in T /\ N \in Nat
  <2>1. N \in Nat
    OBVIOUS
  <2> HIDE DEF T
  <2>2. QED BY <1>1, <1>2, <2>1, Induction
<1>4. PICK f : Good(N, f)
  BY <1>3
<1>5. QED
  BY <1>4 DEF Branches

\* Lineages is that function.
LEMMA LineagesBranch == log \in Seq(Receipts) /\ ParentsPrecede(log) => Branches(Lineages, log)
<1> SUFFICES ASSUME log \in Seq(Receipts), ParentsPrecede(log) PROVE Branches(Lineages, log)
  OBVIOUS
<1>1. \E f : Branches(f, log)
  BY BranchesExist
<1>2. Branches(CHOOSE f : Branches(f, log), log)
  BY <1>1
<1>3. Lineages = CHOOSE f : Branches(f, log)
  BY Zenon DEF Lineages, Branches
<1>4. QED
  BY <1>2, <1>3

\* Its recursive equation, applied.
LEMMA BranchStep ==
    ASSUME NEW receipts, NEW f, Branches(f, receipts), NEW k \in 1..Len(receipts)
    PROVE  f[k] = Append(IF receipts[k].parent = 0 THEN <<>> ELSE f[receipts[k].parent],
                         receipts[k])
BY DEF Branches

\* Two ledgers that agree on the first receipts agree on their lines.
LEMMA BranchesAgree ==
    ASSUME NEW S, NEW r \in Seq(S), NEW t \in Seq(S), NEW f, NEW g,
           Branches(f, r), Branches(g, t), ParentsPrecede(r), Len(r) <= Len(t),
           \A i \in 1..Len(r) : t[i] = r[i]
    PROVE  \A k \in 1..Len(r) : f[k] = g[k]
<1> DEFINE T == {k \in 1..Len(r) : f[k] # g[k]}
<1>1. SUFFICES ASSUME T # {} PROVE FALSE
  OBVIOUS
<1>2. PICK k \in T : \A m \in T : k <= m
  <2>1. T \in SUBSET Nat
    OBVIOUS
  <2> HIDE DEF T
  <2>2. QED BY <1>1, <2>1, Least
<1>3. r[k].parent # 0 => f[r[k].parent] = g[r[k].parent]
  <2>1. r[k].parent \in 0..(k - 1)
    BY DEF ParentsPrecede
  <2>2. QED
    BY <1>2, <2>1
<1>4. f[k] = Append(IF r[k].parent = 0 THEN <<>> ELSE f[r[k].parent], r[k])
  BY BranchStep
<1>5. g[k] = Append(IF t[k].parent = 0 THEN <<>> ELSE g[t[k].parent], t[k])
  <2>1. k \in 1..Len(t)
    OBVIOUS
  <2>2. QED
    BY <2>1, BranchStep
<1>6. t[k] = r[k]
  OBVIOUS
<1>7. f[k] = g[k]
  BY <1>3, <1>4, <1>5, <1>6
<1>8. QED
  BY <1>7

\* A lineage is its parent's and one receipt more.
LEMMA LineageStep ==
    log \in Seq(Receipts) /\ ParentsPrecede(log) =>
        \A k \in 1..Len(log) : Lineage(k) = Append(Lineage(log[k].parent), log[k])
<1> SUFFICES ASSUME log \in Seq(Receipts), ParentsPrecede(log), NEW k \in 1..Len(log)
             PROVE  Lineage(k) = Append(Lineage(log[k].parent), log[k])
  OBVIOUS
<1>1. Branches(Lineages, log)
  BY LineagesBranch
<1>2. Lineages[k] =
         Append(IF log[k].parent = 0 THEN <<>> ELSE Lineages[log[k].parent], log[k])
  BY <1>1, BranchStep
<1>3. k # 0
  OBVIOUS
<1>4. QED
  BY <1>2, <1>3, Zenon DEF Lineage

\* A ledger that only grows keeps every lineage.
LEMMA LineageKept ==
    ASSUME log \in Seq(Receipts), log' \in Seq(Receipts), ParentsPrecede(log),
           ParentsPrecede(log'), Len(log) <= Len(log'), \A i \in 1..Len(log) : log'[i] = log[i],
           NEW k \in 0..Len(log)
    PROVE  Lineage(k)' = Lineage(k)
<1>1. Branches(Lineages, log)
  BY LineagesBranch
<1>2. Branches(Lineages', log')
  <2>1. (log \in Seq(Receipts) /\ ParentsPrecede(log) => Branches(Lineages, log))'
    BY LineagesBranch, PTL
  <2>2. QED
    BY <2>1
<1>3. \A i \in 1..Len(log) : Lineages[i] = Lineages'[i]
  BY <1>1, <1>2, BranchesAgree
<1>4. QED
  BY <1>3 DEF Lineage

\* A lineage is a sequence of receipts.
LEMMA LineageType ==
    ASSUME log \in Seq(Receipts), ParentsPrecede(log), NEW k \in 0..Len(log)
    PROVE  Lineage(k) \in Seq(Receipts)
<1> DEFINE T == {i \in 0..Len(log) : Lineage(i) \notin Seq(Receipts)}
<1>1. SUFFICES ASSUME T # {} PROVE FALSE
  OBVIOUS
<1>2. PICK i \in T : \A m \in T : i <= m
  <2>1. T \in SUBSET Nat
    OBVIOUS
  <2> HIDE DEF T
  <2>2. QED BY <1>1, <2>1, Least
<1>3. i # 0
  BY DEF Lineage
<1>4. log[i].parent \in 0..(i - 1) /\ log[i] \in Receipts
  BY <1>3 DEF ParentsPrecede
<1>5. Lineage(log[i].parent) \in Seq(Receipts)
  BY <1>2, <1>4
<1>6. Lineage(i) = Append(Lineage(log[i].parent), log[i])
  BY <1>3, LineageStep
<1>7. Lineage(i) \in Seq(Receipts)
  BY <1>4, <1>5, <1>6
<1>8. QED
  BY <1>7

-----------------------------------------------------------------------------
\* What one more receipt changes in the state its lineage tells.
Failed(e) == e.kind = "assessment" /\ e.body.authority = "FAILURE"

\* The last place of a predicate, after one more element.
LEMMA LastOf ==
    ASSUME NEW n \in Nat, NEW I \in SUBSET (1..n)
    PROVE  /\ I # {} => Max(I) \in I /\ \A i \in I : Max(I) >= i
           /\ n + 1 \in Nat /\ Max(I \cup {n + 1}) = n + 1
<1>1. I # {} => \E x \in I : \A y \in I : x >= y
  BY Greatest
<1>2. I # {} => Max(I) \in I /\ \A i \in I : Max(I) >= i
  BY <1>1 DEF Max
<1>3. Max(I \cup {n + 1}) = n + 1
  <2> DEFINE T == I \cup {n + 1}
  <2>1. T \in SUBSET (1..(n + 1)) /\ n + 1 \in T /\ (\A y \in T : n + 1 >= y) /\ n + 1 \in Nat
    OBVIOUS
  <2> HIDE DEF T
  <2>2. Max(T) = n + 1
    BY <2>1, MaxIs
  <2>3. QED
    BY <2>2 DEF T
<1>4. QED
  BY <1>2, <1>3

\* No receipts, no last move and no last failure.
LEMMA LastMoveOfNone == LastMove(<<>>) = 0 /\ LastFailure(<<>>) = 0
BY DEF LastMove, LastFailure, SelectLastInSeq

\* The last move and the last failure are places of the sequence, or 0.
LEMMA LastMoveType ==
    ASSUME NEW S, NEW s \in Seq(S)
    PROVE  /\ LastMove(s) \in 0..Len(s)
           /\ LastFailure(s) \in 0..Len(s)
<1> DEFINE I == {i \in 1..Len(s) : Moves(s[i])}
           J == {i \in 1..Len(s) : Failed(s[i])}
<1>1. LastMove(s) = (IF I # {} THEN Max(I) ELSE 0)
  BY DEF LastMove, SelectLastInSeq
<1>2. LastFailure(s) = (IF J # {} THEN Max(J) ELSE 0)
  BY DEF LastFailure, SelectLastInSeq, Failed
<1>3. Len(s) \in Nat /\ I \in SUBSET (1..Len(s)) /\ J \in SUBSET (1..Len(s))
  OBVIOUS
<1> HIDE DEF I, J
<1>4. (I # {} => Max(I) \in I) /\ (J # {} => Max(J) \in J)
  BY <1>3, LastOf
<1>5. (I # {} => Max(I) \in 1..Len(s)) /\ (J # {} => Max(J) \in 1..Len(s))
  BY <1>3, <1>4
<1>6. QED
  BY <1>1, <1>2, <1>3, <1>5

\* One more receipt is the last move if it moves, and the last failure if it
\* failed.
LEMMA LastMoveAppend ==
    ASSUME NEW S, NEW s \in Seq(S), NEW e \in S
    PROVE  /\ LastMove(Append(s, e)) = IF Moves(e) THEN Len(s) + 1 ELSE LastMove(s)
           /\ LastFailure(Append(s, e)) = IF Failed(e) THEN Len(s) + 1 ELSE LastFailure(s)
<1> DEFINE longer == Append(s, e)
           n == Len(s)
           I == {i \in 1..n : Moves(s[i])}
           J == {i \in 1..n : Failed(s[i])}
           I2 == {i \in 1..Len(longer) : Moves(longer[i])}
           J2 == {i \in 1..Len(longer) : Failed(longer[i])}
<1>1. LastMove(s) = (IF I # {} THEN Max(I) ELSE 0)
  BY DEF LastMove, SelectLastInSeq
<1>2. LastFailure(s) = (IF J # {} THEN Max(J) ELSE 0)
  BY DEF LastFailure, SelectLastInSeq, Failed
<1>3. LastMove(longer) = (IF I2 # {} THEN Max(I2) ELSE 0)
  BY DEF LastMove, SelectLastInSeq
<1>4. LastFailure(longer) = (IF J2 # {} THEN Max(J2) ELSE 0)
  BY DEF LastFailure, SelectLastInSeq, Failed
<1>5. /\ n \in Nat /\ Len(longer) = n + 1 /\ longer[n + 1] = e
      /\ \A i \in 1..n : longer[i] = s[i]
  BY AppendProperties
<1> HIDE DEF longer, n
<1>6. I2 = (IF Moves(e) THEN I \cup {n + 1} ELSE I)
  BY <1>5
<1>7. J2 = (IF Failed(e) THEN J \cup {n + 1} ELSE J)
  BY <1>5
<1>8. I \in SUBSET (1..n) /\ J \in SUBSET (1..n)
  OBVIOUS
<1> HIDE DEF I, J, I2, J2
<1>9. Max(I \cup {n + 1}) = n + 1 /\ Max(J \cup {n + 1}) = n + 1
  BY <1>5, <1>8, LastOf
<1>10. LastMove(longer) = IF Moves(e) THEN n + 1 ELSE LastMove(s)
  BY <1>1, <1>3, <1>6, <1>9
<1>11. LastFailure(longer) = IF Failed(e) THEN n + 1 ELSE LastFailure(s)
  BY <1>2, <1>4, <1>7, <1>9
<1>12. QED
  BY <1>10, <1>11 DEF longer, n

\* No receipts tell a fresh session.
LEMMA ReplayOfNone ==
    Replay(<<>>) = [phase |-> "NEEDS_SCAN", request |-> Nothing, pending |-> Nothing,
                    terminal |-> Nothing, failed |-> Nothing, scans |-> <<>>,
                    decisions |-> <<>>, assessments |-> <<>>]
BY LastMoveOfNone, BodiesOfNone DEF Replay

\* The state that a receipt which moves a session leaves it in.
LEMMA ReplayMoved ==
    ASSUME NEW S, NEW s \in Seq(S), NEW e \in S, Moves(e)
    PROVE  LET after == Replay(Append(s, e)) IN
           /\ e.kind = "scan" =>
                 /\ after.phase = "READY_TO_ACT" /\ after.request = e.body.request
                 /\ after.pending = Nothing /\ after.terminal = Nothing
           /\ e.kind = "decision" =>
                 /\ after.phase = "AWAITING_ASSESSMENT" /\ after.request = e.body.request
                 /\ after.pending = e.body.selected /\ after.terminal = Nothing
           /\ e.kind = "assessment" =>
                 /\ after.phase = e.body.after /\ after.request = Nothing
                 /\ after.pending = Nothing
                 /\ after.terminal = IF e.body.authority \in Final THEN e.body.authority
                                     ELSE Nothing
<1> DEFINE longer == Append(s, e)
<1>1. LastMove(longer) = Len(s) + 1 /\ Len(s) + 1 # 0 /\ longer[Len(s) + 1] = e
  BY LastMoveAppend, AppendProperties
<1> HIDE DEF longer
<1>2. QED
  BY <1>1 DEF Replay, Moves, longer

\* A receipt that moves nothing leaves the state told as it was,
LEMMA ReplayUnmoved ==
    ASSUME NEW S, NEW s \in Seq(S), NEW e \in S, ~Moves(e)
    PROVE  LET before == Replay(s)
               after == Replay(Append(s, e))
           IN  /\ after.phase = before.phase /\ after.request = before.request
               /\ after.pending = before.pending /\ after.terminal = before.terminal
<1> DEFINE longer == Append(s, e)
<1>1. LastMove(longer) = LastMove(s) /\ LastMove(s) \in 0..Len(s)
  BY LastMoveAppend, LastMoveType
<1>2. LastMove(s) # 0 => longer[LastMove(s)] = s[LastMove(s)]
  BY <1>1, AppendProperties
<1> HIDE DEF longer
<1>3. QED
  BY <1>1, <1>2 DEF Replay, longer

\* only a failed assessment changes the failed-action guard,
LEMMA ReplayFailed ==
    ASSUME NEW S, NEW s \in Seq(S), NEW e \in S
    PROVE  Replay(Append(s, e)).failed =
              IF Failed(e) THEN Signature(e.body.proposal) ELSE Replay(s).failed
<1> DEFINE longer == Append(s, e)
<1>1. /\ LastFailure(longer) = IF Failed(e) THEN Len(s) + 1 ELSE LastFailure(s)
      /\ LastFailure(s) \in 0..Len(s)
  BY LastMoveAppend, LastMoveType
<1>2. /\ LastFailure(s) # 0 => longer[LastFailure(s)] = s[LastFailure(s)]
      /\ Len(s) + 1 # 0 /\ longer[Len(s) + 1] = e
  BY <1>1, AppendProperties
<1> HIDE DEF longer
<1>3. QED
  BY <1>1, <1>2 DEF Replay, longer

\* and each history grows by the bodies of its own kind.
HistoriesGrow(before, after, e) ==
    /\ after.scans = IF e.kind = "scan" THEN Append(before.scans, e.body) ELSE before.scans
    /\ after.decisions = IF e.kind = "decision" THEN Append(before.decisions, e.body)
                         ELSE before.decisions
    /\ after.assessments = IF e.kind = "assessment" THEN Append(before.assessments, e.body)
                           ELSE before.assessments

\* Replay adds to its histories what one more receipt says.
LEMMA ReplayHistories ==
    ASSUME NEW S, NEW s \in Seq(S), NEW e \in S
    PROVE  HistoriesGrow(Replay(s), Replay(Append(s, e)), e)
BY BodiesAppend DEF Replay, HistoriesGrow

-----------------------------------------------------------------------------
(* The inductive invariant.                                                *)

\* A session's fields make the sense that restore demands of a checkpoint, and
\* it has left TERMINAL never.
Coheres(m) ==
    /\ HistoriesCohere([phase |-> m.phase, admitted |-> Len(Admitted(m.decisions))],
                       m.scans, m.decisions, m.assessments)
    /\ StateCoheres(m, m.scans, m.decisions, m.assessments)
    /\ m.phase # "TERMINAL" =>
          \A i \in 1..Len(m.assessments) : m.assessments[i].after # "TERMINAL"

HeadOf(m) == IF m.refs = <<>> THEN 0 ELSE Last(m.refs)
EntriesOf(m) == [i \in 1..Len(m.refs) |-> log[m.refs[i]]]

\* A memory holds what the given receipts tell.
Holds(m, entries) ==
    LET told == Replay(entries)
    IN  /\ m.phase = told.phase /\ m.request = told.request /\ m.pending = told.pending
        /\ m.terminal = told.terminal /\ m.failed = told.failed
        /\ m.scans = told.scans /\ m.decisions = told.decisions
        /\ m.assessments = told.assessments

\* A memory stands on a lineage of the ledger and holds what it tells.
Stands(m) == EntriesOf(m) = Lineage(HeadOf(m)) /\ Holds(m, EntriesOf(m)) /\ Coheres(m)

\* What a session in state m may append: the guards of the calls.
Due(m, kind, body) ==
    /\ kind = "scan" => m.phase \in {"NEEDS_SCAN", "READY_TO_ACT"}
    /\ kind = "decision" =>
          /\ m.phase = "READY_TO_ACT" /\ body.request = m.request
          /\ body.selected # Nothing => Signature(body.selected) # m.failed
    /\ kind = "assessment" =>
          /\ m.phase = "AWAITING_ASSESSMENT" /\ body.proposal = m.pending
          /\ ExactEvidence(m, body.evidence)

\* The snapshot of a session with so many receipts of which head is the last.
SnapshotAt(m, count, head) ==
    [phase |-> m.phase, terminal |-> m.terminal, request |-> m.request,
     pending |-> m.pending, failed |-> m.failed, count |-> count, head |-> head,
     scans |-> Len(m.scans), decisions |-> Len(m.decisions),
     assessments |-> Len(m.assessments), admitted |-> Len(Admitted(m.decisions))]

\* The receipt at k was due, and true, in the state its lineage tells.
Written(k) ==
    LET entries == Lineage(log[k].parent)
        told == Replay(entries)
    IN  /\ Coheres(told)
        /\ Due(told, log[k].kind, log[k].body)
        /\ log[k].kind \in CheckpointKinds =>
              /\ log[k].position = Len(entries)
              /\ log[k].body = SnapshotAt(told, Len(entries), log[k].parent)

SessionInv ==
    /\ TypeOK
    /\ \A h \in Handles : Live(h) => Stands(memory[h])
    /\ \A k \in 1..Len(log) : Written(k)

-----------------------------------------------------------------------------
\* The ledger only grows.
LogGrows ==
    /\ log' \in Seq(Receipts) /\ ParentsPrecede(log') /\ Len(log) <= Len(log')
    /\ \A i \in 1..Len(log) : log'[i] = log[i]

\* What the type invariant says, in the form the proofs use.
LEMMA TypeFacts ==
    ASSUME TypeOK
    PROVE  /\ log \in Seq(Receipts) /\ ParentsPrecede(log) /\ Len(log) \in Nat
           /\ \A h \in Handles : Live(h) =>
                 /\ memory[h] \in Memories
                 /\ memory[h].refs \in Seq(1..Len(log)) /\ memory[h].refs \in Seq(Nat)
                 /\ Len(memory[h].refs) \in Nat
                 /\ HeadOf(memory[h]) \in 0..Len(log)
                 /\ EntriesOf(memory[h]) \in Seq(Receipts)
                 /\ Len(EntriesOf(memory[h])) = Len(memory[h].refs)
<1>1. log \in Seq(Receipts) /\ ParentsPrecede(log) /\ Len(log) \in Nat
  BY DEF TypeOK, ParentsPrecede
<1>2. SUFFICES ASSUME NEW h \in Handles, Live(h)
               PROVE  /\ memory[h] \in Memories
                      /\ memory[h].refs \in Seq(1..Len(log)) /\ memory[h].refs \in Seq(Nat)
                      /\ Len(memory[h].refs) \in Nat
                      /\ HeadOf(memory[h]) \in 0..Len(log)
                      /\ EntriesOf(memory[h]) \in Seq(Receipts)
                      /\ Len(EntriesOf(memory[h])) = Len(memory[h].refs)
  BY <1>1
<1>3. memory[h] \in Memories
  BY <1>2 DEF TypeOK, Live
<1> DEFINE refs == memory[h].refs
<1>4. refs \in Seq(1..Len(log))
  BY <1>2 DEF TypeOK
<1>5. refs \in Seq(Nat)
  BY <1>3 DEF Memories
<1> HIDE DEF refs
<1>6. Len(refs) \in Nat
  BY <1>5
<1>7. refs # <<>> => Last(refs) \in 1..Len(log)
  BY <1>4, <1>6, EmptySeq DEF Last
<1>8. /\ [i \in 1..Len(refs) |-> log[refs[i]]] \in Seq(Receipts)
      /\ Len([i \in 1..Len(refs) |-> log[refs[i]]]) = Len(refs)
  <2>1. \A i \in 1..Len(refs) : log[refs[i]] \in Receipts
    BY <1>1, <1>4
  <2>2. QED
    BY <1>6, <2>1
<1>9. QED
  BY <1>1, <1>3, <1>4, <1>5, <1>6, <1>7, <1>8 DEF refs, HeadOf, EntriesOf

\* A handle that a step does not touch stands where it stood.
LEMMA StandsKept ==
    ASSUME TypeOK, LogGrows, NEW h \in Handles, Live(h), Stands(memory[h]),
           memory'[h] = memory[h]
    PROVE  Stands(memory[h])'
<1> DEFINE m == memory[h]
<1>1. HeadOf(memory[h])' = HeadOf(m) /\ HeadOf(m) \in 0..Len(log)
  BY TypeFacts DEF HeadOf
<1>2. EntriesOf(memory[h])' = EntriesOf(m)
  <2>1. \A i \in 1..Len(m.refs) : m.refs[i] \in 1..Len(log)
    BY TypeFacts
  <2>2. QED
    BY <2>1 DEF EntriesOf, LogGrows
<1>3. \A k \in 0..Len(log) : Lineage(k)' = Lineage(k)
  BY TypeFacts, LineageKept DEF LogGrows
<1>4. Lineage(HeadOf(memory[h]))' = Lineage(HeadOf(m))
  BY <1>1, <1>3 DEF Lineage
<1>5. QED
  BY <1>1, <1>2, <1>4 DEF Stands

\* The receipt a session would append is true of the lineage it stands on.
LEMMA SnapshotIs ==
    ASSUME TypeOK, NEW h \in Handles, Live(h)
    PROVE  Snapshot(memory[h]) =
              SnapshotAt(memory[h], Len(EntriesOf(memory[h])), HeadOf(memory[h]))
<1>1. Len(EntriesOf(memory[h])) = Len(memory[h].refs)
  BY TypeFacts
<1>2. QED
  BY <1>1 DEF Snapshot, SnapshotAt, HeadOf

\* What coheres in memory coheres in the receipts it was told by.
LEMMA CoheresAsTold ==
    ASSUME NEW m, NEW entries, Holds(m, entries), Coheres(m)
    PROVE  Coheres(Replay(entries))
<1> DEFINE told == Replay(entries)
<1>1. /\ m.phase = told.phase /\ m.request = told.request /\ m.pending = told.pending
      /\ m.terminal = told.terminal /\ m.scans = told.scans
      /\ m.decisions = told.decisions /\ m.assessments = told.assessments
  BY DEF Holds
<1> HIDE DEF told
<1>2. Coheres(told)
  BY <1>1 DEF Coheres, StateCoheres
<1>3. QED
  BY <1>2 DEF told

\* A receipt that is due in a handle's state is due, and true, in the state its
\* lineage tells; the receipts before it keep theirs.
LEMMA AppendTruth ==
    ASSUME SessionInv, NEW h \in Handles, Live(h), NEW kind, NEW body,
           Receipt(memory[h], kind, body) \in Receipts,
           Due(memory[h], kind, body),
           kind \in CheckpointKinds => body = Snapshot(memory[h]),
           UNCHANGED log \/ Appended(Receipt(memory[h], kind, body))
    PROVE  /\ LogGrows
           /\ Len(log') <= MaxReceipts
           /\ \A k \in 1..Len(log') : Written(k)'
<1> DEFINE e == Receipt(memory[h], kind, body)
           m == memory[h]
<1>1. TypeOK /\ log \in Seq(Receipts) /\ ParentsPrecede(log) /\ Len(log) \in Nat
  BY TypeFacts DEF SessionInv
<1>2. /\ e.kind = kind /\ e.body = body /\ e.parent = HeadOf(m) /\ e.position = Len(m.refs)
      /\ e \in Receipts
  BY DEF Receipt, HeadOf
<1>3. HeadOf(m) \in 0..Len(log) /\ Len(EntriesOf(m)) = Len(m.refs)
  BY <1>1, TypeFacts
<1>4. \/ log' = log
      \/ log' = Append(log, e) /\ Len(log) < MaxReceipts
  BY DEF Appended
<1> HIDE DEF e
<1>5. LogGrows
  <2>1. CASE log' = log
    BY <1>1, <2>1 DEF LogGrows
  <2>2. CASE log' = Append(log, e)
    <3>1. /\ log' \in Seq(Receipts) /\ Len(log') = Len(log) + 1 /\ log'[Len(log) + 1] = e
          /\ \A i \in 1..Len(log) : log'[i] = log[i]
      BY <1>1, <1>2, <2>2, AppendProperties
    <3>2. ParentsPrecede(log')
      BY <1>1, <1>2, <1>3, <3>1 DEF ParentsPrecede
    <3>3. QED
      BY <1>1, <3>1, <3>2 DEF LogGrows
  <2>3. QED
    BY <1>4, <2>1, <2>2
<1>6. Len(log') <= MaxReceipts
  <2>1. Len(log) <= MaxReceipts /\ MaxReceipts \in Nat
    BY <1>1, SessionAssumption DEF TypeOK
  <2>2. CASE log' = log
    BY <2>1, <2>2
  <2>3. CASE log' = Append(log, e) /\ Len(log) < MaxReceipts
    BY <1>1, <1>2, <2>1, <2>3, AppendProperties
  <2>4. QED
    BY <1>4, <2>2, <2>3
<1>7. \A k \in 0..Len(log) : Lineage(k)' = Lineage(k)
  BY <1>1, <1>5, LineageKept DEF LogGrows
<1>8. ASSUME NEW k \in 1..Len(log) PROVE Written(k)'
  <2>1. log'[k] = log[k] /\ log[k].parent \in 0..Len(log)
    BY <1>1, <1>5 DEF LogGrows, ParentsPrecede
  <2>2. Lineage(log[k].parent)' = Lineage(log[k].parent)
    BY <1>7, <2>1 DEF Lineage
  <2>3. Written(k)
    BY DEF SessionInv
  <2>4. QED
    BY <2>1, <2>2, <2>3 DEF Written
<1>9. ASSUME NEW k \in 1..Len(log'), k \notin 1..Len(log) PROVE Written(k)'
  <2>1. log'[k] = e
    BY <1>1, <1>2, <1>4, <1>9, AppendProperties
  <2>2. Stands(m)
    BY DEF SessionInv
  <2>3. Lineage(log[k].parent)' = EntriesOf(m)
    BY <1>2, <1>3, <1>7, <2>1, <2>2 DEF Stands, Lineage
  <2> DEFINE told == Replay(EntriesOf(m))
  <2>4. Coheres(told)
    BY <2>2, CoheresAsTold DEF Stands
  <2>5. /\ m.phase = told.phase /\ m.request = told.request /\ m.pending = told.pending
        /\ m.terminal = told.terminal /\ m.failed = told.failed
        /\ m.scans = told.scans /\ m.decisions = told.decisions
        /\ m.assessments = told.assessments
    BY <2>2 DEF Stands, Holds
  <2>6. Due(told, kind, body)
    <3> HIDE DEF told, m
    <3>1. Due(m, kind, body)
      BY DEF m
    <3>2. QED
      BY <2>5, <3>1 DEF Due, ExactEvidence
  <2>7. kind \in CheckpointKinds =>
          body = SnapshotAt(told, Len(EntriesOf(m)), HeadOf(m))
    <3>1. kind \in CheckpointKinds => body = SnapshotAt(m, Len(EntriesOf(m)), HeadOf(m))
      BY <1>1, SnapshotIs
    <3> HIDE DEF told, m
    <3>2. QED
      BY <2>5, <3>1 DEF SnapshotAt
  <2>8. QED
    <3> HIDE DEF told, m
    <3>1. told = Replay(Lineage(log[k].parent)')
      BY <2>3 DEF told
    <3>2. QED
      BY <1>2, <1>3, <2>1, <2>3, <2>4, <2>6, <2>7, <3>1 DEF Written
<1>10. QED
  BY <1>5, <1>6, <1>8, <1>9

\* The invariant but for the handles that are inside assess.
CoreInv ==
    /\ log \in Seq(Receipts) /\ ParentsPrecede(log) /\ Len(log) <= MaxReceipts
    /\ memory \in [Handles -> Memories \cup {Nothing}]
    /\ \A h \in Handles : Live(h) => memory[h].refs \in Seq(1..Len(log)) /\ Stands(memory[h])
    /\ \A k \in 1..Len(log) : Written(k)

ClosingInv ==
    closing \subseteq Handles /\ \A h \in closing : Live(h) /\ memory[h].phase = "TERMINAL"

\* The invariant is its two parts.
LEMMA SessionInvParts == SessionInv <=> CoreInv /\ ClosingInv
BY DEF SessionInv, CoreInv, ClosingInv, TypeOK, ParentsPrecede

\* The place a recording call adds to its handle holds the receipt it asked for,
\* whether it was appended or already stored.
LEMMA PlaceOf ==
    ASSUME log \in Seq(Receipts), NEW e \in Receipts, Appended(e) \/ Known(e)
    PROVE  /\ Place(e) \in 1..Len(log')
           /\ log'[Place(e)] = e
<1> DEFINE I == {i \in 1..Len(log) : log[i] = e}
<1>1. Len(log) \in Nat /\ I \in SUBSET (1..Len(log))
  OBVIOUS
<1>2. Stored(e) = IF I # {} THEN Min(I) ELSE 0
  BY DEF Stored, SelectInSeq
<1> HIDE DEF I
<1>3. I # {} => Min(I) \in I
  BY <1>1, MinIn
<1>4. CASE I # {}
  <2>1. Place(e) \in I
    BY <1>1, <1>2, <1>3, <1>4 DEF Place
  <2>2. SameOccurrence(e) # {}
    BY <2>1 DEF I, SameOccurrence
  <2>3. log' = log
    BY <2>2 DEF Appended, Known
  <2>4. QED
    BY <2>1, <2>3 DEF I
<1>5. CASE I = {}
  <2>1. Place(e) = Len(log) + 1 /\ log' = Append(log, e)
    BY <1>2, <1>5 DEF Place, Known, Appended
  <2>2. QED
    BY <1>1, <2>1, AppendProperties
<1>6. QED
  BY <1>4, <1>5

\* A call that appends what is due keeps the invariant, whether it returns or
\* raises, if the memory it leaves holds what the new receipt tells.
LEMMA RecordsKeep ==
    ASSUME SessionInv, NEW h \in Handles, Live(h), NEW kind, NEW body,
           Receipt(memory[h], kind, body) \in Receipts,
           Due(memory[h], kind, body),
           kind \in CheckpointKinds => body = Snapshot(memory[h]),
           NEW after \in Memories, Coheres(after),
           Holds(after, Append(EntriesOf(memory[h]), Receipt(memory[h], kind, body))),
           NEW met,
           \/ Returns(h, Receipt(memory[h], kind, body), after)
           \/ Raises(h, Receipt(memory[h], kind, body), met)
    PROVE  /\ CoreInv'
           /\ \A g \in Handles :
                 \/ memory'[g] = memory[g]
                 \/ g = h /\ memory'[h] \in Memories /\ memory'[h].phase = after.phase
<1> DEFINE e == Receipt(memory[h], kind, body)
           m == memory[h]
<1>1. /\ TypeOK /\ log \in Seq(Receipts) /\ ParentsPrecede(log) /\ Len(log) \in Nat
      /\ memory \in [Handles -> Memories \cup {Nothing}]
      /\ m \in Memories
      /\ m.refs \in Seq(1..Len(log)) /\ m.refs \in Seq(Nat) /\ Len(m.refs) \in Nat
      /\ HeadOf(m) \in 0..Len(log) /\ EntriesOf(m) \in Seq(Receipts)
      /\ Len(EntriesOf(m)) = Len(m.refs)
  BY TypeFacts DEF SessionInv, TypeOK
<1>2. e \in Receipts /\ e.parent = HeadOf(m)
  BY DEF Receipt, HeadOf
<1>3. UNCHANGED log \/ Appended(e)
  BY DEF Returns, Raises, Known
<1>4. LogGrows /\ Len(log') <= MaxReceipts /\ \A k \in 1..Len(log') : Written(k)'
  BY <1>3, AppendTruth
<1>5. \A g \in Handles : Live(g) /\ memory'[g] = memory[g] =>
         memory'[g].refs \in Seq(1..Len(log')) /\ Stands(memory[g])'
  <2>1. SUFFICES ASSUME NEW g \in Handles, Live(g), memory'[g] = memory[g]
                 PROVE  memory'[g].refs \in Seq(1..Len(log')) /\ Stands(memory[g])'
    OBVIOUS
  <2>2. Stands(memory[g])'
    BY <1>1, <1>4, <2>1, StandsKept DEF SessionInv
  <2>3. memory[g].refs \in Seq(1..Len(log)) /\ 1..Len(log) \subseteq 1..Len(log')
    BY <1>1, <1>4, <2>1, TypeFacts DEF LogGrows
  <2>4. QED
    BY <2>1, <2>2, <2>3, SeqMonotonic
<1>6. CASE Raises(h, e, met)
  <2>1. memory' = memory
    BY <1>6 DEF Raises
  <2>2. QED
    BY <1>1, <1>4, <1>5, <2>1 DEF CoreInv, LogGrows, Live
<1>7. CASE Returns(h, e, after)
  <2> DEFINE refs == Append(m.refs, Place(e))
  <2>1. /\ Appended(e) \/ Known(e)
        /\ memory' = [memory EXCEPT ![h] = [after EXCEPT !.refs = refs]]
    BY <1>7 DEF Returns
  <2>2. Place(e) \in 1..Len(log') /\ log'[Place(e)] = e
    BY <1>1, <1>2, <2>1, PlaceOf
  <2>3. m.refs \in Seq(1..Len(log')) /\ Len(log') \in Nat
    <3>1. 1..Len(log) \subseteq 1..Len(log') /\ Len(log') \in Nat
      BY <1>1, <1>4 DEF LogGrows
    <3>2. QED
      BY <1>1, <3>1, SeqMonotonic
  <2>4. /\ refs \in Seq(1..Len(log')) /\ Len(refs) = Len(m.refs) + 1 /\ refs # <<>>
        /\ refs[Len(m.refs) + 1] = Place(e) /\ \A i \in 1..Len(m.refs) : refs[i] = m.refs[i]
    BY <2>2, <2>3, AppendProperties
  <2>5. refs \in Seq(Nat)
    BY <2>3, <2>4, SeqMonotonic
  <2> HIDE DEF refs
  <2>6. memory'[h] = [after EXCEPT !.refs = refs]
    BY <1>1, <2>1
  <2>7. /\ memory'[h] \in Memories /\ memory'[h].refs = refs /\ memory'[h].phase = after.phase
        /\ memory'[h].request = after.request /\ memory'[h].pending = after.pending
        /\ memory'[h].terminal = after.terminal /\ memory'[h].failed = after.failed
        /\ memory'[h].scans = after.scans /\ memory'[h].decisions = after.decisions
        /\ memory'[h].assessments = after.assessments
    BY <2>5, <2>6 DEF Memories
  <2>8. \A g \in Handles : g # h => memory'[g] = memory[g]
    BY <1>1, <2>1
  <2>9. memory' \in [Handles -> Memories \cup {Nothing}]
    BY <1>1, <2>1, <2>6, <2>7
  <2>10. Stands(memory[h])'
    <3> DEFINE longer == Append(EntriesOf(m), e)
    <3>1. /\ longer \in Seq(Receipts) /\ Len(longer) = Len(m.refs) + 1
          /\ longer[Len(m.refs) + 1] = e
          /\ \A i \in 1..Len(m.refs) : longer[i] = EntriesOf(m)[i]
      BY <1>1, <1>2, AppendProperties
    <3> HIDE DEF longer
    <3>2. \A i \in 1..Len(m.refs) : m.refs[i] \in 1..Len(log) /\ EntriesOf(m)[i] = log[m.refs[i]]
      BY <1>1 DEF EntriesOf
    <3>3. ASSUME NEW i \in 1..Len(refs) PROVE log'[refs[i]] = longer[i]
      <4>1. CASE i \in 1..Len(m.refs)
        BY <1>4, <2>4, <3>1, <3>2, <4>1 DEF LogGrows
      <4>2. CASE i \notin 1..Len(m.refs)
        <5>1. i = Len(m.refs) + 1
          <6> DEFINE n == Len(m.refs)
          <6>1. n \in Nat /\ i \in 1..(n + 1) /\ i \notin 1..n
            BY <1>1, <2>4, <4>2
          <6> HIDE DEF n
          <6>2. i = n + 1
            BY <6>1
          <6>3. QED
            BY <6>2 DEF n
        <5>2. QED
          BY <2>2, <2>4, <3>1, <5>1
      <4>3. QED
        BY <4>1, <4>2
    <3>4. EntriesOf(memory[h])' = longer
      <4>1. EntriesOf(memory[h])' = [i \in 1..Len(refs) |-> log'[refs[i]]]
        BY <2>7 DEF EntriesOf
      <4>2. longer = [i \in 1..Len(longer) |-> longer[i]]
        BY <3>1
      <4>3. QED
        BY <2>4, <3>1, <3>3, <4>1, <4>2
    <3>5. HeadOf(memory[h])' = Place(e)
      BY <1>1, <2>4, <2>7 DEF HeadOf, Last
    <3>6. PICK p, head : p = Place(e) /\ head = HeadOf(m)
      OBVIOUS
    <3>7. Lineage(p)' = Append(Lineage(head)', e)
      <4>1. (log \in Seq(Receipts) /\ ParentsPrecede(log) =>
              \A k \in 1..Len(log) : Lineage(k) = Append(Lineage(log[k].parent), log[k]))'
        BY LineageStep, PTL
      <4>2. Lineage(p)' = Append((IF log'[p].parent = 0 THEN <<>> ELSE Lineages'[log'[p].parent]),
                                 log'[p])
        BY <1>4, <2>2, <3>6, <4>1 DEF LogGrows, Lineage
      <4>3. QED
        BY <1>2, <2>2, <3>6, <4>2 DEF Lineage
    <3>8. Lineage(head)' = EntriesOf(m)
      <4>1. Lineage(head)' = Lineage(head)
        BY <1>1, <1>4, <3>6, LineageKept DEF LogGrows
      <4>2. QED
        BY <3>6, <4>1 DEF SessionInv, Stands
    <3>12. Lineage(HeadOf(memory[h]))' = longer
      BY <3>5, <3>6, <3>7, <3>8 DEF Lineage, longer
    <3>9. Holds(memory'[h], longer)
      BY <2>7 DEF Holds, longer
    <3>10. Coheres(memory'[h])
      BY <2>7 DEF Coheres, StateCoheres
    <3>11. QED
      BY <3>4, <3>9, <3>10, <3>12 DEF Stands
  <2>11. QED
    BY <1>1, <1>4, <1>5, <2>4, <2>7, <2>8, <2>9, <2>10 DEF CoreInv, LogGrows, Live
<1>8. QED
  BY <1>6, <1>7

-----------------------------------------------------------------------------
\* Each call finds a coherent session and leaves one.

\* A history that one more entry was added to.
LEMMA HistoryGrows ==
    ASSUME NEW S, NEW s \in Seq(S), NEW e \in S
    PROVE  /\ Len(s) \in Nat /\ Len(Append(s, e)) = Len(s) + 1 /\ Append(s, e) # <<>>
           /\ Append(s, e)[Len(s) + 1] = e /\ Last(Append(s, e)) = e
           /\ \A i \in 1..Len(s) : Append(s, e)[i] = s[i]
BY AppendProperties DEF Last

\* The last admitted proposal is the one the last decision selected.
LEMMA AdmittedLast ==
    ASSUME NEW decisions \in Seq(Decisions), decisions # <<>>,
           Last(decisions).selected # Nothing
    PROVE  /\ Admitted(decisions) # <<>>
           /\ Admitted(decisions)[Len(Admitted(decisions))] = Last(decisions).selected
<1> DEFINE N == Len(decisions)
           K == {i \in 1..N : decisions[i].selected # Nothing}
           val == [i \in 1..N |-> decisions[i].selected]
<1>1. PICK f : Collects(f, N, K, val) /\ Admitted(decisions) = f[N]
  BY AdmittedCollect
<1>2. N \in Nat /\ N \in 1..N /\ N \in K /\ val[N] = Last(decisions).selected
  BY EmptySeq DEF Last
<1>3. \A i \in 1..N : i \in K => val[i] \in Proposals
  <2>1. \A d \in Decisions : d.selected \in Proposals \cup {Nothing}
    BY DEF Decisions
  <2>2. QED
    BY <2>1
<1> HIDE DEF K, val, N
<1>4. \A i \in 1..N : f[i] \in Seq(Proposals)
  BY <1>1, <1>2, <1>3, CollectType
<1> DEFINE before == IF N = 1 THEN <<>> ELSE f[N - 1]
<1>5. f[N] = Append(before, val[N])
  <2>0. Collects(f, N, K, val) /\ N \in 1..N
    BY <1>1, <1>2
  <2>1. f[N] = IF N \in K THEN Append(before, val[N]) ELSE before
    BY <2>0, CollectStep
  <2> HIDE DEF before
  <2>2. QED
    BY <1>2, <2>1
<1>6. before \in Seq(Proposals) /\ val[N] \in Proposals
  BY <1>2, <1>3, <1>4
<1> HIDE DEF before
<1>7. QED
  BY <1>1, <1>2, <1>5, <1>6, AppendProperties

\* A fresh session coheres.
LEMMA FreshCoheres == Coheres(Fresh)
<1>1. Admitted(<<>>) = <<>>
  BY AdmittedOfNone
<1>2. QED
  BY <1>1 DEF Fresh, Coheres, HistoriesCohere, StateCoheres, IsPrefix

\* A scan keeps a session coherent,
LEMMA ScanCoheres ==
    ASSUME NEW m \in Memories, Coheres(m), m.phase \in {"NEEDS_SCAN", "READY_TO_ACT"},
           NEW r \in Requests
    PROVE  Coheres([m EXCEPT !.request = r, !.phase = "READY_TO_ACT",
                             !.scans = Append(@, [request |-> r, before |-> m.phase])])
<1> DEFINE scan == [request |-> r, before |-> m.phase]
           after == [m EXCEPT !.request = r, !.phase = "READY_TO_ACT", !.scans = Append(@, scan)]
<1>1. /\ after.phase = "READY_TO_ACT" /\ after.request = r /\ after.scans = Append(m.scans, scan)
      /\ after.pending = m.pending /\ after.terminal = m.terminal
      /\ after.decisions = m.decisions /\ after.assessments = m.assessments
      /\ m.scans \in Seq(Scans)
  BY DEF Memories
<1>2. scan \in Scans /\ scan.request = r /\ scan.before \in {"NEEDS_SCAN", "READY_TO_ACT"}
  BY DEF Scans, Phases
<1>3. m.pending = Nothing /\ m.terminal = Nothing /\ r # Nothing
  BY NothingAssumption DEF Coheres, StateCoheres
<1> HIDE DEF scan, after
<1>4. /\ Len(m.scans) \in Nat /\ Len(after.scans) = Len(m.scans) + 1 /\ after.scans # <<>>
      /\ after.scans[Len(m.scans) + 1] = scan /\ Last(after.scans) = scan
      /\ \A i \in 1..Len(m.scans) : after.scans[i] = m.scans[i]
  <2>1. m.scans \in Seq(Scans) /\ scan \in Scans /\ after.scans = Append(m.scans, scan)
    BY <1>1, <1>2
  <2>2. QED
    BY <2>1, HistoryGrows
<1>5. /\ \A i \in 1..Len(after.scans) : after.scans[i].before \in {"NEEDS_SCAN", "READY_TO_ACT"}
      /\ \A i \in 1..Len(m.decisions) :
            \E j \in 1..Len(after.scans) : after.scans[j].request = m.decisions[i].request
  <2>1. /\ \A i \in 1..Len(m.scans) : m.scans[i].before \in {"NEEDS_SCAN", "READY_TO_ACT"}
        /\ \A i \in 1..Len(m.decisions) :
              \E j \in 1..Len(m.scans) : m.scans[j].request = m.decisions[i].request
    BY DEF Coheres, HistoriesCohere
  <2>2. ASSUME NEW i \in 1..Len(after.scans)
        PROVE  after.scans[i].before \in {"NEEDS_SCAN", "READY_TO_ACT"}
    <3>1. CASE i \in 1..Len(m.scans)
      BY <1>4, <2>1, <3>1
    <3>2. CASE i = Len(m.scans) + 1
      BY <1>2, <1>4, <3>2
    <3>3. QED
      BY <1>4, <3>1, <3>2
  <2>3. 1..Len(m.scans) \subseteq 1..Len(after.scans)
    BY <1>4
  <2>4. QED
    BY <1>4, <2>1, <2>2, <2>3
<1>6. HistoriesCohere([phase |-> after.phase, admitted |-> Len(Admitted(after.decisions))],
                      after.scans, after.decisions, after.assessments)
  BY <1>1, <1>5 DEF Coheres, HistoriesCohere
<1>7. StateCoheres(after, after.scans, after.decisions, after.assessments)
  BY <1>1, <1>2, <1>3, <1>4 DEF StateCoheres
<1>8. \A i \in 1..Len(after.assessments) : after.assessments[i].after # "TERMINAL"
  BY <1>1 DEF Coheres
<1>9. Coheres(after)
  BY <1>6, <1>7, <1>8 DEF Coheres
<1>10. QED
  BY <1>9 DEF after, scan

\* a decision does, selected or not,
LEMMA DecisionCoheres ==
    ASSUME NEW m \in Memories, Coheres(m), m.phase = "READY_TO_ACT",
           NEW c \in Controls, NEW p \in Proposals \cup {Nothing}, p # Nothing => p.request = m.request
    PROVE  LET decision == [request |-> m.request, control |-> c, selected |-> p]
               after == [m EXCEPT !.pending = p,
                                  !.phase = IF p = Nothing THEN @ ELSE "AWAITING_ASSESSMENT",
                                  !.decisions = Append(@, decision)]
           IN  after \in Memories /\ decision \in Decisions /\ Coheres(after)
<1> DEFINE decision == [request |-> m.request, control |-> c, selected |-> p]
           after == [m EXCEPT !.pending = p,
                              !.phase = IF p = Nothing THEN @ ELSE "AWAITING_ASSESSMENT",
                              !.decisions = Append(@, decision)]
<1>1. /\ m.request # Nothing /\ m.pending = Nothing /\ m.terminal = Nothing
      /\ m.scans # <<>> /\ Last(m.scans).request = m.request
  BY DEF Coheres, StateCoheres
<1>2. decision \in Decisions
  BY <1>1 DEF Decisions, Memories
<1>3. /\ m.scans \in Seq(Scans) /\ m.decisions \in Seq(Decisions)
      /\ m.assessments \in Seq(Assessments)
  BY DEF Memories
<1>4. after \in Memories
  <2> HIDE DEF decision
  <2>1. Append(m.decisions, decision) \in Seq(Decisions)
    BY <1>2, <1>3
  <2>2. QED
    BY <2>1 DEF Memories, Phases
<1>5. /\ after.phase = (IF p = Nothing THEN "READY_TO_ACT" ELSE "AWAITING_ASSESSMENT")
      /\ after.pending = p /\ after.request = m.request /\ after.scans = m.scans
      /\ after.terminal = m.terminal /\ after.assessments = m.assessments
      /\ after.decisions = Append(m.decisions, decision)
  BY DEF Memories
<1>6. decision.request = m.request /\ decision.selected = p
  OBVIOUS
<1> HIDE DEF decision, after
<1>7. /\ Len(m.decisions) \in Nat /\ Len(after.decisions) = Len(m.decisions) + 1
      /\ after.decisions # <<>>
      /\ after.decisions[Len(m.decisions) + 1] = decision /\ Last(after.decisions) = decision
      /\ \A i \in 1..Len(m.decisions) : after.decisions[i] = m.decisions[i]
  <2>1. m.decisions \in Seq(Decisions) /\ decision \in Decisions /\ after.decisions = Append(m.decisions, decision)
    BY <1>2, <1>3, <1>5
  <2>2. QED
    BY <2>1, HistoryGrows
<1> DEFINE old == Admitted(m.decisions)
           new == Admitted(after.decisions)
           assessed == [i \in 1..Len(m.assessments) |-> m.assessments[i].proposal]
<1>8. old \in Seq(Proposals) /\ new = IF p # Nothing THEN Append(old, p) ELSE old
  <2>1. old \in Seq(Proposals)
    BY <1>3, AdmittedType
  <2>2. Admitted(Append(m.decisions, decision)) =
           IF decision.selected # Nothing THEN Append(Admitted(m.decisions), decision.selected)
           ELSE Admitted(m.decisions)
    BY <1>2, <1>3, AdmittedAppend
  <2>3. QED
    BY <1>5, <1>6, <2>1, <2>2
<1>9. Len(m.assessments) \in Nat /\ Len(assessed) = Len(m.assessments)
  BY <1>3
<1>10. IsPrefix(assessed, old) /\ Len(old) = Len(assessed)
  BY DEF Coheres, HistoriesCohere
<1> HIDE DEF old, new, assessed
<1>11. Len(new) = Len(assessed) + IF p # Nothing THEN 1 ELSE 0
  <2>1. CASE p = Nothing
    BY <1>8, <1>9, <1>10, <2>1
  <2>2. CASE p # Nothing
    <3>1. new = Append(old, p) /\ p \in Proposals
      BY <1>8, <2>2
    <3>2. Len(new) = Len(old) + 1
      BY <1>8, <3>1
    <3>3. QED
      BY <1>10, <2>2, <3>2
  <2>3. QED
    BY <2>1, <2>2
<1>12. IsPrefix(assessed, new)
  <2>1. CASE p = Nothing
    BY <1>8, <1>10, <2>1
  <2>2. CASE p # Nothing
    <3>1. new = Append(old, p) /\ p \in Proposals
      BY <1>8, <2>2
    <3>2. SubSeq(new, 1, Len(old)) = SubSeq(old, 1, Len(old))
      <4>1. Len(old) \in Nat /\ new \in Seq(Proposals) /\ Len(new) = Len(old) + 1
            /\ \A i \in 1..Len(old) : new[i] = old[i]
        BY <1>8, <3>1, AppendProperties
      <4>2. QED
        BY <1>8, <4>1
    <3>3. QED
      BY <1>8, <1>9, <1>10, <1>11, <2>2, <3>2 DEF IsPrefix
  <2>3. QED
    BY <2>1, <2>2
<1>13. \A i \in 1..Len(after.decisions) :
          \E j \in 1..Len(m.scans) : m.scans[j].request = after.decisions[i].request
  <2>1. \E j \in 1..Len(m.scans) : m.scans[j].request = m.request
    BY <1>1, <1>3, EmptySeq DEF Last
  <2>2. \A i \in 1..Len(m.decisions) :
           \E j \in 1..Len(m.scans) : m.scans[j].request = m.decisions[i].request
    BY DEF Coheres, HistoriesCohere
  <2>3. SUFFICES ASSUME NEW i \in 1..Len(after.decisions)
                 PROVE  \E j \in 1..Len(m.scans) : m.scans[j].request = after.decisions[i].request
    OBVIOUS
  <2>4. CASE i \in 1..Len(m.decisions)
    BY <1>7, <2>2, <2>4
  <2>5. CASE i = Len(m.decisions) + 1
    BY <1>6, <1>7, <2>1, <2>5
  <2>6. QED
    BY <1>7, <2>4, <2>5
<1>14. HistoriesCohere([phase |-> after.phase, admitted |-> Len(Admitted(after.decisions))],
                       after.scans, after.decisions, after.assessments)
  <2>1. /\ \A i \in 1..Len(m.scans) : m.scans[i].before \in {"NEEDS_SCAN", "READY_TO_ACT"}
        /\ \A i \in 1..Len(m.assessments) :
              /\ m.assessments[i].after \in {"NEEDS_SCAN", "TERMINAL"}
              /\ m.assessments[i].authority \in Final <=> m.assessments[i].after = "TERMINAL"
              /\ i < Len(m.assessments) => m.assessments[i].after # "TERMINAL"
    BY DEF Coheres, HistoriesCohere
  <2>2. Len(new) = Len(assessed) + IF after.phase = "AWAITING_ASSESSMENT" THEN 1 ELSE 0
    BY <1>5, <1>11
  <2>3. QED
    BY <1>5, <1>12, <1>13, <2>1, <2>2 DEF HistoriesCohere, new, assessed
<1>15. StateCoheres(after, after.scans, after.decisions, after.assessments)
  BY <1>1, <1>5, <1>6, <1>7 DEF StateCoheres
<1>16. \A i \in 1..Len(after.assessments) : after.assessments[i].after # "TERMINAL"
  BY <1>5 DEF Coheres
<1>17. Coheres(after)
  BY <1>14, <1>15, <1>16 DEF Coheres
<1>18. QED
  BY <1>2, <1>4, <1>17 DEF after, decision

\* and so does an assessment of the pending action.
LEMMA AssessmentCoheres ==
    ASSUME NEW m \in Memories, Coheres(m), m.phase = "AWAITING_ASSESSMENT",
           NEW x \in Executions, NEW authority \in Authorities
    PROVE  LET final == authority \in Final
               phase == IF final THEN "TERMINAL" ELSE "NEEDS_SCAN"
               assessment == [proposal |-> m.pending, evidence |-> x, authority |-> authority,
                              after |-> phase]
               after == [m EXCEPT
                            !.pending = Nothing, !.request = Nothing, !.phase = phase,
                            !.terminal = IF final THEN authority ELSE @,
                            !.failed = IF authority = "FAILURE" THEN Signature(m.pending) ELSE @,
                            !.assessments = Append(@, assessment)]
           IN  assessment \in Assessments /\ after \in Memories /\ Coheres(after)
<1> DEFINE final == authority \in Final
           phase == IF final THEN "TERMINAL" ELSE "NEEDS_SCAN"
           assessment == [proposal |-> m.pending, evidence |-> x, authority |-> authority,
                          after |-> phase]
           after == [m EXCEPT
                        !.pending = Nothing, !.request = Nothing, !.phase = phase,
                        !.terminal = IF final THEN authority ELSE @,
                        !.failed = IF authority = "FAILURE" THEN Signature(m.pending) ELSE @,
                        !.assessments = Append(@, assessment)]
<1>1. /\ m.pending # Nothing /\ m.terminal = Nothing
      /\ m.decisions # <<>> /\ Last(m.decisions).selected = m.pending
  BY DEF Coheres, StateCoheres
<1>2. /\ m.pending \in Proposals /\ m.decisions \in Seq(Decisions) /\ m.scans \in Seq(Scans)
      /\ m.assessments \in Seq(Assessments)
  BY <1>1 DEF Memories
<1>3. /\ assessment.proposal = m.pending /\ assessment.authority = authority
      /\ assessment.after = phase /\ assessment \in Assessments
  BY <1>2 DEF Assessments, Phases
<1>4. /\ after \in Memories
      /\ after.phase = phase /\ after.pending = Nothing /\ after.request = Nothing
      /\ after.terminal = (IF final THEN authority ELSE Nothing)
      /\ after.scans = m.scans /\ after.decisions = m.decisions
      /\ after.assessments = Append(m.assessments, assessment)
  <2> HIDE DEF assessment
  <2>1. Append(m.assessments, assessment) \in Seq(Assessments)
    BY <1>2, <1>3
  <2>2. Signature(m.pending) \in Signatures
    BY <1>2 DEF Signatures
  <2>3. /\ after.phase = phase /\ after.pending = Nothing /\ after.request = Nothing
        /\ after.terminal = (IF final THEN authority ELSE Nothing)
        /\ after.scans = m.scans /\ after.decisions = m.decisions
        /\ after.assessments = Append(m.assessments, assessment)
    BY <1>1 DEF Memories
  <2>4. after \in Memories
    <3> DEFINE failed == IF authority = "FAILURE" THEN Signature(m.pending) ELSE m.failed
               terminal == IF final THEN authority ELSE m.terminal
               longer == Append(m.assessments, assessment)
    <3>1. /\ failed \in Signatures \cup {Nothing} /\ terminal \in Final \cup {Nothing}
          /\ phase \in Phases /\ longer \in Seq(Assessments)
      BY <2>1, <2>2 DEF Memories, Phases
    <3>2. after = [m EXCEPT !.pending = Nothing, !.request = Nothing, !.phase = phase,
                            !.terminal = terminal, !.failed = failed, !.assessments = longer]
      OBVIOUS
    <3> HIDE DEF after, failed, terminal, longer, phase
    <3>3. QED
      BY <3>1, <3>2 DEF Memories
  <2>5. QED
    BY <2>3, <2>4
<1> HIDE DEF assessment, after
<1>5. /\ Len(m.assessments) \in Nat /\ Len(after.assessments) = Len(m.assessments) + 1
      /\ after.assessments # <<>> /\ after.assessments[Len(m.assessments) + 1] = assessment
      /\ Last(after.assessments) = assessment
      /\ \A i \in 1..Len(m.assessments) : after.assessments[i] = m.assessments[i]
  <2>1. m.assessments \in Seq(Assessments) /\ assessment \in Assessments /\ after.assessments = Append(m.assessments, assessment)
    BY <1>2, <1>3, <1>4
  <2>2. QED
    BY <2>1, HistoryGrows
<1> DEFINE selected == Admitted(m.decisions)
           old == [i \in 1..Len(m.assessments) |-> m.assessments[i].proposal]
           new == [i \in 1..Len(after.assessments) |-> after.assessments[i].proposal]
<1>6. /\ Len(old) = Len(m.assessments) /\ Len(new) = Len(m.assessments) + 1
      /\ \A i \in 1..Len(m.assessments) : new[i] = old[i]
      /\ new[Len(m.assessments) + 1] = m.pending
  BY <1>3, <1>5
<1>7. IsPrefix(old, selected) /\ Len(selected) = Len(old) + 1
  BY DEF Coheres, HistoriesCohere
<1>8. /\ selected \in Seq(Proposals) /\ selected # <<>>
      /\ selected[Len(selected)] = m.pending
  BY <1>1, <1>2, AdmittedType, AdmittedLast
<1>9. old \in Seq(Proposals) /\ new \in Seq(Proposals)
  <2>1. \A a \in Assessments : a.proposal \in Proposals
    BY DEF Assessments
  <2>2. after.assessments \in Seq(Assessments)
    BY <1>4 DEF Memories
  <2>3. QED
    BY <1>2, <2>1, <2>2
<1> HIDE DEF selected, old, new
<1>10. new = selected
  <2>1. \A i \in 1..Len(m.assessments) : selected[i] = old[i]
    BY <1>5, <1>6, <1>7, <1>8, <1>9 DEF IsPrefix
  <2>2. Len(new) = Len(selected)
    BY <1>6, <1>7
  <2>3. \A i \in 1..Len(new) : new[i] = selected[i]
    BY <1>5, <1>6, <1>7, <1>8, <2>1
  <2>4. QED
    BY <1>8, <1>9, <2>2, <2>3, SeqEqual
<1>11. IsPrefix(new, selected) /\ Len(selected) = Len(new)
  <2>1. Len(new) <= Len(new)
    BY <1>5, <1>6
  <2>2. QED
    BY <1>10, <2>1 DEF IsPrefix
<1>12. ASSUME NEW i \in 1..Len(after.assessments)
       PROVE  /\ after.assessments[i].after \in {"NEEDS_SCAN", "TERMINAL"}
              /\ after.assessments[i].authority \in Final <=> after.assessments[i].after = "TERMINAL"
              /\ i < Len(after.assessments) => after.assessments[i].after # "TERMINAL"
  <2>1. CASE i \in 1..Len(m.assessments)
    <3>1. /\ m.assessments[i].after \in {"NEEDS_SCAN", "TERMINAL"}
          /\ m.assessments[i].authority \in Final <=> m.assessments[i].after = "TERMINAL"
          /\ m.assessments[i].after # "TERMINAL"
      BY <2>1 DEF Coheres, HistoriesCohere
    <3>2. QED
      BY <1>5, <2>1, <3>1
  <2>2. CASE i = Len(m.assessments) + 1
    BY <1>3, <1>5, <2>2
  <2>3. QED
    BY <1>5, <2>1, <2>2
<1>13. HistoriesCohere([phase |-> after.phase, admitted |-> Len(Admitted(after.decisions))],
                       after.scans, after.decisions, after.assessments)
  <2>1. /\ \A i \in 1..Len(m.scans) : m.scans[i].before \in {"NEEDS_SCAN", "READY_TO_ACT"}
        /\ \A i \in 1..Len(m.decisions) :
              \E j \in 1..Len(m.scans) : m.scans[j].request = m.decisions[i].request
    BY DEF Coheres, HistoriesCohere
  <2>2. Len(selected) = Len(new) + IF after.phase = "AWAITING_ASSESSMENT" THEN 1 ELSE 0
    BY <1>4, <1>5, <1>6, <1>11
  <2>3. QED
    BY <1>4, <1>11, <1>12, <2>1, <2>2 DEF HistoriesCohere, selected, new
<1>14. StateCoheres(after, after.scans, after.decisions, after.assessments)
  BY <1>3, <1>4, <1>5 DEF StateCoheres
<1>15. after.phase # "TERMINAL" =>
          \A i \in 1..Len(after.assessments) : after.assessments[i].after # "TERMINAL"
  <2>1. after.phase # "TERMINAL" => after.assessments[Len(after.assessments)].after # "TERMINAL"
    BY <1>3, <1>4, <1>5
  <2>2. QED
    BY <1>5, <1>12, <2>1
<1>16. Coheres(after)
  BY <1>13, <1>14, <1>15 DEF Coheres
<1>17. QED
  BY <1>3, <1>4, <1>16 DEF after, assessment

-----------------------------------------------------------------------------
\* One lemma per call.

\* What the calls find: a session that holds what its receipts tell.
LEMMA SessionFacts ==
    ASSUME SessionInv, NEW h \in Handles, Live(h)
    PROVE  /\ memory[h] \in Memories /\ Len(memory[h].refs) \in Nat
           /\ HeadOf(memory[h]) \in Nat
           /\ EntriesOf(memory[h]) \in Seq(Receipts)
           /\ Holds(memory[h], EntriesOf(memory[h])) /\ Coheres(memory[h])
<1>1. TypeOK /\ Stands(memory[h])
  BY DEF SessionInv
<1>2. QED
  BY <1>1, TypeFacts DEF Stands

\* scan keeps the invariant.
LEMMA ScanStep ==
    ASSUME SessionInv, NEW h \in Handles, NEW r \in Requests, Scan(h, r)
    PROVE  SessionInv'
<1> DEFINE m == memory[h]
           scan == [request |-> r, before |-> m.phase]
           e == Receipt(m, "scan", scan)
           after == [m EXCEPT !.request = r, !.phase = "READY_TO_ACT", !.scans = Append(@, scan)]
<1>1. /\ Live(h) /\ h \notin closing /\ m.phase \in {"NEEDS_SCAN", "READY_TO_ACT"}
      /\ Records(h, e, after) /\ closing' = closing
  BY DEF Scan, Callable
<1>2. /\ m \in Memories /\ Len(m.refs) \in Nat /\ HeadOf(m) \in Nat
      /\ EntriesOf(m) \in Seq(Receipts) /\ Holds(m, EntriesOf(m)) /\ Coheres(m)
  BY <1>1, SessionFacts
<1>3. /\ scan \in Scans /\ e \in Receipts /\ e.kind = "scan" /\ e.body = scan
      /\ scan.request = r
  BY <1>2 DEF Scans, Receipts, Receipt, HeadOf, Memories
<1>4. after \in Memories /\ Coheres(after)
  <2>1. Coheres(after)
    BY <1>1, <1>2, ScanCoheres
  <2> HIDE DEF scan
  <2>2. Append(m.scans, scan) \in Seq(Scans)
    BY <1>2, <1>3 DEF Memories
  <2>3. QED
    BY <1>2, <2>1, <2>2 DEF Memories, Phases
<1>5. /\ after.phase = "READY_TO_ACT" /\ after.request = r /\ after.pending = m.pending
      /\ after.terminal = m.terminal /\ after.failed = m.failed
      /\ after.scans = Append(m.scans, scan) /\ after.decisions = m.decisions
      /\ after.assessments = m.assessments
  BY <1>2 DEF Memories
<1>6. m.pending = Nothing /\ m.terminal = Nothing
  BY <1>1, <1>2 DEF Coheres, StateCoheres
<1> HIDE DEF m, scan, e, after
<1>7. Holds(after, Append(EntriesOf(m), e))
  <2>1. Moves(e) /\ ~Failed(e)
    BY <1>3 DEF Moves, Failed
  <2> DEFINE now == Replay(Append(EntriesOf(m), e))
             was == Replay(EntriesOf(m))
  <2>2. /\ now.phase = "READY_TO_ACT" /\ now.request = r
        /\ now.pending = Nothing /\ now.terminal = Nothing
    BY <1>2, <1>3, <2>1, ReplayMoved
  <2>3. now.failed = was.failed
    BY <1>2, <1>3, <2>1, ReplayFailed
  <2>4. /\ now.scans = Append(was.scans, scan) /\ now.decisions = was.decisions
        /\ now.assessments = was.assessments
    <3>1. EntriesOf(m) \in Seq(Receipts) /\ e \in Receipts
      BY <1>2, <1>3
    <3>2. HistoriesGrow(was, now, e)
      BY <3>1, ReplayHistories
    <3> HIDE DEF now, was
    <3>3. QED
      BY <1>3, <3>2 DEF HistoriesGrow
  <2>5. /\ m.failed = was.failed /\ m.scans = was.scans /\ m.decisions = was.decisions
        /\ m.assessments = was.assessments
    BY <1>2 DEF Holds
  <2> HIDE DEF now, was
  <2>6. QED
    BY <1>5, <1>6, <2>2, <2>3, <2>4, <2>5 DEF Holds, now
<1>8. Due(m, "scan", scan)
  BY <1>1 DEF Due
<1>9. /\ CoreInv'
      /\ \A g \in Handles :
            memory'[g] = memory[g] \/ (g = h /\ memory'[h] \in Memories)
  <2>1. "scan" \notin CheckpointKinds
    BY DEF CheckpointKinds
  <2>2. Returns(h, e, after) \/ Raises(h, e, m.phase)
    BY <1>1 DEF Records, m
  <2>3. QED
    BY <1>1, <1>3, <1>4, <1>7, <1>8, <2>1, <2>2, RecordsKeep DEF m, e
<1>10. ClosingInv'
  <2>1. closing \subseteq Handles /\ \A g \in closing : Live(g) /\ memory[g].phase = "TERMINAL"
    BY SessionInvParts DEF ClosingInv
  <2>2. QED
    BY <1>1, <1>9, <2>1 DEF ClosingInv, Live
<1>11. QED
  <2>1. (SessionInv <=> CoreInv /\ ClosingInv)'
    BY SessionInvParts, PTL
  <2>2. QED
    BY <1>9, <1>10, <2>1

\* decide, with p the selected proposal or Nothing.
LEMMA DecisionStep ==
    ASSUME SessionInv, NEW h \in Handles, Callable(h), memory[h].phase = "READY_TO_ACT",
           NEW c \in Controls, NEW p \in Proposals \cup {Nothing},
           p # Nothing => p.request = memory[h].request /\ Signature(p) # memory[h].failed,
           NEW decision, decision = [request |-> memory[h].request, control |-> c, selected |-> p],
           Records(h, Receipt(memory[h], "decision", decision),
                   [memory[h] EXCEPT
                       !.pending = p,
                       !.phase = IF p = Nothing THEN @ ELSE "AWAITING_ASSESSMENT",
                       !.decisions = Append(@, decision)]),
           closing' = closing
    PROVE  SessionInv'
<1> DEFINE m == memory[h]
           e == Receipt(m, "decision", decision)
           after == [m EXCEPT !.pending = p,
                              !.phase = IF p = Nothing THEN @ ELSE "AWAITING_ASSESSMENT",
                              !.decisions = Append(@, decision)]
<1>1. Live(h) /\ h \notin closing /\ m.phase = "READY_TO_ACT" /\ Records(h, e, after)
  BY DEF Callable
<1>2. /\ m \in Memories /\ Len(m.refs) \in Nat /\ HeadOf(m) \in Nat
      /\ EntriesOf(m) \in Seq(Receipts) /\ Holds(m, EntriesOf(m)) /\ Coheres(m)
  BY <1>1, SessionFacts
<1>3. after \in Memories /\ decision \in Decisions /\ Coheres(after)
  BY <1>1, <1>2, DecisionCoheres
<1>4. /\ e \in Receipts /\ e.kind = "decision" /\ e.body = decision
      /\ decision.request = m.request /\ decision.selected = p
  BY <1>2, <1>3 DEF Receipts, Receipt, HeadOf
<1>5. /\ after.phase = (IF p = Nothing THEN "READY_TO_ACT" ELSE "AWAITING_ASSESSMENT")
      /\ after.request = m.request /\ after.pending = p
      /\ after.terminal = m.terminal /\ after.failed = m.failed
      /\ after.scans = m.scans /\ after.decisions = Append(m.decisions, decision)
      /\ after.assessments = m.assessments
  BY <1>1, <1>2 DEF Memories
<1>6. m.pending = Nothing /\ m.terminal = Nothing
  BY <1>1, <1>2 DEF Coheres, StateCoheres
<1> HIDE DEF m, e, after
<1>7. Holds(after, Append(EntriesOf(m), e))
  <2> DEFINE now == Replay(Append(EntriesOf(m), e))
             was == Replay(EntriesOf(m))
  <2>1. (Moves(e) <=> p # Nothing) /\ ~Failed(e)
    BY <1>4 DEF Moves, Failed
  <2>5. /\ now.scans = was.scans /\ now.decisions = Append(was.decisions, decision)
        /\ now.assessments = was.assessments
    <3>1. EntriesOf(m) \in Seq(Receipts) /\ e \in Receipts
      BY <1>2, <1>4
    <3>2. HistoriesGrow(was, now, e)
      BY <3>1, ReplayHistories
    <3> HIDE DEF now, was
    <3>3. QED
      BY <1>4, <3>2 DEF HistoriesGrow
  <2>2. CASE p # Nothing
    <3>1. /\ now.phase = "AWAITING_ASSESSMENT" /\ now.request = m.request
          /\ now.pending = p /\ now.terminal = Nothing
      BY <1>2, <1>4, <2>1, <2>2, ReplayMoved
    <3>2. now.failed = was.failed
      BY <1>2, <1>4, <2>1, ReplayFailed
    <3>4. /\ m.failed = was.failed /\ m.scans = was.scans /\ m.decisions = was.decisions
          /\ m.assessments = was.assessments
      BY <1>2 DEF Holds
    <3> HIDE DEF now, was
    <3>5. QED
      BY <1>5, <1>6, <2>2, <3>1, <3>2, <2>5, <3>4 DEF Holds, now
  <2>3. CASE p = Nothing
    <3>1. /\ now.phase = was.phase /\ now.request = was.request
          /\ now.pending = was.pending /\ now.terminal = was.terminal
      BY <1>2, <1>4, <2>1, <2>3, ReplayUnmoved
    <3>2. now.failed = was.failed
      BY <1>2, <1>4, <2>1, ReplayFailed
    <3>4. /\ m.phase = was.phase /\ m.request = was.request
          /\ m.pending = was.pending /\ m.terminal = was.terminal
          /\ m.failed = was.failed /\ m.scans = was.scans /\ m.decisions = was.decisions
          /\ m.assessments = was.assessments
      BY <1>2 DEF Holds
    <3> HIDE DEF now, was
    <3>5. QED
      BY <1>1, <1>5, <1>6, <2>3, <3>1, <3>2, <2>5, <3>4 DEF Holds, now
  <2>4. QED
    BY <2>2, <2>3
<1>8. Due(m, "decision", decision)
  BY <1>1, <1>4 DEF Due, m
<1>9. /\ CoreInv'
      /\ \A g \in Handles :
            memory'[g] = memory[g] \/ (g = h /\ memory'[h] \in Memories)
  <2>1. "decision" \notin CheckpointKinds
    BY DEF CheckpointKinds
  <2>2. Returns(h, e, after) \/ Raises(h, e, m.phase)
    BY <1>1 DEF Records, m
  <2>3. QED
    BY <1>1, <1>3, <1>4, <1>7, <1>8, <2>1, <2>2, RecordsKeep DEF m, e
<1>10. ClosingInv'
  <2>1. closing \subseteq Handles /\ \A g \in closing : Live(g) /\ memory[g].phase = "TERMINAL"
    BY SessionInvParts DEF ClosingInv
  <2>2. QED
    BY <1>1, <1>9, <2>1 DEF ClosingInv, Live
<1>11. QED
  <2>1. (SessionInv <=> CoreInv /\ ClosingInv)'
    BY SessionInvParts, PTL
  <2>2. QED
    BY <1>9, <1>10, <2>1

\* decide keeps the invariant, whether the route selects or not.
LEMMA DecideStep ==
    ASSUME SessionInv, NEW h \in Handles, NEW c \in Controls,
           DecideNothing(h, c) \/ \E a \in Actions : Decide(h, c, a)
    PROVE  SessionInv'
<1> DEFINE m == memory[h]
<1>1. Live(h) /\ Callable(h) /\ m.phase = "READY_TO_ACT" /\ closing' = closing
  BY DEF DecideNothing, Decide, Callable
<1>2. m \in Memories /\ m.pending = Nothing /\ m.request \in Requests
  <2>1. m \in Memories /\ Coheres(m)
    BY <1>1, SessionFacts
  <2>2. QED
    BY <1>1, <2>1 DEF Memories, Coheres, StateCoheres
<1>3. CASE DecideNothing(h, c)
  <2> DEFINE decision == [request |-> m.request, control |-> c, selected |-> Nothing]
  <2>1. Records(h, Receipt(m, "decision", decision),
                [m EXCEPT !.decisions = Append(@, decision)])
    BY <1>3 DEF DecideNothing
  <2>2. [m EXCEPT !.decisions = Append(@, decision)] =
        [m EXCEPT !.pending = Nothing,
                  !.phase = IF Nothing = Nothing THEN @ ELSE "AWAITING_ASSESSMENT",
                  !.decisions = Append(@, decision)]
    <3> HIDE DEF decision, m
    <3>1. QED
      BY <1>2 DEF Memories
  <2>3. QED
    BY <1>1, <2>1, <2>2, DecisionStep
<1>4. ASSUME NEW a \in Actions, Decide(h, c, a) PROVE SessionInv'
  <2> DEFINE p == [request |-> m.request, action |-> a]
             decision == [request |-> p.request, control |-> c, selected |-> p]
  <2>1. /\ Signature(p) # m.failed
        /\ Records(h, Receipt(m, "decision", decision),
                   [m EXCEPT !.pending = p, !.phase = "AWAITING_ASSESSMENT",
                             !.decisions = Append(@, decision)])
    BY <1>4 DEF Decide
  <2>2. p \in Proposals /\ p # Nothing /\ p.request = m.request
    BY <1>2, NothingAssumption DEF Proposals
  <2>3. decision = [request |-> m.request, control |-> c, selected |-> p]
    BY <2>2
  <2>4. [m EXCEPT !.pending = p, !.phase = "AWAITING_ASSESSMENT",
                  !.decisions = Append(@, decision)] =
        [m EXCEPT !.pending = p,
                  !.phase = IF p = Nothing THEN @ ELSE "AWAITING_ASSESSMENT",
                  !.decisions = Append(@, decision)]
    <3> HIDE DEF p, decision
    <3>1. QED
      BY <2>2
  <2> HIDE DEF p, decision
  <2>5. QED
    BY <1>1, <2>1, <2>2, <2>3, <2>4, DecisionStep
<1>5. QED
  BY <1>3, <1>4

\* assess keeps the invariant up to the terminal checkpoint it still owes.
LEMMA AssessStep ==
    ASSUME SessionInv, NEW h \in Handles, NEW x \in Executions, NEW authority \in Authorities,
           Assess(h, x, authority)
    PROVE  SessionInv'
<1> DEFINE m == memory[h]
           final == authority \in Final
           phase == IF final THEN "TERMINAL" ELSE "NEEDS_SCAN"
           assessment == [proposal |-> m.pending, evidence |-> x, authority |-> authority,
                          after |-> phase]
           e == Receipt(m, "assessment", assessment)
           after == [m EXCEPT
                        !.pending = Nothing, !.request = Nothing, !.phase = phase,
                        !.terminal = IF final THEN authority ELSE @,
                        !.failed = IF authority = "FAILURE" THEN Signature(m.pending) ELSE @,
                        !.assessments = Append(@, assessment)]
<1>1. /\ Live(h) /\ h \notin closing /\ m.phase = "AWAITING_ASSESSMENT" /\ ExactEvidence(m, x)
      /\ \/ Returns(h, e, after) /\ closing' = IF final THEN closing \cup {h} ELSE closing
         \/ Raises(h, e, m.phase) /\ closing' = closing
  BY DEF Assess, Callable
<1>2. /\ m \in Memories /\ Len(m.refs) \in Nat /\ HeadOf(m) \in Nat
      /\ EntriesOf(m) \in Seq(Receipts) /\ Holds(m, EntriesOf(m)) /\ Coheres(m)
  BY <1>1, SessionFacts
<1>3. after \in Memories /\ assessment \in Assessments /\ Coheres(after)
  BY <1>1, <1>2, AssessmentCoheres
<1>4. /\ e \in Receipts /\ e.kind = "assessment" /\ e.body = assessment
      /\ assessment.proposal = m.pending /\ assessment.evidence = x
      /\ assessment.authority = authority /\ assessment.after = phase
  BY <1>2, <1>3 DEF Receipts, Receipt, HeadOf
<1>5. /\ after.phase = phase /\ after.request = Nothing /\ after.pending = Nothing
      /\ after.terminal = (IF final THEN authority ELSE m.terminal)
      /\ after.failed = (IF authority = "FAILURE" THEN Signature(m.pending) ELSE m.failed)
      /\ after.scans = m.scans /\ after.decisions = m.decisions
      /\ after.assessments = Append(m.assessments, assessment)
  BY <1>2 DEF Memories
<1>6. m.terminal = Nothing
  BY <1>1, <1>2 DEF Coheres, StateCoheres
<1> HIDE DEF m, assessment, e, after
<1>7. Holds(after, Append(EntriesOf(m), e))
  <2>1. Moves(e) /\ (Failed(e) <=> authority = "FAILURE")
    BY <1>4 DEF Moves, Failed
  <2> DEFINE now == Replay(Append(EntriesOf(m), e))
             was == Replay(EntriesOf(m))
  <2>2. /\ now.phase = phase /\ now.request = Nothing /\ now.pending = Nothing
        /\ now.terminal = IF final THEN authority ELSE Nothing
    BY <1>2, <1>4, <2>1, ReplayMoved
  <2>3. now.failed = IF authority = "FAILURE" THEN Signature(m.pending) ELSE was.failed
    BY <1>2, <1>4, <2>1, ReplayFailed
  <2>4. /\ now.scans = was.scans /\ now.decisions = was.decisions
        /\ now.assessments = Append(was.assessments, assessment)
    <3>1. EntriesOf(m) \in Seq(Receipts) /\ e \in Receipts
      BY <1>2, <1>4
    <3>2. HistoriesGrow(was, now, e)
      BY <3>1, ReplayHistories
    <3> HIDE DEF now, was
    <3>3. QED
      BY <1>4, <3>2 DEF HistoriesGrow
  <2>5. /\ m.failed = was.failed /\ m.scans = was.scans /\ m.decisions = was.decisions
        /\ m.assessments = was.assessments
    BY <1>2 DEF Holds
  <2> HIDE DEF now, was
  <2>6. QED
    BY <1>5, <1>6, <2>2, <2>3, <2>4, <2>5 DEF Holds, now
<1>8. Due(m, "assessment", assessment)
  BY <1>1, <1>4 DEF Due
<1>9. /\ CoreInv'
      /\ \A g \in Handles :
            \/ memory'[g] = memory[g]
            \/ g = h /\ memory'[h] \in Memories /\ memory'[h].phase = phase
  <2>1. "assessment" \notin CheckpointKinds
    BY DEF CheckpointKinds
  <2>2. PICK met : Returns(h, e, after) \/ Raises(h, e, met)
    BY <1>1
  <2>3. Live(h) /\ e \in Receipts /\ after \in Memories /\ Coheres(after)
    BY <1>1, <1>3, <1>4
  <2>4. /\ CoreInv'
        /\ \A g \in Handles :
              \/ memory'[g] = memory[g]
              \/ g = h /\ memory'[h] \in Memories /\ memory'[h].phase = after.phase
    BY <1>7, <1>8, <2>1, <2>2, <2>3, RecordsKeep DEF m, e
  <2>5. QED
    BY <1>5, <2>4
<1>10. ClosingInv'
  <2>1. closing \subseteq Handles /\ \A g \in closing : Live(g) /\ memory[g].phase = "TERMINAL"
    BY SessionInvParts DEF ClosingInv
  <2>2. CASE closing' = closing
    BY <1>1, <1>9, <2>1, <2>2 DEF ClosingInv, Live
  <2>3. CASE Returns(h, e, after) /\ final /\ closing' = closing \cup {h}
    <3>1. memory'[h] \in Memories /\ memory'[h].phase = "TERMINAL"
      <4>1. memory' = [memory EXCEPT ![h] = [after EXCEPT !.refs = Append(m.refs, Place(e))]]
        BY <2>3 DEF Returns, m
      <4>2. memory \in [Handles -> Memories \cup {Nothing}]
        BY DEF SessionInv, TypeOK
      <4>3. memory'[h].phase = "TERMINAL"
        BY <1>3, <1>5, <2>3, <4>1, <4>2 DEF Memories
      <4>4. QED
        BY <1>2, <1>9, <4>3 DEF m
    <3>2. memory'[h] # Nothing
      BY <3>1, NothingAssumption
    <3>3. QED
      BY <1>1, <1>9, <2>1, <2>3, <3>1, <3>2 DEF ClosingInv, Live
  <2>4. QED
    BY <1>1, <2>2, <2>3
<1>11. QED
  <2>1. (SessionInv <=> CoreInv /\ ClosingInv)'
    BY SessionInvParts, PTL
  <2>2. QED
    BY <1>9, <1>10, <2>1

\* checkpoint and the close of assess append a snapshot and change nothing else.
LEMMA CheckpointStep ==
    ASSUME SessionInv, NEW h \in Handles, Checkpoint(h) \/ Close(h)
    PROVE  SessionInv'
<1> DEFINE m == memory[h]
           body == Snapshot(m)
<1>1. PICK kind, met :
          /\ kind \in CheckpointKinds
          /\ Returns(h, Receipt(m, kind, body), m) \/ Raises(h, Receipt(m, kind, body), met)
          /\ Live(h)
          /\ (h \notin closing /\ closing' = closing) \/ closing' = closing \ {h}
  <2>1. CASE Checkpoint(h)
    BY <2>1 DEF Checkpoint, Callable, Records, CheckpointKinds
  <2>2. CASE Close(h)
    <3>1. Live(h)
      BY <2>2, SessionInvParts DEF Close, ClosingInv
    <3>2. QED
      BY <2>2, <3>1 DEF Close, CheckpointKinds
  <2>3. QED
    BY <2>1, <2>2
<1> DEFINE e == Receipt(m, kind, body)
<1>2. /\ m \in Memories /\ Len(m.refs) \in Nat /\ HeadOf(m) \in Nat
      /\ EntriesOf(m) \in Seq(Receipts) /\ Holds(m, EntriesOf(m)) /\ Coheres(m)
  BY <1>1, SessionFacts
<1>3. body \in Snapshots
  <2>1. Admitted(m.decisions) \in Seq(Proposals)
    BY <1>2, AdmittedType DEF Memories
  <2>2. /\ Len(Admitted(m.decisions)) \in Nat /\ Len(m.scans) \in Nat
        /\ Len(m.decisions) \in Nat /\ Len(m.assessments) \in Nat
    BY <1>2, <2>1 DEF Memories
  <2>3. body = SnapshotAt(m, Len(m.refs), HeadOf(m))
    BY DEF Snapshot, SnapshotAt, HeadOf
  <2> HIDE DEF m, body
  <2>4. QED
    BY <1>2, <2>2, <2>3 DEF Memories, SnapshotAt, Snapshots
<1> HIDE DEF body
<1>4. e \in Receipts /\ e.kind = kind /\ e.body = body
  BY <1>1, <1>2, <1>3 DEF Receipts, Receipt, HeadOf
<1> HIDE DEF e
<1>5. kind \notin {"scan", "decision", "assessment"}
  BY <1>1 DEF CheckpointKinds
<1>6. Holds(m, Append(EntriesOf(m), e))
  <2>1. ~Moves(e) /\ ~Failed(e)
    BY <1>4, <1>5 DEF Moves, Failed
  <2> DEFINE now == Replay(Append(EntriesOf(m), e))
             was == Replay(EntriesOf(m))
  <2>2. /\ now.phase = was.phase /\ now.request = was.request
        /\ now.pending = was.pending /\ now.terminal = was.terminal
    BY <1>2, <1>4, <2>1, ReplayUnmoved
  <2>3. now.failed = was.failed
    BY <1>2, <1>4, <2>1, ReplayFailed
  <2>4. /\ now.scans = was.scans /\ now.decisions = was.decisions
        /\ now.assessments = was.assessments
    BY <1>2, <1>4, <1>5, ReplayHistories DEF HistoriesGrow
  <2> HIDE DEF now
  <2>5. QED
    BY <1>2, <2>2, <2>3, <2>4 DEF Holds, now
<1>7. Due(m, kind, body)
  BY <1>5 DEF Due
<1>8. /\ CoreInv'
      /\ \A g \in Handles :
            \/ memory'[g] = memory[g]
            \/ g = h /\ memory'[h] \in Memories /\ memory'[h].phase = m.phase
  <2>1. kind \in CheckpointKinds => body = Snapshot(memory[h])
    BY DEF body
  <2>2. Live(h) /\ (Returns(h, e, m) \/ Raises(h, e, met))
    BY <1>1 DEF e, body
  <2>3. PICK after \in Memories : after = memory[h]
    BY <1>2 DEF m
  <2>4. Receipt(memory[h], kind, body) \in Receipts /\ Due(memory[h], kind, body)
    BY <1>4, <1>7 DEF m, e
  <2>5. Holds(after, Append(EntriesOf(memory[h]), Receipt(memory[h], kind, body)))
    BY <1>6, <2>3 DEF m, e
  <2>6. \/ Returns(h, Receipt(memory[h], kind, body), after)
        \/ Raises(h, Receipt(memory[h], kind, body), met)
    BY <2>2, <2>3 DEF m, e
  <2>7. Coheres(after) /\ Live(h)
    BY <1>2, <2>2, <2>3 DEF m
  <2> HIDE DEF m, e
  <2>8. /\ CoreInv'
        /\ \A g \in Handles :
              \/ memory'[g] = memory[g]
              \/ g = h /\ memory'[h] \in Memories /\ memory'[h].phase = after.phase
    BY <2>1, <2>4, <2>5, <2>6, <2>7, RecordsKeep
  <2>9. QED
    BY <2>3, <2>8 DEF m
<1>9. ClosingInv'
  <2>1. closing \subseteq Handles /\ \A g \in closing : Live(g) /\ memory[g].phase = "TERMINAL"
    BY SessionInvParts DEF ClosingInv
  <2>2. QED
    BY <1>1, <1>8, <2>1 DEF ClosingInv, Live
<1>10. QED
  <2>1. (SessionInv <=> CoreInv /\ ClosingInv)'
    BY SessionInvParts, PTL
  <2>2. QED
    BY <1>8, <1>9, <2>1

\* Handles come and go, and the ledger stays.
LEMMA QuietKeeps ==
    ASSUME SessionInv, log' = log,
           memory' \in [Handles -> Memories \cup {Nothing}],
           \A g \in Handles : memory'[g] \in {memory[g], Nothing, Fresh},
           closing' \subseteq closing, \A g \in closing' : memory'[g] = memory[g]
    PROVE  SessionInv'
<1>1. /\ TypeOK /\ log \in Seq(Receipts) /\ ParentsPrecede(log) /\ Len(log) <= MaxReceipts
      /\ Len(log) \in Nat
      /\ \A k \in 1..Len(log) : Written(k)
  BY TypeFacts DEF SessionInv, TypeOK
<1>2. LogGrows
  BY <1>1 DEF LogGrows
<1>3. \A k \in 0..Len(log) : Lineage(k)' = Lineage(k)
  BY <1>1, <1>2, LineageKept DEF LogGrows
<1>4. ASSUME NEW k \in 1..Len(log') PROVE Written(k)'
  <2>1. log[k].parent \in 0..Len(log)
    BY <1>1 DEF ParentsPrecede
  <2>2. Lineage(log[k].parent)' = Lineage(log[k].parent)
    BY <1>3, <2>1 DEF Lineage
  <2>3. QED
    BY <1>1, <2>2 DEF Written
<1>5. ASSUME NEW g \in Handles, Live(g)'
      PROVE  memory'[g].refs \in Seq(1..Len(log')) /\ Stands(memory[g])'
  <2>1. CASE memory'[g] = memory[g]
    <3>1. Live(g)
      BY <1>5, <2>1 DEF Live
    <3>2. Stands(memory[g])' /\ memory[g].refs \in Seq(1..Len(log))
      BY <1>1, <1>2, <2>1, <3>1, StandsKept, TypeFacts DEF SessionInv
    <3>3. QED
      BY <2>1, <3>2
  <2>2. CASE memory'[g] = Fresh
    <3>1. /\ memory'[g].refs = <<>> /\ Len(memory'[g].refs) = 0
          /\ HeadOf(memory[g])' = 0 /\ EntriesOf(memory[g])' = <<>>
      BY <2>2 DEF Fresh, HeadOf, EntriesOf
    <3>2. Lineage(HeadOf(memory[g]))' = <<>>
      BY <3>1 DEF Lineage
    <3>3. Holds(Fresh, <<>>)
      BY ReplayOfNone DEF Holds, Fresh
    <3>4. QED
      BY <2>2, <3>1, <3>2, <3>3, FreshCoheres DEF Stands
  <2>3. QED
    BY <1>5, <2>1, <2>2 DEF Live
<1>6. CoreInv'
  BY <1>1, <1>4, <1>5 DEF CoreInv
<1>7. ClosingInv'
  <2>1. closing \subseteq Handles /\ \A g \in closing : Live(g) /\ memory[g].phase = "TERMINAL"
    BY SessionInvParts DEF ClosingInv
  <2>2. QED
    BY <2>1 DEF ClosingInv, Live
<1>8. QED
  <2>1. (SessionInv <=> CoreInv /\ ClosingInv)'
    BY SessionInvParts, PTL
  <2>2. QED
    BY <1>6, <1>7, <2>1

\* A process that starts or dies, or nothing at all.
LEMMA QuietStep ==
    ASSUME SessionInv, (\E h \in Handles : New(h) \/ Crash(h)) \/ UNCHANGED vars
    PROVE  SessionInv'
<1>1. memory \in [Handles -> Memories \cup {Nothing}]
  BY DEF SessionInv, TypeOK
<1>2. Fresh \in Memories
  BY DEF Fresh, Memories, Phases
<1>3. closing \subseteq Handles /\ \A g \in closing : Live(g)
  BY SessionInvParts DEF ClosingInv
<1>4. log' = log
  BY DEF New, Crash, vars
<1>5. memory' \in [Handles -> Memories \cup {Nothing}]
  BY <1>1, <1>2 DEF New, Crash, vars
<1>6. \A g \in Handles : memory'[g] \in {memory[g], Nothing, Fresh}
  BY <1>1 DEF New, Crash, vars
<1>7. closing' \subseteq closing
  BY DEF New, Crash, vars
<1>8. ASSUME NEW g \in closing' PROVE memory'[g] = memory[g]
  <2>1. CASE UNCHANGED vars
    BY <2>1 DEF vars
  <2>2. ASSUME NEW h \in Handles, New(h) PROVE memory'[g] = memory[g]
    BY <1>1, <1>3, <1>7, <1>8, <2>2 DEF New, Live
  <2>3. ASSUME NEW h \in Handles, Crash(h) PROVE memory'[g] = memory[g]
    BY <1>1, <1>3, <1>8, <2>3 DEF Crash
  <2>4. QED
    BY <2>1, <2>2, <2>3
<1>9. QED
  BY <1>4, <1>5, <1>6, <1>7, <1>8, QuietKeeps

-----------------------------------------------------------------------------
\* An unforked history is the lineage of its last receipt.
LEMMA LinearLineage ==
    ASSUME log \in Seq(Receipts), ParentsPrecede(log), NEW k \in 0..Len(log), LinearUpTo(k)
    PROVE  Lineage(k) = SubSeq(log, 1, k)
<1> DEFINE T == {i \in 0..k : Lineage(i) # SubSeq(log, 1, i)}
<1>1. SUFFICES ASSUME T # {} PROVE FALSE
  OBVIOUS
<1>2. PICK i \in T : \A j \in T : i <= j
  <2>1. T \in SUBSET Nat
    OBVIOUS
  <2> HIDE DEF T
  <2>2. QED
    BY <1>1, <2>1, Least
<1>3. Lineage(0) = SubSeq(log, 1, 0)
  BY DEF Lineage
<1>4. i \in 1..k /\ i \in 1..Len(log) /\ i - 1 \in 0..k /\ Len(log) \in Nat
  BY <1>2, <1>3
<1>5. log[i].parent = i - 1 /\ log[i] \in Receipts
  BY <1>4 DEF LinearUpTo
<1>6. Lineage(i - 1) = SubSeq(log, 1, i - 1)
  BY <1>2, <1>4
<1>7. Lineage(i) = Append(SubSeq(log, 1, i - 1), log[i])
  BY <1>4, <1>5, <1>6, LineageStep
<1>8. Append(SubSeq(log, 1, i - 1), log[i]) = SubSeq(log, 1, i)
  BY <1>4, <1>5
<1>9. QED
  BY <1>2, <1>7, <1>8

\* What the validators read back at a checkpoint that closes an unforked history
\* is what its lineage tells.
LEMMA CheckpointTells ==
    ASSUME SessionInv, NEW k \in 1..Len(log), log[k].kind \in CheckpointKinds, LinearUpTo(k)
    PROVE  LET prior == SubSeq(log, 1, k - 1)
               told == Replay(prior)
           IN  /\ prior \in Seq(Receipts) /\ Len(prior) = k - 1
               /\ log[k] \in Receipts /\ log[k].parent = k - 1 /\ log[k].position = k - 1
               /\ Lineage(k) = SubSeq(log, 1, k)
               /\ log[k].body = SnapshotAt(told, k - 1, k - 1)
               /\ Coheres(told)
<1> DEFINE prior == SubSeq(log, 1, k - 1)
<1>1. TypeOK /\ log \in Seq(Receipts) /\ ParentsPrecede(log) /\ Len(log) \in Nat
  BY TypeFacts DEF SessionInv
<1>2. log[k] \in Receipts /\ log[k].parent = k - 1 /\ LinearUpTo(k - 1) /\ k - 1 \in 0..Len(log)
  BY <1>1 DEF LinearUpTo
<1>3. Lineage(k) = SubSeq(log, 1, k)
  BY <1>1, LinearLineage
<1>4. Lineage(k - 1) = prior
  BY <1>1, <1>2, LinearLineage
<1>5. prior \in Seq(Receipts) /\ Len(prior) = k - 1
  BY <1>1, <1>2
<1>6. Written(k)
  BY DEF SessionInv
<1>7. Lineage(log[k].parent) = prior
  BY <1>2, <1>4
<1>8. /\ Coheres(Replay(prior))
      /\ log[k].position = Len(prior)
      /\ log[k].body = SnapshotAt(Replay(prior), Len(prior), log[k].parent)
  <2> HIDE DEF prior
  <2>1. QED
    BY <1>6, <1>7 DEF Written
<1>9. QED
  BY <1>2, <1>3, <1>5, <1>8

\* The histories a lineage tells are its bodies.
LEMMA ReplayTells ==
    ASSUME NEW entries
    PROVE  /\ Replay(entries).scans = Bodies(entries, "scan")
           /\ Replay(entries).decisions = Bodies(entries, "decision")
           /\ Replay(entries).assessments = Bodies(entries, "assessment")
BY DEF Replay

\* What checkpoint writes, restore accepts.
LEMMA CheckpointsCoherent == SessionInv => CheckpointsRestore
<1>1. SUFFICES ASSUME SessionInv, NEW k \in 1..Len(log), log[k].kind \in CheckpointKinds,
                      LinearUpTo(k)
               PROVE  Coherent(k)
  BY DEF CheckpointsRestore
<1> DEFINE prior == SubSeq(log, 1, k - 1)
           told == Replay(prior)
           c == log[k].body
<1>2. /\ log[k].position = k - 1
      /\ c = SnapshotAt(told, k - 1, k - 1)
      /\ Coheres(told)
  BY <1>1, CheckpointTells
<1>3. /\ told.scans = Bodies(prior, "scan") /\ told.decisions = Bodies(prior, "decision")
      /\ told.assessments = Bodies(prior, "assessment")
  BY ReplayTells
<1>4. Coherent(k) <=>
        /\ log[k].position = c.count
        /\ c.count = k - 1 /\ c.head = k - 1
        /\ Len(told.scans) = c.scans /\ Len(told.decisions) = c.decisions
        /\ Len(told.assessments) = c.assessments
        /\ HistoriesCohere(c, told.scans, told.decisions, told.assessments)
        /\ StateCoheres(c, told.scans, told.decisions, told.assessments)
  <2> HIDE DEF told
  <2>1. QED
    BY <1>1, <1>3 DEF Coherent
<1> HIDE DEF told, c, prior
<1>5. /\ c.phase = told.phase /\ c.request = told.request /\ c.pending = told.pending
      /\ c.terminal = told.terminal /\ c.count = k - 1 /\ c.head = k - 1
      /\ c.scans = Len(told.scans) /\ c.decisions = Len(told.decisions)
      /\ c.assessments = Len(told.assessments) /\ c.admitted = Len(Admitted(told.decisions))
  BY <1>2 DEF SnapshotAt
<1>6. HistoriesCohere(c, told.scans, told.decisions, told.assessments)
  BY <1>2, <1>5 DEF Coheres, HistoriesCohere
<1>7. StateCoheres(c, told.scans, told.decisions, told.assessments)
  BY <1>2, <1>5 DEF Coheres, StateCoheres
<1>8. QED
  BY <1>2, <1>4, <1>5, <1>6, <1>7

\* restore rebuilds what the lineage of the checkpoint tells.
LEMMA RestoreStep ==
    ASSUME SessionInv, NEW h \in Handles, NEW k \in 1..Len(log), Restore(h, k)
    PROVE  SessionInv'
<1> DEFINE c == log[k].body
           prior == SubSeq(log, 1, k - 1)
           told == Replay(prior)
           m == [phase |-> c.phase, request |-> c.request, pending |-> c.pending,
                 terminal |-> c.terminal, failed |-> c.failed,
                 scans |-> Bodies(prior, "scan"), decisions |-> Bodies(prior, "decision"),
                 assessments |-> Bodies(prior, "assessment"), refs |-> [i \in 1..k |-> i]]
<1>1. /\ ~Live(h) /\ k = Len(log) /\ LinearUpTo(k) /\ log[k].kind \in CheckpointKinds
      /\ memory' = [memory EXCEPT ![h] = m]
      /\ log' = log /\ closing' = closing
  BY DEF Restore, Restorable, Coherent
<1>2. /\ TypeOK /\ log \in Seq(Receipts) /\ ParentsPrecede(log) /\ Len(log) <= MaxReceipts
      /\ Len(log) \in Nat /\ memory \in [Handles -> Memories \cup {Nothing}]
      /\ \A i \in 1..Len(log) : Written(i)
  BY TypeFacts DEF SessionInv, TypeOK
<1>3. /\ prior \in Seq(Receipts) /\ Len(prior) = k - 1
      /\ log[k] \in Receipts /\ Lineage(k) = SubSeq(log, 1, k)
      /\ c = SnapshotAt(told, k - 1, k - 1)
      /\ Coheres(told)
  BY <1>1, CheckpointTells
<1>4. /\ told.scans = Bodies(prior, "scan") /\ told.decisions = Bodies(prior, "decision")
      /\ told.assessments = Bodies(prior, "assessment")
  BY ReplayTells
<1>5. /\ Bodies(prior, "scan") \in Seq(Scans) /\ Bodies(prior, "decision") \in Seq(Decisions)
      /\ Bodies(prior, "assessment") \in Seq(Assessments)
  <2>1. \A e \in Receipts : /\ e.kind = "scan" => e.body \in Scans
                            /\ e.kind = "decision" => e.body \in Decisions
                            /\ e.kind = "assessment" => e.body \in Assessments
    BY DEF Receipts, CheckpointKinds
  <2>2. prior \in Seq(Receipts)
    BY <1>3
  <2> HIDE DEF prior
  <2>3. QED
    BY <2>1, <2>2, BodiesType
<1>6. c \in Snapshots
  BY <1>1, <1>3 DEF Receipts, CheckpointKinds
<1>7. [i \in 1..k |-> i] \in Seq(Nat) /\ [i \in 1..k |-> i] \in Seq(1..Len(log))
      /\ Len([i \in 1..k |-> i]) = k
  BY <1>1, <1>2
<1>8. m \in Memories /\ m.refs \in Seq(1..Len(log))
  <2> DEFINE refs == [i \in 1..k |-> i]
  <2>1. refs \in Seq(Nat) /\ refs \in Seq(1..Len(log))
    BY <1>7
  <2> HIDE DEF c, prior, refs
  <2>2. QED
    BY <1>5, <1>6, <2>1 DEF Snapshots, Memories, refs
<1>9. EntriesOf(m) = SubSeq(log, 1, k) /\ HeadOf(m) = k
  <2> DEFINE refs == [i \in 1..k |-> i]
  <2>1. m.refs = refs /\ Len(refs) = k /\ refs # <<>> /\ refs[k] = k
        /\ \A i \in 1..k : refs[i] = i
    BY <1>7
  <2> HIDE DEF m, refs
  <2>2. EntriesOf(m) = [i \in 1..k |-> log[i]]
    BY <2>1 DEF EntriesOf
  <2>3. SubSeq(log, 1, k) = [i \in 1..k |-> log[i]]
    BY <1>1, <1>2
  <2>4. QED
    BY <2>1, <2>2, <2>3 DEF HeadOf, Last
<1>10. SubSeq(log, 1, k) = Append(prior, log[k])
  BY <1>1, <1>2, <1>3
<1>11. /\ m.phase = told.phase /\ m.request = told.request /\ m.pending = told.pending
       /\ m.terminal = told.terminal /\ m.failed = told.failed
       /\ m.scans = told.scans /\ m.decisions = told.decisions
       /\ m.assessments = told.assessments
  <2> HIDE DEF told, c, prior
  <2>1. QED
    BY <1>3, <1>4 DEF SnapshotAt
<1> HIDE DEF m, c, told, prior
<1>12. Coheres(m)
  BY <1>3, <1>11 DEF Coheres, StateCoheres
<1>13. Holds(m, Append(prior, log[k]))
  <2>1. ~Moves(log[k]) /\ ~Failed(log[k]) /\ log[k].kind \notin {"scan", "decision", "assessment"}
    BY <1>1 DEF Moves, Failed, CheckpointKinds
  <2> DEFINE now == Replay(Append(prior, log[k]))
  <2>2. /\ now.phase = told.phase /\ now.request = told.request
        /\ now.pending = told.pending /\ now.terminal = told.terminal
    BY <1>3, <2>1, ReplayUnmoved DEF told
  <2>3. now.failed = told.failed
    BY <1>3, <2>1, ReplayFailed DEF told
  <2>4. /\ now.scans = told.scans /\ now.decisions = told.decisions
        /\ now.assessments = told.assessments
    BY <1>3, <2>1, ReplayHistories DEF told, HistoriesGrow
  <2> HIDE DEF now
  <2>5. QED
    BY <1>11, <2>2, <2>3, <2>4 DEF Holds, now
<1>14. Stands(m)
  BY <1>3, <1>9, <1>10, <1>12, <1>13 DEF Stands
<1>15. LogGrows
  BY <1>1, <1>2 DEF LogGrows
<1>16. \A i \in 0..Len(log) : Lineage(i)' = Lineage(i)
  BY <1>2, <1>15, LineageKept DEF LogGrows
<1>17. ASSUME NEW i \in 1..Len(log') PROVE Written(i)'
  <2>1. log[i].parent \in 0..Len(log)
    BY <1>1, <1>2 DEF ParentsPrecede
  <2>2. Lineage(log[i].parent)' = Lineage(log[i].parent)
    BY <1>1, <1>16, <2>1 DEF Lineage
  <2>3. QED
    BY <1>1, <1>2, <2>2 DEF Written
<1>18. ASSUME NEW g \in Handles, Live(g)'
       PROVE  memory'[g].refs \in Seq(1..Len(log')) /\ Stands(memory[g])'
  <2>1. CASE g # h
    <3>1. memory'[g] = memory[g] /\ Live(g)
      BY <1>1, <1>2, <1>18, <2>1 DEF Live
    <3>2. Stands(memory[g])' /\ memory[g].refs \in Seq(1..Len(log))
      BY <1>2, <1>15, <3>1, StandsKept, TypeFacts DEF SessionInv
    <3>3. QED
      BY <1>1, <3>1, <3>2
  <2>2. CASE g = h
    <3>1. memory'[g] = m
      BY <1>1, <1>2, <2>2
    <3>2. EntriesOf(memory[g])' = EntriesOf(m) /\ HeadOf(memory[g])' = HeadOf(m)
      BY <1>1, <3>1 DEF EntriesOf, HeadOf
    <3>3. PICK head : head = HeadOf(m)
      OBVIOUS
    <3>4. Lineage(head)' = Lineage(head)
      BY <1>2, <1>9, <1>16, <3>3
    <3>5. Lineage(HeadOf(memory[g]))' = Lineage(HeadOf(m))
      BY <3>2, <3>3, <3>4 DEF Lineage
    <3>6. QED
      BY <1>1, <1>8, <1>14, <3>1, <3>2, <3>5 DEF Stands
  <2>3. QED
    BY <2>1, <2>2
<1>19. CoreInv'
  BY <1>1, <1>2, <1>8, <1>17, <1>18 DEF CoreInv, LogGrows
<1>20. ClosingInv'
  <2>1. closing \subseteq Handles /\ \A g \in closing : Live(g) /\ memory[g].phase = "TERMINAL"
    BY SessionInvParts DEF ClosingInv
  <2>2. QED
    BY <1>1, <1>2, <2>1 DEF ClosingInv, Live
<1>21. QED
  <2>1. (SessionInv <=> CoreInv /\ ClosingInv)'
    BY SessionInvParts, PTL
  <2>2. QED
    BY <1>19, <1>20, <2>1

-----------------------------------------------------------------------------
\* The invariant and what it implies.

\* The invariant holds before the first session
LEMMA InitInv == Init => SessionInv
<1> SUFFICES ASSUME Init PROVE SessionInv
  OBVIOUS
<1>1. log = <<>> /\ memory = [h \in Handles |-> Nothing] /\ closing = {} /\ Len(log) = 0
  BY DEF Init
<1>2. TypeOK
  BY <1>1, SessionAssumption DEF TypeOK, Live
<1>3. QED
  BY <1>1, <1>2 DEF SessionInv, Live

\* and every call keeps it.
LEMMA NextInv == SessionInv /\ [Next]_vars => SessionInv'
<1> SUFFICES ASSUME SessionInv, [Next]_vars PROVE SessionInv'
  OBVIOUS
<1>1. CASE UNCHANGED vars
  BY <1>1, QuietStep
<1>2. ASSUME NEW h \in Handles, New(h) PROVE SessionInv'
  BY <1>2, QuietStep
<1>3. ASSUME NEW h \in Handles, Crash(h) PROVE SessionInv'
  BY <1>3, QuietStep
<1>4. ASSUME NEW h \in Handles, NEW r \in Requests, Scan(h, r) PROVE SessionInv'
  BY <1>4, ScanStep
<1>5. ASSUME NEW h \in Handles, NEW c \in Controls, DecideNothing(h, c) PROVE SessionInv'
  BY <1>5, DecideStep
<1>6. ASSUME NEW h \in Handles, NEW c \in Controls, NEW a \in Actions, Decide(h, c, a)
      PROVE  SessionInv'
  BY <1>6, DecideStep
<1>7. ASSUME NEW h \in Handles, NEW x \in Executions, NEW authority \in Authorities,
             Assess(h, x, authority)
      PROVE  SessionInv'
  BY <1>7, AssessStep
<1>8. ASSUME NEW h \in Handles, Checkpoint(h) \/ Close(h) PROVE SessionInv'
  BY <1>8, CheckpointStep
<1>9. ASSUME NEW h \in Handles, NEW k \in 1..Len(log), Restore(h, k) PROVE SessionInv'
  BY <1>9, RestoreStep
<1>10. QED
  BY <1>1, <1>2, <1>3, <1>4, <1>5, <1>6, <1>7, <1>8, <1>9 DEF Next

\* Every live handle stands on one lineage of the ledger, and every receipt was
\* due, and told the truth, in the state its lineage tells: no interleaving of
\* handles, crash, restore or raising append breaks either.
THEOREM SessionInvariant == Spec => []SessionInv
<1>1. QED
  BY InitInv, NextInv, PTL DEF Spec

\* The log, the memories and the open assessments have their types.
THEOREM TypeCorrect == Spec => []TypeOK
<1>1. SessionInv => TypeOK
  BY DEF SessionInv
<1>2. QED
  BY <1>1, SessionInvariant, PTL

\* Persist before advance: what a live handle holds in memory is what the
\* receipts it stands on say, whoever else wrote and whatever raised.
THEOREM MemoryTold == Spec => []MemoryIsReplay
<1>1. SessionInv => MemoryIsReplay
  <2>1. SUFFICES ASSUME SessionInv, NEW h \in Handles, Live(h)
                 PROVE  LET refs == memory[h].refs
                            entries == [i \in 1..Len(refs) |-> log[refs[i]]]
                            told == Replay(entries)
                        IN  /\ refs = <<>> \/ entries = Lineage(Last(refs))
                            /\ \A field \in DOMAIN told : memory[h][field] = told[field]
    BY DEF MemoryIsReplay
  <2> DEFINE m == memory[h]
  <2>2. EntriesOf(m) = Lineage(HeadOf(m)) /\ Holds(m, EntriesOf(m))
    BY <2>1 DEF SessionInv, Stands
  <2>3. m.refs = <<>> \/ EntriesOf(m) = Lineage(Last(m.refs))
    BY <2>2 DEF HeadOf
  <2>4. ASSUME NEW entries, Holds(m, entries)
        PROVE  \A field \in DOMAIN Replay(entries) : m[field] = Replay(entries)[field]
    <3>1. DOMAIN Replay(entries) =
             {"phase", "request", "pending", "terminal", "failed", "scans", "decisions",
              "assessments"}
      BY DEF Replay
    <3>2. QED
      BY <2>4, <3>1 DEF Holds
  <2>5. \A field \in DOMAIN Replay(EntriesOf(m)) : m[field] = Replay(EntriesOf(m))[field]
    BY <2>2, <2>4
  <2>6. EntriesOf(m) = [i \in 1..Len(m.refs) |-> log[m.refs[i]]]
    BY DEF EntriesOf
  <2>7. QED
    BY <2>3, <2>5, <2>6
<1>2. QED
  BY <1>1, SessionInvariant, PTL

\* The durable record of every lineage is a lawful session.
THEOREM LineagesLawful == Spec => []LineageIsLawful
<1>1. SessionInv => LineageIsLawful
  <2>1. SUFFICES ASSUME SessionInv, NEW k \in 1..Len(log)
                 PROVE  LET before == Replay(Lineage(log[k].parent))
                            e == log[k]
                        IN  CASE e.kind = "scan" ->
                                  before.phase \in {"NEEDS_SCAN", "READY_TO_ACT"}
                              [] e.kind = "decision" ->
                                  before.phase = "READY_TO_ACT"
                                  /\ e.body.request = before.request
                              [] e.kind = "assessment" ->
                                  /\ before.phase = "AWAITING_ASSESSMENT"
                                  /\ e.body.proposal = before.pending
                                  /\ ExactEvidence(before, e.body.evidence)
                              [] OTHER -> TRUE
    BY DEF LineageIsLawful
  <2>2. Due(Replay(Lineage(log[k].parent)), log[k].kind, log[k].body)
    BY <2>1 DEF SessionInv, Written
  <2>3. QED
    BY <2>2 DEF Due
<1>2. QED
  BY <1>1, SessionInvariant, PTL

\* An action that just failed is never decided again under the same beliefs.
THEOREM FailureNotRepeated == Spec => []FailedActionNotRepeated
<1>1. SessionInv => FailedActionNotRepeated
  <2>1. SUFFICES ASSUME SessionInv, NEW k \in 1..Len(log),
                        log[k].kind = "decision" /\ log[k].body.selected # Nothing
                 PROVE  Signature(log[k].body.selected) # Replay(Lineage(log[k].parent)).failed
    BY DEF FailedActionNotRepeated
  <2>2. Due(Replay(Lineage(log[k].parent)), log[k].kind, log[k].body)
    BY <2>1 DEF SessionInv, Written
  <2>3. QED
    BY <2>1, <2>2 DEF Due
<1>2. QED
  BY <1>1, SessionInvariant, PTL

\* What checkpoint writes, restore accepts, in any phase of an unforked history.
THEOREM CheckpointsAccepted == Spec => []CheckpointsRestore
BY CheckpointsCoherent, SessionInvariant, PTL

\* A handle comes back with the whole history or with none, and with a history
\* only when nobody forked it.
THEOREM HistoryRestoredWhole == Spec => RestoredHistoryIsWhole
<1>1. SessionInv /\ [Next]_vars =>
         [\A h \in Handles :
             ~Live(h) /\ memory'[h] # Nothing /\ memory'[h].refs # <<>> =>
                 /\ memory'[h].refs = [i \in 1..Len(log) |-> i]
                 /\ LinearUpTo(Len(log))]_vars
  <2>1. SUFFICES ASSUME SessionInv, [Next]_vars, NEW h \in Handles,
                        ~Live(h), memory'[h] # Nothing, memory'[h].refs # <<>>
                 PROVE  /\ memory'[h].refs = [i \in 1..Len(log) |-> i]
                        /\ LinearUpTo(Len(log))
    OBVIOUS
  <2>2. memory \in [Handles -> Memories \cup {Nothing}]
    BY <2>1 DEF SessionInv, TypeOK
  <2>3. memory'[h] # memory[h]
    BY <2>1 DEF Live
  <2>4. ASSUME NEW g \in Handles, NEW e, NEW after, NEW met, Live(g),
               Returns(g, e, after) \/ Raises(g, e, met)
        PROVE  FALSE
    <3>1. g # h
      BY <2>1, <2>4
    <3>2. QED
      BY <2>2, <2>3, <2>4, <3>1 DEF Returns, Raises
  <2>5. ASSUME NEW g \in Handles, New(g) PROVE FALSE
    <3>1. CASE g = h
      BY <2>1, <2>2, <2>5, <3>1 DEF New, Fresh
    <3>2. CASE g # h
      BY <2>2, <2>3, <2>5, <3>2 DEF New
    <3>3. QED
      BY <3>1, <3>2
  <2>6. ASSUME NEW g \in Handles, Crash(g) PROVE FALSE
    BY <2>1, <2>2, <2>3, <2>6 DEF Crash
  <2>7. ASSUME NEW g \in Handles, NEW r \in Requests, Scan(g, r) PROVE FALSE
    BY <2>4, <2>7 DEF Scan, Callable, Records
  <2>8. ASSUME NEW g \in Handles, NEW c \in Controls, DecideNothing(g, c) PROVE FALSE
    BY <2>4, <2>8 DEF DecideNothing, Callable, Records
  <2>9. ASSUME NEW g \in Handles, NEW c \in Controls, NEW a \in Actions, Decide(g, c, a)
        PROVE  FALSE
    BY <2>4, <2>9 DEF Decide, Callable, Records
  <2>10. ASSUME NEW g \in Handles, NEW x \in Executions, NEW authority \in Authorities,
                Assess(g, x, authority)
         PROVE  FALSE
    BY <2>4, <2>10 DEF Assess, Callable
  <2>11. ASSUME NEW g \in Handles, Checkpoint(g) \/ Close(g) PROVE FALSE
    <3>1. Live(g)
      BY <2>1, <2>11, SessionInvParts DEF Checkpoint, Callable, Close, ClosingInv
    <3>2. QED
      BY <2>4, <2>11, <3>1 DEF Checkpoint, Close, Records
  <2>12. ASSUME NEW g \in Handles, NEW k \in 1..Len(log), Restore(g, k)
         PROVE  /\ memory'[h].refs = [i \in 1..Len(log) |-> i]
                /\ LinearUpTo(Len(log))
    <3>1. k = Len(log) /\ LinearUpTo(k)
      BY <2>12 DEF Restore, Restorable, Coherent
    <3> DEFINE c == log[k].body
               prior == SubSeq(log, 1, k - 1)
               m == [phase |-> c.phase, request |-> c.request, pending |-> c.pending,
                     terminal |-> c.terminal, failed |-> c.failed,
                     scans |-> Bodies(prior, "scan"), decisions |-> Bodies(prior, "decision"),
                     assessments |-> Bodies(prior, "assessment"), refs |-> [i \in 1..k |-> i]]
    <3>2. memory' = [memory EXCEPT ![g] = m] /\ m.refs = [i \in 1..k |-> i]
      BY <2>12 DEF Restore
    <3> HIDE DEF m
    <3>3. g = h
      BY <2>2, <2>3, <3>2
    <3>4. memory'[h] = m
      BY <2>2, <3>2, <3>3
    <3>5. QED
      BY <3>1, <3>2, <3>4
  <2>13. Next
    BY <2>1, <2>3 DEF vars
  <2>14. QED
    BY <2>5, <2>6, <2>7, <2>8, <2>9, <2>10, <2>11, <2>12, <2>13 DEF Next
<1>2. QED
  BY <1>1, SessionInvariant, PTL DEF Spec, RestoredHistoryIsWhole
=============================================================================
