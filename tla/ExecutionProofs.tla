---------------------------- MODULE ExecutionProofs ----------------------------
(***************************************************************************)
(* Proofs about GrantRegistry and about Execution, which composes it, for  *)
(* every set of grants, windows, budgets and apertures, and any boundaries *)
(* and number of restarts.  The registry's inductive invariant says that   *)
(* its counters are exact images of the permits it has handed out and of   *)
(* the reservations stranded without one.  It carries over to the          *)
(* execution path, because a restart begins the registry afresh and every  *)
(* other step is the registry's or leaves it alone; what has to be added   *)
(* there is how the world's commands, which outlive a process, relate to   *)
(* the permits of the process alive now.                                   *)
(***************************************************************************)
EXTENDS Execution, FiniteSetTheorems, TLAPS

\* The registry's bookkeeping mirrors the issued permits.
Bookkeeping ==
    /\ IsFiniteSet(issued)
    /\ \A p \in issued : p.token \in serialTokens
    /\ \A p, q \in issued : p.token = q.token => p = q
    /\ \A g \in Grants : invocations[g] = Cardinality(PermitsOf(g)) + Stranded(g)
    /\ \A g \in Grants : invocations[g] <= MaxInvocations[g]

\* Every used permit has exactly the receipts that name it, and no two do.
ReceiptsMatchUsed ==
    /\ \A r \in receipts : r.permit \in used
    /\ \A r, s \in receipts : r.permit = s.permit => r = s

IInv ==
    /\ TypeOK
    /\ OneCurrentGrant
    /\ Bookkeeping
    /\ ReservationsMatchPermits
    /\ ReceiptsMatchUsed
    /\ ExhaustedMeansSpent

-----------------------------------------------------------------------------
\* Issuing a permit raises its grant's count by one and leaves the others alone.
LEMMA AddPermit ==
    ASSUME NEW S, IsFiniteSet(S), NEW p, p \notin S, NEW g
    PROVE  /\ Cardinality(Under(g, S)) \in Nat
           /\ Cardinality(Under(g, S \cup {p}))
                = IF p.grant = g THEN Cardinality(Under(g, S)) + 1
                                 ELSE Cardinality(Under(g, S))
<1>1. IsFiniteSet(Under(g, S))
  BY FS_Subset DEF Under
<1>2. Cardinality(Under(g, S)) \in Nat
  BY <1>1, FS_CardinalityType
<1>3. CASE p.grant = g
  <2>1. Under(g, S \cup {p}) = Under(g, S) \cup {p} /\ p \notin Under(g, S)
    BY <1>3 DEF Under
  <2>2. Cardinality(Under(g, S) \cup {p}) = Cardinality(Under(g, S)) + 1
    BY <1>1, <2>1, FS_AddElement
  <2>3. QED
    BY <1>2, <1>3, <2>1, <2>2
<1>4. CASE p.grant # g
  <2>1. Under(g, S \cup {p}) = Under(g, S)
    BY <1>4 DEF Under
  <2>2. QED
    BY <1>2, <1>4, <2>1
<1>5. QED
  BY <1>3, <1>4

\* Using a permit lowers its grant's count by one and leaves the others alone.
LEMMA RemovePermit ==
    ASSUME NEW S, IsFiniteSet(S), NEW p \in S, NEW g
    PROVE  /\ Cardinality(Under(g, S)) \in Nat
           /\ Cardinality(Under(g, S \ {p}))
                = IF p.grant = g THEN Cardinality(Under(g, S)) - 1
                                 ELSE Cardinality(Under(g, S))
<1>1. IsFiniteSet(S \ {p}) /\ p \notin S \ {p} /\ (S \ {p}) \cup {p} = S
  BY FS_Subset
<1>2. /\ Cardinality(Under(g, S \ {p})) \in Nat
      /\ Cardinality(Under(g, S))
           = IF p.grant = g THEN Cardinality(Under(g, S \ {p})) + 1
                            ELSE Cardinality(Under(g, S \ {p}))
  BY <1>1, AddPermit
<1>3. QED
  BY <1>2

-----------------------------------------------------------------------------
\* A registry begins without grants.
LEMMA InitIInv == Init => IInv
<1> SUFFICES ASSUME Init PROVE IInv
  OBVIOUS
<1>1. TypeOK
  BY GrantAssumption DEF Init, TypeOK, Statuses, Receipt, Permit
<1>2. OneCurrentGrant /\ ReceiptsMatchUsed /\ ExhaustedMeansSpent
  BY GrantAssumption DEF Init, OneCurrentGrant, ReceiptsMatchUsed, ExhaustedMeansSpent
<1>3. \A g : Under(g, {}) = {}
  BY DEF Under
<1>4. Bookkeeping /\ ReservationsMatchPermits
  <2>1. \A g : PermitsOf(g) = {} /\ LivePermitsOf(g) = {} /\ Stranded(g) = 0
    BY <1>3 DEF Init, PermitsOf, LivePermitsOf, Stranded
  <2>2. IsFiniteSet(issued) /\ Cardinality({}) = 0
    BY FS_EmptySet DEF Init
  <2>3. \A g \in Grants : invocations[g] = 0 /\ outstanding[g] = 0 /\ MaxInvocations[g] \in Nat
    BY GrantAssumption DEF Init
  <2>4. QED
    BY <2>1, <2>2, <2>3 DEF Init, Bookkeeping, ReservationsMatchPermits
<1>5. QED
  BY <1>1, <1>2, <1>4 DEF IInv

\* Control's two operations touch only the status table and the pointer.
LEMMA ActivateStep ==
    ASSUME IInv, NEW g \in Grants, Activate(g)
    PROVE  IInv'
<1> USE DEF IInv
<1>1. TypeOK'
  BY DEF TypeOK, Activate, Statuses
<1>2. OneCurrentGrant'
  BY GrantAssumption DEF OneCurrentGrant, Activate, TypeOK
<1>3. Bookkeeping' /\ ReservationsMatchPermits' /\ ReceiptsMatchUsed'
  BY DEF Bookkeeping, ReservationsMatchPermits, ReceiptsMatchUsed,
         PermitsOf, LivePermitsOf, Stranded, Activate
<1>4. ExhaustedMeansSpent'
  BY DEF ExhaustedMeansSpent, LivePermitsOf, Activate, TypeOK
<1>5. QED
  BY <1>1, <1>2, <1>3, <1>4

\* A revoked grant leaves the counters alone.
LEMMA RevokeStep ==
    ASSUME IInv, NEW g \in Grants, Revoke(g)
    PROVE  IInv'
<1> USE DEF IInv
<1>1. TypeOK'
  BY DEF TypeOK, Revoke, Statuses
<1>2. OneCurrentGrant'
  BY GrantAssumption DEF OneCurrentGrant, Revoke, TypeOK
<1>3. Bookkeeping' /\ ReservationsMatchPermits' /\ ReceiptsMatchUsed'
  BY DEF Bookkeeping, ReservationsMatchPermits, ReceiptsMatchUsed,
         PermitsOf, LivePermitsOf, Stranded, Revoke
<1>4. ExhaustedMeansSpent'
  BY DEF ExhaustedMeansSpent, LivePermitsOf, Revoke, TypeOK
<1>5. QED
  BY <1>1, <1>2, <1>3, <1>4

\* A refusal that changes something: a lapsed grant expires.
LEMMA BeginPermitLapsedStep ==
    ASSUME IInv, NEW g \in Grants, NEW b \in Boundaries, BeginPermitLapsed(g, b)
    PROVE  IInv'
<1> USE DEF IInv
<1>1. TypeOK'
  BY DEF TypeOK, BeginPermitLapsed, Statuses
<1>2. OneCurrentGrant'
  BY DEF OneCurrentGrant, BeginPermitLapsed, Lapses, Current, TypeOK
<1>3. Bookkeeping' /\ ReservationsMatchPermits' /\ ReceiptsMatchUsed'
  BY DEF Bookkeeping, ReservationsMatchPermits, ReceiptsMatchUsed,
         PermitsOf, LivePermitsOf, Stranded, BeginPermitLapsed
<1>4. ExhaustedMeansSpent'
  BY DEF ExhaustedMeansSpent, LivePermitsOf, BeginPermitLapsed, TypeOK
<1>5. QED
  BY <1>1, <1>2, <1>3, <1>4

\* What a reservation does to the counters, whether a permit comes of it or not.
LEMMA ReserveCounts ==
    ASSUME IInv, NEW g \in Grants, NEW i \in InvocationIds \cup {NoInvocation}, NEW t, NEW x,
           NEW b, Reserve(g, i, t, x, b)
    PROVE  /\ \A h \in Grants :
                 /\ invocations'[h] = IF h = g THEN invocations[h] + 1 ELSE invocations[h]
                 /\ outstanding'[h] = IF h = g THEN outstanding[h] + 1 ELSE outstanding[h]
                 /\ invocations[h] \in Nat /\ outstanding[h] \in Nat
                 /\ invocations'[h] <= MaxInvocations[h]
                 /\ Stranded(h)' = IF h = g /\ i = NoInvocation THEN Stranded(h) + 1
                                                               ELSE Stranded(h)
                 /\ Stranded(h) \in Nat
           /\ \A h \in Grants : statuses[h] = "exhausted" => h # g
<1> USE DEF IInv
<1>1. ASSUME NEW h \in Grants
      PROVE  /\ invocations[h] \in Nat /\ MaxInvocations[h] \in Nat /\ outstanding[h] \in Nat
             /\ invocations[h] <= MaxInvocations[h]
             /\ invocations'[h] = IF h = g THEN invocations[h] + 1 ELSE invocations[h]
             /\ outstanding'[h] = IF h = g THEN outstanding[h] + 1 ELSE outstanding[h]
  BY GrantAssumption DEF Bookkeeping, TypeOK, Reserve
<1>2. invocations[g] < MaxInvocations[g]
  BY DEF Reserve
<1>3. ASSUME NEW h \in Grants
      PROVE  /\ Stranded(h)' = IF h = g /\ i = NoInvocation THEN Stranded(h) + 1
                                                           ELSE Stranded(h)
             /\ Stranded(h) \in Nat
  BY DEF Stranded, Reserve
<1>4. \A h \in Grants : invocations'[h] <= MaxInvocations[h]
  BY <1>1, <1>2
<1>5. \A h \in Grants : statuses[h] = "exhausted" => h # g
  BY DEF Reserve, RequireActive, Current
<1>6. QED
  BY <1>1, <1>3, <1>4, <1>5

\* Issuing: the new permit's token is fresh, so it is a new permit.
LEMMA BeginPermitStep ==
    ASSUME IInv, NEW g \in Grants, NEW i \in InvocationIds, NEW t \in SerialTokens,
           NEW x \in Targets, NEW b \in Boundaries, BeginPermit(g, i, t, x, b)
    PROVE  IInv'
<1> DEFINE p == [grant |-> g, invocation |-> i, token |-> t, target |-> x, boundary |-> b]
<1> USE DEF IInv
<1>1. p \in Permit /\ p.grant = g /\ p.token = t
  BY DEF Permit
<1>2. p \notin issued /\ issued' = issued \cup {p}
  BY <1>1 DEF BeginPermit, Reserve, Bookkeeping
<1>3. TypeOK'
  BY <1>1, <1>2 DEF TypeOK, BeginPermit, Reserve
<1>4. OneCurrentGrant'
  BY DEF OneCurrentGrant, BeginPermit, Reserve
<1> HIDE DEF p
<1>5. IsFiniteSet(issued) /\ IsFiniteSet(issued')
  BY <1>2, FS_AddElement DEF Bookkeeping
<1>6. \A h \in Grants : Cardinality(PermitsOf(h)')
                          = IF h = g THEN Cardinality(PermitsOf(h)) + 1
                                     ELSE Cardinality(PermitsOf(h))
  BY <1>1, <1>2, <1>5, AddPermit DEF PermitsOf
<1>7. \A h \in Grants :
         /\ invocations'[h] = IF h = g THEN invocations[h] + 1 ELSE invocations[h]
         /\ outstanding'[h] = IF h = g THEN outstanding[h] + 1 ELSE outstanding[h]
         /\ invocations'[h] <= MaxInvocations[h]
         /\ Stranded(h)' = Stranded(h) /\ Stranded(h) \in Nat
         /\ statuses[h] = "exhausted" => h # g
  BY ReserveCounts, GrantAssumption DEF BeginPermit
<1>8. Bookkeeping'
  <2>1. ASSUME NEW h \in Grants
        PROVE  invocations'[h] = Cardinality(PermitsOf(h)') + Stranded(h)'
    <3>1. invocations[h] = Cardinality(PermitsOf(h)) + Stranded(h)
      BY DEF Bookkeeping
    <3>2. IsFiniteSet(PermitsOf(h))
      BY <1>5, FS_Subset DEF PermitsOf, Under
    <3>3. Cardinality(PermitsOf(h)) \in Nat
      BY <3>2, FS_CardinalityType
    <3>4. QED
      BY <1>6, <1>7, <3>1, <3>3
  <2>2. QED
    BY <1>1, <1>2, <1>5, <1>7, <2>1 DEF Bookkeeping, BeginPermit, Reserve
<1>9. /\ IsFiniteSet(issued \ used)
      /\ p \notin issued \ used
      /\ issued' \ used' = (issued \ used) \cup {p}
  BY <1>2, <1>5, FS_Difference, FS_Subset DEF BeginPermit, Reserve, TypeOK
<1>10. \A h \in Grants : /\ Cardinality(LivePermitsOf(h)')
                                = IF h = g THEN Cardinality(LivePermitsOf(h)) + 1
                                           ELSE Cardinality(LivePermitsOf(h))
                         /\ Cardinality(LivePermitsOf(h)) \in Nat
  <2> TAKE h \in Grants
  <2> DEFINE S == issued \ used
  <2>1. IsFiniteSet(S) /\ p \notin S
    BY <1>9
  <2>2. LivePermitsOf(h) = Under(h, S) /\ LivePermitsOf(h)' = Under(h, S \cup {p})
    BY <1>9 DEF LivePermitsOf, Under
  <2> HIDE DEF S
  <2>3. /\ Cardinality(Under(h, S)) \in Nat
        /\ Cardinality(Under(h, S \cup {p})) = IF p.grant = h THEN Cardinality(Under(h, S)) + 1
                                                              ELSE Cardinality(Under(h, S))
    BY <2>1, AddPermit
  <2>4. QED
    BY <1>1, <2>2, <2>3
<1>11. ReservationsMatchPermits'
  <2> SUFFICES ASSUME NEW h \in Grants
               PROVE  outstanding'[h] = Cardinality(LivePermitsOf(h)') + Stranded(h)'
    BY DEF ReservationsMatchPermits
  <2> DEFINE n == Cardinality(LivePermitsOf(h))
             m == Cardinality(LivePermitsOf(h)')
  <2>1. outstanding[h] = n + Stranded(h)
    BY DEF ReservationsMatchPermits
  <2>2. m = (IF h = g THEN n + 1 ELSE n) /\ n \in Nat
    BY <1>10
  <2>3. /\ outstanding'[h] = IF h = g THEN outstanding[h] + 1 ELSE outstanding[h]
        /\ Stranded(h)' = Stranded(h) /\ Stranded(h) \in Nat
    BY <1>7
  <2> HIDE DEF n, m
  <2>4. outstanding'[h] = m + Stranded(h)'
    BY <2>1, <2>2, <2>3
  <2>5. QED
    BY <2>4 DEF m
<1>12. ReceiptsMatchUsed'
  BY DEF ReceiptsMatchUsed, BeginPermit, Reserve
<1>13. ExhaustedMeansSpent'
  <2> SUFFICES ASSUME NEW h \in Grants, statuses[h] = "exhausted"
               PROVE  /\ invocations'[h] = MaxInvocations[h]
                      /\ LivePermitsOf(h)' = {}
    BY DEF ExhaustedMeansSpent, BeginPermit, Reserve
  <2>1. h # g
    BY <1>7
  <2>2. LivePermitsOf(h)' = LivePermitsOf(h)
    BY <1>1, <1>9, <2>1 DEF LivePermitsOf, Under
  <2>3. QED
    BY <1>7, <2>1, <2>2 DEF ExhaustedMeansSpent
<1>14. QED
  BY <1>3, <1>4, <1>8, <1>11, <1>12, <1>13

\* A reservation that no permit comes of: the counters and the stranded one move.
LEMMA BeginPermitUnboundStep ==
    ASSUME IInv, NEW g \in Grants, NEW t \in SerialTokens, NEW x \in Targets,
           NEW b \in Boundaries, BeginPermitUnbound(g, t, x, b)
    PROVE  IInv'
<1> USE DEF IInv
<1>1. UNCHANGED <<statuses, activeRef, issued, used, receipts>>
  BY DEF BeginPermitUnbound, Reserve
<1>2. TypeOK'
  BY <1>1 DEF TypeOK, BeginPermitUnbound, Reserve
<1>3. /\ OneCurrentGrant' /\ ReceiptsMatchUsed'
      /\ \A h : PermitsOf(h)' = PermitsOf(h) /\ LivePermitsOf(h)' = LivePermitsOf(h)
  BY <1>1 DEF OneCurrentGrant, ReceiptsMatchUsed, PermitsOf, LivePermitsOf
<1>4. \A h \in Grants :
         /\ invocations'[h] = IF h = g THEN invocations[h] + 1 ELSE invocations[h]
         /\ outstanding'[h] = IF h = g THEN outstanding[h] + 1 ELSE outstanding[h]
         /\ invocations'[h] <= MaxInvocations[h]
         /\ Stranded(h)' = IF h = g THEN Stranded(h) + 1 ELSE Stranded(h)
         /\ Stranded(h) \in Nat
         /\ statuses[h] = "exhausted" => h # g
  BY ReserveCounts DEF BeginPermitUnbound
<1>5. \A h \in Grants :
         Cardinality(PermitsOf(h)) \in Nat /\ Cardinality(LivePermitsOf(h)) \in Nat
  <2> TAKE h \in Grants
  <2>1. IsFiniteSet(PermitsOf(h)) /\ IsFiniteSet(LivePermitsOf(h))
    BY FS_Subset DEF Bookkeeping, PermitsOf, LivePermitsOf, Under
  <2>2. QED
    BY <2>1, FS_CardinalityType
<1>6. \A h \in Grants : invocations'[h] = Cardinality(PermitsOf(h)') + Stranded(h)'
  BY <1>3, <1>4, <1>5 DEF Bookkeeping
<1>7. Bookkeeping'
  BY <1>1, <1>4, <1>6 DEF Bookkeeping, BeginPermitUnbound, Reserve
<1>8. ReservationsMatchPermits'
  BY <1>3, <1>4, <1>5 DEF ReservationsMatchPermits
<1>9. ExhaustedMeansSpent'
  BY <1>1, <1>3, <1>4 DEF ExhaustedMeansSpent
<1>10. QED
  BY <1>2, <1>3, <1>7, <1>8, <1>9

\* Concluding a live permit, whether it is released or quarantined.  The
\* release check leaves the statuses alone or marks the current grant expired.
LEMMA ConcludeStep ==
    ASSUME IInv, NEW p \in issued, p \notin used,
           NEW status \in {"released", "quarantined"}, NEW b \in Boundaries,
           NEW now,
           \/ now = statuses
           \/ Current(p.grant) /\ now = [statuses EXCEPT ![p.grant] = "expired"],
           Conclude(p, status, b, now)
    PROVE  IInv'
<1> DEFINE g == p.grant
           r == [permit |-> p, status |-> status, boundary |-> b]
<1> USE DEF IInv
<1>1. p \in Permit /\ g \in Grants
  BY DEF TypeOK, Permit
<1>2. r \in Receipt /\ r.permit = p /\ receipts' = receipts \cup {r}
  BY <1>1 DEF Receipt, Conclude
<1>3. now \in [Grants -> Statuses] /\ \A h \in Grants \ {g} : now[h] = statuses[h]
  BY <1>1 DEF TypeOK, Statuses
<1> HIDE DEF g, r
<1>4. /\ used' = used \cup {p}
      /\ FinishReservation(g, now)
      /\ UNCHANGED <<activeRef, invocations, invocationIds, serialTokens, issued>>
  BY DEF Conclude, g
<1>5. /\ statuses' \in [Grants -> Statuses]
      /\ \A h \in Grants \ {g} : statuses'[h] = statuses[h]
      /\ statuses'[g] \in {"active", "expired", "exhausted"}
           <=> statuses[g] \in {"active", "expired", "exhausted"}
  <2>1. now[g] \in {"active", "expired", "exhausted"}
          <=> statuses[g] \in {"active", "expired", "exhausted"}
    BY <1>1 DEF g, Current, TypeOK
  <2>2. QED
    BY <1>1, <1>3, <1>4, <2>1 DEF FinishReservation, Statuses
<1>6. TypeOK'
  BY <1>1, <1>2, <1>4, <1>5 DEF TypeOK, FinishReservation
<1>7. OneCurrentGrant'
  BY <1>1, <1>4, <1>5 DEF OneCurrentGrant
<1>8. Bookkeeping' /\ \A h : Stranded(h)' = Stranded(h)
  BY <1>4 DEF Bookkeeping, PermitsOf, Stranded
<1>9. /\ IsFiniteSet(issued \ used)
      /\ p \in issued \ used
      /\ issued' \ used' = (issued \ used) \ {p}
  BY <1>4, FS_Difference, FS_Subset DEF Bookkeeping
<1>10. \A h \in Grants : Cardinality(LivePermitsOf(h)')
                           = IF h = g THEN Cardinality(LivePermitsOf(h)) - 1
                                      ELSE Cardinality(LivePermitsOf(h))
  BY <1>9, RemovePermit DEF LivePermitsOf, g
<1>11. /\ ReservationsMatchPermits'
       /\ \A h \in Grants : Stranded(h) \in Nat /\ Cardinality(LivePermitsOf(h)) \in Nat
  <2>1. \A h \in Grants : Stranded(h) \in Nat /\ Cardinality(LivePermitsOf(h)) \in Nat
    BY <1>9, RemovePermit DEF LivePermitsOf, Stranded
  <2>2. QED
    BY <1>1, <1>4, <1>8, <1>10, <2>1 DEF ReservationsMatchPermits, FinishReservation, TypeOK
<1>12. ReceiptsMatchUsed'
  BY <1>2, <1>4 DEF ReceiptsMatchUsed
<1>13. ExhaustedMeansSpent'
  <2> SUFFICES ASSUME NEW h \in Grants, statuses'[h] = "exhausted"
               PROVE  /\ invocations'[h] = MaxInvocations[h]
                      /\ LivePermitsOf(h)' = {}
    BY DEF ExhaustedMeansSpent
  <2>1. CASE h # g
    <3>1. LivePermitsOf(h)' \subseteq LivePermitsOf(h)
      BY <1>9 DEF LivePermitsOf, Under
    <3>2. QED
      BY <1>4, <1>5, <2>1, <3>1 DEF ExhaustedMeansSpent
  <2>2. CASE h = g /\ statuses[g] = "exhausted"
    <3>1. p \in LivePermitsOf(g)
      BY <1>9 DEF LivePermitsOf, Under, g
    <3>2. QED
      BY <1>1, <2>2, <3>1 DEF ExhaustedMeansSpent
  <2>3. CASE h = g /\ statuses[g] # "exhausted"
    <3>1. now[g] # "exhausted"
      BY <1>1, <2>3 DEF g, TypeOK
    <3>2. invocations[g] >= MaxInvocations[g] /\ outstanding[g] = 1
      BY <1>1, <1>3, <1>4, <2>3, <3>1 DEF FinishReservation
    <3>3. Cardinality(LivePermitsOf(g)') = 0
      <4>1. p \in LivePermitsOf(g)
        BY <1>9 DEF LivePermitsOf, Under, g
      <4>2. Cardinality(LivePermitsOf(g)) # 0
        BY <1>9, <4>1, FS_Subset, FS_EmptySet DEF LivePermitsOf, Under
      <4>3. QED
        BY <1>1, <1>10, <1>11, <3>2, <4>2 DEF ReservationsMatchPermits
    <3>4. IsFiniteSet(LivePermitsOf(g)')
      BY <1>9, FS_Subset DEF LivePermitsOf, Under
    <3>5. LivePermitsOf(g)' = {}
      BY <3>3, <3>4, FS_EmptySet
    <3>6. invocations[g] = MaxInvocations[g]
      BY <1>1, <3>2, GrantAssumption DEF Bookkeeping, TypeOK
    <3>7. QED
      BY <1>4, <2>3, <3>5, <3>6
  <2>4. QED
    BY <2>1, <2>2, <2>3
<1>14. QED
  BY <1>6, <1>7, <1>8, <1>11, <1>12, <1>13

\* Each of the three outcomes of _release_permit is such a conclusion.
LEMMA ReleaseSteps ==
    ASSUME IInv, NEW p \in issued, NEW x \in Targets, NEW b \in Boundaries,
           \/ ReleasePermit(p, x, b)
           \/ QuarantineMismatch(p, x, b)
           \/ QuarantineControlChanged(p, x, b)
    PROVE  IInv'
<1>1. CASE ReleasePermit(p, x, b)
  BY <1>1, ConcludeStep DEF ReleasePermit
<1>2. CASE QuarantineMismatch(p, x, b)
  BY <1>2, ConcludeStep DEF QuarantineMismatch
<1>3. CASE QuarantineControlChanged(p, x, b)
  <2>1. CASE Lapses(p.grant, b)
    BY <1>3, <2>1, ConcludeStep DEF QuarantineControlChanged, Lapses
  <2>2. CASE ~Lapses(p.grant, b)
    BY <1>3, <2>2, ConcludeStep DEF QuarantineControlChanged
  <2>3. QED
    BY <2>1, <2>2
<1>4. QED
  BY <1>1, <1>2, <1>3

\* The bookkeeping invariant is inductive: every step keeps it.
LEMMA NextStep == ASSUME IInv, [Next]_vars PROVE IInv'
<1>1. CASE \E g \in Grants : Activate(g)
  BY <1>1, ActivateStep
<1>2. CASE \E g \in Grants : Revoke(g)
  BY <1>2, RevokeStep
<1>3. CASE \E g \in Grants, i \in InvocationIds, t \in SerialTokens, x \in Targets,
              b \in Boundaries : BeginPermit(g, i, t, x, b)
  BY <1>3, BeginPermitStep
<1>4. CASE \E g \in Grants, b \in Boundaries : BeginPermitLapsed(g, b)
  BY <1>4, BeginPermitLapsedStep
<1>5. CASE \E p \in issued, x \in Targets, b \in Boundaries : ReleasePermit(p, x, b)
  BY <1>5, ReleaseSteps
<1>6. CASE \E p \in issued, x \in Targets, b \in Boundaries : QuarantineMismatch(p, x, b)
  BY <1>6, ReleaseSteps
<1>7. CASE \E p \in issued, x \in Targets, b \in Boundaries :
              QuarantineControlChanged(p, x, b)
  BY <1>7, ReleaseSteps
<1>8. CASE \E g \in Grants, t \in SerialTokens, x \in Targets, b \in Boundaries :
              BeginPermitUnbound(g, t, x, b)
  BY <1>8, BeginPermitUnboundStep
<1>9. CASE UNCHANGED vars
  BY <1>9 DEF IInv, TypeOK, OneCurrentGrant, Bookkeeping, ReservationsMatchPermits, Stranded,
              ReceiptsMatchUsed, ExhaustedMeansSpent, PermitsOf, LivePermitsOf, vars
<1>10. QED
  BY <1>1, <1>2, <1>3, <1>4, <1>5, <1>6, <1>7, <1>8, <1>9 DEF Next

\* The bookkeeping invariant holds in every reachable state.
THEOREM InductiveInvariant == Spec => []IInv
<1>1. IInv /\ [Next]_vars => IInv'
  BY NextStep
<1>2. QED
  BY InitIInv, <1>1, PTL DEF Spec

-----------------------------------------------------------------------------
\* Type correctness of the registry.
THEOREM TypeCorrect == Spec => []TypeOK
BY InductiveInvariant, PTL DEF IInv

\* At most one grant is ever in force: the pointer and the status table agree.
THEOREM OneCurrentGrantHolds == Spec => []OneCurrentGrant
BY InductiveInvariant, PTL DEF IInv

\* Reservations are exactly the unused permits, so ending one never fails.
THEOREM ReservationsMatchPermitsHolds == Spec => []ReservationsMatchPermits
BY InductiveInvariant, PTL DEF IInv

\* EXHAUSTED is said only of a grant that is spent and settled.
THEOREM ExhaustedMeansSpentHolds == Spec => []ExhaustedMeansSpent
BY InductiveInvariant, PTL DEF IInv

\* No serial token is released twice, whatever grants it is presented under.
THEOREM SerialReleasedOnceHolds == Spec => []SerialReleasedOnce
<1>1. IInv => SerialReleasedOnce
  BY DEF IInv, TypeOK, Bookkeeping, ReceiptsMatchUsed, SerialReleasedOnce, Receipt
<1>2. QED
  BY InductiveInvariant, <1>1, PTL

\* A grant's permits are within its budget, stranded reservations counted in.
PermitsInBudget ==
    \A g \in Grants : /\ Cardinality(PermitsOf(g)) <= MaxInvocations[g]
                      /\ MaxInvocations[g] \in Nat

\* It follows from the counter, whose bound a reservation is checked against.
LEMMA PermitsWithinBudget ==
    IInv => PermitsInBudget
<1> SUFFICES ASSUME IInv, NEW g \in Grants
             PROVE  Cardinality(PermitsOf(g)) <= MaxInvocations[g] /\ MaxInvocations[g] \in Nat
  BY DEF PermitsInBudget
<1>1. IsFiniteSet(PermitsOf(g))
  BY FS_Subset DEF IInv, Bookkeeping, PermitsOf, Under
<1>2. Cardinality(PermitsOf(g)) \in Nat
  BY <1>1, FS_CardinalityType
<1>3. Stranded(g) \in Nat
  BY DEF Stranded
<1>4. /\ invocations[g] = Cardinality(PermitsOf(g)) + Stranded(g)
      /\ invocations[g] <= MaxInvocations[g] /\ MaxInvocations[g] \in Nat
  BY GrantAssumption DEF IInv, Bookkeeping
<1>5. QED
  BY <1>2, <1>3, <1>4

\* The effects released under a grant never exceed its budget: receipts map
\* one-to-one to permits, and permits are counted by the invocation counter.
THEOREM BudgetRespectedHolds == Spec => []BudgetRespected
<1>1. IInv => BudgetRespected
  <2> SUFFICES ASSUME IInv, NEW g \in Grants
               PROVE  Cardinality(ReleasesOf(g)) <= MaxInvocations[g]
    BY DEF BudgetRespected
  <2> DEFINE f == [r \in ReleasesOf(g) |-> r.permit]
  <2>1. \A r \in ReleasesOf(g) : r.permit \in PermitsOf(g)
    BY DEF IInv, TypeOK, ReceiptsMatchUsed, ReleasesOf, PermitsOf, Under
  <2>2. f \in Injection(ReleasesOf(g), PermitsOf(g))
    BY <2>1 DEF IInv, ReceiptsMatchUsed, ReleasesOf, Injection, IsInjective
  <2>3. IsFiniteSet(PermitsOf(g))
    BY FS_Subset DEF IInv, Bookkeeping, PermitsOf, Under
  <2>4. /\ IsFiniteSet(ReleasesOf(g))
        /\ Cardinality(ReleasesOf(g)) <= Cardinality(PermitsOf(g))
    BY <2>2, <2>3, FS_Injection
  <2>5. /\ Cardinality(PermitsOf(g)) \in Nat /\ Cardinality(ReleasesOf(g)) \in Nat
        /\ MaxInvocations[g] \in Nat
    BY <2>3, <2>4, FS_CardinalityType, GrantAssumption
  <2>6. Cardinality(PermitsOf(g)) <= MaxInvocations[g]
    BY PermitsWithinBudget DEF PermitsInBudget
  <2>7. QED
    BY <2>4, <2>5, <2>6
<1>2. QED
  BY InductiveInvariant, <1>1, PTL

\* A spent or lapsed grant holds the chain until its exact successor comes:
\* no revocation or reactivation takes it out.
THEOREM SpentGrantOnlySupersededHolds == Spec => SpentGrantOnlySuperseded
<1> DEFINE Spent(g) == statuses[g] \in {"expired", "exhausted"}
           Kept(g) == \/ statuses'[g] = statuses[g]
                      \/ statuses'[g] = "superseded" /\ Replaces[activeRef'] = g
<1>1. ASSUME IInv, [Next]_vars
      PROVE  [\A g \in Grants : Spent(g) => Kept(g)]_vars
  <2> SUFFICES ASSUME Next, NEW g \in Grants, Spent(g) PROVE Kept(g)
    BY <1>1
  <2>1. statuses \in [Grants -> Statuses] /\ activeRef = g
    BY <1>1 DEF IInv, TypeOK, OneCurrentGrant
  <2>2. ASSUME NEW h \in Grants, Activate(h) PROVE Kept(g)
    BY <2>1, <2>2, GrantAssumption DEF Activate
  <2>3. ASSUME NEW h \in Grants, Revoke(h) PROVE Kept(g)
    BY <2>1, <2>3 DEF Revoke
  <2>4. ASSUME NEW h \in Grants, NEW b \in Boundaries, BeginPermitLapsed(h, b) PROVE Kept(g)
    BY <2>1, <2>4 DEF BeginPermitLapsed, Lapses, Current
  <2>5. ASSUME NEW h \in Grants, NEW now, NEW p,
               now \in {statuses, [statuses EXCEPT ![h] = "expired"]},
               now # statuses => statuses[h] = "active",
               FinishReservation(p, now)
        PROVE  Kept(g)
    <3>1. now \in [Grants -> Statuses] /\ now[g] = statuses[g]
      BY <2>1, <2>5 DEF Statuses
    <3>2. QED
      BY <2>5, <3>1 DEF FinishReservation
  <2>6. ASSUME NEW p \in issued, NEW x \in Targets, NEW b \in Boundaries,
               \/ ReleasePermit(p, x, b)
               \/ QuarantineMismatch(p, x, b)
               \/ QuarantineControlChanged(p, x, b)
        PROVE  Kept(g)
    <3>1. p.grant \in Grants
      BY <1>1 DEF IInv, TypeOK, Permit
    <3>2. CASE QuarantineControlChanged(p, x, b) /\ Lapses(p.grant, b)
      BY <2>5, <3>1, <3>2 DEF QuarantineControlChanged, Conclude, Lapses, Current
    <3>3. CASE ~(QuarantineControlChanged(p, x, b) /\ Lapses(p.grant, b))
      <4>1. FinishReservation(p.grant, statuses)
        BY <2>6, <3>3 DEF ReleasePermit, QuarantineMismatch, QuarantineControlChanged, Conclude
      <4>2. QED
        BY <2>5, <4>1
    <3>4. QED
      BY <3>2, <3>3
  <2>7. ASSUME NEW h \in Grants, NEW i \in InvocationIds, NEW t \in SerialTokens,
               NEW x \in Targets, NEW b \in Boundaries, BeginPermit(h, i, t, x, b)
        PROVE  Kept(g)
    BY <2>7 DEF BeginPermit, Reserve
  <2>8. ASSUME NEW h \in Grants, NEW t \in SerialTokens, NEW x \in Targets,
               NEW b \in Boundaries, BeginPermitUnbound(h, t, x, b)
        PROVE  Kept(g)
    BY <2>8 DEF BeginPermitUnbound, Reserve
  <2>9. QED
    BY <2>2, <2>3, <2>4, <2>6, <2>7, <2>8 DEF Next
<1>2. QED
  BY InductiveInvariant, <1>1, PTL DEF Spec, SpentGrantOnlySuperseded

-----------------------------------------------------------------------------

\* A command of the living process came from a permit it has used.
SentByUsedPermits == \A c \in sent : c.epoch = epoch => c.permit \in used

ExecutionInv ==
    /\ IInv
    /\ CallsTypeOK
    /\ SentByUsedPermits
    /\ ResultsAreTrue
    /\ OneResultPerPermit
    /\ TokenSentOncePerProcess
    /\ EffectsWithinBudget

-----------------------------------------------------------------------------
\* The coordinator begins with a blank registry and nothing commanded.
LEMMA ExecutionInitInv == ExecutionInit => ExecutionInv
<1> SUFFICES ASSUME ExecutionInit PROVE ExecutionInv
  OBVIOUS
<1>1. IInv
  BY InitIInv DEF ExecutionInit
<1>2. CallsTypeOK
  BY <1>1, RestartAssumption DEF ExecutionInit, IInv, CallsTypeOK
<1>3. ASSUME NEW g \in Grants, NEW e \in 0..MaxRestarts
      PROVE  Cardinality(CommandsOf(g, e)) <= MaxInvocations[g]
  <2>1. CommandsOf(g, e) = {}
    BY DEF ExecutionInit, CommandsOf
  <2>2. Cardinality(CommandsOf(g, e)) = 0
    BY <2>1, FS_EmptySet
  <2>3. QED
    BY <2>2, GrantAssumption
<1>4. EffectsWithinBudget
  BY <1>3 DEF EffectsWithinBudget
<1>5. SentByUsedPermits /\ ResultsAreTrue /\ OneResultPerPermit /\ TokenSentOncePerProcess
  BY DEF ExecutionInit, SentByUsedPermits, ResultsAreTrue, OneResultPerPermit,
         TokenSentOncePerProcess
<1>6. QED
  BY <1>1, <1>2, <1>4, <1>5 DEF ExecutionInv

\* What the registry does without the coordinator disturbs nothing of the calls,
\* as long as it forgets no used permit.
LEMMA RegistryStep ==
    ASSUME ExecutionInv, [Next]_vars, UNCHANGED callVars, used \subseteq used'
    PROVE  ExecutionInv'
<1> USE DEF ExecutionInv
<1>1. IInv'
  BY NextStep
<1>2. CallsTypeOK'
  BY <1>1 DEF IInv, CallsTypeOK, callVars
<1>3. SentByUsedPermits'
  BY DEF SentByUsedPermits, callVars
<1>4. ResultsAreTrue' /\ OneResultPerPermit' /\ TokenSentOncePerProcess'
  BY DEF ResultsAreTrue, OneResultPerPermit, TokenSentOncePerProcess, Command, callVars
<1>5. EffectsWithinBudget'
  BY DEF EffectsWithinBudget, CommandsOf, callVars
<1>6. QED
  BY <1>1, <1>2, <1>3, <1>4, <1>5

\* Concluding a permit only ever adds it to the used ones.
LEMMA ConcludeUses ==
    ASSUME NEW p, NEW status, NEW b, NEW now, Conclude(p, status, b, now)
    PROVE  used' = used \cup {p}
BY DEF Conclude

\* Commands of one process are no more than the permits they came from.
LEMMA CommandsFromPermits ==
    ASSUME NEW e, NEW C, NEW P, IsFiniteSet(P),
           \A c \in C : c = [permit |-> c.permit, epoch |-> e] /\ c.permit \in P
    PROVE  /\ Cardinality(C) \in Nat /\ Cardinality(P) \in Nat
           /\ Cardinality(C) <= Cardinality(P)
<1> DEFINE f == [c \in C |-> c.permit]
<1>1. f \in Injection(C, P)
  <2>1. f \in [C -> P]
    OBVIOUS
  <2>2. \A c, d \in C : f[c] = f[d] => c = d
    OBVIOUS
  <2>3. QED
    BY <2>1, <2>2 DEF Injection, IsInjective
<1>2. IsFiniteSet(C) /\ Cardinality(C) <= Cardinality(P)
  BY <1>1, FS_Injection
<1>3. QED
  BY <1>2, FS_CardinalityType

\* execute_once with a released permit: a new command, of a token no earlier
\* command of this process carries.
LEMMA CallStep ==
    ASSUME ExecutionInv, NEW p \in issued, NEW b \in Boundaries, Call(p, b)
    PROVE  ExecutionInv'
<1> USE DEF ExecutionInv
<1>1. p \in Permit /\ p.target \in Targets /\ p \notin used /\ p.grant \in Grants
  BY DEF IInv, TypeOK, Permit, Call, ReleasePermit
<1>2. IInv'
  BY <1>1, ReleaseSteps DEF Call
<1>3. /\ used' = used \cup {p}
      /\ sent' = sent \cup {Command(p)} /\ running' = running \cup {p}
      /\ UNCHANGED <<epoch, effects, results, issued>>
  BY ConcludeUses DEF Call, ReleasePermit, Conclude
<1>4. CallsTypeOK'
  BY <1>1, <1>2, <1>3 DEF IInv, CallsTypeOK, Command
<1>5. SentByUsedPermits'
  BY <1>3 DEF SentByUsedPermits, Command
<1>6. ResultsAreTrue' /\ OneResultPerPermit'
  BY <1>1, <1>3 DEF ResultsAreTrue, OneResultPerPermit, CallsTypeOK, Command
<1>7. \A c \in sent : c.epoch = epoch => c.permit.token # p.token
  BY <1>1 DEF SentByUsedPermits, IInv, TypeOK, Bookkeeping
<1>8. TokenSentOncePerProcess'
  BY <1>3, <1>7 DEF TokenSentOncePerProcess, Command
<1>9. EffectsWithinBudget'
  <2> SUFFICES ASSUME NEW g \in Grants, NEW e \in 0..MaxRestarts
               PROVE  Cardinality(CommandsOf(g, e)') <= MaxInvocations[g]
    BY DEF EffectsWithinBudget
  <2>1. CASE e # epoch
    <3>1. CommandsOf(g, e)' = CommandsOf(g, e)
      BY <1>3, <2>1 DEF CommandsOf, Command
    <3>2. QED
      BY <3>1 DEF EffectsWithinBudget
  <2>2. CASE e = epoch
    <3> DEFINE C == CommandsOf(g, e)'
               P == PermitsOf(g)'
    <3>1. IsFiniteSet(P)
      BY <1>2, FS_Subset DEF IInv, Bookkeeping, PermitsOf, Under
    <3>2. \A c \in C : c = [permit |-> c.permit, epoch |-> e] /\ c.permit \in P
      BY <1>2, <1>3, <1>4, <1>5, <2>2
         DEF IInv, TypeOK, CommandsOf, CallsTypeOK, SentByUsedPermits, PermitsOf, Under
    <3>3. /\ Cardinality(P) <= MaxInvocations[g] /\ MaxInvocations[g] \in Nat
      <4>1. IInv' => PermitsInBudget'
        BY PermitsWithinBudget, PTL
      <4>2. QED
        BY <1>2, <4>1 DEF PermitsInBudget
    <3> HIDE DEF C, P
    <3>4. /\ Cardinality(C) \in Nat /\ Cardinality(P) \in Nat
          /\ Cardinality(C) <= Cardinality(P)
      BY <3>1, <3>2, CommandsFromPermits
    <3>5. Cardinality(C) <= MaxInvocations[g]
      BY <3>3, <3>4
    <3>6. QED
      BY <3>5 DEF C
  <2>3. QED
    BY <2>1, <2>2
<1>10. QED
  BY <1>2, <1>4, <1>5, <1>6, <1>8, <1>9

\* execute_once with a quarantined permit: an answer, and no command ever.
LEMMA BlockStep ==
    ASSUME ExecutionInv, NEW p \in issued, NEW b \in Boundaries, Block(p, b)
    PROVE  ExecutionInv'
<1> USE DEF ExecutionInv
<1>1. p \in Permit /\ p.target \in Targets /\ p \notin used
  BY DEF IInv, TypeOK, Permit, Block, QuarantineMismatch, QuarantineControlChanged
<1>2. IInv'
  BY <1>1, ReleaseSteps DEF Block
<1>3. /\ used' = used \cup {p}
      /\ results' = results \cup {Result(p, "BLOCKED")}
      /\ UNCHANGED <<epoch, sent, running, effects>>
  BY ConcludeUses DEF Block, QuarantineMismatch, QuarantineControlChanged
<1>4. CallsTypeOK'
  BY <1>1, <1>2, <1>3 DEF IInv, CallsTypeOK, Result, Dispositions
<1>5. SentByUsedPermits' /\ TokenSentOncePerProcess'
  BY <1>3 DEF SentByUsedPermits, TokenSentOncePerProcess
<1>6. Command(p) \notin sent
  BY <1>1 DEF SentByUsedPermits, Command
<1>7. ResultsAreTrue'
  BY <1>3, <1>6 DEF ResultsAreTrue, Result, Command
<1>8. OneResultPerPermit'
  BY <1>1, <1>3 DEF OneResultPerPermit, CallsTypeOK, Result
<1>9. EffectsWithinBudget'
  BY <1>3 DEF EffectsWithinBudget, CommandsOf
<1>10. QED
  BY <1>2, <1>4, <1>5, <1>7, <1>8, <1>9

\* The executor's own steps: an effect, a return, an exception.
LEMMA ExecutorStep ==
    ASSUME ExecutionInv,
           \/ \E command \in sent : Effect(command)
           \/ \E p \in running : Complete(p) \/ Lose(p)
    PROVE  ExecutionInv'
<1> USE DEF ExecutionInv
<1>1. IInv'
  <2>1. UNCHANGED vars
    BY DEF Effect, Complete, Lose
  <2>2. QED
    BY <2>1, NextStep
<1>2. UNCHANGED <<epoch, sent, used>>
  BY DEF Effect, Complete, Lose, vars
<1>3. SentByUsedPermits' /\ TokenSentOncePerProcess' /\ EffectsWithinBudget'
  BY <1>2 DEF SentByUsedPermits, TokenSentOncePerProcess, EffectsWithinBudget, CommandsOf
<1>4. CallsTypeOK' /\ ResultsAreTrue' /\ OneResultPerPermit'
  <2>1. CASE \E command \in sent : Effect(command)
    BY <1>1, <1>2, <2>1
       DEF IInv, Effect, CallsTypeOK, ResultsAreTrue, OneResultPerPermit, Command
  <2>2. ASSUME NEW p \in running, Complete(p) \/ Lose(p)
        PROVE  CallsTypeOK' /\ ResultsAreTrue' /\ OneResultPerPermit'
    <3>1. p \in used
      BY DEF CallsTypeOK
    <3>2. PICK d \in {"COMPLETED", "UNKNOWN_EFFECT"} :
             /\ results' = results \cup {Result(p, d)}
             /\ d = "COMPLETED" => Command(p) \in effects
      BY <2>2 DEF Complete, Lose
    <3>3. running' = running \ {p} /\ UNCHANGED <<epoch, sent, used, effects>>
      BY <1>2, <2>2 DEF Complete, Lose
    <3>4. CallsTypeOK'
      BY <1>1, <3>1, <3>2, <3>3 DEF IInv, CallsTypeOK, Result, Dispositions
    <3>5. ResultsAreTrue'
      BY <3>2, <3>3 DEF ResultsAreTrue, Result, Command
    <3>6. OneResultPerPermit'
      BY <3>2, <3>3 DEF OneResultPerPermit, Result
    <3>7. QED
      BY <3>4, <3>5, <3>6
  <2>3. QED
    BY <2>1, <2>2
<1>5. QED
  BY <1>1, <1>3, <1>4

\* A new process: no command carries its number yet.
LEMMA RestartStep == ASSUME ExecutionInv, Restart PROVE ExecutionInv'
<1> USE DEF ExecutionInv
<1>1. epoch \in Nat /\ epoch' = epoch + 1 /\ epoch' \in 0..MaxRestarts
  BY RestartAssumption DEF CallsTypeOK, Restart
<1>2. UNCHANGED <<sent, effects>> /\ results' = {} /\ running' = {} /\ used' = {}
  BY DEF Restart
<1>3. IInv'
  <2>1. Init'
    BY DEF Restart, Init
  <2>2. Init' => IInv'
    BY InitIInv, PTL
  <2>3. QED
    BY <2>1, <2>2
<1>4. \A c \in sent : c \in [permit : Permit, epoch : 0..epoch'] /\ c.epoch # epoch'
  BY <1>1 DEF CallsTypeOK
<1>5. CallsTypeOK'
  BY <1>1, <1>2, <1>3, <1>4 DEF IInv, CallsTypeOK
<1>6. SentByUsedPermits' /\ ResultsAreTrue' /\ OneResultPerPermit' /\ TokenSentOncePerProcess'
  BY <1>2, <1>4 DEF SentByUsedPermits, ResultsAreTrue, OneResultPerPermit, TokenSentOncePerProcess
<1>7. EffectsWithinBudget'
  BY <1>2 DEF EffectsWithinBudget, CommandsOf
<1>8. QED
  BY <1>3, <1>5, <1>6, <1>7

\* The strengthened invariant of calls holds in every reachable state.
THEOREM ExecutionInvariant == ExecutionSpec => []ExecutionInv
<1>1. ExecutionInv /\ [ExecutionNext]_allVars => ExecutionInv'
  <2> SUFFICES ASSUME ExecutionInv, [ExecutionNext]_allVars PROVE ExecutionInv'
    OBVIOUS
  <2>1. CASE Control
    <3>1. [Next]_vars /\ UNCHANGED callVars /\ used' = used
      BY <2>1 DEF Control, Next, Activate, Revoke
    <3>2. QED
      BY <3>1, RegistryStep
  <2>2. CASE \E g \in Grants, i \in InvocationIds, t \in SerialTokens, x \in Targets,
                b \in Boundaries : Begin(g, i, t, x, b)
    <3>1. [Next]_vars /\ UNCHANGED callVars /\ used' = used
      <4>1. CASE \E g \in Grants, t \in SerialTokens, x \in Targets, b \in Boundaries :
                    BeginPermitUnbound(g, t, x, b)
        BY <2>2, <4>1 DEF Begin, Next, BeginPermitUnbound, Reserve
      <4>2. CASE \E g \in Grants, i \in InvocationIds, t \in SerialTokens, x \in Targets,
                    b \in Boundaries : BeginPermit(g, i, t, x, b)
        BY <2>2, <4>2 DEF Begin, Next, BeginPermit, Reserve
      <4>3. CASE \E g \in Grants, b \in Boundaries : BeginPermitLapsed(g, b)
        BY <2>2, <4>3 DEF Begin, Next, BeginPermitLapsed
      <4>4. QED
        BY <2>2, <4>1, <4>2, <4>3 DEF Begin
    <3>2. QED
      BY <3>1, RegistryStep
  <2>3. CASE \E p \in issued, b \in Boundaries : Call(p, b)
    BY <2>3, CallStep
  <2>4. CASE \E p \in issued, b \in Boundaries : Block(p, b)
    BY <2>4, BlockStep
  <2>5. CASE \/ \E command \in sent : Effect(command)
             \/ \E p \in running : Complete(p) \/ Lose(p)
    BY <2>5, ExecutorStep
  <2>6. CASE Restart
    BY <2>6, RestartStep
  <2>7. CASE UNCHANGED allVars
    <3>1. UNCHANGED vars /\ UNCHANGED callVars /\ used' = used
      BY <2>7 DEF allVars, vars
    <3>2. QED
      BY <3>1, RegistryStep
  <2>8. QED
    BY <2>1, <2>2, <2>3, <2>4, <2>5, <2>6, <2>7 DEF ExecutionNext
<1>2. QED
  BY ExecutionInitInv, <1>1, PTL DEF ExecutionSpec

-----------------------------------------------------------------------------
\* Type correctness of the calls, and of the registry through restarts.
THEOREM CallsTypeCorrect == ExecutionSpec => []CallsTypeOK
BY ExecutionInvariant, PTL DEF ExecutionInv

\* COMPLETED means the effect happened, BLOCKED that it never was commanded.
THEOREM ResultsAreTrueHolds == ExecutionSpec => []ResultsAreTrue
BY ExecutionInvariant, PTL DEF ExecutionInv

\* No call is answered twice, or while it still runs.
THEOREM OneResultPerPermitHolds == ExecutionSpec => []OneResultPerPermit
BY ExecutionInvariant, PTL DEF ExecutionInv

\* One process sends the executor at most one command per serial token.
THEOREM TokenSentOncePerProcessHolds == ExecutionSpec => []TokenSentOncePerProcess
BY ExecutionInvariant, PTL DEF ExecutionInv

\* One process sends at most a grant's budget of commands under it.
THEOREM EffectsWithinBudgetHolds == ExecutionSpec => []EffectsWithinBudget
BY ExecutionInvariant, PTL DEF ExecutionInv
==============================================================================
