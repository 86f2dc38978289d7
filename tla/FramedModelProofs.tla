--------------------------- MODULE FramedModelProofs ---------------------------
(***************************************************************************)
(* Proofs about FramedModel for any window, any identities and any number  *)
(* of calls, failures and losses of the driver.                            *)
(***************************************************************************)
EXTENDS FramedModel, SequenceTheorems, TLAPS

InCall == stage \in {"reserved", "written"}

\* The persisted state is never behind the driver's own, and is the same while
\* a call is between its reservation and its answer.
SinkFirst ==
    /\ stage # "down" => memory.next <= durable.next
    /\ InCall => durable = memory /\ memory.next = current.sequence + 1

\* Sequence numbers that are out were reserved before.
WrittenReserved ==
    \A i \in DOMAIN written :
        /\ written[i].sequence < durable.next
        /\ stage # "down" => written[i].sequence < memory.next
        /\ stage = "reserved" => written[i].sequence < current.sequence

\* Each returned reply answers the request of its call, and calls return in the
\* order of their reservations.
ReturnedInOrder ==
    /\ \A i \in DOMAIN returned :
           /\ returned[i].reply.replyTo = returned[i].id
           /\ returned[i].id.sequence < durable.next
           /\ stage # "down" => returned[i].id.sequence < memory.next
           /\ InCall => returned[i].id.sequence < current.sequence
    /\ \A i, j \in DOMAIN returned :
           i < j => returned[i].id.sequence < returned[j].id.sequence

\* A returned reply is at most as far from the end of the window as sequence
\* numbers have been used since; a call under way has not used its own yet.
Kept(state, pending) ==
    \A i \in DOMAIN returned :
        state.next - returned[i].id.sequence <= Capacity =>
            \E j \in DOMAIN state.accepted :
                /\ state.accepted[j] = returned[i].reply
                /\ Len(state.accepted) - j + pending < state.next - returned[i].id.sequence

WindowsKept ==
    /\ Kept(durable, 0)
    /\ stage = "idle" => Kept(memory, 0)
    /\ InCall => Kept(memory, 1)

IInv ==
    /\ TypeOK
    /\ RestartStatesValid
    /\ SinkFirst
    /\ WrittenReserved
    /\ RequestIdsUnique
    /\ ReturnedInOrder
    /\ WindowsKept

-----------------------------------------------------------------------------
(* The window.                                                              *)

\* One more response: it is the last of the window, the window keeps its bound
\* and its distinct identities, and what was not at the far end moves up by one.
LEMMA RetainedProperties ==
    ASSUME NEW accepted \in Seq(Identified), NEW r \in Identified,
           Len(accepted) <= Capacity, ~Replayed(r, accepted),
           \A i, j \in DOMAIN accepted : i # j => accepted[i].message # accepted[j].message
    PROVE  LET result == Retained(accepted, r)
           IN  /\ result \in Seq(Identified)
               /\ Len(result) <= Capacity
               /\ Len(result) \in DOMAIN result
               /\ result[Len(result)] = r
               /\ \A i, j \in DOMAIN result : i # j => result[i].message # result[j].message
               /\ \A j \in DOMAIN accepted :
                      Len(accepted) - j + 1 < Capacity =>
                          \E k \in DOMAIN result :
                              /\ result[k] = accepted[j]
                              /\ Len(result) - k = Len(accepted) - j + 1
<1> DEFINE all == Append(accepted, r)
           result == Retained(accepted, r)
           n == Len(accepted)
<1>1. n \in Nat /\ DOMAIN accepted = 1..n /\ Capacity \in Nat \ {0}
  BY LenProperties, FramedAssumption
<1>2. /\ all \in Seq(Identified) /\ Len(all) = n + 1
      /\ \A i \in 1..n : all[i] = accepted[i]
      /\ all[n + 1] = r
  BY AppendProperties, <1>1
<1>3. \A i, j \in 1..(n + 1) : i # j => all[i].message # all[j].message
  <2>1. \A i \in 1..n : accepted[i].message # r.message
    BY <1>1 DEF Replayed
  <2>2. \A i \in 1..(n + 1) : i \in 1..n \/ i = n + 1
    BY <1>1
  <2>3. QED
    BY <1>1, <1>2, <2>1, <2>2
<1> HIDE DEF all
<1>4. CASE n + 1 <= Capacity
  <2>1. result = all
    BY <1>2, <1>4 DEF Retained, all
  <2>2. DOMAIN all = 1..(n + 1)
    BY <1>2, LenProperties
  <2> HIDE DEF result
  <2>3. \A j \in 1..n : all[j] = accepted[j] /\ (n + 1) - j = n - j + 1
    BY <1>1, <1>2
  <2>4. QED
    <3>1. /\ result \in Seq(Identified) /\ Len(result) <= Capacity
          /\ Len(result) \in DOMAIN result /\ result[Len(result)] = r
      BY <1>1, <1>2, <1>4, <2>1, <2>2
    <3>2. \A i, j \in DOMAIN result : i # j => result[i].message # result[j].message
      BY <1>3, <2>1, <2>2
    <3>3. \A j \in DOMAIN accepted : \E k \in DOMAIN result :
              result[k] = accepted[j] /\ Len(result) - k = Len(accepted) - j + 1
      BY <1>1, <1>2, <2>1, <2>2, <2>3
    <3>4. QED
      BY <3>1, <3>2, <3>3 DEF result
<1>5. CASE n = Capacity
  <2>1. result = SubSeq(all, 2, n + 1)
    BY <1>1, <1>2, <1>5 DEF Retained, all
  <2> HIDE DEF result
  <2>2. \A i \in 2..(n + 1) : all[i] \in Identified
    BY <1>1, <1>2, ElementOfSeq
  <2>3. /\ result \in Seq(Identified) /\ Len(result) = n
        /\ \A i \in 1..n : result[i] = all[i + 1]
    <3>1. /\ SubSeq(all, 2, n + 1) \in Seq(Identified)
          /\ Len(SubSeq(all, 2, n + 1)) = IF 2 <= n + 1 THEN n + 1 - 2 + 1 ELSE 0
          /\ \A i \in 1..(n + 1 - 2 + 1) : SubSeq(all, 2, n + 1)[i] = all[2 + i - 1]
      BY <1>1, <2>2, SubSeqProperties
    <3>2. n + 1 - 2 + 1 = n /\ 2 <= n + 1 /\ \A i \in 1..n : 2 + i - 1 = i + 1
      BY <1>1, <1>5
    <3>3. QED
      BY <2>1, <3>1, <3>2
  <2>4. DOMAIN result = 1..n
    BY <2>3, LenProperties
  <2>5. /\ Len(result) <= Capacity /\ Len(result) \in DOMAIN result
        /\ result[Len(result)] = r
    BY <1>1, <1>2, <1>5, <2>3, <2>4
  <2>6. \A i, j \in DOMAIN result : i # j => result[i].message # result[j].message
    BY <1>1, <1>3, <2>3, <2>4
  <2>7. ASSUME NEW j \in DOMAIN accepted, Len(accepted) - j + 1 < Capacity
        PROVE  \E k \in DOMAIN result :
                   result[k] = accepted[j] /\ Len(result) - k = Len(accepted) - j + 1
    <3>1. j \in 1..n /\ j - 1 \in 1..n
      BY <1>1, <1>5, <2>7
    <3>2. result[j - 1] = accepted[j]
      BY <1>1, <1>2, <2>3, <3>1
    <3>3. Len(result) - (j - 1) = Len(accepted) - j + 1
      BY <1>1, <2>3, <3>1
    <3>4. QED
      BY <2>4, <3>1, <3>2, <3>3
  <2>8. QED
    BY <2>3, <2>5, <2>6, <2>7 DEF result
<1>6. n + 1 <= Capacity \/ n = Capacity
  <2>1. n \in Nat /\ Capacity \in Nat /\ n <= Capacity
    BY <1>1
  <2> HIDE DEF n
  <2>2. QED
    BY <2>1
<1>7. QED
  BY <1>4, <1>5, <1>6

\* What a restart state holds, and what reserving a number and recording a reply make of it.
LEMMA StateFields ==
    ASSUME NEW state \in RestartState
    PROVE  /\ state.next \in Nat
           /\ state.accepted \in Seq(Identified)
           /\ Len(state.accepted) \in Nat
           /\ DOMAIN state.accepted = 1..Len(state.accepted)
           /\ Reserved(state) \in RestartState
           /\ Reserved(state).next = state.next + 1
           /\ Reserved(state).accepted = state.accepted
           /\ \A r : /\ Accepted(state, r).next = state.next
                     /\ Accepted(state, r).accepted = Retained(state.accepted, r)
<1>1. state.next \in Nat /\ state.accepted \in Seq(Identified)
  BY DEF RestartState
<1>2. Len(state.accepted) \in Nat /\ DOMAIN state.accepted = 1..Len(state.accepted)
  BY <1>1, LenProperties
<1>3. /\ Reserved(state) \in RestartState
      /\ Reserved(state).next = state.next + 1
      /\ Reserved(state).accepted = state.accepted
  BY DEF RestartState, Reserved
<1>4. ASSUME NEW r
      PROVE  /\ Accepted(state, r).next = state.next
             /\ Accepted(state, r).accepted = Retained(state.accepted, r)
  BY DEF RestartState, Accepted
<1>5. QED
  BY <1>1, <1>2, <1>3, <1>4

\* A reply not replayed is recorded into a valid state.
LEMMA AcceptedState ==
    ASSUME NEW state \in RestartState, NEW r \in Identified,
           ValidState(state), ~Replayed(r, state.accepted)
    PROVE  /\ Accepted(state, r) \in RestartState
           /\ ValidState(Accepted(state, r))
<1>1. /\ Retained(state.accepted, r) \in Seq(Identified)
      /\ Len(Retained(state.accepted, r)) <= Capacity
      /\ \A i, j \in DOMAIN Retained(state.accepted, r) :
             i # j => Retained(state.accepted, r)[i].message # Retained(state.accepted, r)[j].message
  BY StateFields, RetainedProperties DEF ValidState
<1>2. Accepted(state, r) \in RestartState
  BY <1>1 DEF RestartState, Accepted
<1>3. ValidState(Accepted(state, r))
  BY <1>1, StateFields DEF ValidState
<1>4. QED
  BY <1>2, <1>3

\* With the call's own number used, the window is one further along.
LEMMA PendingSettled ==
    ASSUME NEW state \in RestartState, Kept(state, 1),
           \A i \in DOMAIN returned : returned[i].id.sequence \in Nat
    PROVE  Kept(state, 0)
<1>1. Len(state.accepted) \in Nat /\ DOMAIN state.accepted = 1..Len(state.accepted)
      /\ state.next \in Nat
  BY StateFields
<1>2. \A j \in DOMAIN state.accepted : Len(state.accepted) - j \in Int
  BY <1>1
<1>3. \A a, b \in Int : a + 1 < b => a + 0 < b
  OBVIOUS
<1>4. SUFFICES ASSUME NEW i \in DOMAIN returned,
                      state.next - returned[i].id.sequence <= Capacity
               PROVE  \E j \in DOMAIN state.accepted :
                          /\ state.accepted[j] = returned[i].reply
                          /\ Len(state.accepted) - j + 0
                                 < state.next - returned[i].id.sequence
  BY DEF Kept
<1>5. PICK j \in DOMAIN state.accepted :
          /\ state.accepted[j] = returned[i].reply
          /\ Len(state.accepted) - j + 1 < state.next - returned[i].id.sequence
  BY <1>4 DEF Kept
<1>6. Len(state.accepted) - j + 0 < state.next - returned[i].id.sequence
  BY <1>1, <1>2, <1>3, <1>5
<1>7. QED
  BY <1>5, <1>6

\* What the type invariant says of the recorded identities.
LEMMA Sequences ==
    ASSUME TypeOK
    PROVE  /\ \A i \in DOMAIN written : written[i].sequence \in Nat
           /\ \A i \in DOMAIN returned :
                  /\ returned[i].id \in Identity
                  /\ returned[i].reply \in Identified
                  /\ returned[i].id.sequence \in Nat
           /\ InCall => current \in Identity /\ current.sequence \in Nat
<1>1. \A i \in DOMAIN written : written[i] \in Identity
  BY ElementOfSeq, LenProperties DEF TypeOK
<1>2. \A i \in DOMAIN returned : returned[i] \in [id : Identity, reply : Identified]
  <2>1. returned \in Seq([id : Identity, reply : Identified])
    BY DEF TypeOK
  <2>2. QED
    BY <2>1, ElementOfSeq, LenProperties
<1>3. InCall => current \in Identity
  BY DEF TypeOK, InCall
<1>4. QED
  BY <1>1, <1>2, <1>3 DEF Identity

-----------------------------------------------------------------------------
(* The steps.                                                               *)

\* A call ends, the driver is lost, or only the inbound stream changes.
LEMMA CallEnds ==
    ASSUME IInv, TypeOK', UNCHANGED <<memory, durable, written, returned>>,
           \/ UNCHANGED <<stage, current>>
           \/ stage' = "down"
           \/ InCall /\ stage' = "idle"
    PROVE  IInv'
<1> USE DEF IInv
<1>1. RestartStatesValid' /\ RequestIdsUnique'
  BY DEF RestartStatesValid, RequestIdsUnique
<1>2. memory \in RestartState /\ durable \in RestartState
  BY DEF TypeOK
<1>3. SinkFirst'
  BY <1>2, StateFields DEF SinkFirst, InCall
<1>4. WrittenReserved' /\ ReturnedInOrder'
  BY DEF WrittenReserved, ReturnedInOrder, InCall
<1>5. WindowsKept'
  <2>1. \A i \in DOMAIN returned : returned[i].id.sequence \in Nat
    BY Sequences
  <2>2. InCall => Kept(memory, 0)
    BY <1>2, <2>1, PendingSettled DEF WindowsKept
  <2>3. Kept(durable, 0)' /\ (Kept(memory, 0) => Kept(memory, 0)') /\ (Kept(memory, 1) => Kept(memory, 1)')
    BY DEF WindowsKept, Kept
  <2>4. QED
    BY <2>2, <2>3 DEF WindowsKept, InCall
<1>6. QED
  BY <1>1, <1>3, <1>4, <1>5

\* Taking the first frame off the stream, or appending one, leaves frames.
LEMMA StreamStep ==
    ASSUME TypeOK
    PROVE  /\ inbox # <<>> => Tail(inbox) \in Seq(Reply)
           /\ Len(inbox) > 1 => Tail(inbox) # <<>>
           /\ \A r \in Reply : Append(inbox, r) \in Seq(Reply) /\ Append(inbox, r) # <<>>
           /\ \A i \in DOMAIN inbox : inbox[i] \in Reply
<1>1. inbox \in Seq(Reply) /\ Len(inbox) \in Nat
  BY LenProperties DEF TypeOK
<1>2. inbox # <<>> => Tail(inbox) \in Seq(Reply) /\ Len(Tail(inbox)) = Len(inbox) - 1
  BY <1>1, HeadTailProperties
<1>3. Len(inbox) > 1 => Tail(inbox) # <<>>
  <2>1. Len(inbox) > 1 => inbox # <<>>
    BY <1>1, EmptySeq
  <2>2. ASSUME Len(inbox) > 1 PROVE Len(Tail(inbox)) # 0
    <3>1. Len(Tail(inbox)) = Len(inbox) - 1
      BY <1>2, <2>1, <2>2
    <3>2. \A n \in Nat : n > 1 => n - 1 # 0
      OBVIOUS
    <3>3. QED
      BY <1>1, <2>2, <3>1, <3>2
  <2>3. Len(<<>>) = 0
    BY EmptySeq
  <2>4. QED
    BY <2>2, <2>3
<1>4. ASSUME NEW r \in Reply
      PROVE  Append(inbox, r) \in Seq(Reply) /\ Append(inbox, r) # <<>>
  <2>1. Append(inbox, r) \in Seq(Reply) /\ Len(Append(inbox, r)) = Len(inbox) + 1
    BY <1>1, AppendProperties
  <2>2. Len(Append(inbox, r)) # 0 /\ Len(<<>>) = 0
    BY <1>1, <2>1, EmptySeq
  <2>3. QED
    BY <2>1, <2>2
<1>5. \A i \in DOMAIN inbox : inbox[i] \in Reply
  BY <1>1, ElementOfSeq, LenProperties
<1>6. QED
  BY <1>2, <1>3, <1>4, <1>5

\* A call takes the next number, which the sink has persisted.
LEMMA ReserveStep == ASSUME IInv, NEW q \in Requests, Reserve(q) PROVE IInv'
<1> USE DEF IInv
<1> DEFINE state == Reserved(memory)
<1>1. memory \in RestartState /\ current' \in Identity /\ current'.sequence = memory.next
  BY StateFields DEF TypeOK, Reserve, RequestIdentity, Identity
<1>2. /\ state \in RestartState /\ state.next = memory.next + 1
      /\ state.accepted = memory.accepted /\ memory.next \in Nat
  BY <1>1, StateFields
<1> HIDE DEF state
<1>3. /\ stage = "idle" /\ stage' = "reserved" /\ memory' = state /\ durable' = state
      /\ UNCHANGED <<written, inbox, torn, returned>>
  BY DEF Reserve, state, streams
<1>4. TypeOK'
  <2>1. current' # Nothing
    BY <1>1, FramedAssumption
  <2>2. QED
    BY <1>1, <1>2, <1>3, <2>1 DEF TypeOK
<1>5. RestartStatesValid' /\ RequestIdsUnique'
  BY <1>2, <1>3 DEF RestartStatesValid, ValidState, RequestIdsUnique
<1>6. SinkFirst'
  BY <1>1, <1>2, <1>3 DEF SinkFirst, InCall
<1>7. WrittenReserved'
  BY <1>1, <1>2, <1>3, Sequences DEF WrittenReserved
<1>8. ReturnedInOrder'
  BY <1>1, <1>2, <1>3, Sequences DEF ReturnedInOrder, InCall
<1>9. WindowsKept'
  <2>1. Kept(memory, 0)
    BY <1>3 DEF WindowsKept
  <2>2. Kept(state, 1)
    <3>1. SUFFICES ASSUME NEW i \in DOMAIN returned,
                          state.next - returned[i].id.sequence <= Capacity
                   PROVE  \E j \in DOMAIN state.accepted :
                              /\ state.accepted[j] = returned[i].reply
                              /\ Len(state.accepted) - j + 1
                                     < state.next - returned[i].id.sequence
      BY DEF Kept
    <3>2. returned[i].id.sequence \in Nat /\ Capacity \in Nat
      BY Sequences, FramedAssumption
    <3>3. memory.next - returned[i].id.sequence <= Capacity
      BY <1>2, <3>1, <3>2
    <3>4. PICK j \in DOMAIN memory.accepted :
              /\ memory.accepted[j] = returned[i].reply
              /\ Len(memory.accepted) - j + 0 < memory.next - returned[i].id.sequence
      BY <2>1, <3>3 DEF Kept
    <3>5. j \in Nat /\ Len(memory.accepted) \in Nat
      BY <1>1, StateFields
    <3>6. Len(memory.accepted) - j + 1 < (memory.next + 1) - returned[i].id.sequence
      BY <1>2, <3>2, <3>4, <3>5
    <3>7. QED
      BY <1>2, <3>4, <3>6
  <2>3. Kept(state, 0)
    BY <1>2, <2>2, PendingSettled, Sequences
  <2>4. (Kept(state, 0) => Kept(durable, 0)') /\ (Kept(state, 1) => Kept(memory, 1)')
    BY <1>3 DEF Kept
  <2>5. QED
    BY <1>3, <2>2, <2>3, <2>4 DEF WindowsKept, InCall
<1>10. QED
  BY <1>4, <1>5, <1>6, <1>7, <1>8, <1>9

\* A sink that fails has persisted the number; memory has not taken it.
LEMMA ReserveFailsStep == ASSUME IInv, ReserveFails PROVE IInv'
<1> USE DEF IInv
<1> DEFINE state == Reserved(memory)
<1>1. memory \in RestartState
  BY DEF TypeOK
<1>2. /\ state \in RestartState /\ state.next = memory.next + 1
      /\ state.accepted = memory.accepted /\ memory.next \in Nat
  BY <1>1, StateFields
<1> HIDE DEF state
<1>3. /\ stage = "idle" /\ durable' = state
      /\ UNCHANGED <<stage, current, memory, written, inbox, torn, returned>>
  BY DEF ReserveFails, state, streams
<1>4. TypeOK'
  BY <1>2, <1>3 DEF TypeOK
<1>5. RestartStatesValid' /\ RequestIdsUnique'
  BY <1>2, <1>3 DEF RestartStatesValid, ValidState, RequestIdsUnique
<1>6. SinkFirst'
  BY <1>1, <1>2, <1>3 DEF SinkFirst, InCall
<1>7. WrittenReserved' /\ ReturnedInOrder'
  BY <1>2, <1>3, Sequences DEF WrittenReserved, ReturnedInOrder, InCall
<1>8. WindowsKept'
  <2>1. Kept(memory, 0)
    BY <1>3 DEF WindowsKept
  <2>2. Kept(state, 0)
    <3>1. SUFFICES ASSUME NEW i \in DOMAIN returned,
                          state.next - returned[i].id.sequence <= Capacity
                   PROVE  \E j \in DOMAIN state.accepted :
                              /\ state.accepted[j] = returned[i].reply
                              /\ Len(state.accepted) - j + 0
                                     < state.next - returned[i].id.sequence
      BY DEF Kept
    <3>2. returned[i].id.sequence \in Nat /\ Capacity \in Nat
      BY Sequences, FramedAssumption
    <3>3. memory.next - returned[i].id.sequence <= Capacity
      BY <1>2, <3>1, <3>2
    <3>4. PICK j \in DOMAIN memory.accepted :
              /\ memory.accepted[j] = returned[i].reply
              /\ Len(memory.accepted) - j + 0 < memory.next - returned[i].id.sequence
      BY <2>1, <3>3 DEF Kept
    <3>5. j \in Nat /\ Len(memory.accepted) \in Nat
      BY <1>1, StateFields
    <3>6. Len(memory.accepted) - j + 0 < (memory.next + 1) - returned[i].id.sequence
      BY <1>2, <3>2, <3>4, <3>5
    <3>7. QED
      BY <1>2, <3>4, <3>6
  <2>3. (Kept(state, 0) => Kept(durable, 0)') /\ (Kept(memory, 0) => Kept(memory, 0)')
    BY <1>3 DEF Kept
  <2>4. QED
    BY <1>3, <2>1, <2>2, <2>3 DEF WindowsKept, InCall
<1>9. QED
  BY <1>4, <1>5, <1>6, <1>7, <1>8

\* The request is out whole, whether the call goes on or raises.
LEMMA WrittenStep ==
    ASSUME IInv, stage = "reserved", written' = Append(written, current),
           UNCHANGED <<memory, durable, inbox, torn, returned>>,
           \/ stage' = "written" /\ current' = current
           \/ stage' = "idle" /\ current' = Nothing
    PROVE  IInv'
<1> USE DEF IInv
<1>1. memory \in RestartState /\ durable \in RestartState /\ written \in Seq(Identity)
  BY DEF TypeOK
<1>2. current \in Identity /\ current.sequence \in Nat
  BY Sequences DEF InCall
<1>3. durable = memory /\ memory.next = current.sequence + 1
  BY DEF SinkFirst, InCall
<1> DEFINE n == Len(written)
<1>4. /\ n \in Nat /\ DOMAIN written = 1..n /\ DOMAIN written' = 1..(n + 1)
      /\ written' \in Seq(Identity)
      /\ \A i \in 1..n : written'[i] = written[i]
      /\ written'[n + 1] = current
  <2>1. n \in Nat /\ DOMAIN written = 1..n
    BY <1>1, LenProperties
  <2>2. /\ written' \in Seq(Identity) /\ Len(written') = n + 1
        /\ \A i \in 1..n : written'[i] = written[i]
        /\ written'[n + 1] = current
    BY <1>1, <1>2, AppendProperties
  <2>3. DOMAIN written' = 1..(n + 1)
    BY <2>2, LenProperties
  <2>4. QED
    BY <2>1, <2>2, <2>3
<1> HIDE DEF n
<1>5. TypeOK'
  BY <1>4 DEF TypeOK
<1>6. \A i \in 1..n : written[i].sequence < current.sequence
  BY <1>4 DEF WrittenReserved
<1>7. \A i \in 1..(n + 1) : i \in 1..n \/ i = n + 1
  BY <1>4
<1>8. \A i \in 1..n : written[i].sequence \in Nat
  BY <1>4, Sequences
<1>9. WrittenReserved'
  <2>1. \A i \in 1..(n + 1) : written'[i].sequence < memory.next
    BY <1>2, <1>3, <1>4, <1>6, <1>7, <1>8
  <2>2. QED
    BY <1>3, <1>4, <2>1 DEF WrittenReserved
<1>10. RequestIdsUnique'
  <2>1. SUFFICES ASSUME NEW i \in 1..(n + 1), NEW j \in 1..(n + 1), i < j
                 PROVE  written'[i].sequence < written'[j].sequence
    BY <1>4 DEF RequestIdsUnique
  <2>2. i \in 1..n
    BY <1>4, <2>1
  <2>3. CASE j \in 1..n
    BY <1>4, <2>1, <2>2, <2>3 DEF RequestIdsUnique
  <2>4. CASE j = n + 1
    BY <1>4, <1>6, <2>2, <2>4
  <2>5. QED
    BY <1>7, <2>3, <2>4
<1>11. RestartStatesValid'
  BY DEF RestartStatesValid
<1>12. SinkFirst'
  BY <1>1, <1>3, StateFields DEF SinkFirst, InCall
<1>13. ReturnedInOrder'
  BY DEF ReturnedInOrder, InCall
<1>14. WindowsKept'
  <2>1. Kept(memory, 0)
    BY <1>3 DEF WindowsKept
  <2>2. Kept(durable, 0)' /\ (Kept(memory, 0) => Kept(memory, 0)') /\ (Kept(memory, 1) => Kept(memory, 1)')
    BY DEF WindowsKept, Kept
  <2>3. QED
    BY <2>1, <2>2 DEF WindowsKept, InCall
<1>15. QED
  BY <1>5, <1>9, <1>10, <1>11, <1>12, <1>13, <1>14

\* The request of the call under way leaves under its reserved number.
LEMMA WriteStep == ASSUME IInv, Write PROVE IInv'
<1>1. /\ stage = "reserved" /\ stage' = "written" /\ current' = current
      /\ written' = Append(written, current)
      /\ UNCHANGED <<memory, durable, inbox, torn, returned>>
  BY DEF Write
<1>2. QED
  BY <1>1, WrittenStep

\* A failed write may have let the request out.
LEMMA WriteFailsStep == ASSUME IInv, WriteFails PROVE IInv'
<1>1. /\ stage = "reserved" /\ stage' = "idle" /\ current' = Nothing
      /\ UNCHANGED <<memory, durable, inbox, torn, returned>>
  BY DEF WriteFails, Raise
<1>2. CASE written' = written
  <2>1. TypeOK'
    BY <1>1, <1>2 DEF TypeOK, IInv
  <2>2. QED
    BY <1>1, <1>2, <2>1, CallEnds DEF InCall
<1>3. CASE written' = Append(written, current)
  BY <1>1, <1>3, WrittenStep
<1>4. QED
  BY <1>2, <1>3 DEF WriteFails

-----------------------------------------------------------------------------
(* Reading and accepting.                                                   *)

\* A frame leaves the stream whole.
LEMMA FrameRead ==
    ASSUME IInv, NEW r \in {inbox[i] : i \in DOMAIN inbox}, ReadsFrame(r), Raise
    PROVE  /\ r \in Reply
           /\ stage = "written" /\ stage' = "idle" /\ current' = Nothing
           /\ inbox' \in Seq(Reply) /\ torn' = FALSE
           /\ UNCHANGED written
  BY StreamStep DEF ReadsFrame, Raise, IInv, TypeOK

\* A reply without an identity, or one the window knows, ends the call.
LEMMA RefuseStep == ASSUME IInv, Refuse PROVE IInv'
<1>1. PICK r \in {inbox[i] : i \in DOMAIN inbox} :
          /\ ReadsFrame(r)
          /\ Raise
          /\ UNCHANGED <<memory, durable, returned>>
  BY DEF Refuse
<1>2. /\ stage = "written" /\ stage' = "idle" /\ current' = Nothing
      /\ inbox' \in Seq(Reply) /\ torn' = FALSE
      /\ UNCHANGED <<memory, durable, written, returned>>
  BY <1>1, FrameRead
<1>3. TypeOK'
  <2>1. TypeOK
    BY DEF IInv
  <2>2. torn' \in BOOLEAN /\ (torn' => inbox' # <<>>)
    BY <1>2
  <2>3. QED
    BY <1>2, <2>1, <2>2 DEF TypeOK
<1>4. QED
  BY <1>2, <1>3, CallEnds DEF InCall

\* A failed read may leave part of a frame behind.
LEMMA ReadFailsStep == ASSUME IInv, ReadFails PROVE IInv'
<1>1. /\ stage = "written" /\ stage' = "idle" /\ current' = Nothing
      /\ UNCHANGED <<memory, durable, written, returned>>
  BY DEF ReadFails, Raise
<1>2. TypeOK /\ inbox' \in Seq(Reply) /\ torn' \in BOOLEAN /\ (torn' => inbox' # <<>>)
  <2>1. TypeOK /\ inbox \in Seq(Reply) /\ torn \in BOOLEAN
    BY DEF IInv, TypeOK
  <2>2. ~torn
    BY DEF ReadFails
  <2>3. CASE UNCHANGED <<inbox, torn>>
    BY <2>1, <2>2, <2>3
  <2>4. CASE inbox # <<>> /\ torn' = TRUE /\ UNCHANGED inbox
    BY <2>1, <2>4
  <2>5. CASE inbox # <<>> /\ inbox' = Tail(inbox) /\ UNCHANGED torn
    BY <2>1, <2>2, <2>5, StreamStep
  <2>6. QED
    BY <2>3, <2>4, <2>5 DEF ReadFails
<1>3. TypeOK'
  BY <1>1, <1>2 DEF TypeOK
<1>4. QED
  BY <1>1, <1>3, CallEnds DEF InCall

\* What follows half a frame is no reply.
LEMMA ReadMisalignedStep == ASSUME IInv, ReadMisaligned PROVE IInv'
<1>1. /\ stage = "written" /\ stage' = "idle" /\ current' = Nothing
      /\ UNCHANGED <<memory, durable, written, returned>>
  BY DEF ReadMisaligned, Raise
<1>2. TypeOK /\ inbox # <<>>
  BY DEF ReadMisaligned, IInv, TypeOK
<1>3. inbox' \in Seq(Reply) /\ torn' \in BOOLEAN /\ (torn' => inbox' # <<>>)
  BY <1>2, StreamStep DEF ReadMisaligned, TypeOK
<1>4. TypeOK'
  BY <1>1, <1>2, <1>3 DEF TypeOK
<1>5. QED
  BY <1>1, <1>4, CallEnds DEF InCall

\* The worker answers what has been written, in any order.
LEMMA AnswerStep ==
    ASSUME IInv, NEW m \in ReplyIds \cup {Nothing}, NEW valid \in BOOLEAN, Answer(m, valid)
    PROVE  IInv'
<1>1. UNCHANGED <<stage, current, memory, durable, written, torn, returned>>
  BY DEF Answer
<1>2. PICK i \in DOMAIN written :
          inbox' = Append(inbox, [message |-> m, replyTo |-> written[i], valid |-> valid])
  BY DEF Answer
<1>3. TypeOK /\ written[i] \in Identity
  BY ElementOfSeq, LenProperties DEF IInv, TypeOK
<1>4. [message |-> m, replyTo |-> written[i], valid |-> valid] \in Reply
  BY <1>3 DEF Reply
<1>5. inbox' \in Seq(Reply) /\ inbox' # <<>>
  BY <1>2, <1>3, <1>4, StreamStep
<1>6. TypeOK'
  BY <1>1, <1>3, <1>5 DEF TypeOK
<1>7. QED
  BY <1>1, <1>6, CallEnds

\* The driver is lost; what was persisted stays.
LEMMA CrashStep == ASSUME IInv, Crash PROVE IInv'
<1>1. /\ stage' = "down" /\ current' = Nothing
      /\ UNCHANGED <<memory, durable, written, inbox, torn, returned>>
  BY DEF Crash, streams
<1>2. TypeOK'
  BY <1>1 DEF TypeOK, IInv
<1>3. QED
  BY <1>1, <1>2, CallEnds

\* Recording an identity uses up the distance the pending call had in hand.
LEMMA WindowShifts ==
    ASSUME TypeOK, NEW state \in RestartState, NEW r \in Identified,
           ValidState(state), ~Replayed(r, state.accepted), Kept(state, 1)
    PROVE  Kept(Accepted(state, r), 0)
<1> DEFINE result == Retained(state.accepted, r)
<1>1. /\ \A j \in DOMAIN state.accepted :
             Len(state.accepted) - j + 1 < Capacity =>
                 \E k \in DOMAIN result :
                     /\ result[k] = state.accepted[j]
                     /\ Len(result) - k = Len(state.accepted) - j + 1
      /\ Accepted(state, r).next = state.next
      /\ Accepted(state, r).accepted = result
  BY StateFields, RetainedProperties DEF ValidState
<1> HIDE DEF result
<1>2. SUFFICES ASSUME NEW i \in DOMAIN returned,
                      state.next - returned[i].id.sequence <= Capacity
               PROVE  \E k \in DOMAIN result :
                          /\ result[k] = returned[i].reply
                          /\ Len(result) - k + 0 < state.next - returned[i].id.sequence
  BY <1>1 DEF Kept
<1>3. PICK j \in DOMAIN state.accepted :
          /\ state.accepted[j] = returned[i].reply
          /\ Len(state.accepted) - j + 1 < state.next - returned[i].id.sequence
  BY <1>2 DEF Kept
<1>4. /\ state.next \in Nat /\ returned[i].id.sequence \in Nat /\ Capacity \in Nat
      /\ Len(state.accepted) \in Nat /\ j \in Nat
  BY StateFields, Sequences, FramedAssumption
<1>5. Len(state.accepted) - j + 1 < Capacity
  BY <1>2, <1>3, <1>4
<1>6. PICK k \in DOMAIN result :
          /\ result[k] = state.accepted[j]
          /\ Len(result) - k = Len(state.accepted) - j + 1
  BY <1>1, <1>5
<1>7. Len(result) - k + 0 < state.next - returned[i].id.sequence
  BY <1>3, <1>4, <1>6
<1>8. QED
  BY <1>3, <1>6, <1>7

\* A sink that fails may have recorded the reply; the call returns none.
LEMMA AcceptFailsStep == ASSUME IInv, AcceptFails PROVE IInv'
<1> USE DEF IInv
<1>1. PICK r \in {inbox[i] : i \in DOMAIN inbox} :
          /\ ReadsFrame(r)
          /\ Admissible(r)
          /\ durable' \in {durable, Accepted(memory, r)}
          /\ Raise
          /\ UNCHANGED <<memory, returned>>
  BY DEF AcceptFails
<1>2. /\ r \in Reply /\ stage = "written" /\ stage' = "idle" /\ current' = Nothing
      /\ inbox' \in Seq(Reply) /\ torn' = FALSE /\ UNCHANGED <<written, memory, returned>>
  BY <1>1, FrameRead
<1>3. r \in Identified /\ ~Replayed(r, memory.accepted)
  BY <1>1, <1>2 DEF Admissible, Identified
<1>4. /\ memory \in RestartState /\ durable = memory /\ ValidState(memory)
      /\ Kept(memory, 1)
  BY <1>2 DEF TypeOK, SinkFirst, RestartStatesValid, WindowsKept, InCall
<1>5. /\ durable' \in RestartState /\ durable'.next = memory.next /\ ValidState(durable')
  BY <1>1, <1>3, <1>4, AcceptedState, StateFields
<1>6. TypeOK'
  <2>1. torn' \in BOOLEAN /\ (torn' => inbox' # <<>>)
    BY <1>2
  <2>2. QED
    BY <1>2, <1>5, <2>1 DEF TypeOK
<1>7. RestartStatesValid' /\ RequestIdsUnique'
  BY <1>2, <1>4, <1>5 DEF RestartStatesValid, ValidState, RequestIdsUnique
<1>8. SinkFirst'
  BY <1>2, <1>4, <1>5, StateFields DEF SinkFirst, InCall
<1>9. WrittenReserved' /\ ReturnedInOrder'
  BY <1>2, <1>4, <1>5 DEF WrittenReserved, ReturnedInOrder, InCall
<1>10. WindowsKept'
  <2>1. Kept(memory, 0)
    BY <1>4, PendingSettled, Sequences
  <2>2. Kept(durable', 0)
    BY <1>1, <1>3, <1>4, <2>1, WindowShifts
  <2>3. (Kept(durable', 0) => Kept(durable, 0)') /\ (Kept(memory, 0) => Kept(memory, 0)')
    BY <1>2 DEF Kept
  <2>4. QED
    BY <1>2, <2>1, <2>2, <2>3 DEF WindowsKept, InCall
<1>11. QED
  BY <1>6, <1>7, <1>8, <1>9, <1>10

\* A reply to the call under way is recorded, then returned.
LEMMA AcceptStep == ASSUME IInv, Accept PROVE IInv'
<1> USE DEF IInv
<1>1. PICK r \in {inbox[i] : i \in DOMAIN inbox} :
          /\ ReadsFrame(r)
          /\ Admissible(r)
          /\ durable' = Accepted(memory, r)
          /\ memory' = Accepted(memory, r)
          /\ returned' = IF Answers(r)
                         THEN Append(returned, [id |-> current, reply |-> r])
                         ELSE returned
          /\ Raise
  BY DEF Accept
<1> DEFINE state == Accepted(memory, r)
<1>2. /\ r \in Reply /\ stage = "written" /\ stage' = "idle" /\ current' = Nothing
      /\ inbox' \in Seq(Reply) /\ torn' = FALSE /\ UNCHANGED written
  BY <1>1, FrameRead
<1>3. r \in Identified /\ ~Replayed(r, memory.accepted)
  BY <1>1, <1>2 DEF Admissible, Identified
<1>4. /\ memory \in RestartState /\ durable = memory /\ ValidState(memory)
      /\ Kept(memory, 1) /\ memory.next = current.sequence + 1
      /\ current \in Identity /\ current.sequence \in Nat
  BY <1>2, Sequences DEF TypeOK, SinkFirst, RestartStatesValid, WindowsKept, InCall
<1>5. /\ state \in RestartState /\ state.next = memory.next /\ ValidState(state)
      /\ state.accepted = Retained(memory.accepted, r)
  BY <1>3, <1>4, AcceptedState, StateFields
<1>6. /\ Len(state.accepted) \in DOMAIN state.accepted
      /\ state.accepted[Len(state.accepted)] = r
  <2> DEFINE result == Retained(memory.accepted, r)
  <2>1. memory.accepted \in Seq(Identified)
    BY <1>4, StateFields
  <2>2. Len(result) \in DOMAIN result /\ result[Len(result)] = r
    BY <1>3, <1>4, <2>1, RetainedProperties DEF ValidState
  <2> HIDE DEF result
  <2>3. state.accepted = result
    BY <1>5 DEF result
  <2>4. QED
    BY <2>2, <2>3
<1>7. Kept(state, 0)
  BY <1>3, <1>4, WindowShifts
<1>8. memory' = state /\ durable' = state
  BY <1>1
<1> HIDE DEF state
<1> DEFINE entry == [id |-> current, reply |-> r]
           n == Len(returned)
<1>9. /\ returned \in Seq([id : Identity, reply : Identified])
      /\ entry \in [id : Identity, reply : Identified]
      /\ n \in Nat /\ DOMAIN returned = 1..n
  BY <1>3, <1>4, LenProperties DEF TypeOK
<1>10. CASE returned' = returned
  <2>1. TypeOK'
    <3>1. torn' \in BOOLEAN /\ (torn' => inbox' # <<>>)
      BY <1>2
    <3>2. QED
      BY <1>2, <1>5, <1>8, <1>10, <3>1 DEF TypeOK
  <2>2. RestartStatesValid' /\ RequestIdsUnique'
    BY <1>2, <1>5, <1>8 DEF RestartStatesValid, RequestIdsUnique, ValidState
  <2>3. SinkFirst'
    BY <1>2, <1>5, <1>8, StateFields DEF SinkFirst, InCall
  <2>4. WrittenReserved' /\ ReturnedInOrder'
    BY <1>2, <1>4, <1>5, <1>8, <1>10 DEF WrittenReserved, ReturnedInOrder, InCall
  <2>5. WindowsKept'
    <3>1. Kept(state, 0) => Kept(memory, 0)' /\ Kept(durable, 0)'
      BY <1>8, <1>10 DEF Kept
    <3>2. QED
      BY <1>2, <1>7, <3>1 DEF WindowsKept, InCall
  <2>6. QED
    BY <2>1, <2>2, <2>3, <2>4, <2>5
<1>11. CASE Answers(r) /\ returned' = Append(returned, entry)
  <2>1. /\ returned' \in Seq([id : Identity, reply : Identified])
        /\ Len(returned') = n + 1
        /\ \A i \in 1..n : returned'[i] = returned[i]
        /\ returned'[n + 1] = entry
    <3> HIDE DEF entry
    <3>1. QED
      BY <1>9, <1>11, AppendProperties
  <2>2. DOMAIN returned' = 1..(n + 1)
    BY <2>1, LenProperties
  <2>3. entry.id = current /\ entry.reply = r /\ r.replyTo = current
    BY <1>11 DEF Answers
  <2> HIDE DEF entry, n
  <2>4. \A i \in 1..(n + 1) : i \in 1..n \/ i = n + 1
    BY <1>9
  <2>5. \A i \in 1..n : /\ returned[i].id.sequence \in Nat
                        /\ returned[i].id.sequence < current.sequence
                        /\ returned[i].reply.replyTo = returned[i].id
    BY <1>2, <1>9, Sequences DEF ReturnedInOrder, InCall
  <2>6. TypeOK'
    <3>1. torn' \in BOOLEAN /\ (torn' => inbox' # <<>>)
      BY <1>2
    <3>2. QED
      BY <1>2, <1>5, <1>8, <2>1, <3>1 DEF TypeOK
  <2>7. RestartStatesValid' /\ RequestIdsUnique'
    BY <1>2, <1>5, <1>8 DEF RestartStatesValid, RequestIdsUnique, ValidState
  <2>8. SinkFirst'
    BY <1>2, <1>5, <1>8, StateFields DEF SinkFirst, InCall
  <2>9. WrittenReserved'
    BY <1>2, <1>4, <1>5, <1>8 DEF WrittenReserved
  <2>10. ReturnedInOrder'
    <3>1. \A i \in 1..(n + 1) : /\ returned'[i].reply.replyTo = returned'[i].id
                                /\ returned'[i].id.sequence < state.next
      BY <1>4, <1>5, <2>1, <2>3, <2>4, <2>5
    <3>2. ASSUME NEW i \in 1..(n + 1), NEW j \in 1..(n + 1), i < j
          PROVE  returned'[i].id.sequence < returned'[j].id.sequence
      <4>1. i \in 1..n
        BY <1>9, <3>2
      <4>2. CASE j \in 1..n
        BY <1>9, <2>1, <3>2, <4>1, <4>2 DEF ReturnedInOrder
      <4>3. CASE j = n + 1
        BY <2>1, <2>3, <2>5, <4>1, <4>3
      <4>4. QED
        BY <2>4, <4>2, <4>3
    <3>3. QED
      BY <1>2, <1>8, <2>2, <3>1, <3>2 DEF ReturnedInOrder, InCall
  <2>11. WindowsKept'
    <3>1. ASSUME NEW i \in 1..(n + 1),
                 state.next - returned'[i].id.sequence <= Capacity
          PROVE  \E j \in DOMAIN state.accepted :
                     /\ state.accepted[j] = returned'[i].reply
                     /\ Len(state.accepted) - j + 0 < state.next - returned'[i].id.sequence
      <4>1. CASE i \in 1..n
        BY <1>7, <1>9, <2>1, <3>1, <4>1 DEF Kept
      <4>2. CASE i = n + 1
        <5>1. state.next - returned'[i].id.sequence = 1
          BY <1>4, <1>5, <2>1, <2>3, <4>2
        <5>2. Len(state.accepted) \in Nat
          BY <1>5, StateFields
        <5>3. Len(state.accepted) - Len(state.accepted) + 0 = 0
          BY <5>2
        <5>4. returned'[i].reply = r
          BY <2>1, <2>3, <4>2
        <5>5. QED
          BY <1>6, <5>1, <5>3, <5>4
      <4>3. QED
        BY <2>4, <4>1, <4>2
    <3>2. Kept(memory, 0)' /\ Kept(durable, 0)'
      BY <1>8, <2>2, <3>1 DEF Kept
    <3>3. QED
      BY <1>2, <3>2 DEF WindowsKept, InCall
  <2>12. QED
    BY <2>6, <2>7, <2>8, <2>9, <2>10, <2>11
<1>12. QED
  BY <1>1, <1>10, <1>11

\* A new driver goes on from what was persisted.
LEMMA ReconstructStep == ASSUME IInv, Reconstruct PROVE IInv'
<1> USE DEF IInv
<1>1. /\ stage = "down" /\ stage' = "idle" /\ memory' = durable
      /\ UNCHANGED <<current, durable, written, returned>>
  BY DEF Reconstruct
<1>2. inbox' \in Seq(Reply) /\ torn' \in BOOLEAN /\ (torn' => inbox' # <<>>)
  <2>1. <<>> \in Seq(Reply)
    BY EmptySeq
  <2>2. CASE UNCHANGED <<inbox, torn>>
    BY <2>2 DEF TypeOK
  <2>3. CASE inbox' = <<>> /\ torn' = FALSE
    BY <2>1, <2>3
  <2>4. QED
    BY <2>2, <2>3 DEF Reconstruct
<1>3. TypeOK'
  BY <1>1, <1>2 DEF TypeOK
<1>4. RestartStatesValid' /\ RequestIdsUnique'
  BY <1>1 DEF RestartStatesValid, ValidState, RequestIdsUnique
<1>5. SinkFirst'
  BY <1>1, StateFields DEF SinkFirst, InCall, TypeOK
<1>6. WrittenReserved' /\ ReturnedInOrder'
  BY <1>1 DEF WrittenReserved, ReturnedInOrder, InCall
<1>7. WindowsKept'
  <2>1. Kept(durable, 0) => Kept(durable, 0)' /\ Kept(memory, 0)'
    BY <1>1 DEF Kept
  <2>2. QED
    BY <1>1, <2>1 DEF WindowsKept, InCall
<1>8. QED
  BY <1>3, <1>4, <1>5, <1>6, <1>7

-----------------------------------------------------------------------------
(* The theorems.                                                            *)

\* Nothing is written or returned at first.
LEMMA InitIInv == Init => IInv
<1> SUFFICES ASSUME Init PROVE IInv
  OBVIOUS
<1>1. /\ \A S : <<>> \in Seq(S)
      /\ Len(<<>>) = 0
      /\ DOMAIN <<>> = {}
  BY EmptySeq
<1>2. InitialState \in RestartState /\ InitialState.next = 0 /\ InitialState.accepted = <<>>
  BY <1>1 DEF InitialState, RestartState
<1>3. TypeOK
  <2>1. torn \in BOOLEAN /\ (torn => inbox # <<>>)
    BY DEF Init
  <2>2. current \in Identity \cup {Nothing} /\ stage = "idle" /\ current = Nothing
    BY DEF Init
  <2>3. /\ memory \in RestartState /\ durable \in RestartState
        /\ written \in Seq(Identity) /\ inbox \in Seq(Reply)
        /\ returned \in Seq([id : Identity, reply : Identified])
    BY <1>1, <1>2 DEF Init
  <2>4. QED
    BY <2>1, <2>2, <2>3 DEF TypeOK
<1>4. RestartStatesValid
  BY <1>1, <1>2, FramedAssumption DEF Init, RestartStatesValid, ValidState
<1>5. SinkFirst /\ WrittenReserved /\ RequestIdsUnique /\ ReturnedInOrder /\ WindowsKept
  BY <1>1, <1>2 DEF Init, SinkFirst, InCall, WrittenReserved, RequestIdsUnique,
                    ReturnedInOrder, WindowsKept, Kept
<1>6. QED
  BY <1>3, <1>4, <1>5 DEF IInv

\* Every step of the driver, its streams and its sink keeps the invariant.
LEMMA NextIInv == IInv /\ [Next]_vars => IInv'
<1> SUFFICES ASSUME IInv, [Next]_vars PROVE IInv'
  OBVIOUS
<1>1. CASE UNCHANGED vars
  <2>1. TypeOK'
    BY <1>1 DEF vars, TypeOK, IInv
  <2>2. QED
    BY <1>1, <2>1, CallEnds DEF vars
<1>2. ASSUME NEW q \in Requests, Reserve(q) PROVE IInv'
  BY <1>2, ReserveStep
<1>3. CASE ReserveFails
  BY <1>3, ReserveFailsStep
<1>4. CASE Write
  BY <1>4, WriteStep
<1>5. CASE WriteFails
  BY <1>5, WriteFailsStep
<1>6. CASE Refuse
  BY <1>6, RefuseStep
<1>7. CASE Accept
  BY <1>7, AcceptStep
<1>8. CASE AcceptFails
  BY <1>8, AcceptFailsStep
<1>9. CASE ReadFails
  BY <1>9, ReadFailsStep
<1>10. CASE ReadMisaligned
  BY <1>10, ReadMisalignedStep
<1>11. ASSUME NEW m \in ReplyIds \cup {Nothing}, NEW valid \in BOOLEAN, Answer(m, valid)
       PROVE  IInv'
  BY <1>11, AnswerStep
<1>12. CASE Crash
  BY <1>12, CrashStep
<1>13. CASE Reconstruct
  BY <1>13, ReconstructStep
<1>14. QED
  BY <1>1, <1>2, <1>3, <1>4, <1>5, <1>6, <1>7, <1>8, <1>9, <1>10, <1>11, <1>12, <1>13
     DEF Next

\* In every reachable state the persisted state is ahead of what has been
\* written and returned, and the window has kept pace with the calls.
THEOREM FramedInvariant == Spec => []IInv
  BY InitIInv, NextIInv, PTL DEF Spec

\* Type correctness of the driver, its streams and its restart states.
THEOREM FramedTypeCorrect == Spec => []TypeOK
<1>1. IInv => TypeOK
  BY DEF IInv
<1>2. QED
  BY <1>1, FramedInvariant, PTL

\* A new driver can always be constructed from what was persisted: no
\* unvalidated successor of a restart state breaks what its validator asks.
THEOREM RestartStatesValidHolds == Spec => []RestartStatesValid
<1>1. IInv => RestartStatesValid
  BY DEF IInv
<1>2. QED
  BY <1>1, FramedInvariant, PTL

\* Two requests never leave under one identity, however often the driver is lost.
THEOREM RequestIdsUniqueHolds == Spec => []RequestIdsUnique
<1>1. IInv => RequestIdsUnique
  BY DEF IInv
<1>2. QED
  BY <1>1, FramedInvariant, PTL

\* propose answers with replies to its own request, each at most once, also
\* beyond the replay window: a repeated reply would answer two reservations.
THEOREM AnswersAreFreshHolds == Spec => []AnswersAreFresh
<1>1. ASSUME IInv PROVE AnswersAreFresh
  <2>1. \A i \in DOMAIN returned : returned[i].reply.replyTo = returned[i].id
    BY <1>1 DEF IInv, ReturnedInOrder
  <2>2. ASSUME NEW i \in DOMAIN returned, NEW j \in DOMAIN returned, i < j
        PROVE  returned[i].reply # returned[j].reply
    <3>1. returned[i].id.sequence < returned[j].id.sequence
      BY <1>1, <2>2 DEF IInv, ReturnedInOrder
    <3>2. returned[i].id.sequence \in Nat
      BY <1>1, Sequences DEF IInv
    <3>3. returned[i].id # returned[j].id
      BY <3>1, <3>2
    <3>4. QED
      BY <2>1, <3>3
  <2>3. DOMAIN returned \subseteq Nat
    BY <1>1, LenProperties DEF IInv, TypeOK
  <2>4. ASSUME NEW i \in DOMAIN returned, NEW j \in DOMAIN returned, i # j
        PROVE  returned[i].reply # returned[j].reply
    <3>1. i < j \/ j < i
      BY <2>3, <2>4
    <3>2. QED
      BY <2>2, <3>1
  <2>5. QED
    BY <2>1, <2>4 DEF AnswersAreFresh
<1>2. IInv => AnswersAreFresh
  BY <1>1
<1>3. QED
  BY <1>2, FramedInvariant, PTL

\* The persisted window holds every reply returned within the last Capacity
\* sequence numbers.
THEOREM AnswersRememberedHolds == Spec => []AnswersRemembered
<1>1. IInv => AnswersRemembered
  BY DEF IInv, WindowsKept, Kept, AnswersRemembered
<1>2. QED
  BY <1>1, FramedInvariant, PTL
=============================================================================
