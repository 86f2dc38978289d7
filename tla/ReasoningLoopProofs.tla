-------------------------- MODULE ReasoningLoopProofs --------------------------
(***************************************************************************)
(* Proofs about ReasoningLoop, for any sessions, grants, boundaries and    *)
(* number of restarts: what the coordinator sends was decided durably      *)
(* before, what a session records as assessed has happened, and what ended *)
(* unknown is not assessed.                                                *)
(*                                                                         *)
(* The session's invariant carries over: the loop's steps are the          *)
(* session's, or leave it alone, or kill it.  What is added says how the   *)
(* coordinator's permits and results relate to the ledger, which outlives  *)
(* both, and holds of the registry of the process alive now.               *)
(***************************************************************************)
EXTENDS ReasoningLoop, SessionProofs

\* Some decision in the ledger selected this proposal under this control.
Decided(target, token) ==
    \E k \in 1..Len(log) :
        log[k].kind = "decision" /\ log[k].body.selected = target /\ log[k].body.control = token

\* Permits are for what the session has decided, one to a serial token, and
\* live only in the process that issued them.
PermitInv ==
    /\ issued \subseteq X!Permit /\ used \subseteq issued /\ running \subseteq used
    /\ \A p \in issued : p.token \in serialTokens /\ Decided(p.target, p.token)
    /\ \A p, q \in issued : p.token = q.token => p = q

\* A call is answered once, not before it returns, and as completed only after
\* its effect.
AnswerInv ==
    /\ results \subseteq [permit : used, disposition : X!Dispositions]
    /\ \A r, s \in results : r.permit = s.permit => r = s
    /\ \A r \in results : r.permit \notin running
    /\ \A r \in results : r.disposition = "COMPLETED" => \E c \in effects : c.permit = r.permit

LoopInv ==
    /\ SessionInv
    /\ PermitInv
    /\ AnswerInv
    /\ EffectsAreDecided
    /\ AssessedActionHappened

-----------------------------------------------------------------------------
\* What the loop appends.

\* An append adds one receipt at the end and keeps every earlier one where it was.
LEMMA AppendGrows ==
    ASSUME log \in Seq(Receipts), NEW e, log' = Append(log, e)
    PROVE  /\ Len(log) \in Nat /\ Len(log') = Len(log) + 1 /\ log'[Len(log) + 1] = e
           /\ \A i \in 1..Len(log) : log'[i] = log[i]
<1> DEFINE S == Receipts \cup {e}
<1>1. log \in Seq(S) /\ e \in S
  OBVIOUS
<1> HIDE DEF S
<1>2. QED
  BY <1>1, AppendProperties

\* A recording call appends the receipt it was given, or nothing.
LEMMA RecordsLog ==
    ASSUME NEW h, NEW e, NEW after, NEW met, Returns(h, e, after) \/ Raises(h, e, met)
    PROVE  log' = log \/ log' = Append(log, e)
BY DEF Returns, Raises, Appended, Known

\* A receipt has the kind and the body it was made with.
LEMMA ReceiptKind == ASSUME NEW m, NEW kind, NEW body
                     PROVE  /\ Receipt(m, kind, body).kind = kind
                            /\ Receipt(m, kind, body).body = body
BY DEF Receipt

\* The step appends no assessment.
NoneAssessed == log' = log \/ \E e : log' = Append(log, e) /\ e.kind # "assessment"

\* A call that returns or raises another kind of receipt appends no assessment.
LEMMA OtherReceipt ==
    ASSUME NEW h, NEW kind, NEW body, NEW after, NEW met, kind # "assessment",
           \/ Returns(h, Receipt(memory[h], kind, body), after)
           \/ Raises(h, Receipt(memory[h], kind, body), met)
    PROVE  NoneAssessed
<1> DEFINE e == Receipt(memory[h], kind, body)
<1>1. e.kind = kind
  BY ReceiptKind
<1>2. Returns(h, e, after) \/ Raises(h, e, met)
  OBVIOUS
<1> HIDE DEF e
<1>3. log' = log \/ log' = Append(log, e)
  BY <1>2, RecordsLog
<1>4. QED
  BY <1>1, <1>3 DEF NoneAssessed

\* No session call but assess appends an assessment.
LEMMA CallLog ==
    ASSUME NEW h \in Handles, SessionCall(h)
    PROVE  NoneAssessed
<1>1. CASE New(h) \/ Crash(h) \/ \E k \in 1..Len(log) : Restore(h, k)
  BY <1>1 DEF New, Crash, Restore, NoneAssessed
<1>2. ASSUME NEW r \in Requests, Scan(h, r) PROVE NoneAssessed
  BY <1>2, OtherReceipt DEF Scan, Records
<1>3. ASSUME NEW c \in Controls, DecideNothing(h, c) PROVE NoneAssessed
  BY <1>3, OtherReceipt DEF DecideNothing, Records
<1>4. ASSUME NEW c \in Controls, NEW a \in Actions, Decide(h, c, a) PROVE NoneAssessed
  BY <1>4, OtherReceipt DEF Decide, Records
<1>5. CASE Checkpoint(h)
  BY <1>5, OtherReceipt DEF Checkpoint, Records
<1>6. CASE Close(h)
  BY <1>6, OtherReceipt DEF Close
<1>7. QED
  BY <1>1, <1>2, <1>3, <1>4, <1>5, <1>6 DEF SessionCall

\* A decision once in the ledger stays there.
LEMMA DecidedStays ==
    ASSUME log \in Seq(Receipts), log' = log \/ \E e : log' = Append(log, e),
           NEW target, NEW token, Decided(target, token)
    PROVE  Decided(target, token)'
<1>1. Len(log) \in Nat /\ Len(log) <= Len(log') /\ \A i \in 1..Len(log) : log'[i] = log[i]
  BY AppendGrows
<1>2. QED
  BY <1>1 DEF Decided

\* What a session awaits the assessment of, the ledger holds the decision of.
LEMMA PendingDecided ==
    ASSUME SessionInv, NEW h \in Handles, Callable(h), memory[h].phase = "AWAITING_ASSESSMENT"
    PROVE  /\ memory[h].pending \in Proposals /\ Last(memory[h].decisions).control \in Controls
           /\ Decided(memory[h].pending, Last(memory[h].decisions).control)
<1> DEFINE m == memory[h]
           entries == EntriesOf(m)
           d == Last(m.decisions)
<1>1. /\ m \in Memories /\ entries \in Seq(Receipts) /\ Len(entries) = Len(m.refs)
      /\ m.refs \in Seq(1..Len(log)) /\ Holds(m, entries) /\ Coheres(m)
  BY TypeFacts, SessionFacts DEF Callable, SessionInv
<1>2. /\ m.pending # Nothing /\ m.decisions # <<>> /\ d.selected = m.pending
  BY <1>1 DEF Coheres, StateCoheres
<1>3. m.decisions \in Seq(Decisions) /\ m.pending \in Proposals
  BY <1>1, <1>2 DEF Memories
<1>4. m.decisions = Bodies(entries, "decision")
  BY <1>1 DEF Holds, Replay
<1> DEFINE E == {log[k] : k \in 1..Len(log)}
           V == {e.body : e \in {k \in E : k.kind = "decision"}}
<1>5. entries \in Seq(E)
  <2>1. \A i \in 1..Len(entries) : entries[i] \in E
    BY <1>1 DEF EntriesOf
  <2>2. entries \in Seq(Receipts)
    BY <1>1
  <2> HIDE DEF entries, E
  <2>3. QED
    BY <2>1, <2>2
<1>6. \A e \in E : e.kind = "decision" => e.body \in V
  OBVIOUS
<1>7. m.decisions \in Seq(V)
  <2> HIDE DEF E, V, entries, m
  <2>1. QED
    BY <1>4, <1>5, <1>6, BodiesType
<1>8. d \in Decisions /\ d \in V
  <2> HIDE DEF V, m
  <2>1. Len(m.decisions) \in 1..Len(m.decisions)
    BY <1>2, <1>3, EmptySeq
  <2>2. QED
    BY <1>3, <1>7, <2>1 DEF Last
<1>9. PICK k \in 1..Len(log) : log[k].kind = "decision" /\ d = log[k].body
  BY <1>8
<1>10. d.control \in Controls
  BY <1>8 DEF Decisions
<1>11. QED
  BY <1>2, <1>3, <1>9, <1>10 DEF Decided

-----------------------------------------------------------------------------
\* One lemma per kind of step.

\* The log is a sequence of receipts.
LEMMA LogFacts ==
    ASSUME SessionInv
    PROVE  log \in Seq(Receipts) /\ Len(log) \in Nat
BY TypeFacts DEF SessionInv

\* A session call beside the coordinator.
LEMMA CallStep ==
    ASSUME LoopInv, NEW h \in Handles, SessionCall(h)
    PROVE  LoopInv'
<1>1. SessionInv'
  <2>1. Next
    BY DEF SessionCall, Next
  <2>2. QED
    BY <2>1, NextInv DEF LoopInv
<1>2. UNCHANGED <<issued, used, running, serialTokens, results, effects, sent>>
  BY DEF SessionCall, executionVars
<1>3. NoneAssessed /\ log \in Seq(Receipts)
  BY CallLog, LogFacts DEF LoopInv
<1>4. \A target, token : Decided(target, token) => Decided(target, token)'
  BY <1>3, DecidedStays DEF NoneAssessed
<1>5. PermitInv'
  BY <1>2, <1>4 DEF LoopInv, PermitInv
<1>6. AnswerInv'
  BY <1>2 DEF LoopInv, AnswerInv
<1>7. EffectsAreDecided'
  <2>1. \A c \in sent : Decided(c.permit.target, c.permit.token)
    BY DEF LoopInv, EffectsAreDecided, Decided
  <2>2. \A c \in sent' : Decided(c.permit.target, c.permit.token)'
    BY <1>2, <1>4, <2>1
  <2>3. QED
    BY <2>2 DEF EffectsAreDecided, Decided
<1>8. AssessedActionHappened'
  <2>1. CASE log' = log
    BY <1>2, <2>1 DEF LoopInv, AssessedActionHappened
  <2>2. ASSUME NEW e, log' = Append(log, e), e.kind # "assessment"
        PROVE  AssessedActionHappened'
    <3>1. /\ Len(log) \in Nat /\ Len(log') = Len(log) + 1 /\ log'[Len(log) + 1] = e
          /\ \A i \in 1..Len(log) : log'[i] = log[i]
      BY <1>3, <2>2, AppendGrows
    <3>2. QED
      BY <1>2, <2>2, <3>1 DEF LoopInv, AssessedActionHappened
  <2>3. QED
    BY <1>3, <2>1, <2>2 DEF NoneAssessed
<1>9. QED
  BY <1>1, <1>5, <1>6, <1>7, <1>8 DEF LoopInv

\* The receipt that assess appends is of the result it was handed.
LEMMA AssessLog ==
    ASSUME NEW h \in Handles, NEW r, NEW authority, AssessResult(h, r, authority)
    PROVE  /\ r.disposition = "COMPLETED"
           /\ \/ log' = log
              \/ \E e : /\ log' = Append(log, e)
                        /\ e.body.evidence = Handed(r)
                        /\ e.body.proposal = r.permit.target
<1>1. Assess(h, Handed(r), authority) /\ ExactEvidence(memory[h], Handed(r))
  BY DEF AssessResult, Assess
<1>2. r.disposition = "COMPLETED" /\ memory[h].pending = r.permit.target
  BY <1>1 DEF ExactEvidence, Handed
<1> DEFINE phase == IF authority \in Final THEN "TERMINAL" ELSE "NEEDS_SCAN"
           body == [proposal |-> memory[h].pending, evidence |-> Handed(r),
                    authority |-> authority, after |-> phase]
           e == Receipt(memory[h], "assessment", body)
<1>3. log' = log \/ log' = Append(log, e)
  <2> DEFINE after == [memory[h] EXCEPT
                          !.pending = Nothing, !.request = Nothing, !.phase = phase,
                          !.terminal = IF authority \in Final THEN authority ELSE @,
                          !.failed = IF authority = "FAILURE" THEN Signature(memory[h].pending)
                                     ELSE @,
                          !.assessments = Append(@, body)]
  <2>1. Returns(h, e, after) \/ Raises(h, e, memory[h].phase)
    BY <1>1 DEF Assess
  <2> HIDE DEF e, after
  <2>2. QED
    BY <2>1, RecordsLog
<1>4. e.body = body
  BY ReceiptKind
<1>5. body.evidence = Handed(r) /\ body.proposal = r.permit.target
  BY <1>2
<1> HIDE DEF e, body
<1>6. QED
  BY <1>2, <1>3, <1>4, <1>5

\* The assessment joins the result of the execution to the receipt that is in the ledger.
LEMMA AssessResultStep ==
    ASSUME LoopInv, NEW h \in Handles, NEW r \in results, NEW authority \in Authorities,
           AssessResult(h, r, authority)
    PROVE  LoopInv'
<1>1. /\ r.permit \in X!Permit /\ r.disposition \in X!Dispositions
  BY DEF LoopInv, AnswerInv, PermitInv
<1>2. Handed(r) \in Executions
  BY <1>1 DEF Handed, Executions, X!Permit, X!Dispositions
<1>3. SessionInv'
  BY <1>2, AssessStep DEF LoopInv, AssessResult
<1>4. UNCHANGED <<issued, used, running, serialTokens, results, effects, sent>>
  BY DEF AssessResult, executionVars
<1>5. log \in Seq(Receipts)
  BY LogFacts DEF LoopInv
<1>6. \A target, token : Decided(target, token) => Decided(target, token)'
  BY <1>5, AssessLog, DecidedStays
<1>7. PermitInv'
  BY <1>4, <1>6 DEF LoopInv, PermitInv
<1>8. AnswerInv'
  BY <1>4 DEF LoopInv, AnswerInv
<1>9. EffectsAreDecided'
  <2>1. \A c \in sent : Decided(c.permit.target, c.permit.token)
    BY DEF LoopInv, EffectsAreDecided, Decided
  <2>2. \A c \in sent' : Decided(c.permit.target, c.permit.token)'
    BY <1>4, <1>6, <2>1
  <2>3. QED
    BY <2>2 DEF EffectsAreDecided, Decided
<1>10. AssessedActionHappened'
  <2>1. CASE log' = log
    BY <1>4, <2>1 DEF LoopInv, AssessedActionHappened
  <2>2. ASSUME NEW e, log' = Append(log, e),
               e.body.evidence = Handed(r), e.body.proposal = r.permit.target
        PROVE  AssessedActionHappened'
    <3>1. /\ Len(log) \in Nat /\ Len(log') = Len(log) + 1 /\ log'[Len(log) + 1] = e
          /\ \A i \in 1..Len(log) : log'[i] = log[i]
      BY <1>5, <2>2, AppendGrows
    <3>2. PICK c \in effects : c.permit = r.permit
      BY AssessLog DEF LoopInv, AnswerInv
    <3>3. /\ c.permit.target = e.body.proposal
          /\ c.permit.token = e.body.evidence.control
          /\ c.permit.invocation = e.body.evidence.evidence
      BY <2>2, <3>2 DEF Handed
    <3>4. QED
      BY <1>4, <3>1, <3>3 DEF LoopInv, AssessedActionHappened
  <2>3. QED
    BY <2>1, <2>2, AssessLog
<1>11. QED
  BY <1>3, <1>7, <1>8, <1>9, <1>10 DEF LoopInv

\* A step that leaves the ledger alone, and neither forgets an effect nor sends
\* what was not permitted, keeps the durable part.
LEMMA DurableKept ==
    ASSUME LoopInv, log' = log, effects \subseteq effects',
           \A c \in sent' : c \in sent \/ c.permit \in issued
    PROVE  /\ \A target, token : Decided(target, token) <=> Decided(target, token)'
           /\ EffectsAreDecided' /\ AssessedActionHappened'
<1>1. \A target, token : Decided(target, token) <=> Decided(target, token)'
  BY DEF Decided
<1>2. \A c \in sent' : Decided(c.permit.target, c.permit.token)
  BY DEF LoopInv, PermitInv, EffectsAreDecided, Decided
<1>3. EffectsAreDecided'
  BY <1>2 DEF EffectsAreDecided, Decided
<1>4. AssessedActionHappened'
  BY DEF LoopInv, AssessedActionHappened
<1>5. QED
  BY <1>1, <1>3, <1>4

\* A permit for the pending action, or none.
LEMMA AdmitStep ==
    ASSUME LoopInv, NEW h \in Handles, NEW g \in Grants, NEW i \in Evidence,
           NEW b \in Boundaries, Admit(h, g, i, b)
    PROVE  LoopInv'
<1> DEFINE target == memory[h].pending
           token == Last(memory[h].decisions).control
<1>1. UNCHANGED vars /\ X!Begin(g, i, token, target, b)
      /\ Callable(h) /\ memory[h].phase = "AWAITING_ASSESSMENT"
  BY DEF Admit
<1>2. target \in Proposals /\ token \in Controls /\ Decided(target, token)
  BY <1>1, PendingDecided DEF LoopInv
<1> HIDE DEF target, token
<1>3. SessionInv'
  BY <1>1, NextInv DEF LoopInv
<1>4. UNCHANGED <<log, used, running, results, effects, sent>>
  BY <1>1 DEF vars, X!Begin, X!BeginPermit, X!BeginPermitUnbound, X!BeginPermitLapsed, X!Reserve,
                  X!callVars
<1>5. /\ \A t, k : Decided(t, k) <=> Decided(t, k)'
      /\ EffectsAreDecided' /\ AssessedActionHappened'
  BY <1>4, DurableKept
<1>6. AnswerInv'
  BY <1>4 DEF LoopInv, AnswerInv
<1>7. PermitInv'
  <2>1. CASE X!BeginPermitLapsed(g, b)
    <3>1. UNCHANGED <<issued, serialTokens>>
      BY <2>1 DEF X!BeginPermitLapsed
    <3>2. QED
      BY <1>4, <1>5, <3>1 DEF LoopInv, PermitInv
  <2>2. CASE X!BeginPermit(g, i, token, target, b)
    <3> DEFINE p == [grant |-> g, invocation |-> i, token |-> token, target |-> target,
                     boundary |-> b]
    <3>1. /\ issued' = issued \cup {p} /\ serialTokens' = serialTokens \cup {token}
          /\ token \notin serialTokens
      BY <2>2 DEF X!BeginPermit, X!Reserve
    <3>2. p \in X!Permit /\ p.token = token /\ p.target = target
      BY <1>2 DEF X!Permit
    <3> HIDE DEF p
    <3>3. QED
      BY <1>2, <1>4, <1>5, <3>1, <3>2 DEF LoopInv, PermitInv
  <2>3. CASE X!BeginPermitUnbound(g, token, target, b)
    <3>1. issued' = issued /\ serialTokens' = serialTokens \cup {token}
      BY <2>3 DEF X!BeginPermitUnbound, X!Reserve
    <3>2. QED
      BY <1>4, <1>5, <3>1 DEF LoopInv, PermitInv
  <2>4. QED
    BY <1>1, <2>1, <2>2, <2>3 DEF X!Begin
<1>8. QED
  BY <1>3, <1>5, <1>6, <1>7 DEF LoopInv

\* The coordinator, its executor and control.
LEMMA ExecutionCallStep ==
    ASSUME LoopInv, ExecutionCall
    PROVE  LoopInv'
<1>1. SessionInv' /\ log' = log
  BY NextInv DEF LoopInv, ExecutionCall, vars
<1>2. CASE X!Control
  <2>1. UNCHANGED <<used, running, results, effects, sent, issued, serialTokens>>
    BY <1>2 DEF X!Control, X!Activate, X!Revoke, X!callVars
  <2>2. QED
    BY <1>1, <2>1, DurableKept DEF LoopInv, PermitInv, AnswerInv
<1>3. ASSUME NEW p \in issued, NEW b \in Boundaries, X!Call(p, b) PROVE LoopInv'
  <2>1. /\ p \notin used /\ used' = used \cup {p} /\ running' = running \cup {p}
        /\ sent' = sent \cup {X!Command(p)}
        /\ UNCHANGED <<results, effects, issued, serialTokens>>
    BY <1>3 DEF X!Call, X!ReleasePermit, X!Conclude
  <2>2. X!Command(p).permit = p
    BY DEF X!Command
  <2>3. /\ \A t, k : Decided(t, k) <=> Decided(t, k)'
        /\ EffectsAreDecided' /\ AssessedActionHappened'
    BY <1>1, <2>1, <2>2, DurableKept
  <2>4. PermitInv'
    BY <2>1, <2>3 DEF LoopInv, PermitInv
  <2>5. AnswerInv'
    BY <2>1 DEF LoopInv, AnswerInv
  <2>6. QED
    BY <1>1, <2>3, <2>4, <2>5 DEF LoopInv
<1>4. ASSUME NEW p \in issued, NEW b \in Boundaries, X!Block(p, b) PROVE LoopInv'
  <2>1. /\ p \notin used /\ used' = used \cup {p}
        /\ results' = results \cup {X!Result(p, "BLOCKED")}
        /\ UNCHANGED <<running, sent, effects, issued, serialTokens>>
    BY <1>4 DEF X!Block, X!QuarantineMismatch, X!QuarantineControlChanged, X!Conclude
  <2>2. /\ \A t, k : Decided(t, k) <=> Decided(t, k)'
        /\ EffectsAreDecided' /\ AssessedActionHappened'
    BY <1>1, <2>1, DurableKept
  <2>3. PermitInv'
    BY <2>1, <2>2 DEF LoopInv, PermitInv
  <2>4. AnswerInv'
    <3> DEFINE r == X!Result(p, "BLOCKED")
    <3>1. r = [permit |-> p, disposition |-> "BLOCKED"] /\ "BLOCKED" \in X!Dispositions
      BY DEF X!Result, X!Dispositions
    <3>2. \A s \in results : s.permit # p
      BY <2>1 DEF LoopInv, AnswerInv
    <3>3. p \notin running
      BY <2>1 DEF LoopInv, PermitInv
    <3>4. QED
      BY <2>1, <3>1, <3>2, <3>3 DEF LoopInv, AnswerInv
  <2>5. QED
    BY <1>1, <2>2, <2>3, <2>4 DEF LoopInv
<1>5. ASSUME NEW command \in sent, X!Effect(command) PROVE LoopInv'
  <2>1. /\ effects' = effects \cup {command}
        /\ UNCHANGED <<used, running, results, sent, issued, serialTokens>>
    BY <1>5 DEF X!Effect, X!vars
  <2>2. QED
    BY <1>1, <2>1, DurableKept DEF LoopInv, PermitInv, AnswerInv
<1>6. ASSUME NEW p \in running, X!Complete(p) \/ X!Lose(p) PROVE LoopInv'
  <2>1. /\ running' = running \ {p}
        /\ UNCHANGED <<used, sent, effects, issued, serialTokens>>
    BY <1>6 DEF X!Complete, X!Lose, X!vars
  <2>2. PICK d \in X!Dispositions :
           /\ results' = results \cup {X!Result(p, d)}
           /\ d = "COMPLETED" => X!Command(p) \in effects
    BY <1>6 DEF X!Complete, X!Lose, X!Dispositions
  <2>3. /\ \A t, k : Decided(t, k) <=> Decided(t, k)'
        /\ EffectsAreDecided' /\ AssessedActionHappened'
    BY <1>1, <2>1, DurableKept
  <2>4. PermitInv'
    BY <2>1, <2>3 DEF LoopInv, PermitInv
  <2>5. AnswerInv'
    <3> DEFINE r == X!Result(p, d)
    <3>1. r = [permit |-> p, disposition |-> d] /\ X!Command(p).permit = p
      BY DEF X!Result, X!Command
    <3>2. \A s \in results : s.permit # p
      BY DEF LoopInv, AnswerInv
    <3>3. p \in used
      BY DEF LoopInv, PermitInv
    <3>4. QED
      BY <2>1, <2>2, <3>1, <3>2, <3>3 DEF LoopInv, AnswerInv
  <2>6. QED
    BY <1>1, <2>3, <2>4, <2>5 DEF LoopInv
<1>7. QED
  BY <1>2, <1>3, <1>4, <1>5, <1>6 DEF ExecutionCall

\* The process dies: sessions, permits and results with it.
LEMMA DieStep ==
    ASSUME LoopInv, Die
    PROVE  LoopInv'
<1>1. /\ memory' = [h \in Handles |-> Nothing] /\ closing' = {} /\ log' = log
      /\ issued' = {} /\ used' = {} /\ running' = {} /\ results' = {}
      /\ sent' = sent /\ effects' = effects
  BY DEF Die, X!Restart
<1>2. SessionInv'
  BY <1>1, QuietKeeps DEF LoopInv
<1>3. EffectsAreDecided' /\ AssessedActionHappened'
  BY <1>1, DurableKept
<1>4. PermitInv' /\ AnswerInv'
  BY <1>1 DEF PermitInv, AnswerInv
<1>5. QED
  BY <1>2, <1>3, <1>4 DEF LoopInv

-----------------------------------------------------------------------------
\* The invariant and what it implies.

\* Nothing is decided, granted or recorded at first.
LEMMA LoopInitInv == LoopInit => LoopInv
<1> SUFFICES ASSUME LoopInit PROVE LoopInv
  OBVIOUS
<1>1. SessionInv /\ log = <<>> /\ Len(log) = 0
  BY InitInv DEF LoopInit, Init
<1>2. issued = {} /\ used = {} /\ running = {} /\ results = {} /\ sent = {}
  BY DEF LoopInit, X!ExecutionInit, X!Init
<1>3. PermitInv /\ AnswerInv /\ EffectsAreDecided /\ AssessedActionHappened
  BY <1>1, <1>2 DEF PermitInv, AnswerInv, EffectsAreDecided, AssessedActionHappened
<1>4. QED
  BY <1>1, <1>3 DEF LoopInv

\* Stuttering keeps the invariant.
LEMMA LoopStillInv == LoopInv /\ UNCHANGED loopVars => LoopInv'
<1> SUFFICES ASSUME LoopInv, UNCHANGED loopVars PROVE LoopInv'
  OBVIOUS
<1>1. SessionInv'
  BY NextInv DEF LoopInv, loopVars
<1>2. UNCHANGED <<log, issued, used, running, serialTokens, results, effects, sent>>
  BY DEF loopVars, vars, executionVars
<1>3. QED
  BY <1>1, <1>2, DurableKept DEF LoopInv, PermitInv, AnswerInv

\* Every step of the loop keeps the invariant.
LEMMA LoopNextInv == LoopInv /\ [LoopNext]_loopVars => LoopInv'
BY CallStep, AssessResultStep, AdmitStep, ExecutionCallStep, DieStep, LoopStillInv DEF LoopNext

\* The sessions' invariant and the coordinator's bookkeeping hold together, in
\* any interleaving of calls, executor and control, and across restarts.
THEOREM LoopInvariant == LoopSpec => []LoopInv
BY LoopInitInv, LoopNextInv, PTL DEF LoopSpec

\* Behind every durable assessment there is an effect in the world.
THEOREM AssessedHappened == LoopSpec => []AssessedActionHappened
<1>1. LoopInv => AssessedActionHappened
  BY DEF LoopInv
<1>2. QED
  BY <1>1, LoopInvariant, PTL

\* Nothing is sent to the executor whose decision the ledger does not hold.
THEOREM EffectsDecided == LoopSpec => []EffectsAreDecided
<1>1. LoopInv => EffectsAreDecided
  BY DEF LoopInv
<1>2. QED
  BY <1>1, LoopInvariant, PTL

\* What ended blocked or unknown is not assessed under the same control
\* snapshot: its serial token admitted one permit, and that permit one answer.
THEOREM UnknownNotAssessed == LoopSpec => UnknownIsNeverAssessed
<1>1. LoopInv /\ [LoopNext]_loopVars =>
         [\A r \in results : r.disposition # "COMPLETED" /\ Len(log') > Len(log) =>
             LET e == log'[Len(log')]
             IN  e.kind = "assessment" => e.body.evidence.control # r.permit.token]_loopVars
  <2>1. SUFFICES ASSUME LoopInv, LoopNext, NEW r \in results, r.disposition # "COMPLETED",
                        Len(log') > Len(log), log'[Len(log')].kind = "assessment"
                 PROVE  log'[Len(log')].body.evidence.control # r.permit.token
    OBVIOUS
  <2>2. log \in Seq(Receipts) /\ Len(log) \in Nat
    BY <2>1, LogFacts DEF LoopInv
  <2>3. log' # log
    BY <2>1, <2>2
  <2>4. ASSUME NEW h \in Handles, SessionCall(h) PROVE FALSE
    <3>1. PICK e : log' = Append(log, e) /\ e.kind # "assessment"
      BY <2>3, <2>4, CallLog DEF NoneAssessed
    <3>2. log'[Len(log')] = e
      BY <2>2, <3>1, AppendGrows
    <3>3. QED
      BY <2>1, <3>1, <3>2
  <2>5. ASSUME NEW h \in Handles, NEW s \in results, NEW authority \in Authorities,
               AssessResult(h, s, authority)
        PROVE  log'[Len(log')].body.evidence.control # r.permit.token
    <3>1. PICK e : log' = Append(log, e) /\ e.body.evidence = Handed(s)
      BY <2>3, <2>5, AssessLog
    <3>2. log'[Len(log')] = e
      BY <2>2, <3>1, AppendGrows
    <3>3. log'[Len(log')].body.evidence.control = s.permit.token
      BY <3>1, <3>2 DEF Handed
    <3>4. s.disposition = "COMPLETED" /\ s # r
      BY <2>1, <2>5, AssessLog
    <3>5. s.permit # r.permit /\ s.permit \in issued /\ r.permit \in issued
      BY <2>1, <3>4 DEF LoopInv, AnswerInv, PermitInv
    <3>6. QED
      BY <2>1, <3>3, <3>5 DEF LoopInv, PermitInv
  <2>6. ASSUME NEW h \in Handles, NEW g \in Grants, NEW i \in Evidence, NEW b \in Boundaries,
               Admit(h, g, i, b)
        PROVE  FALSE
    BY <2>3, <2>6 DEF Admit, vars
  <2>7. ~ExecutionCall /\ ~Die
    BY <2>3 DEF ExecutionCall, Die, vars
  <2>8. QED
    BY <2>1, <2>4, <2>5, <2>6, <2>7 DEF LoopNext
<1>2. QED
  BY <1>1, LoopInvariant, PTL DEF LoopSpec, UnknownIsNeverAssessed
=============================================================================
