------------------------------ MODULE Provenance ------------------------------
(***************************************************************************)
(* What the stores of facts, continuations, mechanics and accounts promise *)
(* together of where things come from.  The stores share no state; callers *)
(* use them side by side.                                                  *)
(***************************************************************************)
EXTENDS EarnedFacts, Continuations, Mechanics, Accounts

\* What is derived falls with what it was derived from: a fact in force stands
\* on facts in force (facts.py), and a continuation fork served stands on a
\* parent that is still the exact one (feedback.py).
NothingStandsOnInvalid == FactsStandOnActive /\ BranchesFollowParents

\* Every lineage kept resolves to what it was made from: the repairs of a mechanic
\* to the assessments that implicated them (learning.py), accounts and residuals to
\* versions of the book, and to the very headers they were opened from when those
\* were the book's (accounts.py).
LineagesResolve == ChangesAreImplicated /\ AccountsResolve
=============================================================================
