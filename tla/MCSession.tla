------------------------------ MODULE MCSession ------------------------------
(***************************************************************************)
(* Two handles on one session, two requests with different beliefs and two *)
(* actions.                                                                *)
(***************************************************************************)
EXTENDS Session, FiniteSets, TLC

CONSTANTS h1, h2, r1, r2, b1, b2, a1, a2, k1, k2, e1

MCBelief == (r1 :> b1) @@ (r2 :> b2)

\* Long runs of one handle look at histories nobody forks.
Unforked == LinearUpTo(Len(log))

\* Histories of up to four receipts, whoever writes them; longer ones while they
\* are not forked and at most one handle lives.
Explored == Len(log) <= 4 \/ (Unforked /\ Cardinality({h \in Handles : Live(h)}) <= 1)

Symmetry == Permutations({h1, h2}) \cup Permutations({a1, a2}) \cup Permutations({k1, k2})
=============================================================================
