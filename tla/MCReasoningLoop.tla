--------------------------- MODULE MCReasoningLoop ---------------------------
(***************************************************************************)
(* One session and one grant; two control snapshots, one request, one      *)
(* action, and a process that may die once.                                *)
(***************************************************************************)
EXTENDS ReasoningLoop, TLC

CONSTANTS h1, r1, b1, a1, k1, k2, i1, i2, g1

MCBelief == (r1 :> b1)
MCReplaces == (g1 :> None)
MCNotBefore == (g1 :> 0)
MCExpires == (g1 :> 0)
MCMaxInvocations == (g1 :> 2)
MCAperture == (g1 :> Proposals)

\* Histories somebody forks are MCSession's subject.
Unforked == LinearUpTo(Len(log))

MCSymmetry == Permutations({k1, k2}) \cup Permutations({i1, i2})
=============================================================================
