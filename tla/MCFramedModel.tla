---------------------------- MODULE MCFramedModel ----------------------------
(***************************************************************************)
(* One request repeated, replies under three identities, a window of two,  *)
(* three sequence numbers and a stream that holds two frames.              *)
(***************************************************************************)
EXTENDS FramedModel, TLC

CONSTANTS q1, m1, m2, m3

\* Message identities are only ever compared for equality.
MCSymmetry == Permutations({m1, m2, m3})
=============================================================================
