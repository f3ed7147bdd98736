------------------------------ MODULE MCRefund ------------------------------
(* Refund on small instances. *)
EXTENDS Refund, TLC

CONSTANTS k1, k2, u1, u2, w1, w2, a1, p1

\* Keys, units and workers are interchangeable; for the safety runs.
Symmetry == Permutations(Keys) \cup Permutations(Units) \cup Permutations(Workers)
=============================================================================
