---------------------------- MODULE MCFulfilment ----------------------------
(* Fulfilment on small instances. *)
EXTENDS Fulfilment, TLC

CONSTANTS c1, c2, w1, w2

\* After-sales are interchangeable, and so are workers.
Symmetry == Permutations(Claims) \cup Permutations(Workers)
=============================================================================
