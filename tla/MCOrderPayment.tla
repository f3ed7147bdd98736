--------------------------- MODULE MCOrderPayment ---------------------------
(* OrderPayment on small instances. *)
EXTENDS OrderPayment, TLC

CONSTANTS o1, o2, p1, p2, w1, w2

\* Orders are interchangeable, and so are payments; sound for the runs that
\* check safety only.
Symmetry == Permutations(Orders) \cup Permutations(Payments) \cup Permutations(Workers)
=============================================================================
