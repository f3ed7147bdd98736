---------------------------- MODULE MCPromotion ----------------------------
EXTENDS Promotion, TLC

Symmetry == Permutations(Users) \cup Permutations(Rows) \cup Permutations(Admins)

=============================================================================
