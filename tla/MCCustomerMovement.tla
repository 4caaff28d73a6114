------------------------- MODULE MCCustomerMovement -------------------------
(* CustomerMovement on small instances. *)
EXTENDS CustomerMovement, TLC

CONSTANTS r1, r2, m1, m2, c1, c2, w1, w2

\* The runs of move-cli are interchangeable, and so are the workers.
Symmetry == Permutations(Controllers) \cup Permutations(Workers)
=============================================================================
