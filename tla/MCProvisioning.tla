--------------------------- MODULE MCProvisioning ---------------------------
(* Provisioning on small instances. *)
EXTENDS Provisioning, TLC

CONSTANTS c1, c2, w1, w2, p1

\* Every worker in a process of its own, and all of them in one.
OwnProcess == [w \in Workers |-> w]
OneProcess == [w \in Workers |-> p1]

\* The catalog's components and the workers are interchangeable.
Symmetry == Permutations(Components) \cup Permutations(Workers)
=============================================================================
