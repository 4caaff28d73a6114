-------------------------- MODULE MCIntentStore --------------------------
(* Model values for IntentStore, and the symmetry of its ids. *)
EXTENDS IntentStore, TLC

CONSTANTS i1, i2, i3, n1, c1, c2, q1, q2

Symmetry == Permutations(Intents) \cup Permutations(Commands) \cup Permutations(Requests)
=============================================================================
