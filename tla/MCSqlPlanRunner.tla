--------------------------- MODULE MCSqlPlanRunner ---------------------------
(* SqlPlanRunner on small instances. *)
EXTENDS SqlPlanRunner, TLC

CONSTANTS r1, r2, t1, t2, c1, c2

\* Threads and continuation ids are interchangeable; runs are too, since createdAt
\* and not the id orders them.
Symmetry == Permutations({r1, r2}) \cup Permutations({t1, t2}) \cup Permutations({c1, c2})
=============================================================================
