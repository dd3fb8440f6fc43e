------------------------------ MODULE MCWorker ------------------------------
(***************************************************************************)
(* Small workflows for Worker.                                             *)
(***************************************************************************)
EXTENDS Worker, TLC

CONSTANTS a, b, c, d, w1, w2

\* a routes to b or c, and d rejoins them.
Diamond == (a :> {}) @@ (b :> {a}) @@ (c :> {a}) @@ (d :> {b, c})

\* The workers are alike, and so are the two branches of the diamond.
Symmetry == Permutations({w1, w2}) \cup Permutations({b, c})
=============================================================================
