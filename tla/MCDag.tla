------------------------------- MODULE MCDag --------------------------------
(***************************************************************************)
(* All workflows of a few nodes for Dag.                                   *)
(***************************************************************************)
EXTENDS Dag

CONSTANTS x, y, zero, one, two

\* The positions; `zero` is also a name.
Positions == <<zero, one, two>>
=============================================================================
