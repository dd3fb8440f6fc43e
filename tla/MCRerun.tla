------------------------------ MODULE MCRerun -------------------------------
(***************************************************************************)
(* A small workflow for Rerun.                                             *)
(***************************************************************************)
EXTENDS Rerun, TLC

CONSTANTS a, b, c, op, auto

Chain == (a :> {}) @@ (b :> {a}) @@ (c :> {b})
=============================================================================
