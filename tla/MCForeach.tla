----------------------------- MODULE MCForeach ------------------------------
(***************************************************************************)
(* A workflow with a foreach, for TLC.                                     *)
(***************************************************************************)
EXTENDS Foreach, TLC

CONSTANTS s, f, b, p, q, r, t

\* s routes to the foreach f or to p; q and r collect the body b; t follows r.
Routed == (s :> {}) @@ (f :> {s}) @@ (p :> {s}) @@ (b :> {f}) @@ (q :> {b}) @@ (r :> {b})
          @@ (t :> {r})

RoutedOrder == <<s, f, p, b, q, r, t>>

\* The shape that the theorems of ForeachProofs ask for.
ASSUME RoutedShape == LoopAlone /\ SingleRoot /\ NoBypass
=============================================================================
