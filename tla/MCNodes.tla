------------------------------ MODULE MCNodes -------------------------------
(***************************************************************************)
(* A workflow for Nodes, and the events of its runs.                       *)
(***************************************************************************)
EXTENDS Nodes, TLC

CONSTANTS r1, r2, env, pull, box

Sources == (env :> "env") @@ (pull :> "varlock") @@ (box :> "onbox")

FirstValues == [s \in SecretNames |-> 1]

NodeSecrets == [tap |-> <<pull>>, target |-> <<box>>, action |-> <<env>>]

NoKeys == [r \in Runs |-> NoExpr]

\* The same event came twice, and the action's key is the event's id.
SameEvent == [tap |-> NoKeys, target |-> NoKeys, action |-> [r \in Runs |-> "k"]]

\* The runs are alike.
RunSymmetry == Permutations(Runs)
=============================================================================
