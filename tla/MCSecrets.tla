----------------------------- MODULE MCSecrets ------------------------------
(***************************************************************************)
(* Two secrets in the on-box store, one in the environment, one pulled.    *)
(***************************************************************************)
EXTENDS Secrets, TLC

CONSTANTS env, pull, box1, box2

Sources == (env :> "env") @@ (pull :> "varlock") @@ (box1 :> "onbox") @@ (box2 :> "onbox")

NoValues == [s \in SecretNames |-> 0]
=============================================================================
