------------------------------- MODULE MCMcp --------------------------------
(***************************************************************************)
(* A server of every kind over both transports, for TLC.                   *)
(***************************************************************************)
EXTENDS Mcp
=============================================================================
