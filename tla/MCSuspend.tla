----------------------------- MODULE MCSuspend ------------------------------
(***************************************************************************)
(* Small workflows for Suspend.                                            *)
(***************************************************************************)
EXTENDS Suspend, TLC

CONSTANTS a, b, c, d, w1, s1, approve, ok

\* a fans out to b and c, and d rejoins them.
Fork == (a :> {}) @@ (b :> {a}) @@ (c :> {a}) @@ (d :> {b, c})

\* b waits for a signal and c for a timer.
SignalB == (b :> approve) @@ (c :> NoName)

\* a waits for a signal, and b follows it.
Chain == (a :> {}) @@ (b :> {a})

SignalA == a :> approve
=============================================================================
