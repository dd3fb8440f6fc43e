----------------------------- MODULE MCTrigger ------------------------------
(***************************************************************************)
(* Small registries for Control and Trigger.                               *)
(***************************************************************************)
EXTENDS Trigger, TLC

CONSTANTS A, B, d1, d2, e

\* A changes its definition; B stays.
Definitions == (A :> {d1, d2}) @@ (B :> {e})

\* The update from d1 to d2 removes a poll and moves the cron trigger.
TriggerLists ==
  (d1 :> <<"cron", "email_received">>) @@ (d2 :> <<"webhook", "cron">>)
  @@ (e :> <<"webhook", "completed", "failed">>)

AtFirst == (A :> NoDef) @@ (B :> e)
=============================================================================
