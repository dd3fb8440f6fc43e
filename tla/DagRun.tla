------------------------------- MODULE DagRun -------------------------------
(***************************************************************************)
(* What a run of a workflow promises, without queue, counters, workers or  *)
(* crashes: its nodes complete one at a time, each once and after all it   *)
(* depends on, and the run is reported completed only when all have.       *)
(* Worker implements this specification.                                   *)
(***************************************************************************)
CONSTANTS
  Nodes,  \* the workflow's nodes
  Preds   \* Preds[n]: the nodes n depends on

VARIABLES
  done,   \* the nodes that have completed
  phase   \* "new", "open", or how the run was last reported to end

vars == <<done, phase>>

Init == done = {} /\ phase = "new"

Begin ==
  /\ phase = "new"
  /\ phase' = "open"
  /\ UNCHANGED done

\* A node that was at work when the run was reported to end may still complete.
Complete(n) ==
  /\ phase # "new"
  /\ n \notin done
  /\ Preds[n] \subseteq done
  /\ done' = done \cup {n}
  /\ UNCHANGED phase

\* A report may replace an earlier one: a cancel, or a late failure.
Report(outcome) ==
  /\ phase # "new"
  /\ outcome = "completed" => done = Nodes
  /\ phase' = outcome
  /\ UNCHANGED done

Next ==
  \/ Begin
  \/ \E n \in Nodes : Complete(n)
  \/ \E outcome \in {"completed", "failed", "cancelled"} : Report(outcome)

Spec == Init /\ [][Next]_vars
=============================================================================
