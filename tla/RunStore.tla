------------------------------ MODULE RunStore ------------------------------
(***************************************************************************)
(* The durable state of one run, as internal/honker keeps it in SQLite:    *)
(* the row of `runs`, the fan-in counters of `run_deps`, the rows of       *)
(* `node_results`, the row of `failed_continuations`, and the run's jobs   *)
(* in Honker's queue (an external library, modelled from its use).         *)
(*                                                                         *)
(* The store has one connection (honker.go: SetMaxOpenConns(1)), so each   *)
(* statement and each transaction is one atomic step.  An operator below   *)
(* is one such step; it constrains all the variables of this module.       *)
(*                                                                         *)
(* A node has at most one job in a run.  `issued` counts the enqueues, so  *)
(* a second enqueue of a node is a visible error and never lost.           *)
(***************************************************************************)
EXTENDS Integers, FiniteSets

CONSTANTS
  Nodes,        \* the workflow's nodes
  Preds,        \* Preds[n]: the nodes n lists in depends_on
  Root,         \* the head: the first node in run order with no dependency
  Workers,      \* ids of the worker loops
  NoNode,       \* "no node" (no saved continuation)
  NoWorker,     \* "no worker" (a job nobody has claimed)
  MaxAttempts,  \* the queue's attempts per job (daemon.Config.MaxAttempts)
  SecretRetries \* attempts of a node that fails on a secret

(***************************************************************************)
(* What wafer.ResolveDAG guarantees of a workflow it accepts: dependencies *)
(* name nodes, and there is no cycle (every non-empty set of nodes has a   *)
(* node with no dependency in it).  The head has no dependency.            *)
(***************************************************************************)
ASSUME DagAssumption ==
  /\ IsFiniteSet(Nodes)
  /\ Preds \in [Nodes -> SUBSET Nodes]
  /\ Root \in Nodes
  /\ Preds[Root] = {}
  /\ \A S \in SUBSET Nodes : S # {} => \E n \in S : Preds[n] \cap S = {}

ASSUME NullAssumption == NoNode \notin Nodes /\ NoWorker \notin Workers

(***************************************************************************)
(* daemon.Run and worker.New replace a zero by 3.                          *)
(***************************************************************************)
ASSUME AttemptsAssumption ==
  MaxAttempts \in Nat \ {0} /\ SecretRetries \in Nat \ {0}

VARIABLES
  status,    \* runs.status; "none" while there is no row
  pending,   \* runs.pending: the jobs in flight, as the code counts them
  deps,      \* run_deps.remaining per node
  result,    \* node_results per node: "none", "ok", "skipped" or "failed"
  fcont,     \* failed_continuations: the node saved for a rerun, or NoNode
  jobState,  \* the job of each node, see JobStates
  claimant,  \* the worker of the job's latest claim
  attempts,  \* how often the job was claimed, up to AttemptCap
  issued,    \* how often the node was enqueued
  skip,      \* NodeJob.Skip of the node's job
  steps      \* the nodes whose results the job's input carries (input.steps)

runVars   == <<status, pending>>
queueVars == <<jobState, claimant, attempts, issued, skip, steps>>
storeVars == <<status, pending, deps, result, fcont,
               jobState, claimant, attempts, issued, skip, steps>>

Statuses == {"none", "running", "waiting", "completed", "failed", "cancelled"}
Results  == {"none", "ok", "skipped", "failed"}

(***************************************************************************)
(* absent: never enqueued.  pending: waits for a claim.  processing: a     *)
(* worker holds a valid claim.  expired: the visibility timeout passed, so *)
(* the job is claimable again.  acked: deleted by the commit of the node's *)
(* completion.  dropped: deleted with the node not completed (the run had  *)
(* ended, or was cancelled).  dead: in the dead-letter table.              *)
(***************************************************************************)
JobStates ==
  {"absent", "pending", "processing", "expired", "acked", "dropped", "dead"}

\* Attempts are only ever compared with these two limits, so the count may
\* stop at the larger one.
AttemptCap == IF MaxAttempts >= SecretRetries THEN MaxAttempts ELSE SecretRetries

StoreTypeOK ==
  /\ status \in Statuses
  /\ pending \in Nat
  /\ deps \in [Nodes -> Nat]
  /\ result \in [Nodes -> Results]
  /\ fcont \in Nodes \cup {NoNode}
  /\ jobState \in [Nodes -> JobStates]
  /\ claimant \in [Nodes -> Workers \cup {NoWorker}]
  /\ attempts \in [Nodes -> 0..AttemptCap]
  /\ issued \in [Nodes -> Nat]
  /\ skip \in [Nodes -> BOOLEAN]
  /\ steps \in [Nodes -> SUBSET Nodes]

\* An empty database: no row for the run in any table.
StoreInit ==
  /\ status = "none"
  /\ pending = 0
  /\ deps = [n \in Nodes |-> 0]
  /\ result = [n \in Nodes |-> "none"]
  /\ fcont = NoNode
  /\ jobState = [n \in Nodes |-> "absent"]
  /\ claimant = [n \in Nodes |-> NoWorker]
  /\ attempts = [n \in Nodes |-> 0]
  /\ issued = [n \in Nodes |-> 0]
  /\ skip = [n \in Nodes |-> FALSE]
  /\ steps = [n \in Nodes |-> {}]

-----------------------------------------------------------------------------
(* Derived state *)

Dependents(n) == {m \in Nodes : n \in Preds[m]}

\* The nodes whose completion was committed, run or skipped.
Completed == {n \in Nodes : jobState[n] = "acked"}

\* The nodes enqueued and not committed, a dead or dropped job's too.
InFlight == {n \in Nodes : jobState[n] \notin {"absent", "acked"}}

\* The jobs in the queue.
LiveJobs == {n \in Nodes : jobState[n] \in {"pending", "processing", "expired"}}

HoldsClaim(w, n) == jobState[n] = "processing" /\ claimant[n] = w

-----------------------------------------------------------------------------
(* The runs, run_deps and failed_continuations tables *)

\* INSERT OR REPLACE the run as running, with the head job as pending work.
CreateRun ==
  /\ status' = "running"
  /\ pending' = 1
  /\ UNCHANGED <<deps, result, fcont, queueVars>>

\* Mutant: the counters of a linear chain, one for every node but the head.
InitRunDepsLinear ==
  /\ deps' = [n \in Nodes |-> IF Preds[n] = {} THEN 0 ELSE 1]
  /\ UNCHANGED <<runVars, result, fcont, queueVars>>

\* One transaction: each node's counter is the number of its dependencies.
InitRunDeps ==
  /\ deps' = [n \in Nodes |-> Cardinality(Preds[n])]
  /\ UNCHANGED <<runVars, result, fcont, queueVars>>

SetRunStatus(s) ==
  /\ status' = s
  /\ UNCHANGED <<pending, deps, result, fcont, queueVars>>

WriteFailedContinuation(n) ==
  /\ fcont' = n
  /\ UNCHANGED <<runVars, deps, result, queueVars>>

\* CancelRun's second statement: only jobs in state 'pending' are deleted.
DeletePendingJobs ==
  /\ jobState' = [n \in Nodes |->
                    IF jobState[n] = "pending" THEN "dropped" ELSE jobState[n]]
  /\ UNCHANGED <<runVars, deps, result, fcont,
                 claimant, attempts, issued, skip, steps>>

-----------------------------------------------------------------------------
(* The queue (Honker) *)

\* Queue.Enqueue of the head: its input has no steps yet.
EnqueueHead ==
  /\ jobState' = [jobState EXCEPT ![Root] = "pending"]
  /\ issued' = [issued EXCEPT ![Root] = @ + 1]
  /\ UNCHANGED <<runVars, deps, result, fcont, claimant, attempts, skip, steps>>

\* ClaimWaker.Next: a pending job, or one whose claim expired.
ClaimJob(w, n) ==
  /\ jobState[n] \in {"pending", "expired"}
  /\ jobState' = [jobState EXCEPT ![n] = "processing"]
  /\ claimant' = [claimant EXCEPT ![n] = w]
  /\ attempts' = [attempts EXCEPT ![n] = IF @ < AttemptCap THEN @ + 1 ELSE @]
  /\ UNCHANGED <<runVars, deps, result, fcont, issued, skip, steps>>

\* The visibility timeout of a claim passes.
ExpireClaim(n) ==
  /\ jobState[n] = "processing"
  /\ jobState' = [jobState EXCEPT ![n] = "expired"]
  /\ UNCHANGED <<runVars, deps, result, fcont,
                 claimant, attempts, issued, skip, steps>>

\* Job.Ack, Job.Retry and Job.Fail act on a valid claim and otherwise do
\* nothing: the callers ignore what they return.
MoveClaimed(w, n, to) ==
  /\ jobState' = IF HoldsClaim(w, n) THEN [jobState EXCEPT ![n] = to] ELSE jobState
  /\ UNCHANGED <<runVars, deps, result, fcont,
                 claimant, attempts, issued, skip, steps>>

AckJob(w, n) == MoveClaimed(w, n, "dropped")

FailJob(w, n) == MoveClaimed(w, n, "dead")

\* Back to pending, or dead when the queue's attempts are used up.
RetryJob(w, n) ==
  MoveClaimed(w, n, IF attempts[n] >= MaxAttempts THEN "dead" ELSE "pending")

-----------------------------------------------------------------------------
(* The completion atom: one transaction *)

\* Mutant: a dependent is enqueued as soon as one dependency completes.
ReadyAfterFirst(n) == {m \in Dependents(n) : deps[m] >= 1}

\* The dependents whose counter the completion of n takes to zero.
ReadyAfter(n) == {m \in Dependents(n) : deps[m] - 1 = 0}

\* Mutant: the enqueued dependents are not counted.
PendingWithoutNew(n) == pending - 1

\* Mutant: the ack of the completed job is not counted.
PendingWithoutAck(n) == pending + Cardinality(ReadyAfter(n))

\* The ack removes one job in flight, each enqueued dependent adds one.
PendingAfter(n) == pending + Cardinality(ReadyAfter(n)) - 1

\* Mutant: the claim is not checked, so an expired one still commits.
CommitAnyClaim(w, n) == jobState[n] \in {"processing", "expired", "acked"}

\* Tx.Ack returns an error, and the transaction rolls back, when the claim
\* is no longer valid.
CanCommit(w, n) == HoldsClaim(w, n)

\* Mutant: the atom is split, and the claim's ack is not part of it.
CommitWithoutAck(w, n, res, skips) ==
  LET ready == ReadyAfter(n) IN
  /\ CanCommit(w, n)
  /\ result' = [result EXCEPT ![n] = res]
  /\ deps' = [m \in Nodes |-> IF m \in Dependents(n) THEN deps[m] - 1 ELSE deps[m]]
  /\ jobState' = [m \in Nodes |-> IF m \in ready THEN "pending" ELSE jobState[m]]
  /\ issued' = [m \in Nodes |-> IF m \in ready THEN issued[m] + 1 ELSE issued[m]]
  /\ skip' = [m \in Nodes |-> IF m \in ready THEN m \in skips ELSE skip[m]]
  /\ steps' = [m \in Nodes |-> IF m \in ready THEN steps[n] \cup {n} ELSE steps[m]]
  /\ pending' = PendingAfter(n)
  /\ UNCHANGED <<status, fcont, claimant, attempts>>

\* CommitNodeAtom for a completed node: result, fan-out, pending, claim ack.
\* skips: the dependents to be enqueued as skip-jobs.
CommitNodeAtom(w, n, res, skips) ==
  LET ready == ReadyAfter(n) IN
  /\ CanCommit(w, n)
  /\ result' = [result EXCEPT ![n] = res]
  /\ deps' = [m \in Nodes |-> IF m \in Dependents(n) THEN deps[m] - 1 ELSE deps[m]]
  /\ jobState' = [m \in Nodes |-> IF m \in ready THEN "pending"
                                  ELSE IF m = n THEN "acked" ELSE jobState[m]]
  /\ issued' = [m \in Nodes |-> IF m \in ready THEN issued[m] + 1 ELSE issued[m]]
  /\ skip' = [m \in Nodes |-> IF m \in ready THEN m \in skips ELSE skip[m]]
  /\ steps' = [m \in Nodes |-> IF m \in ready THEN steps[n] \cup {n} ELSE steps[m]]
  /\ pending' = PendingAfter(n)
  /\ UNCHANGED <<status, fcont, claimant, attempts>>

\* CommitNodeAtom for a failed node (worker.commitFailed): no job to ack and
\* no downstream, so the row is written whoever holds the claim.
CommitFailedResult(n) ==
  /\ result' = [result EXCEPT ![n] = "failed"]
  /\ UNCHANGED <<runVars, deps, fcont, queueVars>>
=============================================================================
