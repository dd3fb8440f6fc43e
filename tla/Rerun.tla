------------------------------- MODULE Rerun --------------------------------
(***************************************************************************)
(* Rerunning a failed run (runner.Rerun): continue, restart and discard,   *)
(* asked for by an operator (daemon.handleRerun) or by a rerun-failed node *)
(* of a workflow that the run's failure started (handleRerunFailed).       *)
(*                                                                         *)
(* A rerun may enqueue a node that still has a job, so here the queue is a *)
(* bag of jobs, and a claimed job is in its handler's hands.  One worker   *)
(* handles the run, with the steps of Worker; its handlers do not outlive  *)
(* their claims, so every commit finds its claim valid.                    *)
(***************************************************************************)
EXTENDS Integers, FiniteSets, Bags

CONSTANTS
  Nodes, Preds, Root,  \* the workflow, as in RunStore
  NoNode,              \* "no node" (no saved continuation)
  MaxAttempts,         \* attempts per job
  Operators,           \* callers of handleRerun
  RerunNodes,          \* handlers of rerun-failed nodes
  MaxReruns,           \* bound on the rerun requests
  MaxCrashes           \* bound on the daemon's crashes

ASSUME RerunAssumption ==
  /\ IsFiniteSet(Nodes) /\ Preds \in [Nodes -> SUBSET Nodes]
  /\ Root \in Nodes /\ Preds[Root] = {} /\ NoNode \notin Nodes
  /\ \A S \in SUBSET Nodes : S # {} => \E n \in S : Preds[n] \cap S = {}
  /\ MaxAttempts \in Nat \ {0}
  /\ IsFiniteSet(RerunNodes) /\ Operators \cap RerunNodes = {}
  /\ MaxReruns \in Nat /\ MaxCrashes \in Nat

VARIABLES
  status,   \* runs.status
  pending,  \* runs.pending
  deps,     \* run_deps.remaining
  fcont,    \* failed_continuations: the saved node, or NoNode
  queue,    \* the run's claimable jobs
  h,        \* the worker's handler: pc and the job in hand
  x,        \* the rerun in progress of each caller
  asked,    \* the queued jobs of rerun-failed nodes
  reruns,   \* rerun requests so far
  crashes,  \* crashes so far
  commits,  \* how often each node committed since the run last started
  unrest    \* continues and restarts that found the run not at rest: see AtRest

storeVars == <<status, pending, deps, fcont, queue>>
ghostVars == <<commits, unrest>>
vars == <<storeVars, h, x, asked, reruns, crashes, ghostVars>>

Jobs == [node : Nodes, tries : 0..MaxAttempts]

Modes == {"continue", "restart", "discard"}

Callers == Operators \cup RerunNodes

\* The worker's handler, and a caller of Rerun.  pc: the next store call.
Handlers == [pc : {"idle", "status", "run", "saveCont", "failJob", "setFailed",
                   "readPending", "setCompleted"}, job : Jobs]

Calls == [pc : {"idle", "read", "tx", "deps", "enqueue", "commit"},
          mode : Modes, node : Nodes \cup {NoNode}]

IdleHandler == [pc |-> "idle", job |-> [node |-> Root, tries |-> 0]]

IdleCaller == [pc |-> "idle", mode |-> "continue", node |-> NoNode]

RerunTypeOK ==
  /\ status \in {"running", "completed", "failed"}
  /\ pending \in Int /\ deps \in [Nodes -> Int]
  /\ unrest = 0 => pending \in Nat /\ deps \in [Nodes -> Nat]
  /\ fcont \in Nodes \cup {NoNode}
  /\ IsABag(queue) /\ BagToSet(queue) \subseteq Jobs
  /\ h \in Handlers
  /\ x \in [Callers -> Calls]
  /\ asked \in Nat /\ reruns \in 0..MaxReruns /\ crashes \in 0..MaxCrashes
  /\ commits \in [Nodes -> Nat]
  /\ unrest \in Nat

NewJob(n) == [node |-> n, tries |-> 0]

InitialDeps == [n \in Nodes |-> Cardinality(Preds[n])]

\* A run that StartRun has just started.
Init ==
  /\ status = "running"
  /\ pending = 1
  /\ deps = InitialDeps
  /\ fcont = NoNode
  /\ queue = SetToBag({NewJob(Root)})
  /\ h = IdleHandler
  /\ x = [c \in Callers |-> IdleCaller]
  /\ asked = 0 /\ reruns = 0 /\ crashes = 0
  /\ commits = [n \in Nodes |-> 0]
  /\ unrest = 0

-----------------------------------------------------------------------------
(* The worker *)

Goto(from, to) == h.pc = from /\ h' = [h EXCEPT !.pc = to]

Return(from) == h.pc = from /\ h' = IdleHandler

Claim ==
  /\ h.pc = "idle"
  /\ \E j \in BagToSet(queue) :
       /\ queue' = queue (-) SetToBag({j})
       /\ h' = [pc |-> "status", job |-> [j EXCEPT !.tries = IF @ < MaxAttempts THEN @ + 1 ELSE @]]
  /\ UNCHANGED <<status, pending, deps, fcont, x, asked, reruns, crashes, ghostVars>>

\* The job of an ended run is acked without running.
HandleStatus ==
  /\ IF status = "running" THEN Goto("status", "run") ELSE Return("status")
  /\ UNCHANGED <<storeVars, x, asked, reruns, crashes, ghostVars>>

\* The node succeeds, and CommitNodeAtom commits it.
Commit ==
  LET n     == h.job.node
      after == {m \in Nodes : n \in Preds[m]}
      ready == {m \in after : deps[m] - 1 = 0} IN
  /\ Goto("run", "readPending")
  /\ deps' = [m \in Nodes |-> IF m \in after THEN deps[m] - 1 ELSE deps[m]]
  /\ queue' = queue (+) SetToBag({NewJob(m) : m \in ready})
  /\ pending' = pending + Cardinality(ready) - 1
  /\ commits' = [commits EXCEPT ![n] = @ + 1]
  /\ UNCHANGED <<status, fcont, x, asked, reruns, crashes, unrest>>

\* The node fails with attempts left: Job.Retry.
RunRetry ==
  /\ Return("run")
  /\ h.job.tries < MaxAttempts
  /\ queue' = queue (+) SetToBag({h.job})
  /\ UNCHANGED <<status, pending, deps, fcont, x, asked, reruns, crashes, ghostVars>>

\* The node fails for good.
RunFails ==
  /\ Goto("run", "saveCont")
  /\ h.job.tries >= MaxAttempts
  /\ UNCHANGED <<storeVars, x, asked, reruns, crashes, ghostVars>>

SaveCont ==
  /\ Goto("saveCont", "failJob")
  /\ fcont' = h.job.node
  /\ UNCHANGED <<status, pending, deps, queue, x, asked, reruns, crashes, ghostVars>>

DeadLetter ==
  /\ Goto("failJob", "setFailed")
  /\ UNCHANGED <<storeVars, x, asked, reruns, crashes, ghostVars>>

\* resolveRunFailed; OnRunFailed starts the workflow with the rerun-failed node.
SetFailed ==
  /\ Return("setFailed")
  /\ status' = "failed"
  /\ asked' = IF RerunNodes = {} THEN asked ELSE asked + 1
  /\ UNCHANGED <<pending, deps, fcont, queue, x, reruns, crashes, ghostVars>>

ReadPending ==
  /\ IF pending = 0 THEN Goto("readPending", "setCompleted") ELSE Return("readPending")
  /\ UNCHANGED <<storeVars, x, asked, reruns, crashes, ghostVars>>

SetCompleted ==
  /\ Return("setCompleted")
  /\ status' = "completed"
  /\ UNCHANGED <<pending, deps, fcont, queue, x, asked, reruns, crashes, ghostVars>>

WorkerStep ==
  \/ Claim \/ HandleStatus \/ Commit \/ RunRetry \/ RunFails \/ SaveCont
  \/ DeadLetter \/ SetFailed \/ ReadPending \/ SetCompleted

-----------------------------------------------------------------------------
(* Rerun, called by c *)

\* handleRerun; with no mode in the request, it is the workflow's on_failure.
OperatorAsks(c) ==
  /\ x[c].pc = "idle"
  /\ reruns < MaxReruns
  /\ reruns' = reruns + 1
  /\ \E mode \in Modes : x' = [x EXCEPT ![c].pc = "read", ![c].mode = mode]
  /\ UNCHANGED <<storeVars, h, asked, crashes, ghostVars>>

\* handleRerunFailed, with the mode of the node's config.
NodeAsks(c) ==
  /\ x[c].pc = "idle"
  /\ asked > 0
  /\ reruns < MaxReruns
  /\ asked' = asked - 1
  /\ reruns' = reruns + 1
  /\ \E mode \in Modes : x' = [x EXCEPT ![c].pc = "read", ![c].mode = mode]
  /\ UNCHANGED <<storeVars, h, crashes, ghostVars>>

\* The rerun is over.  An operator has its answer, a node goes on to its commit.
Rerun(c) ==
  x' = IF c \in Operators THEN [x EXCEPT ![c] = IdleCaller]
                          ELSE [x EXCEPT ![c].pc = "commit"]

\* GetFailedContinuation.  Without one the rerun is refused: an operator is told
\* so, and the node fails, to be retried or not.
GetFailedContinuation(c) ==
  /\ x[c].pc = "read"
  /\ IF fcont # NoNode
       THEN /\ x' = [x EXCEPT ![c].pc = "tx", ![c].node = fcont]
            /\ asked' = asked
       ELSE /\ x' = [x EXCEPT ![c] = IdleCaller]
            /\ asked' \in IF c \in RerunNodes THEN {asked, asked + 1} ELSE {asked}
  /\ UNCHANGED <<storeVars, h, reruns, crashes, ghostVars>>

\* Nothing of the run is in the queue, in hand or being started.
AtRest ==
  /\ queue = EmptyBag
  /\ h.pc = "idle"
  /\ \A c \in Callers : x[c].pc \notin {"deps", "enqueue"}

\* Mutant: the re-enqueued node is added to the count of the failed run.
PendingAdded == pending + 1

\* `UPDATE runs SET pending = 1`
PendingAfterContinue == 1

\* Mutant: the run is continued at its head.
ContinueAtHead(c) == Root

NodeToContinue(c) == x[c].node

\* One transaction.  It looks neither at the status nor at the continuation
\* again, and leaves the continuation in its table.
rerunContinue(c) ==
  /\ x[c].pc = "tx" /\ x[c].mode = "continue"
  /\ status' = "running"
  /\ pending' = PendingAfterContinue
  /\ queue' = queue (+) SetToBag({NewJob(NodeToContinue(c))})
  /\ unrest' = IF AtRest /\ status = "failed" /\ fcont = x[c].node THEN unrest ELSE unrest + 1
  /\ Rerun(c)
  /\ UNCHANGED <<deps, fcont, h, asked, reruns, crashes, commits>>

\* The workflow may have been replaced by one that no longer resolves, and then
\* the restart is refused.
RestartRefused(c) ==
  /\ x[c].pc = "tx" /\ x[c].mode = "restart"
  /\ x' = [x EXCEPT ![c] = IdleCaller]
  /\ UNCHANGED <<storeVars, h, asked, reruns, crashes, ghostVars>>

\* StartRun for the same id, in three commits.
RestartCreate(c) ==
  /\ x[c].pc = "tx" /\ x[c].mode = "restart"
  /\ status' = "running"
  /\ pending' = 1
  /\ commits' = [n \in Nodes |-> 0]
  /\ unrest' = IF AtRest THEN unrest ELSE unrest + 1
  /\ x' = [x EXCEPT ![c].pc = "deps"]
  /\ UNCHANGED <<deps, fcont, queue, h, asked, reruns, crashes>>

\* Mutant: the counters are left as the failed run left them.
RestartKeepsDeps(c) ==
  /\ x[c].pc = "deps"
  /\ x' = [x EXCEPT ![c].pc = "enqueue"]
  /\ UNCHANGED <<storeVars, h, asked, reruns, crashes, ghostVars>>

RestartDeps(c) ==
  /\ x[c].pc = "deps"
  /\ deps' = InitialDeps
  /\ x' = [x EXCEPT ![c].pc = "enqueue"]
  /\ UNCHANGED <<status, pending, fcont, queue, h, asked, reruns, crashes, ghostVars>>

RestartEnqueue(c) ==
  /\ x[c].pc = "enqueue"
  /\ queue' = queue (+) SetToBag({NewJob(Root)})
  /\ Rerun(c)
  /\ UNCHANGED <<status, pending, deps, fcont, h, asked, reruns, crashes, ghostVars>>

Discard(c) ==
  /\ x[c].pc = "tx" /\ x[c].mode = "discard"
  /\ fcont' = NoNode
  /\ Rerun(c)
  /\ UNCHANGED <<status, pending, deps, queue, h, asked, reruns, crashes, ghostVars>>

\* The rerun-failed node commits its own completion, in its own run.
NodeCommits(c) ==
  /\ x[c].pc = "commit"
  /\ x' = [x EXCEPT ![c] = IdleCaller]
  /\ UNCHANGED <<storeVars, h, asked, reruns, crashes, ghostVars>>

CallerStep(c) ==
  \/ GetFailedContinuation(c) \/ rerunContinue(c) \/ RestartRefused(c)
  \/ RestartCreate(c) \/ RestartDeps(c) \/ RestartEnqueue(c)
  \/ Discard(c) \/ NodeCommits(c)

-----------------------------------------------------------------------------

\* The handlers are gone.  The job in hand comes back when its claim expires,
\* and so do the rerun-failed nodes': a rerun that was done is then done again.
Crash ==
  /\ crashes < MaxCrashes
  /\ crashes' = crashes + 1
  /\ h' = IdleHandler
  /\ queue' = IF h.pc \in {"status", "run", "saveCont", "failJob"}
                THEN queue (+) SetToBag({h.job}) ELSE queue
  /\ x' = [c \in Callers |-> IdleCaller]
  /\ asked' = asked + Cardinality({c \in RerunNodes : x[c].pc # "idle"})
  /\ UNCHANGED <<status, pending, deps, fcont, reruns, ghostVars>>

Next ==
  \/ WorkerStep
  \/ \E c \in Operators : OperatorAsks(c)
  \/ \E c \in RerunNodes : NodeAsks(c)
  \/ \E c \in Callers : CallerStep(c)
  \/ Crash

Spec == Init /\ [][Next]_vars

-----------------------------------------------------------------------------
(* What makes a rerun correct *)

(***************************************************************************)
(* A run that was only rerun at rest is completed when every node has      *)
(* committed since the run last started: a continue picks up exactly where *)
(* the run failed, and a restart leaves nothing of the failed run behind   *)
(* (rerunContinue, rerunRestart; the runs are chains, see the README).     *)
(***************************************************************************)
RerunCompletesTheRun ==
  status = "completed" /\ unrest = 0 => \A n \in Nodes : commits[n] > 0

(***************************************************************************)
(* A node that has committed commits again only after a restart, or once   *)
(* for each rerun that found the run not at rest.  So continuing a failed  *)
(* run repeats nothing, through retries, crashes and further failures.     *)
(* But rerunContinue keeps the continuation and looks at no status: a      *)
(* second request, or the job of a rerun-failed node that a crash delivers *)
(* again, continues a run that is running or completed, and its node       *)
(* commits once more.  The counters bound the harm: what follows the node  *)
(* is not enqueued again (rerunContinue, handleRerunFailed).               *)
(***************************************************************************)
ContinueRepeatsNothing == \A n \in Nodes : commits[n] <= 1 + unrest

\* The run's jobs in the queue, each with the numbers of its copies, and the
\* number of jobs in the queue and in hand.
QueuedJobs == UNION {{j} \X (1..queue[j]) : j \in BagToSet(queue)}

LiveJobs == Cardinality(QueuedJobs)
            + (IF h.pc \in {"status", "run", "saveCont", "failJob"} THEN 1 ELSE 0)

(***************************************************************************)
(* "The one re-enqueued node is the only pending work" (rerunContinue):    *)
(* while a run has jobs, its count is their number, although the dead      *)
(* letter of the failed run was still counted before the rerun.            *)
(***************************************************************************)
RerunPendingExact ==
  status = "running" /\ unrest = 0 /\ LiveJobs > 0 => pending = LiveJobs
=============================================================================
