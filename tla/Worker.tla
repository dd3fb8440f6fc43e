------------------------------- MODULE Worker -------------------------------
(***************************************************************************)
(* One run from its start to its end: runner.StartRun, the worker loops of *)
(* internal/worker on plain, skipped and switch nodes, honker.CancelRun as *)
(* the control plane calls it, claim expiry, and crashes of the daemon.    *)
(*                                                                         *)
(* A handler is split at its store calls: its pc names the store           *)
(* call (or the subprocess) it makes next, so the other actors' calls come *)
(* between any two of them.  A daemon crash ends all the handlers at once  *)
(* and keeps the store.                                                    *)
(***************************************************************************)
EXTENDS RunStore

CONSTANTS
  SwitchNodes,  \* the nodes of type switch
  MayOverrun,   \* may a handler outlive its claim's visibility timeout?
  MaxCrashes    \* bound on the daemon's crashes

ASSUME WorkerAssumption ==
  /\ SwitchNodes \subseteq Nodes
  /\ MayOverrun \in BOOLEAN
  /\ MaxCrashes \in Nat

VARIABLES
  starter,   \* the next store call of StartRun
  canceller, \* the next store call of CancelRun
  h,         \* the handler of each worker, see Handlers
  doneCalls, \* how often OnRunComplete was called
  failCalls, \* how often OnRunFailed was called
  crashes    \* the daemon's crashes so far

callVars == <<doneCalls, failCalls>>
vars == <<storeVars, starter, canceller, h, callVars, crashes>>

PCs == {"idle", "status", "drop", "run", "commit",
        "readPending", "readStatus", "setCompleted", "onDone",
        "commitFailed", "saveCont", "failJob", "setFailed", "onFailed", "retry"}

\* The failures recordFailure tells apart.  An unreachable source and a stale
\* secret differ in the retry's delay alone, and time is not modelled.
Faults == {"node", "missing_secret", "secret"}

\* pc: the next store call.  node, tries: the claimed job's node and its
\* Job.Attempts.  skips: the dependents the commit enqueues as skip-jobs.
\* fault: the failure being recorded.
Handlers == [pc : PCs, node : Nodes, tries : 0..AttemptCap,
             skips : SUBSET Nodes, fault : Faults]

IdleHandler == [pc |-> "idle", node |-> Root, tries |-> 0,
                skips |-> {}, fault |-> "node"]

WorkerTypeOK ==
  /\ starter \in {"create", "deps", "enqueue", "done", "lost"}
  /\ canceller \in {"idle", "delete", "drop"}
  /\ h \in [Workers -> Handlers]
  /\ doneCalls \in Nat
  /\ failCalls \in Nat
  /\ crashes \in Nat

TypeOK == StoreTypeOK /\ WorkerTypeOK

Init ==
  /\ StoreInit
  /\ starter = "create"
  /\ canceller = "idle"
  /\ h = [w \in Workers |-> IdleHandler]
  /\ doneCalls = 0
  /\ failCalls = 0
  /\ crashes = 0

\* The handler of worker w goes from one store call to the next ...
Goto(w, from, to) ==
  /\ h[w].pc = from
  /\ h' = [h EXCEPT ![w].pc = to]

\* ... or returns, and its local variables are gone.
Return(w, from) ==
  /\ h[w].pc = from
  /\ h' = [h EXCEPT ![w] = IdleHandler]

-----------------------------------------------------------------------------
(* runner.StartRun: three commits *)

StartCreate ==
  /\ starter = "create"
  /\ CreateRun
  /\ starter' = "deps"
  /\ UNCHANGED <<canceller, h, callVars, crashes>>

StartDeps ==
  /\ starter = "deps"
  /\ InitRunDeps
  /\ starter' = "enqueue"
  /\ UNCHANGED <<canceller, h, callVars, crashes>>

StartEnqueue ==
  /\ starter = "enqueue"
  /\ EnqueueHead
  /\ starter' = "done"
  /\ UNCHANGED <<canceller, h, callVars, crashes>>

StartRun == StartCreate \/ StartDeps \/ StartEnqueue

-----------------------------------------------------------------------------
(* daemon.handleCancel: the run exists, whatever its status; then CancelRun *)

CancelStatus ==
  /\ canceller = "idle"
  /\ status # "none"
  /\ SetRunStatus("cancelled")
  /\ canceller' = "delete"
  /\ UNCHANGED <<starter, h, callVars, crashes>>

CancelDelete ==
  /\ canceller = "delete"
  /\ DeletePendingJobs
  /\ canceller' = "drop"
  /\ UNCHANGED <<starter, h, callVars, crashes>>

\* The parked continuations are deleted last; without wait nodes (Suspend adds
\* them) there are none.
CancelDrop ==
  /\ canceller = "drop"
  /\ canceller' = "idle"
  /\ UNCHANGED <<storeVars, starter, h, callVars, crashes>>

Cancel == CancelStatus \/ CancelDelete \/ CancelDrop

-----------------------------------------------------------------------------
(* Worker.Run and handle *)

Claim(w) ==
  /\ h[w].pc = "idle"
  /\ \E n \in Nodes :
       /\ ClaimJob(w, n)
       /\ h' = [h EXCEPT ![w] = [IdleHandler EXCEPT !.pc = "status", !.node = n,
                                                    !.tries = attempts'[n]]]
  /\ UNCHANGED <<starter, canceller, callVars, crashes>>

\* The statuses under which handle goes on with a job ("none" is no row).
StatusIsLive == status \in {"none", "running", "waiting"}

\* handle reads the status.  A job of an ended run is acked without running;
\* a skip-job goes straight to its commit, with all its dependents skipped.
HandleStatus(w) ==
  LET n == h[w].node IN
  /\ h[w].pc = "status"
  /\ h' = [h EXCEPT ![w].pc = IF ~StatusIsLive THEN "drop"
                              ELSE IF skip[n] THEN "commit" ELSE "run",
                    ![w].skips = IF skip[n] THEN Dependents(n) ELSE {}]
  /\ UNCHANGED <<storeVars, starter, canceller, callVars, crashes>>

\* Mutant: the job of an ended run is left claimed.
DropWithoutAck(w) ==
  /\ Return(w, "drop")
  /\ UNCHANGED <<storeVars, starter, canceller, callVars, crashes>>

HandleDrop(w) ==
  /\ Return(w, "drop")
  /\ AckJob(w, h[w].node)
  /\ UNCHANGED <<starter, canceller, callVars, crashes>>

\* runNode succeeds.
RunNode(w) ==
  /\ h[w].node \notin SwitchNodes
  /\ Goto(w, "run", "commit")
  /\ UNCHANGED <<storeVars, starter, canceller, callVars, crashes>>

\* runSwitch succeeds.  Every dependent but the chosen one is enqueued as a
\* skip-job; nothing checks that the choice is a dependent.
RunSwitch(w) ==
  /\ h[w].node \in SwitchNodes
  /\ h[w].pc = "run"
  /\ \E chosen \in Nodes :
       h' = [h EXCEPT ![w].pc = "commit",
                      ![w].skips = Dependents(h[w].node) \ {chosen}]
  /\ UNCHANGED <<storeVars, starter, canceller, callVars, crashes>>

\* The subprocess, its secrets or its expressions fail: recordFailure.
RunFails(w) ==
  /\ h[w].pc = "run"
  /\ \E f \in Faults : h' = [h EXCEPT ![w].pc = "commitFailed", ![w].fault = f]
  /\ UNCHANGED <<storeVars, starter, canceller, callVars, crashes>>

\* handleNode, handleSkip and handleSwitch commit the completion ...
Commit(w) ==
  LET n == h[w].node IN
  /\ Goto(w, "commit", "readPending")
  /\ CommitNodeAtom(w, n, IF skip[n] THEN "skipped" ELSE "ok", h[w].skips)
  /\ UNCHANGED <<starter, canceller, callVars, crashes>>

\* ... or find the claim expired and give up: no failure is recorded.
CommitRollback(w) ==
  /\ Return(w, "commit")
  /\ ~CanCommit(w, h[w].node)
  /\ UNCHANGED <<storeVars, starter, canceller, callVars, crashes>>

-----------------------------------------------------------------------------
(* checkRunComplete *)

\* Mutant: a run with one job in flight is taken for complete.
ReadPendingOffByOne(w) ==
  /\ IF pending <= 1 THEN Goto(w, "readPending", "readStatus")
                     ELSE Return(w, "readPending")
  /\ UNCHANGED <<storeVars, starter, canceller, callVars, crashes>>

ReadPending(w) ==
  /\ IF pending = 0 THEN Goto(w, "readPending", "readStatus")
                    ELSE Return(w, "readPending")
  /\ UNCHANGED <<storeVars, starter, canceller, callVars, crashes>>

\* A parked run is not complete; any other status is overwritten.
ReadStatus(w) ==
  /\ IF status # "waiting" THEN Goto(w, "readStatus", "setCompleted")
                           ELSE Return(w, "readStatus")
  /\ UNCHANGED <<storeVars, starter, canceller, callVars, crashes>>

SetCompleted(w) ==
  /\ Goto(w, "setCompleted", "onDone")
  /\ SetRunStatus("completed")
  /\ UNCHANGED <<starter, canceller, callVars, crashes>>

OnDone(w) ==
  /\ Return(w, "onDone")
  /\ doneCalls' = doneCalls + 1
  /\ UNCHANGED <<storeVars, starter, canceller, failCalls, crashes>>

-----------------------------------------------------------------------------
(* recordFailure, saveFailedContinuation, resolveRunFailed *)

\* Mutant: a node failure is terminal one attempt late.
TerminalTooLate(f, tries) ==
  \/ f = "missing_secret"
  \/ f = "secret" /\ tries >= SecretRetries
  \/ f = "node" /\ tries > MaxAttempts

\* May the job not be retried?
Terminal(f, tries) ==
  \/ f = "missing_secret"
  \/ f = "secret" /\ tries >= SecretRetries
  \/ f = "node" /\ tries >= MaxAttempts

CommitFailed(w) ==
  /\ Goto(w, "commitFailed",
          IF Terminal(h[w].fault, h[w].tries) THEN "saveCont" ELSE "retry")
  /\ CommitFailedResult(h[w].node)
  /\ UNCHANGED <<starter, canceller, callVars, crashes>>

Retry(w) ==
  /\ Return(w, "retry")
  /\ RetryJob(w, h[w].node)
  /\ UNCHANGED <<starter, canceller, callVars, crashes>>

\* Mutant: no continuation is saved before the run is marked failed.
SaveNothing(w) ==
  /\ Goto(w, "saveCont", "failJob")
  /\ UNCHANGED <<storeVars, starter, canceller, callVars, crashes>>

SaveCont(w) ==
  /\ Goto(w, "saveCont", "failJob")
  /\ WriteFailedContinuation(h[w].node)
  /\ UNCHANGED <<starter, canceller, callVars, crashes>>

DeadLetter(w) ==
  /\ Goto(w, "failJob", "setFailed")
  /\ FailJob(w, h[w].node)
  /\ UNCHANGED <<starter, canceller, callVars, crashes>>

SetFailed(w) ==
  /\ Goto(w, "setFailed", "onFailed")
  /\ SetRunStatus("failed")
  /\ UNCHANGED <<starter, canceller, callVars, crashes>>

OnFailed(w) ==
  /\ Return(w, "onFailed")
  /\ failCalls' = failCalls + 1
  /\ UNCHANGED <<storeVars, starter, canceller, doneCalls, crashes>>

Handle(w) ==
  \/ Claim(w) \/ HandleStatus(w) \/ HandleDrop(w)
  \/ RunNode(w) \/ RunSwitch(w) \/ RunFails(w) \/ Commit(w) \/ CommitRollback(w)
  \/ ReadPending(w) \/ ReadStatus(w) \/ SetCompleted(w) \/ OnDone(w)
  \/ CommitFailed(w) \/ Retry(w) \/ SaveCont(w) \/ DeadLetter(w)
  \/ SetFailed(w) \/ OnFailed(w)

-----------------------------------------------------------------------------
(* The environment *)

\* A claim outlives its timeout when its holder is gone (after a crash) or,
\* as there is no heartbeat, when its handler is slow.
Expire(n) ==
  /\ MayOverrun \/ ~\E w \in Workers : HoldsClaim(w, n) /\ h[w].node = n /\ h[w].pc # "idle"
  /\ ExpireClaim(n)
  /\ UNCHANGED <<starter, canceller, h, callVars, crashes>>

\* The daemon dies and is restarted: the handlers are gone, the store stays.
Crash ==
  /\ crashes < MaxCrashes
  /\ crashes' = crashes + 1
  /\ h' = [w \in Workers |-> IdleHandler]
  /\ canceller' = "idle"
  /\ starter' = IF starter \in {"deps", "enqueue"} THEN "lost" ELSE starter
  /\ UNCHANGED <<storeVars, callVars>>

Next ==
  \/ StartRun
  \/ Cancel
  \/ \E w \in Workers : Handle(w)
  \/ \E n \in Nodes : Expire(n)
  \/ Crash

Spec == Init /\ [][Next]_vars

(***************************************************************************)
(* Go schedules each worker's goroutine and the starting handler, and      *)
(* Honker re-issues a job whose claim expired; nobody has to cancel, crash *)
(* or outlive a claim.                                                     *)
(***************************************************************************)
Fairness ==
  /\ WF_vars(StartRun)
  /\ \A w \in Workers : WF_vars(Handle(w))
  /\ \A n \in Nodes : WF_vars(Expire(n))

FairSpec == Spec /\ Fairness

-----------------------------------------------------------------------------
(* What makes a run correct *)

Ended == status \in {"completed", "failed", "cancelled"}

AllIdle == \A w \in Workers : h[w].pc = "idle"

(***************************************************************************)
(* A run is marked completed (checkRunComplete, on pending alone) only     *)
(* when every node of the workflow has committed its completion: no node   *)
(* is forgotten by the fan-in counters, by a retry, by a lost claim, by a  *)
(* cancel or by a crash.                                                   *)
(***************************************************************************)
CompletedMeansAllDone == status = "completed" => Completed = Nodes

(***************************************************************************)
(* A worker handles a node only after all the nodes it depends on have     *)
(* committed (decrementDependents enqueues it at zero, never before).      *)
(***************************************************************************)
StartsAfterDependencies ==
  \A w \in Workers : h[w].pc # "idle" => Preds[h[w].node] \subseteq Completed

(***************************************************************************)
(* A node is enqueued at most once, however often claims expire and are    *)
(* committed late: a fan-out is never doubled (SPEC, Execution model 8).   *)
(***************************************************************************)
IssuedOnce == \A n \in Nodes : issued[n] <= 1

(***************************************************************************)
(* runs.pending, which AdjustPending keeps by differences, is the number   *)
(* of nodes enqueued and not committed; the head counts from CreateRun on. *)
(* A dead or dropped job stays counted, so such a run never completes.     *)
(***************************************************************************)
PendingExact ==
  status # "none" =>
    pending = Cardinality(InFlight) + (IF starter = "done" THEN 0 ELSE 1)

(***************************************************************************)
(* A failed run can be continued (runner.Rerun): its saved node has not    *)
(* completed, and all that node depends on has.                            *)
(***************************************************************************)
FailedIsRerunnable ==
  status = "failed" =>
    /\ fcont # NoNode
    /\ fcont \notin Completed
    /\ Preds[fcont] \subseteq Completed

(***************************************************************************)
(* A node's input never disagrees with the committed results it was built  *)
(* from (SPEC, Gotchas): what threadInput put under `steps` is a completed *)
(* node whose row in node_results still says so.                           *)
(***************************************************************************)
InputAgreesWithResults ==
  \A n \in Nodes : \A m \in steps[n] :
    m \in Completed /\ result[m] \in {"ok", "skipped"}

(***************************************************************************)
(* The `completed` triggers of other workflows fire at most once for a run *)
(* and only when all of it is done (OnRunComplete in checkRunComplete).    *)
(***************************************************************************)
CompletionNotifiedOnce ==
  doneCalls <= 1 /\ (doneCalls = 1 => Completed = Nodes)

(***************************************************************************)
(* Every run that starts ends (checkRunComplete or resolveRunFailed).      *)
(***************************************************************************)
Resolves == status = "running" ~> Ended

(***************************************************************************)
(* An ended run's jobs leave the queue for good: handle acks them without  *)
(* running them, the ones enqueued by a late commit too.                   *)
(***************************************************************************)
EndedRunDrains == Ended ~> [](LiveJobs = {})

\* The refinement mapping to DagRun.
Phase == IF status = "none" THEN "new"
         ELSE IF status \in {"running", "waiting"} THEN "open" ELSE status

Promise == INSTANCE DagRun WITH done <- Completed, phase <- Phase

(***************************************************************************)
(* A run, however it is interleaved, retried, crashed or cancelled, is a   *)
(* run of DagRun: nodes complete once and in dependency order, and         *)
(* `completed` is reported only when all have (CommitNodeAtom,             *)
(* checkRunComplete, resolveRunFailed, CancelRun).                         *)
(***************************************************************************)
ImplementsDagRun == Promise!Spec
=============================================================================
