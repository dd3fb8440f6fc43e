# Servitor in TLA+

Servitor runs workflows ("Wafers") durably: a workflow is a DAG of nodes, a run
of it is a set of jobs in a SQLite queue (Honker), and workers claim jobs, run
each node as a subprocess and commit the node's completion in one transaction
that also enqueues the nodes that became ready. This directory holds TLA+
modules translated from that code, the TLC configurations that check them on
small workflows, and TLAPS proofs of their invariants for every workflow.

## 1. The system

| Component | State | Operations | What makes it correct |
|---|---|---|---|
| Run store, `internal/honker/{tx,runs,deps,failed}.go` | tables `runs` (status, pending), `run_deps`, `node_results`, `node_dedupe`, `singer_state`, `failed_continuations` | `CreateRun`, `InitRunDeps`, `CommitNodeAtom`, `SetRunStatus`, `CancelRun`, `WriteFailedContinuation` | result, fan-out, pending count and claim ack are one commit; the counts stay exact |
| Queue, `internal/honker/{queue,honker}.go` over the Honker extension | jobs: pending, claimed until a timeout, dead | enqueue, claim, ack, retry, fail, expiry | at-least-once delivery; a late ack is refused |
| Worker, `internal/worker/worker.go` | one job in hand; nothing durable | `handle`, `handleNode`, `handleSkip`, `handleSwitch`, `handleForeach`, `handlePoll`, `checkRunComplete`, `recordFailure` | nodes start after their dependencies, once; every run ends in the right status |
| Suspend, `internal/worker/suspend.go`, `internal/honker/suspend.go` | `suspended_continuations`, `buffered_signals`, timer jobs | `handleWait`, `ResumeBySignal`, `resumeInstance`, `handleSendSignal` | a wait is resumed once, and no signal or timer is lost |
| Graph, `internal/wafer/dag.go`, `internal/runner/runner.go` | none | `ResolveDAG`, `FromWafer` | accepted means acyclic; the head job carries the workflow |
| Starting and rerunning, `internal/runner/runner.go` | none | `StartRun`, `Rerun`, `RegisterCron`, `RegisterPoll` | a started run has a job; a rerun repeats only what is left |
| Triggers, `internal/trigger/trigger.go` | `events` | `ServeHTTP`, `Manual`, `Completed`, `Failed`, `Polled` | the event is stored first; one run per match |
| Control plane, `internal/daemon/daemon.go`, `internal/honker/registry.go` | `workflows`, schedules | submit, update, enable, disable, cancel, rerun, resume, stop | schedules agree with the workflow row |
| Node execution, `runNode` and `recordFailure` in `worker.go`, `internal/components/singer` | `node_dedupe`, `singer_state` | lookup, secrets, harness, commit, failure | an execution that is recorded under a dedupe key is the last; the bookmark never ahead of the target |
| Secrets, `internal/components/secret` | environment, a copy loaded once, files of the on-box store | `Resolve`, `SealOnBox` | a pushed value is served |
| MCP clients, `internal/components/mcp` | one session | `Call`, `HTTPCall`, `Discover`, `HTTPDiscover` | what is returned is the answer to the request |
| Subprocesses, email parsing, expressions, registry, CLI | I/O and static tables | | |

How they interact. The store has one connection (`SetMaxOpenConns(1)` in
`honker.go`), so every statement and every transaction is atomic; everything
else interleaves. Actors are the worker loops (`daemon.Config.Workers`, 1 in the
shipped CLI), the HTTP handlers of the control plane and the webhook listener,
Honker's scheduler, claim expiry and crashes. They share only the store. A
worker calls back into the trigger receiver when a run completes or fails.

What is hard: a handler reads a row, and the row changes before it acts on it; a
claim expires under a slow handler, since there is no heartbeat; steps that
belong together are separate commits with room for a crash between them; counts
kept by differences have to survive all of it. `PROJECT.json` lists these as
`hazards`, at the lines where they bite.

## 2. Modules

| Module | Models | Uses |
|---|---|---|
| `RunStore` | the tables and the queue; one operator per statement or transaction | |
| `Worker` | one run: `StartRun`, `CancelRun`, worker handlers split at their store calls, expiry, crash | extends `RunStore`, instantiates `DagRun` |
| `DagRun` | what a run promises, without queue, counters, workers or crashes | |
| `Suspend` | wait nodes, signals and timers in that run | extends `Worker` |
| `Rerun` | continue, restart and discard of a failed run | |
| `Foreach` | a run with a foreach: the job layout, the body jobs, the rejoins | |
| `Dag` | `ResolveDAG` and `FromWafer`, one action per loop iteration | |
| `Control` | submit, update, enable, disable; the workflow row and its schedules | |
| `Trigger` | webhooks, manual triggers, callbacks, cron fires, the email poll | extends `Control` |
| `Secrets` | the resolver, its providers, `servitor secret seal` | |
| `Nodes` | running a node: dedupe, secrets, Singer, commit, failure | extends `Secrets` |
| `Mcp` | the two MCP clients against an external server | |
| `WorkerProofs`, `SuspendProofs`, `DagProofs`, `RerunProofs`, `TriggerProofs`, `NodesProofs`, `McpProofs`, `ForeachProofs` | the theorems (section 4); `TriggerProofs` covers `Control`, `NodesProofs` covers `Secrets` | each extends its module, `SuspendProofs` also `WorkerProofs` |
| `MC...` | the instances the runs use | |

**RunStore.** A job is identified by its node, because a node has at most one
job in a run. That is not assumed: `issued` counts the enqueues, and `IssuedOnce`
says the count never passes one. `jobState` follows a job from `absent` through
`pending`, `processing` and `expired` to `acked` (with the node's commit),
`dropped` (removed with the node not completed) or `dead`. `steps` keeps which
results the job's input was built from, `skip` is `NodeJob.Skip`. Results are
reduced to `ok`, `skipped` or `failed`. The queue is external to the repository;
its operators are modelled from how `internal/honker` uses it. `attempts` stops at
the larger of the two limits it is ever compared with. The dedupe lookup is part
of "the node succeeds": a hit only replaces the subprocess by a stored result.

**Worker.** `h[w]` is the handler of worker `w`: the next store call it makes
(`pc`) and its local variables. So a status read, a subprocess, a commit, the
read of `pending`, the read of the status and the write of the status are
separate steps, and other actors come in between, as they do in the code. The
failures `recordFailure` tells apart are `node`, `secret` (stale or unreachable:
they differ only in the delay) and `missing_secret`. A crash ends all handlers,
the starter and the canceller; the store stays. `MayOverrun` says whether a
handler may be slower than its claim's timeout.

**Suspend.** A parked wait's job is `acked` although the wait is not done, so
`Done` is `Completed` without `parked`. Each resumer (a worker with a timer job,
or a sender) has its own pc because `resumeInstance` reads the status and the
continuation before its transaction. Senders stand for `handleResume` and for the
`send-signal` nodes of other runs. `buffered` is the table of that name, its rows
in the order of their ids. Time is not modelled: a timer may fire any time after
the park.

**Dag.** Nodes are list positions; each loop of the code, the one over `adj`
included, goes through them one iteration per action. An unnamed node's id is its
position, which may be another node's name. `carried` is the set of nodes in a
job's `Downstream` at any depth, with the copies as they are when taken. Foreach
is left to `Foreach`.

**Rerun.** A rerun may enqueue a node that still has a job, so the queue is a bag.
A caller (the HTTP handler, or a worker with a `rerun-failed` node) reads the
continuation and then writes, and a restart is the three commits of `StartRun`.
`AtRest` says that a rerun found the run failed and nothing of it in the queue or
in hand; `unrest` counts the continues and restarts that did not. The code does not
check this. `ContinueRepeatsNothing` bounds what such reruns repeat; the other
properties speak of runs without one, and section 5 says what they do.

**Foreach.** Here a job's payload matters, since what the foreach enqueues are the
copies in it. What a copy carries depends only on its node and on when it was
taken, so a job records those: `form` is `bare` in a copy taken before `Downstream`
was built, which `FromWafer` makes of the rejoins, and `DownstreamOf` gives the list
of any job. Dependents and copies are paired by position as in `CommitNodeAtom`
(`NewJobs`); in a foreach with dependents besides the body the two lists do not
match. `BodyJob` is what `handleForeach` makes of the body, `got` what a rejoin
collected. The counter writes of `handleForeach` come one by one before its commit,
and a crash may cut them.

**Control and Trigger.** `row` is the `workflows` table, `task` the scheduler's
tasks, each with the definition it was armed with. A request is a sequence of
store calls by one client; `settled` is the last answer about a workflow, or
`cut`. The trigger handlers read the registry once and then start their runs,
three commits each, while requests go on; a store call may fail, and then the
handler returns and the runs left are dropped (`StoreFails`); `ready` counts the runs of each cause
that have their job queued. What a handler has yet to start is a set of runs,
since a property never depends on their order. `steady` holds the workflows that
matched a webhook from its arrival on, which is what an acknowledgement can fairly
be held to.

**Secrets and Nodes.** A value is a version number, and a sealed file carries the
key it was sealed under, so decryption fails exactly under another key.
`os.WriteFile` is two steps, since it truncates first; a node's reads of the key
and the value are one, since a single sealer never replaces a whole key. `Nodes` runs three nodes (a
tap, a target, an action) of several runs through one worker. A record's number is
its position at the source, and a result is the run whose work it is: two runs
that share an execution have the same result. The ghost variables `loaded`,
`emitted`, `behind`, `blind`, `executed` and `unrecorded` say what happened outside
the store: `executed` counts the executions under each dedupe key, crashed ones
included, and `unrecorded` those whose commit, which carries the dedupe record, never
came.

**Mcp.** The client follows `send`, `initialize`, `probe` and their HTTP twins
request by request. The server is external: it speaks the stateless protocol, the
classic one or both, keeps a session per process or per `Mcp-Session-Id`, answers
in order over stdio and in any order over HTTP, sends messages of its own with any
id, the awaited one included, and may die.

## 3. Runs

| Run | Instance | Shows |
|---|---|---|
| `pair` | switch `a`, branches `b`, `c`, rejoin `d`; two workers, overrunning handlers, one crash, cancels; symmetric in the workers and in the branches | counters and `pending` exact, nothing enqueued twice, nothing started early, `completed` only when all is done |
| `single` | the same workflow, one worker (the shipped configuration), two attempts, two crashes, overruns | failed runs can be continued, inputs agree with stored results, completion is notified once, `Worker` implements `DagRun` |
| `live` | two workers, two attempts, no crash, no overrun, fairness | every run ends, its jobs leave the queue |
| `waits` | `a` then two parallel waits, `b` on a signal, `c` on a timer, then `d`; two signals, one crash, overruns, cancels, fairness | `pending` exact, the rejoin enqueued once and after both, a timer resumes its wait |
| `dag` | all 32,768 workflows of three nodes over three names | run order, exact cycle reports, complete head job |
| `rerun` | a chain of three; an operator and a `rerun-failed` node, two reruns, two attempts, one crash | a continue picks up at the failed node, a node commits again only for a rerun that found the run not at rest, a restart leaves nothing behind, `pending` is right again |
| `foreach` | a switch to a foreach or past it, lists of 0 to 3, two rejoins, a node behind one; two attempts, two crashes | rejoins collect every iteration in order, nothing is enqueued twice, a completed run is complete up to the rejoins |
| `control` | workflow A with two definitions whose triggers differ in place and kind, B with a webhook and both callbacks; three requests, two events, one mail, one crash | no stale schedule, schedules agree with the row, acknowledged webhooks have their runs, mail at most once, disabled is at rest |
| `nodes` | two runs with one event and one dedupe key, secrets from all three sources, two records, two attempts, one crash or failed lookup, expiry, one execution that outlasts its claim; symmetric in the runs | a second execution under a key only after one cut off from its commit or a failure before the lookup, no record lost, none emitted twice without cause |
| `seal` | two on-box secrets among four, one sealer that may die anywhere, three seals, fresh and damaged stores | a pushed value is served |
| `tools` | both transports, servers of three kinds, two clients, three messages of the server's own | an answer returned is the right one, and its tool ran once |
| `missed` | one wait and one signal | the documented delivery of an early signal, violated |

Deadlock is checked in the Worker, Dag and Secrets runs. It is off where the
system or its environment really may stop: a run parked on a signal nobody sends,
a rerun nobody asks for, a workflow with no more events, a silent MCP server.

The diamond is the smallest workflow with a fan-out, a fan-in and a routing
choice; the two branches are what two workers can race on, and one crash is
enough to separate any two consecutive commits (`single` allows a second one,
during the recovery from the first). `MaxAttempts` 2 has a retry and a last
attempt. Three nodes hold every shape of two dependencies, self-loops and cycles
of length one to three. In `rerun` a chain of three has a node before the failed
one and one after it. In `foreach` three elements tell first, middle and last
apart, and the second crash can hit the recovery from the first. In `control` the
update removes a poll and moves the cron trigger to another position, and three
requests are enough to submit, update or disable, and enable again. In `nodes` two
runs are what can share a key, two records what a bookmark can stand between, and
one overrun (`MaxOverruns`) lets an execution outlast its claim next to the crash
that ends one.
In `tools` the probe, the handshake and the final request have the ids 1 to 3, and
the second client meets what the first left behind. The bounds in guards are all
named `Max...`. Symmetry is used in `pair` and `nodes`, which check no liveness.

`InputAgreesWithResults` and `CompletionNotifiedOnce` hold for one worker. With
several, a handler whose claim expired can overwrite the result another worker
committed (`commitFailed` does not look at the claim), and two workers can both
read `pending` 0. `DedupeOnce` and `EmittedOnce` also hold for one worker only:
two that look up before either commits both run the node. `MailAtMostOnce` holds
for one poller, that is one worker: two polls that search before either marks both
return the message. `waits` keeps the signal
and the timer on different waits, because one wait with both can be resumed twice
(section 5). In these bounds no two waits share a name, so the "ambiguous" answer
of `LookupParked` is not reached.

### Fairness

`Worker` assumes weak fairness of the starting handler, of each worker and of
claim expiry: goroutines are scheduled, and Honker hands a job out again once its
timeout passed. Nobody has to cancel, crash or be slow. `live` sets `MayOverrun`
to FALSE: if every handler outlived its claim, no node would ever commit.
`Suspend` adds fairness of a signal call once it is made and of the expiry of
timer jobs, and none of sending signals. The other modules state no liveness.

## 4. Proofs

The theorems hold for every value of the constants that the modules' assumptions
and the hypotheses stated below allow: any finite workflow, any number of workers,
runs, signals, requests, events, attempts and crashes. `PROJECT.json`, `theorems`,
pairs each with the property of a run. A hypothesis is there because the property
is false without it, and section 5 or the comment at the theorem says how.

| Module | Theorem | Property | Hypothesis |
|---|---|---|---|
| `WorkerProofs` | `TypeCorrectness` | `TypeOK` | |
| | `NoDoubleIssue` | `IssuedOnce` | |
| | `PendingIsExact` | `PendingExact` | |
| | `DependencyOrder` | `StartsAfterDependencies` | |
| | `CompletedRunsAreDone` | `CompletedMeansAllDone` | the head is the only initial node |
| | `Refinement` | `ImplementsDagRun` | the same |
| | `FailedRunsAreRerunnable` | `FailedIsRerunnable` | no overruns, or one worker |
| | `InputsAgreeWithResults` | `InputAgreesWithResults` | the same |
| | `NotifiesOnce` | `CompletionNotifiedOnce` | one worker, one initial node |
| `SuspendProofs` | `WaitsTypeCorrectness` | `SuspendTypeOK` | `SoleResumer` |
| | `NothingOvertakesAWait` | `EnqueuedAfterDependencies` | `SoleResumer` |
| | `ContinuationsAreUnresumed` | `ParkedIsUnresumed` | `SoleResumer` |
| | `PendingIsExactWithWaits` | `PendingExact` | `SoleResumer` |
| `DagProofs` | `DagTypeCorrectness` | `DagTypeOK` | |
| | `AcceptedHaveRunOrder` | `AcceptedIsRunOrder` | |
| | `CyclesAreReported` | `CycleReportedExactly` | |
| | `HeadIsComplete` | `HeadCarriesReachable` | (distinct ids, in the property) |
| `RerunProofs` | `RerunTypeCorrectness` | `RerunTypeOK` | `Chain` |
| | `RerunsComplete` | `RerunCompletesTheRun` | `Chain` |
| | `NothingIsRepeated` | `ContinueRepeatsNothing` | |
| | `RerunPendingIsExact` | `RerunPendingExact` | `Chain` |
| `TriggerProofs` | `TriggerTypeCorrectness` | `TriggerTypeOK` | |
| | `ArmedIsCurrent` | `NoStaleSchedule` | `MayResubmit` is FALSE |
| | `AnsweredIsArmed` | `SchedulesAgree` | the same |
| | `DisabledIsQuiet` | `DisabledStaysAtRest` | the same |
| | `WebhooksStartRuns` | `AcknowledgedRuns` | the same, at most one webhook per definition |
| | `EmailsStartOneRun` | `MailAtMostOnce` | |
| `NodesProofs` | `PushedValueIsServed` | `PushedValueServed` | one seal at a time |
| | `NodesTypeCorrectness` | `NodesTypeOK` | a sealer has a secret to seal |
| | `SharedExecution` | `DedupeOnce` | the same |
| | `NoExtraCopies` | `EmittedOnce` | the same |
| | `RecordsAreKept` | `NoRecordLost` | the same, `TargetLoadsAll` |
| `McpProofs` | `AnswersAreTheServers` | `ReturnsTheAnswer` | |
| `ForeachProofs` | `ForeachTypes` | `ForeachTypeOK` | `LoopAlone` |
| | `ForeachOnce` | `IterationsOnce` | `LoopAlone` |
| | `ForeachCollects` | `RejoinCollectsAll` | `LoopAlone` |
| | `ForeachCompletes` | `CompletedRanAll` | `LoopAlone`, `SingleRoot`, `NoBypass` |

None of these properties is inductive. What each module's inductive invariant
adds, and why it is needed:

**WorkerProofs.** That a join is enqueued once depends on its counter, the counter
on which dependencies have committed, and that on claims. `IInv` ties them
together: once the counters are initialised, `deps[n]` is the number of
dependencies of `n` that have not committed; a node with dependencies has been
enqueued if and only if all of them have committed, and then once; before the
start is over there is no job; `pending` counts the nodes in flight; a handler
past `idle` has a node that was enqueued; a handler that is about to mark the run
completed, and a completed run, have nothing in flight. The step to "all done" is
`ClosedSetIsAll`: in an acyclic workflow with one initial node, a set that holds
the head and every node whose dependencies it holds is the set of all nodes. The
proof has one lemma per group of actions; `CommitIInv`, the completion
transaction, carries the argument, and the other handler steps share `QuietStep`
and `MoveClaimedIInv`. The refinement maps `done` to `Completed` and `phase` to
the status: the start is `Begin`, the completion transaction `Complete`, the
status writes of `checkRunComplete`, `resolveRunFailed` and `CancelRun` are
`Report`, and every other step stutters. For failed runs `ExclInv` adds that the
node of a handler that has not given up its job is not completed (`ClaimInv`),
that inputs are built from completed nodes only (`StepsInv`), and that from the
moment a handler is about to mark the run failed, nobody can commit the saved node
(`SavedInv`, `FailedInv`).

**SuspendProofs.** A parked wait's job is acked although the wait is not done, so
`IInv` does not hold here. `Resolved`, the nodes with a final result, takes the
place of `Completed`: the counters and the queue follow it (`WaitDepsInv`,
`WaitReadyInv`), a continuation is that of an acked wait that is not resolved
(`ParkInv`), the wait of a resumer past its checks is still not resolved
(`ResumeInv`), and timer jobs belong to timer waits (`TimerInv`). `SoleResumer`
(one worker, one sender at a time, no wait with both a signal and a timer) is what
makes `ResumeInv` true: the checks of `resumeInstance` come before its
transaction.

**DagProofs.** Kahn's argument: `indegree[j]` is the number of names of `j`'s
dependencies that are not yet passed (`CountInv`; two names never stand for one
node, `NameInv`), and `order` and the work list together hold exactly the nodes whose
indegree is zero, each once (`LineInv`). At the end of the loop the nodes that were
not taken are therefore stuck, and if all were taken a stuck set would have a first
member in run order that needs an earlier one. That `order` is long enough exactly
when all nodes are in it is a counting argument on injections. For the jobs,
`ReachableStep` shows that what is reachable from a job is its dependents and what
is reachable from them, and a job's dependents come later in run order, so they are
built first. With `CyclesAreReported` the acyclicity in `DagAssumption`, on which the
proofs about runs rest, is a theorem about the code that accepts a workflow.

**RerunProofs.** As long as every rerun found the run at rest, a chain's run is in
one of seven shapes (`Rested`: its one job queued, held, dead-lettered, failed with
the continuation saved, finished, lost to a crash, or starting). Where the run can
still go on, the shape fixes the counters and which nodes have committed (those up
to one point of the chain), and while it has a job also `pending`. With parallel
branches there is no such point. `NothingIsRepeated` needs no shape: for every
workflow and every rerun, the commits of a node so far, the jobs of it there are and
the jobs that its counter or a restart can still enqueue are together at most
`1 + unrest` (`Budget`, in `RepeatInv`). A continue at rest puts back the one job that
the failure took away; any other rerun pays with `unrest`.

**TriggerProofs.** `ControlInv` says for each store call of a request what is
armed when it is made: in an update, only tasks of the old definition that are
still to be unregistered, and after the row is written, only tasks of the new one.
`WebhookInv` follows a sender: each workflow it has to start has its run or is
left to start. `MailInv`: a message has no run until it is seen, and a poll that
is still to start its run is the only one and finds it without one.
`DisabledStaysAtRest` is an action property; each step that would start or arm
something for a workflow needs a row that is enabled or a task that is armed.

**NodesProofs.** For the store, `SealerInv` says what the key file holds at each
step of a seal, and `PushedSealed` that a pushed value is in a whole file under
the key that is there. For nodes, no success is recorded under the key of a
handler that is to run the node (`HandlerInv`). The executions under a key are at
most `blind` and `unrecorded` together, plus one if the key has a recorded success
or the handler holds an execution it has not committed (`DedupeInv`): a commit turns
the second into the first, a crash or an expired claim into `unrecorded`, and a
failure before a lookup turns the record into `blind`. The
bookmark in the handler's hand is the stored one (`TapInv`), a record after the
bookmark has no emission that `behind` does not count (`EmitInv`), and every
record up to the bookmark is loaded or in an input that is on its way to a target
(`LoadInv`). `TargetLoadsAll` says that the target has no dedupe key and that
`SecretRetries` is at most `MaxAttempts`: a target skipped for its key loads
nothing, and a job that the queue gives up first leaves no continuation.

**McpProofs.** `McpInv` follows the final request of the client at work: it is
written once, it is the only one with the client's last id, and a result with that
id was given to it. The server's own messages may carry the id but never a result.

**ForeachProofs.** The counters are counts again, but of two kinds: that of an
ordinary node is the number of dependencies that have not committed, that of a
rejoin, once the foreach has committed, the number of iterations that have not.
Before that a rejoin's counter is the static one or the foreach's (`DepsInv`), and
when the foreach is about to commit it is the foreach's in every rejoin, however
often a crash cut the writes (`HandlerInv`). A rejoin has been enqueued if and only
if the foreach was skipped or the last of a nonempty list of iterations has
committed (`RejoinInv`), an iteration if and only if the foreach has committed
(`IterInv`), and an ordinary node when it waits for nothing (`PlainInv`). Each
enqueued id has at most one job and `pending` counts those not committed (`JobInv`,
`PendingInv`). For `CompletedRanAll`, with nothing pending the first node in run
order that has not committed would have been enqueued. `InRunOrderLists` shows that
the layout lists each dependent once. The hypotheses are shapes of workflows, and
`foreach` evaluates them (`RoutedShape`): `LoopAlone`, no node but the body depends
on the foreach, and the rejoins on nothing but the body; `SingleRoot`, as for
`WorkerProofs`; `NoBypass`, what follows a rejoin has rejoins on every way back.
Section 5 says what goes wrong without them.

The assumptions used are the named ASSUMEs of the modules, which TLC evaluates in
the runs. Well-founded orders enter through a least element (`LeastIndex`,
`LeastPosition`, `LeastNumber`, `ClosedSetIsAll`), because the induction theorems of the library
cannot be instantiated.

Every invariant and action property of the passing runs is proved. Only
model-checked is liveness (`Resolves`, `EndedRunDrains`, `TimerResumes`), since the
prover has neither fairness nor ENABLED; and `missed` shows a violation.

## 5. Where the code departs from its documents

`missed` is the run kept for this: a signal that `ResumeBySignal` looks up before
the park and buffers after it is never delivered, although ADR-0042 says that a
signal before the park is buffered and consumed by it. `PROJECT.json`, `findings`,
quotes the line, and those of two passing runs, `nodes` and `rerun`, whose
properties hold only because they count the repeats the documents rule out. The modules show the following too. Where a property of a run
excludes such a case, the change that brings it back is given.

Runs:

- A crash between the last commit and `SetRunStatus` (`worker.go:531`), or between
  `Job.Fail` and the status (`worker.go:1088`), leaves the run `running` for ever:
  `Resolves` fails in `live` with `MaxCrashes` 1. SPEC.md:1020 calls crashes safe.
- `handleSkip` marks all its dependents as skipped (`worker.go:431`): when the
  branch not chosen commits last, the rejoin does not run. ADR-0023:110 says it does.
- A handler at work writes `completed` or `failed` over `cancelled`
  (`worker.go:531`, `546`). That is why `Report` in `DagRun` may replace a report.
- Only the first of several initial nodes is enqueued (`runner.go:143`), and the
  run completes without the others: `CompletedMeansAllDone` fails in `pair` with a
  second root. SPEC.md:1016 speaks of the initial node(s).
- With `SecretRetries` above `MaxAttempts` the queue dead-letters the job before
  the worker's own limit (`worker.go:1073`): no failed status and no continuation.

Waits:

- `checkRunComplete` reads `pending` and then the status (`worker.go:524`); a resume
  in between makes it complete a run with a job in flight.
- One wait with a signal and a timer can be resumed twice, since the checks of
  `resumeInstance` come before its transaction (`suspend.go:367`):
  `EnqueuedAfterDependencies` fails in `waits` with both on one node. ADR-0042:88
  says that a second resume is a no-op.

Reruns:

- "The one re-enqueued node is the only pending work." (`runner.go:202`) holds for
  chains. On a fork the siblings' jobs were dropped at the failure: with `Preds` a
  fork, `RerunPendingExact` and `RerunCompletesTheRun` fail.
- The continuation is not deleted by a continue, so a second rerun of a running or
  completed run is accepted (`runner.go:174`, `197`). A `rerun-failed` job that is
  delivered again after a crash reruns again (`suspend.go:303`), while the first
  continue's job is in the queue or done, and the node commits a second time. Both
  add to `unrest`: with `commits[n] <= 1` for `ContinueRepeatsNothing`, `rerun` fails.
  ADR-0044:100 promises a resume "without redoing completed side effects", and
  ADR-0044:104 that the continuation is kept "until rerun or discard".
- A crash within a restart leaves the run `running` with no job.

Foreach:

- What follows a rejoin never runs: the rejoin is copied before its `Downstream` is
  built (`runner.go:128`), although the comments at `runner.go:43` and `131` say the
  copies carry everything. Without `n \in Beyond` in `CompletedRanAll`, `foreach` fails.
  A node that also depends on something else may or may not run: with `t` on `p` and
  on the rejoin `r` it runs when `p` commits last, which is what `NoBypass` excludes.
- Over an empty list nothing decrements the rejoins (`worker.go:565`): the run
  completes without them. Without `items > 0` in `CompletedRanAll`, `foreach` fails.
- A rejoin with a further dependency has its counter overwritten (`worker.go:572`), so
  it may run early: with `q` on `b` and `p`, its counter goes below zero and
  `ForeachTypeOK`, `RejoinCollectsAll` and `IterationsOnce` fail.
- The foreach's dependents other than the body are not decremented when it commits,
  and never run (`worker.go:589`). When it is skipped they are, but the rejoins come
  first in its `Downstream` (`runner.go:128`), so that the atom pairs them with the
  wrong counters: with `t` on `f` and `p`, `t` is enqueued twice and `IterationsOnce`
  fails. `LoopAlone` excludes both.
- A handler that outlives its claim resets counters that body jobs have begun to
  decrement. `Foreach` has no overruns.

Control plane and triggers:

- An update of a disabled workflow arms its schedules (`daemon.go:273`), so
  `SchedulesAgree` speaks of enabled workflows after an update.
- Submit over an existing name leaves the tasks of the old definition armed:
  `NoStaleSchedule` fails in `control` with `MayResubmit` TRUE. Two clients at once
  can do the same.
- The fires of a cron trigger share one run id whose counters are initialised at
  registration only (`daemon.go:304`, `runner.go:290`).
- A mail that was marked as seen is lost if the daemon dies or a store call fails
  before its run starts (`worker.go:654`, `daemon.go:714`). So is one the fetch did not
  return: its error is dropped and the whole search result marked (`gmail.go:104`,
  `112`), although the comment there speaks of "the fetched messages". `MailAtMostOnce`
  is all there is.

Nodes, secrets and MCP:

- A dedupe key that evaluates to nothing becomes the key `null`
  (`worker.go:763`), although `worker.go:747` says it is no key: two such runs share
  one execution. `KeyExpr` set to `Nothing` shows it.
- A failure before the lookup writes a failed record over a success
  (`commitFailed`), and the node runs again: `DedupeOnce` allows one per `blind`.
- A tap that emits no STATE resets the bookmark (`worker.go:855`); `behind` counts it.
- A side effect is repeated when the daemon dies, or its claim expires, between it
  and its commit, with a `dedupe_key` as without one: the record is written only in
  the commit (`worker.go:395`, `tx.go:199`). SPEC.md:1020 says "Crash safety against
  double-firing of side effects only applies to nodes that declare a `dedupe_key`",
  and SKILL.md:48 that the key "makes a side-effecting node run at most once per
  value". `DedupeOnce` allows one repeat per `unrecorded`; without that term `nodes`
  fails. An MCP tool's own error is committed as a success, dedupe
  record included.
- `varlock` is loaded once, so neither an unreachable source nor a changed value
  heals before a restart (`varlock.go:43`), although `worker.go:1042` retries for it.
- Two first seals at once, or one that dies with the key file empty, leave a store
  that nobody can read or seal into (`onbox.go:109`); hence one sealer in `seal`.
- The stdio client waits without a timeout (`mcp.go:175`): a silent server blocks
  the only worker. A line over 64 KB fails the call after the tool ran, and the
  retry runs it again (`LineTooLong`).
- Over stdio a request of the server's that has the client's id passes for a
  response without a result: harmless for the final request, whose result has to
  decode, but the probe then takes a classic server for a stateless one, and the
  final request fails. Over HTTP the response's id is not read at all.

## 6. Not modelled, and the plan

Left out for good: the arithmetic of signature verification, JSONata, the content
of subprocess and mail I/O, field-by-field validation, the mechanism registry and
capabilities report, configuration files and the CLI except `secret seal`. They
keep no state that other actors race on. The graceful drain is left out because a
drain that ends in time is a schedule of steps the modules already have, and one
that does not is a crash.

Next: a composition of `Suspend` with `Foreach` (waits in a body) and of `Rerun` with
overrunning handlers.
