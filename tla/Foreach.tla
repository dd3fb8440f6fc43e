------------------------------ MODULE Foreach -------------------------------
(***************************************************************************)
(* A run with one foreach node: how FromWafer lays out its jobs, how       *)
(* handleForeach fans the body out once per list element, and how the      *)
(* rejoins (the nodes that depend on the body) collect the iterations.     *)
(*                                                                         *)
(* A job carries the ids of its dependents and copies of their jobs, paired *)
(* by position, and the copies are what gets enqueued.  What a copy carries *)
(* is fixed by its node and by when it was taken, so a job records that and *)
(* DownstreamOf gives its lists.  One worker (the shipped number) takes the *)
(* store steps of Worker; its handlers do not outlive their claims.        *)
(***************************************************************************)
EXTENDS Integers, Sequences, FiniteSets

CONSTANTS
  Nodes, Preds,   \* the workflow, as in RunStore
  RunOrder,       \* the nodes in the run order of ResolveDAG
  Loop,           \* the foreach node
  Body,           \* its config.body
  SwitchNodes,    \* the nodes of type switch
  MaxItems,       \* bound on the length of the list
  MaxAttempts,    \* attempts per job
  MaxCrashes      \* bound on the daemon's crashes

ASSUME ForeachAssumption ==
  /\ Preds \in [Nodes -> SUBSET Nodes]
  /\ RunOrder \in Seq(Nodes) /\ Nodes = {RunOrder[i] : i \in DOMAIN RunOrder}
  /\ \A i, j \in DOMAIN RunOrder : RunOrder[i] = RunOrder[j] => i = j
  /\ \A i \in DOMAIN RunOrder : Preds[RunOrder[i]] \subseteq {RunOrder[j] : j \in 1..(i - 1)}
  /\ Loop \in Nodes /\ Body \in Nodes /\ Loop \in Preds[Body]
  /\ SwitchNodes \subseteq Nodes \ {Loop}
  /\ MaxItems \in Nat /\ MaxAttempts \in Nat \ {0} /\ MaxCrashes \in Nat

-----------------------------------------------------------------------------
(* FromWafer *)

Elems(s) == {s[i] : i \in DOMAIN s}

\* The nodes of S in run order.
InRunOrder(S) ==
  LET at == {i \in DOMAIN RunOrder : RunOrder[i] \in S}
  IN  [k \in 1..Cardinality(at) |->
         RunOrder[CHOOSE i \in at : Cardinality({j \in at : j < i}) = k - 1]]

\* Dependents.  The body is not a dependent of the foreach.
Dependents ==
  [n \in Nodes |-> InRunOrder({m \in Nodes : n \in Preds[m] /\ ~(n = Loop /\ m = Body)})]

Rejoins == Dependents[Body]

IsRejoin(n) == n \in Elems(Rejoins)

\* iter: the iteration of a body job, `<body>#<i>`, and 0 in every other job.
\* form: "bare" in a copy taken before Downstream was built.  mode: Skip.
NodeJob(n, form) ==
  [node |-> n, iter |-> 0, form |-> form, mode |-> "run", tries |-> 0]

\* The rejoins are copied into the foreach before any Downstream is built.
RejoinCopies == [i \in DOMAIN Rejoins |-> NodeJob(Rejoins[i], "bare")]

\* The rejoins come first in the foreach's Downstream, so that list is not
\* paired with its Dependents.
FullDownstream(n) ==
  LET copies == [i \in DOMAIN Dependents[n] |-> NodeJob(Dependents[n][i], "full")]
  IN  IF n = Loop THEN RejoinCopies \o copies ELSE copies

\* findDownstreamJob: the first entry with the rejoin's id is the early copy.
rejoinJobs == RejoinCopies

DownstreamOf(j) ==
  IF j.form = "bare" THEN <<>>
  ELSE IF j.iter > 0 THEN rejoinJobs
  ELSE FullDownstream(j.node)

HeadJob == NodeJob(RunOrder[1], "full")

-----------------------------------------------------------------------------

VARIABLES
  items,   \* the length of the list, the same in every attempt
  status,  \* runs.status
  pending, \* runs.pending
  deps,    \* run_deps.remaining
  result,  \* node_results, by node and iteration
  queue,   \* the claimable jobs
  h,       \* the worker's handler
  crashes, \* crashes so far
  issued,  \* how often each node or iteration was enqueued
  lost,    \* jobs that left the queue without a commit
  got      \* what each rejoin collected

vars == <<items, status, pending, deps, result, queue, h, crashes, issued, lost, got>>

Ids == Nodes \X (0..MaxItems)

Results == {"none", "ok", "skipped", "failed"}

Jobs == [node : Nodes, iter : 0..MaxItems, form : {"full", "bare"},
         mode : {"run", "skip"}, tries : 0..MaxAttempts]

Steps == {"idle", "status", "run", "setDeps", "commit", "failed", "setFailed",
          "readPending", "setCompleted"}

NoJob == NodeJob(Loop, "bare")

IdleHandler == [pc |-> "idle", job |-> NoJob, at |-> 1]

ForeachTypeOK ==
  /\ items \in 0..MaxItems
  /\ status \in {"running", "completed", "failed"}
  /\ pending \in Nat
  /\ deps \in [Nodes -> Nat]
  /\ result \in [Ids -> Results]
  /\ queue \in SUBSET Jobs
  /\ h \in [pc : Steps, job : Jobs, at : 1..(Len(Rejoins) + 1)]
  /\ crashes \in 0..MaxCrashes
  /\ issued \in [Ids -> Nat]
  /\ lost \in Nat
  /\ got \in [Nodes -> Seq(Results)]

\* A run that StartRun has just started.
Init ==
  /\ items \in 0..MaxItems
  /\ status = "running"
  /\ pending = 1
  /\ deps = [n \in Nodes |-> Cardinality(Preds[n])]
  /\ result = [id \in Ids |-> "none"]
  /\ queue = {HeadJob}
  /\ h = IdleHandler
  /\ crashes = 0
  /\ issued = [id \in Ids |-> IF id = <<RunOrder[1], 0>> THEN 1 ELSE 0]
  /\ lost = 0
  /\ got = [n \in Nodes |-> <<>>]

Goto(from, to) == h.pc = from /\ h' = [h EXCEPT !.pc = to]

Return(from) == h.pc = from /\ h' = IdleHandler

-----------------------------------------------------------------------------
(* handle *)

Claim ==
  /\ h.pc = "idle"
  /\ \E j \in queue :
       /\ queue' = queue \ {j}
       /\ h' = [IdleHandler EXCEPT !.pc = "status",
                  !.job = [j EXCEPT !.tries = IF @ < MaxAttempts THEN @ + 1 ELSE @]]
  /\ UNCHANGED <<items, status, pending, deps, result, crashes, issued, lost, got>>

HandleStatus ==
  /\ status = "running"
  /\ Goto("status", IF h.job.mode = "skip" THEN "commit" ELSE "run")
  /\ UNCHANGED <<items, status, pending, deps, result, queue, crashes, issued, lost, got>>

HandleDrop ==
  /\ status # "running"
  /\ Return("status")
  /\ lost' = lost + 1
  /\ UNCHANGED <<items, status, pending, deps, result, queue, crashes, issued, got>>

-----------------------------------------------------------------------------
(* The node runs *)

\* Mutant: all the iterations store their result under the body's id.
ResultIdShared(n, iter) == <<n, 0>>

\* Where CommitNodeAtom stores a job's result.
ResultId(n, iter) == <<n, iter>>

\* assembleForeachInput: the iterations' results in input order.
Collected == [i \in 1..items |-> result[<<Body, i>>]]

\* A plain, body or rejoin node, or a switch, succeeds.
RunNode ==
  /\ h.job.node # Loop
  /\ Goto("run", "commit")
  /\ got' = IF IsRejoin(h.job.node) THEN [got EXCEPT ![h.job.node] = Collected] ELSE got
  /\ UNCHANGED <<items, status, pending, deps, result, queue, crashes, issued, lost>>

\* runForeach returns the list.
RunForeach ==
  /\ h.job.node = Loop
  /\ Goto("run", "setDeps")
  /\ UNCHANGED <<items, status, pending, deps, result, queue, crashes, issued, lost, got>>

\* recordFailure: the failed row is written, then the job is retried ...
RunFails ==
  /\ Goto("run", "failed")
  /\ result' = [result EXCEPT ![ResultId(h.job.node, h.job.iter)] = "failed"]
  /\ UNCHANGED <<items, status, pending, deps, queue, crashes, issued, lost, got>>

Retry ==
  /\ h.job.tries < MaxAttempts
  /\ Return("failed")
  /\ queue' = queue \cup {h.job}
  /\ UNCHANGED <<items, status, pending, deps, result, crashes, issued, lost, got>>

\* ... or dead-lettered, and the run marked failed.
DeadLetter ==
  /\ h.job.tries >= MaxAttempts
  /\ Goto("failed", "setFailed")
  /\ lost' = lost + 1
  /\ UNCHANGED <<items, status, pending, deps, result, queue, crashes, issued, got>>

SetFailed ==
  /\ Return("setFailed")
  /\ status' = "failed"
  /\ UNCHANGED <<items, pending, deps, result, queue, crashes, issued, lost, got>>

-----------------------------------------------------------------------------
(* CommitNodeAtom for the job in hand *)

\* Mutant: the enqueued jobs are not counted.
PendingWithoutNew(new) == pending - 1

PendingAfter(new) == pending + Cardinality(new) - 1

\* The i-th downstream job is enqueued unless the i-th dependent still waits.
NewJobs(dependents, downstream) ==
  {downstream[i] : i \in {k \in DOMAIN downstream :
                            k <= Len(dependents) => deps[dependents[k]] - 1 = 0}}

CommitNodeAtom(res, dependents, downstream) ==
  LET new == NewJobs(dependents, downstream) IN
  /\ Goto("commit", "readPending")
  /\ result' = [result EXCEPT ![ResultId(h.job.node, h.job.iter)] = res]
  /\ deps' = [m \in Nodes |-> IF m \in Elems(dependents) THEN deps[m] - 1 ELSE deps[m]]
  /\ queue' = queue \cup new
  /\ issued' = [id \in Ids |-> issued[id]
                  + Cardinality({k \in new : <<k.node, k.iter>> = id})]
  /\ pending' = PendingAfter(new)
  /\ UNCHANGED <<items, status, crashes, lost, got>>

\* The copies that j hands on, the ones in S to be run and the others skipped.
Marked(j, S) ==
  [i \in DOMAIN DownstreamOf(j) |->
     [DownstreamOf(j)[i] EXCEPT !.mode = IF DownstreamOf(j)[i].node \in S THEN "run" ELSE "skip"]]

CommitNode ==
  /\ h.job.mode = "run" => h.job.node \notin SwitchNodes \cup {Loop}
  /\ IF h.job.mode = "skip"
       THEN CommitNodeAtom("skipped", Dependents[h.job.node], Marked(h.job, {}))
       ELSE CommitNodeAtom("ok", Dependents[h.job.node], Marked(h.job, Nodes))

\* Nothing checks that the choice is a dependent.
CommitSwitch ==
  /\ h.job.node \in SwitchNodes /\ h.job.mode = "run"
  /\ \E chosen \in Nodes :
       CommitNodeAtom("ok", Dependents[h.job.node], Marked(h.job, {chosen}))

-----------------------------------------------------------------------------
(* handleForeach *)

\* Mutant: the rejoin waits for all iterations but one.
IterationsButOne == items - 1

Iterations == items

\* SetRunDepsRemaining, one statement for each rejoin, before the commit.
SetRunDepsRemaining ==
  /\ h.pc = "setDeps"
  /\ h.at <= Len(Rejoins)
  /\ deps' = [deps EXCEPT ![Rejoins[h.at]] = Iterations]
  /\ h' = [h EXCEPT !.at = @ + 1]
  /\ UNCHANGED <<items, status, pending, result, queue, crashes, issued, lost, got>>

RejoinsSet ==
  /\ h.at > Len(Rejoins)
  /\ Goto("setDeps", "commit")
  /\ UNCHANGED <<items, status, pending, deps, result, queue, crashes, issued, lost, got>>

BodyJob(i) == [NodeJob(Body, "full") EXCEPT !.iter = i]

\* Mutant: the claim is not acked with the fan-out.
CommitForeachWithoutAck ==
  /\ h.job.node = Loop /\ h.job.mode = "run"
  /\ h.pc = "commit" /\ h' = [h EXCEPT !.pc = "failed"]
  /\ result' = [result EXCEPT ![ResultId(Loop, 0)] = "ok"]
  /\ queue' = queue \cup {BodyJob(i) : i \in 1..items}
  /\ issued' = [id \in Ids |-> IF id[1] = Body /\ id[2] \in 1..items
                                 THEN issued[id] + 1 ELSE issued[id]]
  /\ pending' = pending + items
  /\ UNCHANGED <<items, status, deps, crashes, lost, got>>

\* The atom has no dependents, so all the body jobs are enqueued; the foreach's
\* own dependents are not.
CommitForeach ==
  /\ h.job.node = Loop /\ h.job.mode = "run"
  /\ CommitNodeAtom("ok", <<>>, [i \in 1..items |-> BodyJob(i)])

-----------------------------------------------------------------------------
(* checkRunComplete *)

ReadPending ==
  /\ IF pending = 0 THEN Goto("readPending", "setCompleted") ELSE Return("readPending")
  /\ UNCHANGED <<items, status, pending, deps, result, queue, crashes, issued, lost, got>>

SetCompleted ==
  /\ Return("setCompleted")
  /\ status' = "completed"
  /\ UNCHANGED <<items, pending, deps, result, queue, crashes, issued, lost, got>>

\* The job in hand, if not yet acked or dead, is claimable when its claim expires.
InHand == h.pc \in {"status", "run", "setDeps", "commit", "failed"}

Crash ==
  /\ crashes < MaxCrashes
  /\ crashes' = crashes + 1
  /\ h' = IdleHandler
  /\ queue' = IF InHand THEN queue \cup {h.job} ELSE queue
  /\ UNCHANGED <<items, status, pending, deps, result, issued, lost, got>>

Next ==
  \/ Claim \/ HandleStatus \/ HandleDrop
  \/ RunNode \/ RunForeach \/ RunFails \/ Retry \/ DeadLetter \/ SetFailed
  \/ SetRunDepsRemaining \/ RejoinsSet \/ CommitForeach
  \/ CommitNode \/ CommitSwitch \/ ReadPending \/ SetCompleted
  \/ Crash

Spec == Init /\ [][Next]_vars

-----------------------------------------------------------------------------
(* Workflow shapes for which the theorems hold *)

\* No node but the body depends on the foreach, and what depends on the body
\* depends on nothing else.
LoopAlone ==
  /\ \A n \in Nodes : Loop \in Preds[n] => n = Body
  /\ \A n \in Nodes : Body \in Preds[n] => Preds[n] = {Body}

\* The only node without dependencies is the head.
SingleRoot == \A n \in Nodes : Preds[n] = {} => n = RunOrder[1]

\* The nodes with rejoins on every way back from them: the rejoins' copies leave
\* their jobs out.
Beyond ==
  UNION {S \in SUBSET Nodes :
           \A n \in S : Preds[n] # {} /\ \A m \in Preds[n] : IsRejoin(m) \/ m \in S}

\* What follows a rejoin has rejoins on every way back from it.
NoBypass ==
  \A n \in Nodes : (\E m \in Preds[n] : IsRejoin(m) \/ m \in Beyond) => n \in Beyond

-----------------------------------------------------------------------------
(* What makes a foreach correct *)

Skipped == result[<<Loop, 0>>] = "skipped"

(***************************************************************************)
(* A rejoin that runs has collected the result of every iteration, in      *)
(* order and none of them a failed attempt's: it is enqueued after the     *)
(* last one, although its counter is overwritten in a commit of its own    *)
(* before the fan-out and a crash may come in between.                     *)
(***************************************************************************)
RejoinCollectsAll ==
  \A n \in Nodes : IsRejoin(n) /\ result[<<n, 0>>] = "ok" =>
    got[n] = [i \in 1..items |-> "ok"]

(***************************************************************************)
(* A completed run has run (or skipped) every node up to the rejoins and,  *)
(* unless the list is empty or the foreach was skipped, the body once for  *)
(* every element (FromWafer, handleForeach, CommitNodeAtom).  The nodes    *)
(* after the rejoins are exempt because they never run: see the README.    *)
(***************************************************************************)
CompletedRanAll ==
  status = "completed" /\ (items > 0 \/ Skipped) =>
    /\ \A n \in Nodes \ {Body} : n \in Beyond \/ result[<<n, 0>>] \in {"ok", "skipped"}
    /\ Skipped \/ \A i \in 1..items : result[<<Body, i>>] = "ok"

(***************************************************************************)
(* Every node and every iteration is enqueued at most once, although       *)
(* handleForeach may run again after a crash.                              *)
(***************************************************************************)
IterationsOnce == \A id \in Ids : issued[id] <= 1
=============================================================================
