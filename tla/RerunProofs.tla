---------------------------- MODULE RerunProofs -----------------------------
(***************************************************************************)
(* Theorems about Rerun, for every number of operators, rerun-failed       *)
(* nodes, rerun requests, retries and crashes.  For every workflow, a node *)
(* commits again only for a rerun that found the run not at rest; for      *)
(* every chain, a run that is only rerun at rest goes on where it failed   *)
(* and completes when all of it has committed.                             *)
(***************************************************************************)
EXTENDS Rerun, FiniteSetTheorems, TLAPS

(***************************************************************************)
(* The workflow is a chain: every node but the head has one dependency,    *)
(* and no two nodes have the same one.  The hypothesis is needed: a run    *)
(* with parallel branches drops the other branches' jobs when one of them  *)
(* fails, and a continue takes up the saved node alone.                    *)
(***************************************************************************)
Chain ==
  /\ \A n \in Nodes \ {Root} : \E p \in Nodes : Preds[n] = {p}
  /\ \A m, n \in Nodes : Preds[m] \cap Preds[n] # {} => m = n

\* The nodes committed since the run last started, and those to go on with.
Committed == {n \in Nodes : commits[n] > 0}

Frontier == {n \in Nodes \ Committed : Preds[n] \subseteq Committed}

\* Node n is all there is to go on with, and the counters say so.
Continues(n) ==
  /\ Frontier = {n}
  /\ \A m \in Committed : Preds[m] \subseteq Committed
  /\ \A m \in Nodes : deps[m] = IF Preds[m] \subseteq Committed THEN 0 ELSE 1

\* The restarts between their commits.
Restarting == {c \in Callers : x[c].pc \in {"deps", "enqueue"}}

(***************************************************************************)
(* What a run that was only rerun at rest can look like: its one job is in *)
(* the queue, or in hand, or was dead-lettered; it failed; all of it is    *)
(* committed; a crash has lost it; or a restart is under way.              *)
(***************************************************************************)
Queued ==
  /\ \E j \in Jobs : queue = SetToBag({j}) /\ Continues(j.node)
  /\ h.pc \in {"idle", "readPending"}
  /\ status = "running" /\ pending = 1 /\ Restarting = {}

Held ==
  /\ queue = EmptyBag
  /\ h.pc \in {"status", "run", "saveCont", "failJob"} /\ Continues(h.job.node)
  /\ h.pc = "failJob" => fcont \in {h.job.node, NoNode}
  /\ status = "running" /\ pending = 1 /\ Restarting = {}

Dead ==
  /\ queue = EmptyBag
  /\ h.pc = "setFailed" /\ Continues(h.job.node) /\ fcont \in {h.job.node, NoNode}
  /\ status = "running" /\ Restarting = {}

Failed ==
  /\ queue = EmptyBag /\ h.pc = "idle"
  /\ fcont # NoNode => Continues(fcont)
  /\ status = "failed" /\ Restarting = {}

Finished ==
  /\ queue = EmptyBag /\ h.pc \in {"idle", "readPending", "setCompleted"}
  /\ Committed = Nodes
  /\ status \in {"running", "completed"} /\ Restarting = {}

Lost ==
  /\ queue = EmptyBag /\ h.pc = "idle"
  /\ status = "running" /\ Restarting = {}

Starting ==
  /\ queue = EmptyBag /\ h.pc = "idle"
  /\ Committed = {}
  /\ status = "running" /\ pending = 1
  /\ \E c \in Callers : Restarting = {c} /\ (x[c].pc = "enqueue" => deps = InitialDeps)

Shape == Queued \/ Held \/ Dead \/ Failed \/ Finished \/ Lost \/ Starting

\* A rerun past its read has a node to continue.
CallerInv == \A c \in Callers : x[c].pc = "tx" => x[c].node # NoNode

BaseTypeOK ==
  /\ status \in {"running", "completed", "failed"}
  /\ pending \in Int /\ deps \in [Nodes -> Int]
  /\ fcont \in Nodes \cup {NoNode}
  /\ IsABag(queue) /\ BagToSet(queue) \subseteq Jobs
  /\ h \in Handlers
  /\ x \in [Callers -> Calls]
  /\ asked \in Nat /\ reruns \in 0..MaxReruns /\ crashes \in 0..MaxCrashes
  /\ commits \in [Nodes -> Nat]
  /\ unrest \in Nat

Rested ==
  /\ Shape
  /\ \A n \in Nodes : commits[n] <= 1
  /\ pending \in Nat /\ deps \in [Nodes -> Nat]

RerunInv == BaseTypeOK /\ CallerInv /\ (unrest = 0 => Rested)

-----------------------------------------------------------------------------
(* Bags of jobs *)

(***************************************************************************)
(* A bag of jobs stays one when jobs are added or taken out (the enqueues, *)
(* the fan-out, the claim).                                                *)
(***************************************************************************)
LEMMA BagTypes ==
  ASSUME NEW B, IsABag(B), BagToSet(B) \subseteq Jobs, NEW S \in SUBSET Jobs
  PROVE  /\ IsABag(B (+) SetToBag(S)) /\ BagToSet(B (+) SetToBag(S)) \subseteq Jobs
         /\ IsABag(B (-) SetToBag(S)) /\ BagToSet(B (-) SetToBag(S)) \subseteq Jobs
<1>0. DOMAIN B \subseteq Jobs /\ \A e \in DOMAIN B : B[e] \in Nat /\ B[e] > 0
  BY DEF IsABag, BagToSet
<1>1. IsABag(B (+) SetToBag(S)) /\ BagToSet(B (+) SetToBag(S)) \subseteq Jobs
  BY <1>0 DEF IsABag, BagToSet, SetToBag, (+)
<1>2. IsABag(B (-) SetToBag(S)) /\ BagToSet(B (-) SetToBag(S)) \subseteq Jobs
  BY <1>0 DEF IsABag, BagToSet, SetToBag, (-)
<1> QED
  BY <1>1, <1>2

(***************************************************************************)
(* The queue with one job.                                                 *)
(***************************************************************************)
LEMMA SingleJob ==
  ASSUME NEW j
  PROVE  /\ BagToSet(SetToBag({j})) = {j}
         /\ SetToBag({j}) (-) SetToBag({j}) = EmptyBag
         /\ SetToBag({j}) # EmptyBag
<1>1. DOMAIN SetToBag({j}) = {j} /\ DOMAIN EmptyBag = {}
  BY DEF SetToBag, EmptyBag
<1>2. SetToBag({j}) (-) SetToBag({j}) = EmptyBag
  BY DEF (-), EmptyBag, SetToBag
<1> QED
  BY <1>1, <1>2 DEF BagToSet

(***************************************************************************)
(* What is enqueued in an empty queue is all there is in it.               *)
(***************************************************************************)
LEMMA AddToEmpty ==
  ASSUME NEW S
  PROVE  EmptyBag (+) SetToBag(S) = SetToBag(S)
  BY DEF EmptyBag, SetToBag, (+)

-----------------------------------------------------------------------------
(* Types *)

(***************************************************************************)
(* The idle handler, the idle caller and a new job have their types.       *)
(***************************************************************************)
LEMMA Idles ==
  /\ IdleHandler \in Handlers /\ IdleHandler.pc = "idle"
  /\ IdleCaller \in Calls /\ IdleCaller.pc = "idle"
  /\ \A n \in Nodes : NewJob(n) \in Jobs /\ NewJob(n).node = n
<1>1. 0 \in 0..MaxAttempts
  BY RerunAssumption
<1> QED
  BY <1>1, RerunAssumption
  DEF IdleHandler, Handlers, Jobs, IdleCaller, Calls, Modes, NewJob

(***************************************************************************)
(* A step of caller c changes the entry of c alone; only RestartCreate and *)
(* RestartDeps leave the caller between the commits of a restart.          *)
(***************************************************************************)
LEMMA CallerRecord ==
  ASSUME BaseTypeOK, NEW c \in Callers,
         OperatorAsks(c) \/ NodeAsks(c) \/ CallerStep(c)
  PROVE  \E r \in Calls : /\ x' = [x EXCEPT ![c] = r]
                          /\ r.pc = "tx" => r.node # NoNode
                          /\ r.pc = "deps" <=> RestartCreate(c)
                          /\ r.pc = "enqueue" <=> RestartDeps(c)
<1>0. x \in [Callers -> Calls] /\ x[c] \in Calls /\ fcont \in Nodes \cup {NoNode}
  BY DEF BaseTypeOK
<1>1. CASE RestartCreate(c)
  <2> DEFINE r == [x[c] EXCEPT !.pc = "deps"]
  <2>1. r \in Calls /\ r.pc = "deps" /\ x' = [x EXCEPT ![c] = r] /\ ~RestartDeps(c)
    BY <1>0, <1>1 DEF RestartCreate, RestartDeps, Calls
  <2> QED
    BY <1>1, <2>1
<1>2. CASE RestartDeps(c)
  <2> DEFINE r == [x[c] EXCEPT !.pc = "enqueue"]
  <2>1. r \in Calls /\ r.pc = "enqueue" /\ x' = [x EXCEPT ![c] = r] /\ ~RestartCreate(c)
    BY <1>0, <1>2 DEF RestartCreate, RestartDeps, Calls
  <2> QED
    BY <1>2, <2>1
<1>3. CASE ~RestartCreate(c) /\ ~RestartDeps(c)
  <2>1. CASE OperatorAsks(c) \/ NodeAsks(c)
    <3>1. PICK m \in Modes : x' = [x EXCEPT ![c].pc = "read", ![c].mode = m]
      BY <2>1 DEF OperatorAsks, NodeAsks
    <3> DEFINE r == [x[c] EXCEPT !.pc = "read", !.mode = m]
    <3>2. r \in Calls /\ r.pc = "read" /\ x' = [x EXCEPT ![c] = r]
      BY <1>0, <3>1 DEF Calls
    <3> QED
      BY <1>3, <3>2
  <2>2. CASE x' = [x EXCEPT ![c] = IdleCaller]
    BY <1>3, <2>2, Idles
  <2>3. CASE x' = [x EXCEPT ![c].pc = "commit"]
    <3> DEFINE r == [x[c] EXCEPT !.pc = "commit"]
    <3>1. r \in Calls /\ r.pc = "commit" /\ x' = [x EXCEPT ![c] = r]
      BY <1>0, <2>3 DEF Calls
    <3> QED
      BY <1>3, <3>1
  <2>4. CASE fcont # NoNode /\ x' = [x EXCEPT ![c].pc = "tx", ![c].node = fcont]
    <3> DEFINE r == [x[c] EXCEPT !.pc = "tx", !.node = fcont]
    <3>1. r \in Calls /\ r.pc = "tx" /\ r.node = fcont /\ x' = [x EXCEPT ![c] = r]
      BY <1>0, <2>4 DEF Calls
    <3> QED
      BY <1>3, <2>4, <3>1
  <2>5. \/ OperatorAsks(c) \/ NodeAsks(c)
        \/ x' = [x EXCEPT ![c] = IdleCaller]
        \/ x' = [x EXCEPT ![c].pc = "commit"]
        \/ fcont # NoNode /\ x' = [x EXCEPT ![c].pc = "tx", ![c].node = fcont]
    BY <1>3 DEF CallerStep, GetFailedContinuation, rerunContinue, RestartRefused,
       RestartEnqueue, Discard, NodeCommits, Rerun
  <2> QED
    BY <2>1, <2>2, <2>3, <2>4, <2>5
<1> QED
  BY <1>1, <1>2, <1>3

(***************************************************************************)
(* The counters of a new run.                                              *)
(***************************************************************************)
LEMMA InitialDepsType == InitialDeps \in [Nodes -> Nat]
<1>1. \A n \in Nodes : Cardinality(Preds[n]) \in Nat
  BY RerunAssumption, FS_Subset, FS_CardinalityType
<1> QED
  BY <1>1 DEF InitialDeps

(***************************************************************************)
(* Every step keeps the types, the run rested or not.                      *)
(***************************************************************************)
LEMMA BaseTypeStep ==
  ASSUME BaseTypeOK, CallerInv, Next
  PROVE  BaseTypeOK' /\ CallerInv'
<1>0. /\ status \in {"running", "completed", "failed"}
      /\ pending \in Int /\ deps \in [Nodes -> Int]
      /\ fcont \in Nodes \cup {NoNode}
      /\ IsABag(queue) /\ BagToSet(queue) \subseteq Jobs
      /\ h \in Handlers
      /\ x \in [Callers -> Calls]
      /\ asked \in Nat /\ reruns \in 0..MaxReruns /\ crashes \in 0..MaxCrashes
      /\ commits \in [Nodes -> Nat]
      /\ unrest \in Nat
  BY DEF BaseTypeOK
<1>1. h.job \in Jobs /\ h.job.node \in Nodes
  BY <1>0 DEF Handlers, Jobs
<1>2. CASE WorkerStep
  <2>0. UNCHANGED <<x, reruns, crashes, unrest>>
    BY <1>2 DEF WorkerStep, Claim, HandleStatus, Commit, RunRetry, RunFails, SaveCont,
       DeadLetter, SetFailed, ReadPending, SetCompleted, ghostVars
  <2>1. CASE Claim
    <3>1. PICK j \in BagToSet(queue) :
            /\ queue' = queue (-) SetToBag({j})
            /\ h' = [pc |-> "status",
                     job |-> [j EXCEPT !.tries = IF @ < MaxAttempts THEN @ + 1 ELSE @]]
      BY <2>1 DEF Claim
    <3>2. j \in Jobs
      BY <1>0, <3>1
    <3>3. [j EXCEPT !.tries = IF @ < MaxAttempts THEN @ + 1 ELSE @] \in Jobs
      BY <3>2, RerunAssumption DEF Jobs
    <3>4. h' \in Handlers
      BY <3>1, <3>3 DEF Handlers
    <3>5. IsABag(queue') /\ BagToSet(queue') \subseteq Jobs
      BY <1>0, <3>1, <3>2, BagTypes
    <3>6. UNCHANGED <<status, pending, deps, fcont, asked, commits>>
      BY <2>1 DEF Claim, ghostVars
    <3> QED
      BY <1>0, <2>0, <3>4, <3>5, <3>6 DEF BaseTypeOK, CallerInv
  <2>2. CASE Commit
    <3> DEFINE n == h.job.node
               after == {m \in Nodes : n \in Preds[m]}
               ready == {m \in after : deps[m] - 1 = 0}
    <3>1. /\ h' = [h EXCEPT !.pc = "readPending"]
          /\ deps' = [m \in Nodes |-> IF m \in after THEN deps[m] - 1 ELSE deps[m]]
          /\ queue' = queue (+) SetToBag({NewJob(m) : m \in ready})
          /\ pending' = pending + Cardinality(ready) - 1
          /\ commits' = [commits EXCEPT ![n] = @ + 1]
          /\ UNCHANGED <<status, fcont, asked>>
      BY <2>2 DEF Commit, Goto
    <3>2. ready \in SUBSET Nodes /\ {NewJob(m) : m \in ready} \in SUBSET Jobs
      BY Idles
    <3>3. Cardinality(ready) \in Nat
      BY <3>2, RerunAssumption, FS_Subset, FS_CardinalityType
    <3>4. IsABag(queue') /\ BagToSet(queue') \subseteq Jobs
      BY <1>0, <3>1, <3>2, BagTypes
    <3>5. deps' \in [Nodes -> Int]
      BY <1>0, <3>1
    <3>6. pending' \in Int
      BY <1>0, <3>1, <3>3
    <3>7. commits' \in [Nodes -> Nat]
      BY <1>0, <1>1, <3>1
    <3>8. h' \in Handlers
      BY <1>0, <3>1 DEF Handlers
    <3> QED
      BY <1>0, <2>0, <3>1, <3>4, <3>5, <3>6, <3>7, <3>8 DEF BaseTypeOK, CallerInv
  <2>3. CASE RunRetry
    <3>1. /\ h' = IdleHandler /\ queue' = queue (+) SetToBag({h.job})
          /\ UNCHANGED <<status, pending, deps, fcont, asked, commits>>
      BY <2>3 DEF RunRetry, Return, ghostVars
    <3>2. IsABag(queue') /\ BagToSet(queue') \subseteq Jobs
      BY <1>0, <1>1, <3>1, BagTypes
    <3> QED
      BY <1>0, <2>0, <3>1, <3>2, Idles DEF BaseTypeOK, CallerInv
  <2>4. CASE HandleStatus \/ RunFails \/ SaveCont \/ DeadLetter \/ SetFailed
             \/ ReadPending \/ SetCompleted
    <3>1. \/ h' = IdleHandler
          \/ \E p \in {"run", "saveCont", "failJob", "setFailed", "setCompleted"} :
               h' = [h EXCEPT !.pc = p]
      BY <2>4 DEF HandleStatus, RunFails, SaveCont, DeadLetter, SetFailed, ReadPending,
         SetCompleted, Goto, Return
    <3>2. h' \in Handlers
      BY <1>0, <3>1, Idles DEF Handlers
    <3>3. UNCHANGED <<pending, deps, queue, commits>>
      BY <2>4 DEF HandleStatus, RunFails, SaveCont, DeadLetter, SetFailed, ReadPending,
         SetCompleted, storeVars, ghostVars
    <3>4. /\ status' \in {"running", "completed", "failed"}
          /\ fcont' \in Nodes \cup {NoNode} /\ asked' \in Nat
      BY <1>0, <1>1, <2>4 DEF HandleStatus, RunFails, SaveCont, DeadLetter, SetFailed,
         ReadPending, SetCompleted, storeVars, ghostVars
    <3> QED
      BY <1>0, <2>0, <3>2, <3>3, <3>4 DEF BaseTypeOK, CallerInv
  <2> QED
    BY <1>2, <2>1, <2>2, <2>3, <2>4 DEF WorkerStep
<1>3. ASSUME NEW c \in Callers, OperatorAsks(c) \/ NodeAsks(c) \/ CallerStep(c)
      PROVE  BaseTypeOK' /\ CallerInv'
  <2>1. PICK r \in Calls : /\ x' = [x EXCEPT ![c] = r]
                           /\ r.pc = "tx" => r.node # NoNode
    BY <1>3, CallerRecord
  <2>2. x' \in [Callers -> Calls] /\ CallerInv'
    BY <1>0, <2>1 DEF CallerInv
  <2>3. UNCHANGED <<h, crashes>>
    BY <1>3 DEF OperatorAsks, NodeAsks, CallerStep, GetFailedContinuation, rerunContinue,
       RestartRefused, RestartCreate, RestartDeps, RestartEnqueue, Discard, NodeCommits
  <2>4. asked' \in Nat /\ reruns' \in 0..MaxReruns
    BY <1>0, <1>3, RerunAssumption
    DEF OperatorAsks, NodeAsks, CallerStep, GetFailedContinuation, rerunContinue,
       RestartRefused, RestartCreate, RestartDeps, RestartEnqueue, Discard, NodeCommits
  <2>5. CASE rerunContinue(c)
    <3>1. x[c].node \in Nodes
      BY <1>0, <2>5 DEF rerunContinue, CallerInv, Calls
    <3>2. /\ status' = "running" /\ pending' = 1
          /\ queue' = queue (+) SetToBag({NewJob(x[c].node)})
          /\ UNCHANGED <<deps, fcont, commits>>
      BY <2>5 DEF rerunContinue, PendingAfterContinue, NodeToContinue
    <3>3. IsABag(queue') /\ BagToSet(queue') \subseteq Jobs
      BY <1>0, <3>1, <3>2, BagTypes, Idles
    <3>4. unrest' \in Nat
      BY <1>0, <2>5 DEF rerunContinue
    <3> QED
      BY <1>0, <2>2, <2>3, <2>4, <3>2, <3>3, <3>4 DEF BaseTypeOK
  <2>6. CASE RestartCreate(c)
    <3>1. /\ status' = "running" /\ pending' = 1
          /\ commits' = [n \in Nodes |-> 0]
          /\ unrest' \in {unrest, unrest + 1}
          /\ UNCHANGED <<deps, fcont, queue>>
      BY <2>6 DEF RestartCreate
    <3>2. unrest' \in Nat /\ commits' \in [Nodes -> Nat]
      BY <1>0, <3>1
    <3> QED
      BY <1>0, <2>2, <2>3, <2>4, <3>1, <3>2 DEF BaseTypeOK
  <2>7. CASE RestartEnqueue(c)
    <3>1. /\ queue' = queue (+) SetToBag({NewJob(Root)})
          /\ UNCHANGED <<status, pending, deps, fcont, commits, unrest>>
      BY <2>7 DEF RestartEnqueue, ghostVars
    <3>2. IsABag(queue') /\ BagToSet(queue') \subseteq Jobs
      BY <1>0, <3>1, RerunAssumption, BagTypes, Idles
    <3> QED
      BY <1>0, <2>2, <2>3, <2>4, <3>1, <3>2 DEF BaseTypeOK
  <2>8. CASE ~rerunContinue(c) /\ ~RestartCreate(c) /\ ~RestartEnqueue(c)
    <3>1. UNCHANGED <<status, pending, queue, commits, unrest>>
      BY <1>3, <2>8 DEF OperatorAsks, NodeAsks, CallerStep, GetFailedContinuation,
         RestartRefused, RestartDeps, Discard, NodeCommits, storeVars, ghostVars
    <3>2. deps' \in {deps, InitialDeps} /\ fcont' \in {fcont, NoNode}
      BY <1>3, <2>8 DEF OperatorAsks, NodeAsks, CallerStep, GetFailedContinuation,
         RestartRefused, RestartDeps, Discard, NodeCommits, storeVars
    <3>3. deps' \in [Nodes -> Int]
      BY <1>0, <3>2, InitialDepsType
    <3>4. fcont' \in Nodes \cup {NoNode}
      BY <1>0, <3>2
    <3> QED
      BY <1>0, <2>2, <2>3, <2>4, <3>1, <3>3, <3>4 DEF BaseTypeOK
  <2> QED
    BY <2>5, <2>6, <2>7, <2>8
<1>4. CASE Crash
  <2>1. /\ crashes < MaxCrashes /\ crashes' = crashes + 1 /\ h' = IdleHandler
        /\ queue' = IF h.pc \in {"status", "run", "saveCont", "failJob"}
                      THEN queue (+) SetToBag({h.job}) ELSE queue
        /\ x' = [c \in Callers |-> IdleCaller]
        /\ asked' = asked + Cardinality({c \in RerunNodes : x[c].pc # "idle"})
        /\ UNCHANGED <<status, pending, deps, fcont, reruns, commits, unrest>>
    BY <1>4 DEF Crash, ghostVars
  <2>2. IsABag(queue') /\ BagToSet(queue') \subseteq Jobs
    BY <1>0, <1>1, <2>1, BagTypes
  <2>3. asked' \in Nat
    <3>1. Cardinality({c \in RerunNodes : x[c].pc # "idle"}) \in Nat
      BY RerunAssumption, FS_Subset, FS_CardinalityType
    <3> QED
      BY <1>0, <2>1, <3>1
  <2>4. crashes' \in 0..MaxCrashes
    BY <1>0, <2>1, RerunAssumption
  <2>5. x' \in [Callers -> Calls] /\ CallerInv'
    BY <2>1, Idles DEF CallerInv
  <2> QED
    BY <1>0, <2>1, <2>2, <2>3, <2>4, <2>5, Idles DEF BaseTypeOK
<1> QED
  BY <1>2, <1>3, <1>4 DEF Next, Callers

-----------------------------------------------------------------------------
(* A run that is only rerun at rest *)

(***************************************************************************)
(* What is committed, and where the run goes on, depends on the counters   *)
(* and the commits alone.                                                  *)
(***************************************************************************)
LEMMA KeepProgress ==
  ASSUME commits' = commits, deps' = deps
  PROVE  /\ Committed' = Committed /\ Frontier' = Frontier
<1>1. Committed' = Committed
  BY DEF Committed
<1>2. Frontier' = Frontier
  BY <1>1 DEF Frontier
<1> QED
  BY <1>1, <1>2

(***************************************************************************)
(* A commit moves a chain's run on by one node, or finishes it.            *)
(***************************************************************************)
LEMMA CommitMovesOn ==
  ASSUME Chain, NEW n \in Nodes, Continues(n), commits \in [Nodes -> Nat],
         commits' = [commits EXCEPT ![n] = @ + 1],
         deps' = [m \in Nodes |-> IF n \in Preds[m] THEN deps[m] - 1 ELSE deps[m]]
  PROVE  LET ready == {m \in {k \in Nodes : n \in Preds[k]} : deps[m] - 1 = 0} IN
         /\ commits[n] = 0
         /\ \/ ready = {} /\ Committed' = Nodes
            \/ \E m \in Nodes : ready = {m} /\ Continues(m)'
         /\ deps' \in [Nodes -> Nat]
<1> DEFINE ready == {m \in {k \in Nodes : n \in Preds[k]} : deps[m] - 1 = 0}
<1>1. n \notin Committed /\ commits[n] = 0 /\ Frontier = {n}
  BY DEF Continues, Frontier, Committed
<1>2. Committed' = Committed \cup {n}
  BY DEF Committed
<1>3. \A m \in Nodes : n \in Preds[m] => Preds[m] = {n} /\ m # n /\ m \notin Committed
  <2> SUFFICES ASSUME NEW m \in Nodes, n \in Preds[m]
               PROVE  Preds[m] = {n} /\ m # n /\ m \notin Committed
    OBVIOUS
  <2>1. m # Root
    BY RerunAssumption
  <2>2. Preds[m] = {n}
    BY <2>1 DEF Chain
  <2>3. m \notin Committed
    BY <1>1 DEF Continues
  <2>4. m # n
    BY <2>2, RerunAssumption
  <2> QED
    BY <2>2, <2>3, <2>4
<1>4. \A m \in Nodes : n \in Preds[m] => deps[m] = 1
  BY <1>1 DEF Continues
<1>5. ready = {k \in Nodes : n \in Preds[k]}
  BY <1>4
<1>6. Frontier' = ready
  <2>1. ASSUME NEW m \in Frontier' PROVE m \in ready
    <3>1. m \in Nodes /\ m \notin Committed /\ m # n /\ Preds[m] \subseteq Committed \cup {n}
      BY <1>2 DEF Frontier
    <3>2. n \in Preds[m]
      BY <1>1, <3>1 DEF Frontier
    <3> QED
      BY <1>5, <3>1, <3>2
  <2>2. ASSUME NEW m \in ready PROVE m \in Frontier'
    BY <1>2, <1>3 DEF Frontier
  <2> QED
    BY <2>1, <2>2
<1>7. \A m \in Committed' : Preds[m] \subseteq Committed'
  BY <1>1, <1>2 DEF Continues, Frontier
<1>8. \A m \in Nodes : deps'[m] = IF Preds[m] \subseteq Committed' THEN 0 ELSE 1
  <2> SUFFICES ASSUME NEW m \in Nodes
               PROVE  deps'[m] = IF Preds[m] \subseteq Committed' THEN 0 ELSE 1
    OBVIOUS
  <2>1. CASE n \in Preds[m]
    BY <1>2, <1>3, <1>4, <2>1
  <2>2. CASE n \notin Preds[m]
    BY <1>2, <2>2 DEF Continues
  <2> QED
    BY <2>1, <2>2
<1>9. deps' \in [Nodes -> Nat]
  BY <1>8
<1>10. CASE ready = {}
  <2>1. Committed' = Nodes
    <3>1. SUFFICES ASSUME Nodes \ Committed' # {} PROVE FALSE
      BY DEF Committed
    <3>2. PICK m \in Nodes \ Committed' : Preds[m] \cap (Nodes \ Committed') = {}
      BY <3>1, RerunAssumption
    <3>3. Preds[m] \subseteq Committed'
      BY <3>2, RerunAssumption
    <3> QED
      BY <1>6, <1>10, <3>2, <3>3 DEF Frontier
  <2> QED
    BY <1>1, <1>9, <1>10, <2>1
<1>11. CASE ready # {}
  <2>1. PICK m \in ready : TRUE
    BY <1>11
  <2>2. ready = {m}
    <3>1. ASSUME NEW k \in ready PROVE k = m
      BY <1>3, <2>1 DEF Chain
    <3> QED
      BY <2>1, <3>1
  <2>3. Continues(m)'
    BY <1>6, <1>7, <1>8, <2>2 DEF Continues
  <2> QED
    BY <1>1, <1>9, <2>1, <2>2, <2>3
<1> QED
  BY <1>10, <1>11

(***************************************************************************)
(* A new run of a chain goes on with its head.                             *)
(***************************************************************************)
LEMMA StartsAtHead ==
  ASSUME Chain, Committed = {}, deps = InitialDeps
  PROVE  Continues(Root)
<1>1. \A n \in Nodes : Preds[n] = {} <=> n = Root
  BY RerunAssumption DEF Chain
<1>2. Frontier = {Root}
  BY <1>1, RerunAssumption DEF Frontier
<1>3. ASSUME NEW n \in Nodes
      PROVE  deps[n] = IF Preds[n] \subseteq Committed THEN 0 ELSE 1
  <2>1. deps[n] = Cardinality(Preds[n])
    BY DEF InitialDeps
  <2>2. CASE n = Root
    BY <1>1, <2>1, <2>2, FS_EmptySet
  <2>3. CASE n # Root
    <3>1. PICK p \in Nodes : Preds[n] = {p}
      BY <2>3 DEF Chain
    <3>2. Cardinality(Preds[n]) = 1
      BY <3>1, FS_Singleton
    <3> QED
      BY <2>1, <3>1, <3>2
  <2> QED
    BY <2>2, <2>3
<1> QED
  BY <1>2, <1>3 DEF Continues

(***************************************************************************)
(* A run that has just been started is rested.                             *)
(***************************************************************************)
LEMMA InitRerun ==
  ASSUME Chain, Init
  PROVE  RerunInv
<1> USE DEF Init
<1>1. NewJob(Root) \in Jobs /\ NewJob(Root).node = Root
  BY Idles, RerunAssumption
<1>2. IsABag(queue) /\ BagToSet(queue) \subseteq Jobs
  <2>1. DOMAIN queue = {NewJob(Root)} /\ queue[NewJob(Root)] = 1
    BY DEF SetToBag
  <2>2. IsABag(queue)
    BY DEF SetToBag, IsABag
  <2> QED
    BY <1>1, <2>1, <2>2 DEF BagToSet
<1>3. deps \in [Nodes -> Nat]
  BY InitialDepsType
<1>4. BaseTypeOK
  <2>1. x \in [Callers -> Calls] /\ h \in Handlers /\ commits \in [Nodes -> Nat]
    BY Idles
  <2>2. reruns \in 0..MaxReruns /\ crashes \in 0..MaxCrashes
    BY RerunAssumption
  <2>3. deps \in [Nodes -> Int]
    BY <1>3
  <2>4. unrest \in Nat
    OBVIOUS
  <2> QED
    BY <1>2, <2>1, <2>2, <2>3, <2>4 DEF BaseTypeOK
<1>5. CallerInv /\ Restarting = {}
  BY Idles DEF CallerInv, Restarting
<1>6. Committed = {}
  BY DEF Committed
<1>7. Queued
  BY <1>1, <1>5, <1>6, StartsAtHead, Idles DEF Queued
<1> QED
  BY <1>3, <1>4, <1>5, <1>7 DEF RerunInv, Rested, Shape

(***************************************************************************)
(* The worker's steps keep a rested run rested.                            *)
(***************************************************************************)
LEMMA WorkerRested ==
  ASSUME Chain, BaseTypeOK, Rested, WorkerStep
  PROVE  Rested'
<1>0. /\ h \in Handlers /\ h.job \in Jobs /\ h.job.node \in Nodes
      /\ commits \in [Nodes -> Nat] /\ BagToSet(queue) \subseteq Jobs
      /\ pending \in Nat /\ deps \in [Nodes -> Nat]
      /\ \A n \in Nodes : commits[n] <= 1
      /\ Shape
  BY DEF BaseTypeOK, Rested, Handlers, Jobs
<1>1. x' = x
  BY DEF WorkerStep, Claim, HandleStatus, Commit, RunRetry, RunFails, SaveCont,
     DeadLetter, SetFailed, ReadPending, SetCompleted
<1>2. Restarting' = Restarting
  BY <1>1 DEF Restarting
<1>3. IdleHandler.pc = "idle"
  BY Idles
<1>4. ASSUME commits' = commits, deps' = deps, pending' = pending, Shape'
      PROVE  Rested'
  BY <1>0, <1>4 DEF Rested
<1>5. CASE Claim
  <2>1. PICK j \in BagToSet(queue) :
          /\ queue' = queue (-) SetToBag({j})
          /\ h' = [pc |-> "status",
                   job |-> [j EXCEPT !.tries = IF @ < MaxAttempts THEN @ + 1 ELSE @]]
    BY <1>5 DEF Claim
  <2>2. /\ UNCHANGED <<status, pending, deps, fcont, commits>> /\ h.pc = "idle"
    BY <1>5 DEF Claim, ghostVars
  <2>3. queue # EmptyBag
    BY <2>1 DEF BagToSet, EmptyBag, SetToBag
  <2>4. Queued
    BY <1>0, <2>3 DEF Shape, Held, Dead, Failed, Finished, Lost, Starting
  <2>5. queue = SetToBag({j}) /\ Continues(j.node)
    <3>1. PICK k \in Jobs : queue = SetToBag({k}) /\ Continues(k.node)
      BY <2>4 DEF Queued
    <3>2. j = k
      BY <2>1, <3>1, SingleJob
    <3> QED
      BY <3>1, <3>2
  <2>6. queue' = EmptyBag
    BY <2>1, <2>5, SingleJob
  <2>7. j \in Jobs
    BY <1>0, <2>1
  <2>8. h'.pc = "status" /\ h'.job.node = j.node
    BY <2>1, <2>7 DEF Jobs
  <2>9. Committed' = Committed /\ Frontier' = Frontier
    BY <2>2, KeepProgress
  <2>10. Held'
    BY <1>2, <2>2, <2>4, <2>5, <2>6, <2>8, <2>9 DEF Held, Queued, Continues
  <2> QED
    BY <1>4, <2>2, <2>10 DEF Shape
<1>6. CASE Commit
  <2> DEFINE n == h.job.node
             ready == {m \in {k \in Nodes : n \in Preds[k]} : deps[m] - 1 = 0}
  <2>1. /\ h.pc = "run" /\ h' = [h EXCEPT !.pc = "readPending"]
        /\ queue' = queue (+) SetToBag({NewJob(m) : m \in ready})
        /\ pending' = pending + Cardinality(ready) - 1
        /\ commits' = [commits EXCEPT ![n] = @ + 1]
        /\ UNCHANGED <<status, fcont>>
    BY <1>6 DEF Commit, Goto
  <2>2. deps' = [m \in Nodes |-> IF n \in Preds[m] THEN deps[m] - 1 ELSE deps[m]]
    BY <1>6 DEF Commit
  <2>3. Held
    BY <1>0, <2>1 DEF Shape, Queued, Dead, Failed, Finished, Lost, Starting
  <2>4. Continues(n)
    BY <2>3 DEF Held
  <2>5. /\ commits[n] = 0
        /\ \/ ready = {} /\ Committed' = Nodes
           \/ \E m \in Nodes : ready = {m} /\ Continues(m)'
        /\ deps' \in [Nodes -> Nat]
    BY <1>0, <2>1, <2>2, <2>4, CommitMovesOn
  <2>6. \A m \in Nodes : commits'[m] <= 1
    BY <1>0, <2>1, <2>5
  <2>7. queue' = SetToBag({NewJob(m) : m \in ready}) /\ pending = 1
    BY <2>1, <2>3, AddToEmpty DEF Held
  <2>8. h'.pc = "readPending"
    BY <1>0, <2>1 DEF Handlers
  <2>9. status' = "running" /\ Restarting' = {}
    BY <1>2, <2>1, <2>3 DEF Held
  <2> HIDE DEF ready
  <2>10. CASE ready = {} /\ Committed' = Nodes
    <3>1. queue' = EmptyBag
      BY <2>7, <2>10 DEF EmptyBag
    <3>2. Cardinality(ready) = 0
      BY <2>10, FS_EmptySet
    <3>3. pending' = 0
      BY <2>1, <2>7, <3>2
    <3>4. Finished'
      BY <2>8, <2>9, <2>10, <3>1 DEF Finished
    <3> QED
      BY <2>5, <2>6, <3>3, <3>4 DEF Rested, Shape
  <2>11. CASE \E m \in Nodes : ready = {m} /\ Continues(m)'
    <3>1. PICK m \in Nodes : ready = {m} /\ Continues(m)'
      BY <2>11
    <3>2. NewJob(m) \in Jobs /\ NewJob(m).node = m
      BY Idles
    <3>3. queue' = SetToBag({NewJob(m)})
      <4>1. {NewJob(k) : k \in ready} = {NewJob(m)}
        BY <3>1
      <4> QED
        BY <2>7, <4>1
    <3>4. Cardinality(ready) = 1
      BY <3>1, FS_Singleton
    <3>5. pending' = 1
      BY <2>1, <2>7, <3>4
    <3>6. Queued'
      BY <2>8, <2>9, <3>1, <3>2, <3>3, <3>5 DEF Queued
    <3> QED
      BY <2>5, <2>6, <3>5, <3>6 DEF Rested, Shape
  <2> QED
    BY <2>5, <2>10, <2>11
<1>7. CASE RunRetry
  <2>1. /\ h.pc = "run" /\ h' = IdleHandler /\ queue' = queue (+) SetToBag({h.job})
        /\ UNCHANGED <<status, pending, deps, fcont, commits>>
    BY <1>7 DEF RunRetry, Return, ghostVars
  <2>2. Held
    BY <1>0, <2>1 DEF Shape, Queued, Dead, Failed, Finished, Lost, Starting
  <2>3. queue' = SetToBag({h.job})
    BY <2>1, <2>2, AddToEmpty DEF Held
  <2>4. Committed' = Committed /\ Frontier' = Frontier
    BY <2>1, KeepProgress
  <2>5. PICK j \in Jobs : j = h.job
    BY <1>0
  <2>6. Continues(j.node)'
    BY <2>1, <2>2, <2>4, <2>5 DEF Held, Continues
  <2>7. Queued'
    BY <1>2, <1>3, <2>1, <2>2, <2>3, <2>5, <2>6 DEF Queued, Held
  <2> QED
    BY <1>4, <2>1, <2>7 DEF Shape
<1>8. CASE HandleStatus \/ RunFails \/ SaveCont \/ DeadLetter \/ SetFailed
  <2>1. h.pc \in {"status", "run", "saveCont", "failJob", "setFailed"}
    BY <1>8 DEF HandleStatus, RunFails, SaveCont, DeadLetter, SetFailed, Goto, Return
  <2>2. Held \/ Dead
    BY <1>0, <2>1 DEF Shape, Queued, Failed, Finished, Lost, Starting
  <2>3. UNCHANGED <<pending, deps, queue, commits>>
    BY <1>8 DEF HandleStatus, RunFails, SaveCont, DeadLetter, SetFailed, storeVars, ghostVars
  <2>4. Committed' = Committed /\ Frontier' = Frontier
    BY <2>3, KeepProgress
  <2>5. CASE HandleStatus \/ RunFails \/ SaveCont
    <3>1. h.pc \in {"status", "run", "saveCont"}
      BY <2>5 DEF HandleStatus, RunFails, SaveCont, Goto, Return
    <3>2. Held
      BY <2>2, <3>1 DEF Dead
    <3>3. PICK p \in {"run", "saveCont", "failJob"} :
            h' = [h EXCEPT !.pc = p] /\ (p = "failJob" => fcont' = h.job.node)
      BY <2>5, <3>2 DEF HandleStatus, RunFails, SaveCont, Goto, Return, Held
    <3>4. h'.pc = p /\ h'.job = h.job
      BY <1>0, <3>3 DEF Handlers
    <3>5. status' = status
      BY <2>5 DEF HandleStatus, RunFails, SaveCont, storeVars
    <3>6. Held'
      BY <1>2, <2>3, <2>4, <3>2, <3>3, <3>4, <3>5 DEF Held, Continues
    <3> QED
      BY <1>4, <2>3, <3>6 DEF Shape
  <2>6. CASE DeadLetter
    <3>1. h.pc = "failJob" /\ h' = [h EXCEPT !.pc = "setFailed"] /\ UNCHANGED <<status, fcont>>
      BY <2>6 DEF DeadLetter, Goto, storeVars
    <3>2. Held
      BY <2>2, <3>1 DEF Dead
    <3>3. h'.pc = "setFailed" /\ h'.job = h.job
      BY <1>0, <3>1 DEF Handlers
    <3>4. Dead'
      BY <1>2, <2>3, <2>4, <3>1, <3>2, <3>3 DEF Held, Dead, Continues
    <3> QED
      BY <1>4, <2>3, <3>4 DEF Shape
  <2>7. CASE SetFailed
    <3>1. h.pc = "setFailed" /\ h' = IdleHandler /\ status' = "failed" /\ fcont' = fcont
      BY <2>7 DEF SetFailed, Return
    <3>2. Dead
      BY <2>2, <3>1 DEF Held
    <3>3. Failed'
      BY <1>2, <1>3, <2>3, <2>4, <3>1, <3>2 DEF Dead, Failed, Continues
    <3> QED
      BY <1>4, <2>3, <3>3 DEF Shape
  <2> QED
    BY <1>8, <2>5, <2>6, <2>7
<1>9. CASE ReadPending \/ SetCompleted
  <2>1. /\ h.pc \in {"readPending", "setCompleted"}
        /\ UNCHANGED <<pending, deps, fcont, queue, commits>>
    BY <1>9 DEF ReadPending, SetCompleted, Goto, Return, storeVars, ghostVars
  <2>2. Queued \/ Finished
    BY <1>0, <2>1 DEF Shape, Held, Dead, Failed, Lost, Starting
  <2>3. Committed' = Committed /\ Frontier' = Frontier
    BY <2>1, KeepProgress
  <2>4. CASE Queued
    <3>1. h' = IdleHandler /\ status' = status
      BY <1>9, <2>4 DEF Queued, ReadPending, SetCompleted, Goto, Return, storeVars
    <3>2. PICK j \in Jobs : queue = SetToBag({j}) /\ Continues(j.node)
      BY <2>4 DEF Queued
    <3>3. Continues(j.node)'
      BY <2>1, <2>3, <3>2 DEF Continues
    <3>4. Queued'
      BY <1>2, <1>3, <2>1, <2>4, <3>1, <3>2, <3>3 DEF Queued
    <3> QED
      BY <1>4, <2>1, <3>4 DEF Shape
  <2>5. CASE Finished
    <3>1. h' = IdleHandler \/ h' = [h EXCEPT !.pc = "setCompleted"]
      BY <1>9 DEF ReadPending, SetCompleted, Goto, Return
    <3>2. h'.pc \in {"idle", "setCompleted"}
      BY <1>0, <1>3, <3>1 DEF Handlers
    <3>3. status' \in {status, "completed"}
      BY <1>9 DEF ReadPending, SetCompleted, storeVars
    <3>4. Finished'
      BY <1>2, <2>1, <2>3, <2>5, <3>2, <3>3 DEF Finished
    <3> QED
      BY <1>4, <2>1, <3>4 DEF Shape
  <2> QED
    BY <2>2, <2>4, <2>5
<1> QED
  BY <1>5, <1>6, <1>7, <1>8, <1>9 DEF WorkerStep

(***************************************************************************)
(* A rerun keeps a rested run rested, unless it is itself made while the   *)
(* run is not at rest: a continue finds a failed run with its saved node,  *)
(* a restart starts from nothing.                                          *)
(***************************************************************************)
LEMMA CallerRested ==
  ASSUME Chain, BaseTypeOK, CallerInv, Rested, unrest' = 0,
         NEW c \in Callers, OperatorAsks(c) \/ NodeAsks(c) \/ CallerStep(c)
  PROVE  Rested'
<1>0. /\ commits \in [Nodes -> Nat] /\ x \in [Callers -> Calls]
      /\ pending \in Nat /\ deps \in [Nodes -> Nat]
      /\ \A n \in Nodes : commits[n] <= 1
      /\ Shape
  BY DEF BaseTypeOK, Rested
<1>1. PICK r \in Calls : /\ x' = [x EXCEPT ![c] = r]
                         /\ r.pc = "deps" <=> RestartCreate(c)
                         /\ r.pc = "enqueue" <=> RestartDeps(c)
  BY CallerRecord
<1>2. \A d \in Callers : x'[d] = IF d = c THEN r ELSE x[d]
  BY <1>0, <1>1
<1>3. Restarting' = (Restarting \ {c}) \cup
                      (IF RestartCreate(c) \/ RestartDeps(c) THEN {c} ELSE {})
  BY <1>1, <1>2 DEF Restarting
<1>4. h' = h
  BY DEF OperatorAsks, NodeAsks, CallerStep, GetFailedContinuation, rerunContinue,
     RestartRefused, RestartCreate, RestartDeps, RestartEnqueue, Discard, NodeCommits
<1>5. CASE rerunContinue(c)
  <2>1. /\ x[c].pc = "tx" /\ status' = "running" /\ pending' = 1
        /\ queue' = queue (+) SetToBag({NewJob(x[c].node)})
        /\ AtRest /\ status = "failed" /\ fcont = x[c].node
        /\ UNCHANGED <<deps, fcont, commits>>
    BY <1>5 DEF rerunContinue, PendingAfterContinue, NodeToContinue, BaseTypeOK
  <2>2. Failed /\ Continues(fcont)
    BY <1>0, <2>1 DEF Shape, Queued, Held, Dead, Failed, Finished, Lost, Starting, CallerInv
  <2>3. PICK n \in Nodes : n = fcont
    BY <2>1 DEF BaseTypeOK, CallerInv
  <2>4. Committed' = Committed /\ Frontier' = Frontier
    BY <2>1, KeepProgress
  <2>5. Continues(n)' /\ NewJob(n) \in Jobs /\ NewJob(n).node = n
    BY <2>1, <2>2, <2>3, <2>4, Idles DEF Continues
  <2>6. queue' = SetToBag({NewJob(n)})
    BY <2>1, <2>2, <2>3, AddToEmpty DEF Failed
  <2>7. ~RestartCreate(c) /\ ~RestartDeps(c)
    BY <1>5 DEF rerunContinue, RestartCreate, RestartDeps
  <2>8. Restarting' = {}
    BY <1>3, <2>2, <2>7 DEF Failed
  <2>9. Queued'
    BY <1>4, <2>1, <2>2, <2>5, <2>6, <2>8 DEF Queued, Failed
  <2> QED
    BY <1>0, <2>1, <2>9 DEF Rested, Shape
<1>6. CASE RestartCreate(c)
  <2>1. /\ status' = "running" /\ pending' = 1 /\ commits' = [n \in Nodes |-> 0]
        /\ AtRest /\ UNCHANGED <<deps, fcont, queue>>
    BY <1>6 DEF RestartCreate, BaseTypeOK
  <2>2. queue = EmptyBag /\ h.pc = "idle" /\ Restarting = {}
    BY <2>1 DEF AtRest, Restarting
  <2>3. Restarting' = {c} /\ x'[c].pc = "deps"
    BY <1>1, <1>2, <1>3, <1>6, <2>2
  <2>4. Committed' = {}
    BY <2>1 DEF Committed
  <2>5. Starting'
    BY <1>4, <2>1, <2>2, <2>3, <2>4 DEF Starting
  <2>6. \A n \in Nodes : commits'[n] <= 1
    BY <2>1
  <2> QED
    BY <1>0, <2>1, <2>5, <2>6 DEF Rested, Shape
<1>7. CASE RestartDeps(c)
  <2>1. /\ x[c].pc = "deps" /\ deps' = InitialDeps
        /\ UNCHANGED <<status, pending, fcont, queue, commits>>
    BY <1>7 DEF RestartDeps, ghostVars
  <2>2. Starting /\ Restarting = {c}
    <3>1. c \in Restarting
      BY <2>1 DEF Restarting
    <3> QED
      BY <1>0, <3>1 DEF Shape, Queued, Held, Dead, Failed, Finished, Lost, Starting
  <2>3. Restarting' = {c}
    BY <1>3, <1>7, <2>2
  <2>4. Committed' = Committed
    BY <2>1 DEF Committed
  <2>5. InitialDeps' = InitialDeps
    BY DEF InitialDeps
  <2>6. Starting'
    BY <1>4, <2>1, <2>2, <2>3, <2>4, <2>5 DEF Starting
  <2> QED
    BY <1>0, <2>1, <2>6, InitialDepsType DEF Rested, Shape
<1>8. CASE RestartEnqueue(c)
  <2>1. /\ x[c].pc = "enqueue" /\ queue' = queue (+) SetToBag({NewJob(Root)})
        /\ UNCHANGED <<status, pending, deps, fcont, commits>>
    BY <1>8 DEF RestartEnqueue, ghostVars
  <2>2. Starting /\ Restarting = {c}
    <3>1. c \in Restarting
      BY <2>1 DEF Restarting
    <3> QED
      BY <1>0, <3>1 DEF Shape, Queued, Held, Dead, Failed, Finished, Lost, Starting
  <2>3. deps = InitialDeps /\ Committed = {}
    BY <2>1, <2>2 DEF Starting
  <2>4. Continues(Root)
    BY <2>3, StartsAtHead
  <2>5. Committed' = Committed /\ Frontier' = Frontier
    BY <2>1, KeepProgress
  <2>6. Continues(Root)'
    BY <2>1, <2>4, <2>5 DEF Continues
  <2>7. queue' = SetToBag({NewJob(Root)}) /\ NewJob(Root) \in Jobs /\ NewJob(Root).node = Root
    BY <2>1, <2>2, AddToEmpty, Idles, RerunAssumption DEF Starting
  <2>8. Restarting' = {}
    BY <1>3, <2>1, <2>2 DEF RestartCreate, RestartDeps
  <2>9. Queued'
    BY <1>4, <2>1, <2>2, <2>6, <2>7, <2>8 DEF Queued, Starting
  <2> QED
    BY <1>0, <2>1, <2>9 DEF Rested, Shape
<1>9. CASE ~rerunContinue(c) /\ ~RestartCreate(c) /\ ~RestartDeps(c) /\ ~RestartEnqueue(c)
  <2>1. /\ UNCHANGED <<status, pending, deps, queue, commits>> /\ fcont' \in {fcont, NoNode}
        /\ x[c].pc \notin {"deps", "enqueue"}
    BY <1>9 DEF OperatorAsks, NodeAsks, CallerStep, GetFailedContinuation,
       RestartRefused, Discard, NodeCommits, storeVars, ghostVars
  <2>2. Restarting' = Restarting
    BY <1>3, <1>9, <2>1 DEF Restarting
  <2>3. Committed' = Committed /\ Frontier' = Frontier
    BY <2>1, KeepProgress
  <2>4. Shape'
    <3>1. CASE Queued
      <4>1. PICK j \in Jobs : queue = SetToBag({j}) /\ Continues(j.node)
        BY <3>1 DEF Queued
      <4>2. Continues(j.node)'
        BY <2>1, <2>3, <4>1 DEF Continues
      <4>3. Queued'
        BY <1>4, <2>1, <2>2, <3>1, <4>1, <4>2 DEF Queued
      <4> QED
        BY <4>3 DEF Shape
    <3>2. CASE Held
      <4>1. Held'
        BY <1>4, <2>1, <2>2, <2>3, <3>2 DEF Held, Continues
      <4> QED
        BY <4>1 DEF Shape
    <3>3. CASE Dead
      <4>1. Dead'
        BY <1>4, <2>1, <2>2, <2>3, <3>3 DEF Dead, Continues
      <4> QED
        BY <4>1 DEF Shape
    <3>4. CASE Failed
      <4>1. Failed'
        BY <1>4, <2>1, <2>2, <2>3, <3>4 DEF Failed, Continues
      <4> QED
        BY <4>1 DEF Shape
    <3>5. CASE Finished \/ Lost
      <4>1. Finished' \/ Lost'
        BY <1>4, <2>1, <2>2, <2>3, <3>5 DEF Finished, Lost
      <4> QED
        BY <4>1 DEF Shape
    <3>6. CASE Starting
      <4>1. PICK d \in Callers : Restarting = {d} /\ (x[d].pc = "enqueue" => deps = InitialDeps)
        BY <3>6 DEF Starting
      <4>2. d # c /\ x'[d] = x[d]
        BY <1>2, <2>1, <4>1 DEF Restarting
      <4>3. InitialDeps' = InitialDeps
        BY DEF InitialDeps
      <4>4. Starting'
        BY <1>4, <2>1, <2>2, <2>3, <3>6, <4>1, <4>2, <4>3 DEF Starting
      <4> QED
        BY <4>4 DEF Shape
    <3> QED
      BY <1>0, <3>1, <3>2, <3>3, <3>4, <3>5, <3>6 DEF Shape
  <2> QED
    BY <1>0, <2>1, <2>4 DEF Rested
<1> QED
  BY <1>5, <1>6, <1>7, <1>8, <1>9

(***************************************************************************)
(* A crash keeps a rested run rested: the job in hand is back in the queue,*)
(* and a restart or a failure that was under way is lost, not doubled.     *)
(***************************************************************************)
LEMMA CrashRested ==
  ASSUME Chain, BaseTypeOK, Rested, Crash
  PROVE  Rested'
<1>0. /\ commits \in [Nodes -> Nat] /\ h.job \in Jobs
      /\ pending \in Nat /\ deps \in [Nodes -> Nat]
      /\ \A n \in Nodes : commits[n] <= 1
      /\ Shape
  BY DEF BaseTypeOK, Rested, Handlers
<1>1. /\ h' = IdleHandler
      /\ queue' = IF h.pc \in {"status", "run", "saveCont", "failJob"}
                    THEN queue (+) SetToBag({h.job}) ELSE queue
      /\ x' = [c \in Callers |-> IdleCaller]
      /\ UNCHANGED <<status, pending, deps, fcont, commits>>
  BY DEF Crash, ghostVars
<1>2. h'.pc = "idle" /\ Restarting' = {}
  BY <1>1, Idles DEF Restarting
<1>3. Committed' = Committed /\ Frontier' = Frontier
  BY <1>1, KeepProgress
<1>4. CASE Queued
  <2>1. PICK j \in Jobs : queue = SetToBag({j}) /\ Continues(j.node)
    BY <1>4 DEF Queued
  <2>2. Continues(j.node)'
    BY <1>1, <1>3, <2>1 DEF Continues
  <2>3. Queued'
    BY <1>1, <1>2, <1>4, <2>1, <2>2 DEF Queued
  <2> QED
    BY <1>0, <1>1, <2>3 DEF Rested, Shape
<1>5. CASE Held
  <2>1. PICK j \in Jobs : j = h.job
    BY <1>0
  <2>2. queue' = SetToBag({j})
    BY <1>1, <1>5, <2>1, AddToEmpty DEF Held
  <2>3. Continues(j.node)'
    BY <1>1, <1>3, <1>5, <2>1 DEF Held, Continues
  <2>4. Queued'
    BY <1>1, <1>2, <1>5, <2>2, <2>3 DEF Queued, Held
  <2> QED
    BY <1>0, <1>1, <2>4 DEF Rested, Shape
<1>6. CASE Failed
  <2>1. Failed'
    BY <1>1, <1>2, <1>3, <1>6 DEF Failed, Continues
  <2> QED
    BY <1>0, <1>1, <2>1 DEF Rested, Shape
<1>7. CASE Dead \/ Finished \/ Lost \/ Starting
  <2>1. Lost' \/ Finished'
    BY <1>1, <1>2, <1>3, <1>7 DEF Dead, Finished, Lost, Starting
  <2> QED
    BY <1>0, <1>1, <2>1 DEF Rested, Shape
<1> QED
  BY <1>0, <1>4, <1>5, <1>6, <1>7 DEF Shape

-----------------------------------------------------------------------------
(* How often a node commits, the run at rest or not, for every workflow *)

One(b) == IF b THEN 1 ELSE 0

\* The jobs of node n in bag B, each with the numbers of its copies.
Copies(B, n) ==
  {q \in Jobs \X Nat : q[1].node = n /\ q[1] \in DOMAIN B /\ q[2] \in 1..B[q[1]]}

\* The handler has a job that a crash would return to the queue.
Live == h.pc \in {"status", "run", "saveCont", "failJob"}

InQueue(n) == Cardinality(Copies(queue, n))

InHand(n) == One(Live /\ h.job.node = n)

\* The dead-lettered job that a continue of the run at rest brings back.
ToContinue(n) == One((status = "failed" \/ h.pc = "setFailed") /\ fcont = n)

\* The jobs of n there are.
Work(n) == InQueue(n) + InHand(n) + ToContinue(n)

\* The restarts whose next commit is pc.
At(pc) == {c \in Callers : x[c].pc = pc}

NoJobIn(S) ==
  /\ \A j \in DOMAIN queue : j.node \notin S
  /\ Live => h.job.node \notin S

\* S holds the nodes that n depends on, directly or not, and n is not one.
Upstream(S, n) ==
  /\ S \subseteq Nodes /\ n \notin S /\ Preds[n] \subseteq S
  /\ \A m \in S : Preds[m] \subseteq S

\* The counter of n is left over from before a restart that will reset it, and
\* nothing that n depends on is there to use it.
Leftover(n) ==
  /\ At("deps") # {} /\ At("enqueue") = {}
  /\ \E S \in SUBSET Nodes : Upstream(S, n) /\ NoJobIn(S)

\* The commits of what n depends on can enqueue n once.
ByCounter(n) == One(deps[n] > 0 /\ ~Leftover(n))

ByRestart(n) ==
  Cardinality(At("deps")) + (IF n = Root THEN Cardinality(At("enqueue")) ELSE 0)

(***************************************************************************)
(* Every commit of n so far, every job of n there is and every job that    *)
(* can still be enqueued for it: one, and one for each rerun that found    *)
(* the run not at rest.                                                    *)
(***************************************************************************)
Budget(n) == commits[n] + Work(n) + ByCounter(n) + ByRestart(n) <= 1 + unrest

RepeatInv ==
  /\ \A n \in Nodes : IsFiniteSet(Copies(queue, n)) /\ Budget(n)
  /\ IsFiniteSet(At("deps")) /\ IsFiniteSet(At("enqueue"))
  /\ deps[Root] = 0
  /\ status = "failed" => h.pc \in {"idle", "status"}
  /\ h.pc = "failJob" => fcont \in {h.job.node, NoNode}

(***************************************************************************)
(* A job added to the queue is one copy more.                              *)
(***************************************************************************)
LEMMA CopiesAdd ==
  ASSUME NEW B, IsABag(B), DOMAIN B \subseteq Jobs, NEW S \in SUBSET Jobs, NEW n,
         IsFiniteSet(Copies(B, n)),
         \A i, j \in S : i.node = n /\ j.node = n => i = j
  PROVE  /\ IsFiniteSet(Copies(B (+) SetToBag(S), n))
         /\ Cardinality(Copies(B (+) SetToBag(S), n))
              <= Cardinality(Copies(B, n)) + One(\E j \in S : j.node = n)
<1> DEFINE C == B (+) SetToBag(S)
<1>0. /\ \A e \in DOMAIN B : B[e] \in Nat /\ B[e] > 0
      /\ Cardinality(Copies(B, n)) \in Nat
  BY FS_CardinalityType DEF IsABag
<1>1. /\ DOMAIN C = DOMAIN B \cup S
      /\ \A e \in DOMAIN C : C[e] = (IF e \in DOMAIN B THEN B[e] ELSE 0) + (IF e \in S THEN 1 ELSE 0)
  BY DEF SetToBag, (+)
<1> HIDE DEF C
<1>2. SUFFICES /\ IsFiniteSet(Copies(C, n))
               /\ Cardinality(Copies(C, n))
                    <= Cardinality(Copies(B, n)) + One(\E j \in S : j.node = n)
  BY DEF C
<1>3. CASE ~\E j \in S : j.node = n
  <2>1. \A e : e.node = n => (e \in DOMAIN C <=> e \in DOMAIN B)
    BY <1>1, <1>3
  <2>2. \A e \in DOMAIN B : e.node = n => C[e] = B[e]
    BY <1>0, <1>1, <1>3
  <2>3. Copies(C, n) = Copies(B, n)
    BY <2>1, <2>2 DEF Copies
  <2> QED
    BY <1>0, <1>3, <2>3 DEF One
<1>4. CASE \E j \in S : j.node = n
  <2>1. PICK j \in S : j.node = n
    BY <1>4
  <2> DEFINE k == (IF j \in DOMAIN B THEN B[j] ELSE 0) + 1
  <2>2. k \in Nat \ {0} /\ j \in DOMAIN C /\ C[j] = k
    BY <1>0, <1>1
  <2>3. \A e \in DOMAIN C : e.node = n /\ e # j => e \in DOMAIN B /\ C[e] = B[e]
    BY <1>0, <1>1, <2>1
  <2>4. Copies(C, n) \subseteq Copies(B, n) \cup {<<j, k>>}
    <3> SUFFICES ASSUME NEW q \in Copies(C, n), q # <<j, k>> PROVE q \in Copies(B, n)
      OBVIOUS
    <3>1. q \in Jobs \X Nat /\ q[1].node = n /\ q[1] \in DOMAIN C /\ q[2] \in 1..C[q[1]]
      BY DEF Copies
    <3>2. CASE q[1] # j
      BY <2>3, <3>1, <3>2 DEF Copies
    <3>3. CASE q[1] = j
      <4>1. q[2] # k
        BY <3>1, <3>3
      <4>2. q[2] \in 1..(k - 1)
        BY <2>2, <3>1, <3>3, <4>1
      <4>3. j \in DOMAIN B /\ B[j] = k - 1
        BY <1>0, <4>2
      <4> QED
        BY <3>1, <3>3, <4>2, <4>3 DEF Copies
    <3> QED
      BY <3>2, <3>3
  <2> HIDE DEF k
  <2>5. /\ IsFiniteSet(Copies(B, n) \cup {<<j, k>>})
        /\ Cardinality(Copies(B, n) \cup {<<j, k>>}) <= Cardinality(Copies(B, n)) + 1
    <3>1. /\ IsFiniteSet(Copies(B, n) \cup {<<j, k>>})
          /\ \/ Cardinality(Copies(B, n) \cup {<<j, k>>}) = Cardinality(Copies(B, n))
             \/ Cardinality(Copies(B, n) \cup {<<j, k>>}) = Cardinality(Copies(B, n)) + 1
      BY FS_AddElement
    <3> QED
      BY <1>0, <3>1
  <2>6. IsFiniteSet(Copies(C, n))
        /\ Cardinality(Copies(C, n)) <= Cardinality(Copies(B, n) \cup {<<j, k>>})
    BY <2>4, <2>5, FS_Subset
  <2>7. Cardinality(Copies(C, n)) \in Nat /\ Cardinality(Copies(B, n) \cup {<<j, k>>}) \in Nat
    BY <2>5, <2>6, FS_CardinalityType
  <2> QED
    BY <1>0, <1>4, <2>5, <2>6, <2>7 DEF One
<1> QED
  BY <1>3, <1>4

(***************************************************************************)
(* A job taken from the queue is one copy less.                            *)
(***************************************************************************)
LEMMA CopiesTake ==
  ASSUME NEW B, IsABag(B), DOMAIN B \subseteq Jobs, NEW j \in DOMAIN B, NEW n,
         IsFiniteSet(Copies(B, n))
  PROVE  /\ IsFiniteSet(Copies(B (-) SetToBag({j}), n))
         /\ Cardinality(Copies(B (-) SetToBag({j}), n)) + One(j.node = n)
              <= Cardinality(Copies(B, n))
         /\ DOMAIN (B (-) SetToBag({j})) \subseteq DOMAIN B
<1> DEFINE C == B (-) SetToBag({j})
<1>0. /\ \A e \in DOMAIN B : B[e] \in Nat /\ B[e] > 0
      /\ Cardinality(Copies(B, n)) \in Nat
  BY FS_CardinalityType DEF IsABag
<1>1. /\ DOMAIN C \subseteq DOMAIN B
      /\ \A e \in DOMAIN C : C[e] = B[e] - (IF e = j THEN 1 ELSE 0)
  BY <1>0 DEF SetToBag, (-)
<1> HIDE DEF C
<1>2. Copies(C, n) \subseteq Copies(B, n) /\ <<j, B[j]>> \notin Copies(C, n)
  <2>1. ASSUME NEW q \in Copies(C, n) PROVE q \in Copies(B, n) /\ q # <<j, B[j]>>
    <3>1. q \in Jobs \X Nat /\ q[1].node = n /\ q[1] \in DOMAIN C /\ q[2] \in 1..C[q[1]]
      BY <2>1 DEF Copies
    <3>2. q[1] \in DOMAIN B /\ B[q[1]] \in Nat /\ q[2] \in 1..B[q[1]] /\ (q[1] = j => q[2] # B[j])
      BY <1>0, <1>1, <3>1
    <3> QED
      BY <3>1, <3>2 DEF Copies
  <2> QED
    BY <2>1
<1>3. IsFiniteSet(Copies(C, n)) /\ Cardinality(Copies(C, n)) <= Cardinality(Copies(B, n))
  BY <1>2, FS_Subset
<1>4. Cardinality(Copies(C, n)) \in Nat
  BY <1>3, FS_CardinalityType
<1>5. SUFFICES Cardinality(Copies(C, n)) + One(j.node = n) <= Cardinality(Copies(B, n))
  BY <1>1, <1>3 DEF C
<1>6. CASE j.node # n
  BY <1>0, <1>3, <1>4, <1>6 DEF One
<1>7. CASE j.node = n
  <2>1. <<j, B[j]>> \in Copies(B, n)
    <3>1. j \in Jobs /\ B[j] \in Nat /\ B[j] \in 1..B[j]
      BY <1>0
    <3> QED
      BY <1>7, <3>1 DEF Copies
  <2>2. /\ IsFiniteSet(Copies(B, n) \ {<<j, B[j]>>})
        /\ Cardinality(Copies(B, n) \ {<<j, B[j]>>}) = Cardinality(Copies(B, n)) - 1
    BY <2>1, FS_RemoveElement
  <2>3. Copies(C, n) \subseteq Copies(B, n) \ {<<j, B[j]>>}
    BY <1>2
  <2>4. Cardinality(Copies(C, n)) <= Cardinality(Copies(B, n) \ {<<j, B[j]>>})
    BY <2>2, <2>3, FS_Subset
  <2> QED
    BY <1>0, <1>4, <1>7, <2>2, <2>4 DEF One
<1> QED
  BY <1>7, <1>6

(***************************************************************************)
(* No node depends on itself: the workflow has no cycle.                   *)
(***************************************************************************)
LEMMA UpstreamExists ==
  ASSUME NEW n \in Nodes
  PROVE  \E S \in SUBSET Nodes : Upstream(S, n)
<1> DEFINE Bad == {m \in Nodes : ~\E S \in SUBSET Nodes : Upstream(S, m)}
<1>1. SUFFICES ASSUME Bad # {} PROVE FALSE
  OBVIOUS
<1>2. PICK m \in Bad : Preds[m] \cap Bad = {}
  BY <1>1, RerunAssumption
<1>3. m \in Nodes /\ Preds[m] \subseteq Nodes /\ m \notin Preds[m]
  BY <1>2, RerunAssumption
<1> DEFINE above == [p \in Preds[m] |-> CHOOSE S \in SUBSET Nodes : Upstream(S, p)]
           U == UNION {above[p] \cup {p} : p \in Preds[m]}
<1>4. \A p \in Preds[m] : Upstream(above[p], p)
  <2> SUFFICES ASSUME NEW p \in Preds[m] PROVE Upstream(above[p], p)
    OBVIOUS
  <2>1. \E S \in SUBSET Nodes : Upstream(S, p)
    BY <1>2, <1>3
  <2> QED
    BY <2>1
<1> HIDE DEF above
<1>5. \A q : q \in U <=> \E p \in Preds[m] : q \in above[p] \/ q = p
  OBVIOUS
<1> HIDE DEF U
<1>6. U \subseteq Nodes /\ Preds[m] \subseteq U
  BY <1>3, <1>4, <1>5 DEF Upstream
<1>7. \A q \in U : Preds[q] \subseteq U
  BY <1>4, <1>5 DEF Upstream
<1>8. m \notin U
  <2> SUFFICES ASSUME NEW p \in Preds[m], m \in above[p] PROVE FALSE
    BY <1>3, <1>5
  <2>1. Preds[m] \subseteq above[p] /\ p \notin above[p]
    BY <1>4 DEF Upstream
  <2> QED
    BY <2>1
<1>9. Upstream(U, m)
  BY <1>6, <1>7, <1>8 DEF Upstream
<1> QED
  BY <1>2, <1>6, <1>9

(***************************************************************************)
(* The terms of a budget are natural numbers.                              *)
(***************************************************************************)
LEMMA BudgetTypes ==
  ASSUME BaseTypeOK, RepeatInv, NEW n \in Nodes
  PROVE  /\ commits[n] \in Nat /\ unrest \in Nat
         /\ InQueue(n) \in Nat /\ InHand(n) \in {0, 1} /\ ToContinue(n) \in {0, 1}
         /\ Work(n) \in Nat /\ ByCounter(n) \in {0, 1} /\ ByRestart(n) \in Nat
         /\ Cardinality(At("deps")) \in Nat /\ Cardinality(At("enqueue")) \in Nat
         /\ commits[n] + Work(n) + ByCounter(n) + ByRestart(n) <= 1 + unrest
<1>1. InQueue(n) \in Nat
  BY FS_CardinalityType DEF RepeatInv, InQueue
<1>2. InHand(n) \in {0, 1} /\ ToContinue(n) \in {0, 1} /\ ByCounter(n) \in {0, 1}
  BY DEF InHand, ToContinue, ByCounter, One
<1>3. Cardinality(At("deps")) \in Nat /\ Cardinality(At("enqueue")) \in Nat
  BY FS_CardinalityType DEF RepeatInv
<1>4. ByRestart(n) \in Nat
  BY <1>3 DEF ByRestart
<1>5. Work(n) \in Nat
  BY <1>1, <1>2 DEF Work
<1> QED
  BY <1>1, <1>2, <1>3, <1>4, <1>5 DEF RepeatInv, Budget, BaseTypeOK

(***************************************************************************)
(* A step that adds no job and leaves counters and restarts alone keeps    *)
(* the budgets.                                                            *)
(***************************************************************************)
LEMMA RepeatFrame ==
  ASSUME BaseTypeOK, RepeatInv,
         At("deps")' = At("deps"), At("enqueue")' = At("enqueue"),
         deps' = deps, commits' = commits, unrest' = unrest,
         \A n \in Nodes : IsFiniteSet(Copies(queue, n))' /\ Work(n)' <= Work(n),
         \A S \in SUBSET Nodes : NoJobIn(S) => NoJobIn(S)',
         status' = "failed" => h'.pc \in {"idle", "status"},
         h'.pc = "failJob" => fcont' \in {h'.job.node, NoNode}
  PROVE  RepeatInv'
<1>1. ASSUME NEW n \in Nodes PROVE Budget(n)'
  <2>1. Leftover(n) => Leftover(n)'
    BY DEF Leftover
  <2>2. ByCounter(n)' <= ByCounter(n)
    BY <2>1 DEF ByCounter, One
  <2>3. ByRestart(n)' = ByRestart(n)
    BY DEF ByRestart
  <2>4. Work(n)' \in Nat /\ ByCounter(n)' \in {0, 1}
    <3>1. InQueue(n)' \in Nat
      BY <1>1, FS_CardinalityType DEF InQueue
    <3>2. InHand(n)' \in {0, 1} /\ ToContinue(n)' \in {0, 1} /\ ByCounter(n)' \in {0, 1}
      BY DEF InHand, ToContinue, ByCounter, One
    <3> QED
      BY <3>1, <3>2 DEF Work
  <2>5. Work(n)' <= Work(n)
    BY <1>1
  <2>6. /\ commits[n] \in Nat /\ unrest \in Nat /\ Work(n) \in Nat
        /\ ByCounter(n) \in {0, 1} /\ ByRestart(n) \in Nat
        /\ commits[n] + Work(n) + ByCounter(n) + ByRestart(n) <= 1 + unrest
    BY <1>1, BudgetTypes
  <2>7. commits[n] + Work(n)' + ByCounter(n)' + ByRestart(n)' <= 1 + unrest
    BY <2>2, <2>3, <2>4, <2>5, <2>6
  <2> QED
    BY <2>7 DEF Budget
<1> QED
  BY <1>1 DEF RepeatInv

(***************************************************************************)
(* A claim moves a job from the queue to the hand.                         *)
(***************************************************************************)
LEMMA RepeatClaim ==
  ASSUME BaseTypeOK, RepeatInv, Claim
  PROVE  RepeatInv'
<1>1. PICK j \in BagToSet(queue) :
        /\ queue' = queue (-) SetToBag({j})
        /\ h' = [pc |-> "status", job |-> [j EXCEPT !.tries = IF @ < MaxAttempts THEN @ + 1 ELSE @]]
  BY DEF Claim
<1>2. /\ IsABag(queue) /\ DOMAIN queue \subseteq Jobs /\ j \in DOMAIN queue /\ j \in Jobs
      /\ h.pc = "idle" /\ UNCHANGED <<status, deps, fcont, x, commits, unrest>>
  BY <1>1 DEF BaseTypeOK, BagToSet, Claim, ghostVars
<1>3. h'.pc = "status" /\ h'.job.node = j.node
  BY <1>1, <1>2 DEF Jobs
<1>4. ASSUME NEW n \in Nodes PROVE IsFiniteSet(Copies(queue, n))' /\ Work(n)' <= Work(n)
  <2>1. IsFiniteSet(Copies(queue, n))
    BY DEF RepeatInv
  <2>2. /\ IsFiniteSet(Copies(queue', n))
        /\ Cardinality(Copies(queue', n)) + One(j.node = n) <= Cardinality(Copies(queue, n))
    BY <1>1, <1>2, <2>1, CopiesTake
  <2>3. InHand(n)' = One(j.node = n) /\ InHand(n) = 0 /\ ToContinue(n)' = ToContinue(n)
    BY <1>2, <1>3 DEF InHand, Live, ToContinue, One
  <2>4. Cardinality(Copies(queue', n)) \in Nat /\ Cardinality(Copies(queue, n)) \in Nat
    BY <2>1, <2>2, FS_CardinalityType
  <2>5. One(j.node = n) \in {0, 1} /\ ToContinue(n) \in {0, 1}
    BY DEF One, ToContinue
  <2>6. InQueue(n)' + InHand(n)' <= InQueue(n) + InHand(n)
    BY <2>2, <2>3, <2>4, <2>5 DEF InQueue
  <2> QED
    BY <2>2, <2>3, <2>4, <2>5, <2>6 DEF Work, InQueue
<1>5. \A S \in SUBSET Nodes : NoJobIn(S) => NoJobIn(S)'
  <2>1. DOMAIN queue' \subseteq DOMAIN queue
    BY <1>1, <1>2 DEF SetToBag, (-)
  <2> QED
    BY <1>2, <1>3, <2>1 DEF NoJobIn
<1>6. At("deps")' = At("deps") /\ At("enqueue")' = At("enqueue")
  BY <1>2 DEF At
<1> QED
  BY <1>2, <1>3, <1>4, <1>5, <1>6, RepeatFrame DEF RepeatInv

(***************************************************************************)
(* The steps of the handler that leave the queue alone.  A node that has   *)
(* failed for good is dead-lettered with its own continuation saved.       *)
(***************************************************************************)
LEMMA RepeatHandler ==
  ASSUME BaseTypeOK, RepeatInv,
         HandleStatus \/ RunFails \/ SaveCont \/ DeadLetter \/ SetFailed
         \/ ReadPending \/ SetCompleted
  PROVE  RepeatInv'
<1>1. UNCHANGED <<queue, deps, x, commits, unrest>> /\ h \in Handlers
  BY DEF HandleStatus, RunFails, SaveCont, DeadLetter, SetFailed, ReadPending, SetCompleted,
     storeVars, ghostVars, BaseTypeOK
<1>2. /\ status = "failed" => h.pc \in {"idle", "status"}
      /\ h.pc = "failJob" => fcont \in {h.job.node, NoNode}
  BY DEF RepeatInv
<1>3. /\ h' = IdleHandler \/ (h'.job = h.job /\ Live)  \/ ~h'.pc \in {"status", "run", "saveCont", "failJob"}
      /\ status' = "failed" => h'.pc \in {"idle", "status"}
      /\ h'.pc = "failJob" => fcont' \in {h'.job.node, NoNode}
  BY <1>1, <1>2, Idles
  DEF HandleStatus, RunFails, SaveCont, DeadLetter, SetFailed, ReadPending, SetCompleted,
      storeVars, ghostVars, Goto, Return, Handlers, Live
<1>4. Live' => Live /\ h'.job = h.job
  BY <1>3, Idles DEF Live
<1>5. ASSUME NEW n \in Nodes PROVE InHand(n)' + ToContinue(n)' <= InHand(n) + ToContinue(n)
  <2>0. NoNode # n
    BY RerunAssumption
  <2>1. CASE DeadLetter
    <3>1. h.pc = "failJob" /\ h'.pc = "setFailed" /\ fcont' = fcont /\ fcont \in {h.job.node, NoNode}
      BY <1>1, <1>2, <2>1 DEF DeadLetter, Goto, storeVars, Handlers
    <3> QED
      BY <2>0, <3>1 DEF InHand, ToContinue, Live, One
  <2>2. CASE SaveCont
    <3>1. h.pc = "saveCont" /\ h'.pc = "failJob" /\ status' = status /\ status # "failed"
      BY <1>1, <1>2, <2>2 DEF SaveCont, Goto, Handlers
    <3> QED
      BY <1>4, <3>1 DEF InHand, ToContinue, One
  <2>3. CASE HandleStatus \/ RunFails \/ SetFailed \/ ReadPending \/ SetCompleted
    <3>1. /\ fcont' = fcont
          /\ (status' = "failed" \/ h'.pc = "setFailed") => (status = "failed" \/ h.pc = "setFailed")
      BY <1>1, <2>3, Idles DEF HandleStatus, RunFails, SetFailed, ReadPending, SetCompleted,
         Goto, Return, storeVars, Handlers
    <3> QED
      BY <1>4, <3>1 DEF InHand, ToContinue, One
  <2> QED
    BY <2>1, <2>2, <2>3
<1>6. ASSUME NEW n \in Nodes PROVE IsFiniteSet(Copies(queue, n))' /\ Work(n)' <= Work(n)
  <2>1. IsFiniteSet(Copies(queue, n))' /\ InQueue(n)' = InQueue(n) /\ InQueue(n) \in Nat
    BY <1>1, FS_CardinalityType DEF RepeatInv, InQueue
  <2>2. /\ InHand(n) \in {0, 1} /\ ToContinue(n) \in {0, 1}
        /\ InHand(n)' \in {0, 1} /\ ToContinue(n)' \in {0, 1}
    BY DEF InHand, ToContinue, One
  <2> QED
    BY <1>5, <2>1, <2>2 DEF Work
<1>7. \A S \in SUBSET Nodes : NoJobIn(S) => NoJobIn(S)'
  BY <1>1, <1>4 DEF NoJobIn
<1>8. At("deps")' = At("deps") /\ At("enqueue")' = At("enqueue")
  BY <1>1 DEF At
<1> QED
  BY <1>1, <1>3, <1>6, <1>7, <1>8, RepeatFrame

(***************************************************************************)
(* The terms of a budget after a step.                                     *)
(***************************************************************************)
LEMMA BudgetTypesNext ==
  ASSUME NEW n \in Nodes, IsFiniteSet(Copies(queue', n)),
         IsFiniteSet(At("deps")'), IsFiniteSet(At("enqueue")')
  PROVE  /\ InQueue(n)' \in Nat /\ InHand(n)' \in {0, 1} /\ ToContinue(n)' \in {0, 1}
         /\ ByCounter(n)' \in {0, 1} /\ ByRestart(n)' \in Nat
         /\ Work(n)' = InQueue(n)' + InHand(n)' + ToContinue(n)'
<1>1. InQueue(n)' \in Nat
  BY FS_CardinalityType DEF InQueue
<1>2. InHand(n)' \in {0, 1} /\ ToContinue(n)' \in {0, 1} /\ ByCounter(n)' \in {0, 1}
  BY DEF InHand, ToContinue, ByCounter, One
<1>3. Cardinality(At("deps"))' \in Nat /\ Cardinality(At("enqueue"))' \in Nat
  BY FS_CardinalityType
<1>4. ByRestart(n)' \in Nat
  BY <1>3 DEF ByRestart
<1> QED
  BY <1>1, <1>2, <1>4 DEF Work

(***************************************************************************)
(* What an enqueue of job j does to the copies of n.                       *)
(***************************************************************************)
LEMMA EnqueueCopies ==
  ASSUME BaseTypeOK, RepeatInv, NEW j \in Jobs, queue' = queue (+) SetToBag({j}),
         NEW n \in Nodes
  PROVE  /\ IsFiniteSet(Copies(queue', n))
         /\ InQueue(n)' <= InQueue(n) + One(j.node = n)
         /\ InQueue(n) \in Nat /\ InQueue(n)' \in Nat
         /\ DOMAIN queue' = DOMAIN queue \cup {j}
<1>1. IsABag(queue) /\ DOMAIN queue \subseteq Jobs /\ IsFiniteSet(Copies(queue, n))
  BY DEF BaseTypeOK, BagToSet, RepeatInv
<1>2. /\ IsFiniteSet(Copies(queue', n))
      /\ Cardinality(Copies(queue', n))
           <= Cardinality(Copies(queue, n)) + One(\E i \in {j} : i.node = n)
  <2>1. {j} \in SUBSET Jobs /\ \A a, b \in {j} : a.node = n /\ b.node = n => a = b
    OBVIOUS
  <2>2. /\ IsFiniteSet(Copies(queue (+) SetToBag({j}), n))
        /\ Cardinality(Copies(queue (+) SetToBag({j}), n))
             <= Cardinality(Copies(queue, n)) + One(\E i \in {j} : i.node = n)
    BY <1>1, <2>1, CopiesAdd, Zenon
  <2> QED
    BY <2>2
<1>3. (\E i \in {j} : i.node = n) <=> j.node = n
  OBVIOUS
<1>4. One(\E i \in {j} : i.node = n) = One(j.node = n)
  BY <1>3 DEF One
<1>5. DOMAIN queue' = DOMAIN queue \cup {j}
  BY DEF (+), SetToBag
<1>6. Cardinality(Copies(queue, n)) \in Nat /\ Cardinality(Copies(queue', n)) \in Nat
  BY <1>1, <1>2, FS_CardinalityType
<1> QED
  BY <1>2, <1>4, <1>5, <1>6 DEF InQueue

(***************************************************************************)
(* A retry gives the job in hand back.                                     *)
(***************************************************************************)
LEMMA RepeatRetry ==
  ASSUME BaseTypeOK, RepeatInv, RunRetry
  PROVE  RepeatInv'
<1>1. /\ h.pc = "run" /\ h' = IdleHandler /\ queue' = queue (+) SetToBag({h.job})
      /\ UNCHANGED <<status, deps, fcont, x, commits, unrest>>
      /\ h.job \in Jobs /\ h'.pc = "idle"
  BY Idles DEF RunRetry, Return, ghostVars, BaseTypeOK, Handlers
<1>2. PICK j \in Jobs : j = h.job
  BY <1>1
<1>3. ASSUME NEW n \in Nodes PROVE IsFiniteSet(Copies(queue, n))' /\ Work(n)' <= Work(n)
  <2>1. /\ IsFiniteSet(Copies(queue', n))
        /\ InQueue(n)' <= InQueue(n) + One(j.node = n)
        /\ InQueue(n) \in Nat /\ InQueue(n)' \in Nat
    BY <1>1, <1>2, EnqueueCopies
  <2>2. InHand(n) = One(j.node = n) /\ InHand(n)' = 0
    BY <1>1, <1>2 DEF InHand, Live, One
  <2>3. ToContinue(n)' = ToContinue(n) /\ ToContinue(n) \in {0, 1} /\ One(j.node = n) \in {0, 1}
    BY <1>1 DEF ToContinue, One
  <2> QED
    BY <2>1, <2>2, <2>3 DEF Work
<1>4. \A S \in SUBSET Nodes : NoJobIn(S) => NoJobIn(S)'
  <2>1. DOMAIN queue' = DOMAIN queue \cup {j}
    BY <1>1, <1>2 DEF (+), SetToBag
  <2> QED
    BY <1>1, <1>2, <2>1 DEF NoJobIn, Live
<1>5. At("deps")' = At("deps") /\ At("enqueue")' = At("enqueue")
  BY <1>1 DEF At
<1>6. status' = "failed" => h'.pc \in {"idle", "status"}
  BY <1>1
<1>7. h'.pc = "failJob" => fcont' \in {h'.job.node, NoNode}
  BY <1>1
<1> QED
  BY <1>1, <1>3, <1>4, <1>5, <1>6, <1>7, RepeatFrame

(***************************************************************************)
(* A commit: the node's job becomes a commit, and a dependent's counter    *)
(* that reaches zero becomes its job.                                      *)
(***************************************************************************)
LEMMA RepeatCommit ==
  ASSUME BaseTypeOK, RepeatInv, Commit
  PROVE  RepeatInv'
<1>0. h.job \in Jobs /\ h.job.node \in Nodes /\ deps \in [Nodes -> Int]
      /\ IsABag(queue) /\ DOMAIN queue \subseteq Jobs /\ commits \in [Nodes -> Nat]
  BY DEF BaseTypeOK, Handlers, Jobs, BagToSet
<1>1. PICK m \in Nodes : m = h.job.node
  BY <1>0
<1> DEFINE after == {k \in Nodes : m \in Preds[k]}
           ready == {k \in after : deps[k] - 1 = 0}
           New == {NewJob(k) : k \in ready}
<1>2. /\ h.pc = "run" /\ h'.pc = "readPending"
      /\ deps' = [k \in Nodes |-> IF k \in after THEN deps[k] - 1 ELSE deps[k]]
      /\ queue' = queue (+) SetToBag(New)
      /\ commits' = [commits EXCEPT ![m] = @ + 1]
      /\ UNCHANGED <<status, fcont, x, unrest>>
  BY <1>1 DEF Commit, Goto, BaseTypeOK, Handlers
<1>3. status # "failed"
  BY <1>2 DEF RepeatInv
<1>4. New \in SUBSET Jobs /\ \A j \in New : j.node \in ready /\ j = NewJob(j.node)
  BY Idles
<1>5. DOMAIN queue' = DOMAIN queue \cup New
  BY <1>2 DEF (+), SetToBag
<1>6. At("deps")' = At("deps") /\ At("enqueue")' = At("enqueue")
  BY <1>2 DEF At
<1>7. \A k \in Nodes : Leftover(k) => Leftover(k)' /\ k \notin ready
  <2> SUFFICES ASSUME NEW k \in Nodes, Leftover(k) PROVE Leftover(k)' /\ k \notin ready
    OBVIOUS
  <2>1. PICK S \in SUBSET Nodes : Upstream(S, k) /\ NoJobIn(S)
    BY DEF Leftover
  <2>2. m \notin S
    BY <1>1, <1>2, <2>1 DEF NoJobIn, Live
  <2>3. k \notin ready /\ \A j \in New : j.node \notin S
    BY <1>4, <2>1, <2>2 DEF Upstream
  <2>4. NoJobIn(S)'
    BY <1>2, <1>5, <2>1, <2>3 DEF NoJobIn, Live
  <2> QED
    BY <1>6, <2>1, <2>3, <2>4 DEF Leftover
<1>8. ASSUME NEW n \in Nodes PROVE IsFiniteSet(Copies(queue', n)) /\ Budget(n)'
  <2> DEFINE b == One(n \in ready)
             d == One(n = m)
  <2>1. IsFiniteSet(Copies(queue, n))
    BY DEF RepeatInv
  <2>2. (\E j \in New : j.node = n) <=> n \in ready
    BY <1>4, Idles
  <2>3. One(\E j \in New : j.node = n) = b
    BY <2>2 DEF One
  <2>4. \A i, j \in New : i.node = n /\ j.node = n => i = j
    BY <1>4
  <2>5. /\ IsFiniteSet(Copies(queue', n))
        /\ Cardinality(Copies(queue', n)) <= Cardinality(Copies(queue, n)) + b
    <3> HIDE DEF New, ready, after, b
    <3>1. /\ IsFiniteSet(Copies(queue (+) SetToBag(New), n))
          /\ Cardinality(Copies(queue (+) SetToBag(New), n))
               <= Cardinality(Copies(queue, n)) + One(\E j \in New : j.node = n)
      BY <1>0, <1>4, <2>1, <2>4, CopiesAdd, Zenon
    <3> QED
      BY <1>2, <2>3, <3>1
  <2>6. commits'[n] = commits[n] + d
    BY <1>0, <1>2 DEF One
  <2>7. InHand(n) = d /\ InHand(n)' = 0 /\ ToContinue(n)' = 0
    BY <1>1, <1>2, <1>3 DEF InHand, ToContinue, Live, One
  <2>8. ByCounter(n)' + b <= ByCounter(n)
    <3>1. CASE n \in ready
      <4>1. deps[n] = 1 /\ deps'[n] = 0 /\ ~Leftover(n)
        BY <1>0, <1>2, <1>7, <3>1
      <4> QED
        BY <3>1, <4>1 DEF ByCounter, One
    <3>2. CASE n \notin ready
      <4>1. deps'[n] \in Int /\ deps'[n] <= deps[n]
        BY <1>0, <1>2
      <4>2. ByCounter(n)' <= ByCounter(n)
        BY <1>0, <1>7, <4>1 DEF ByCounter, One
      <4> QED
        BY <3>2, <4>2 DEF ByCounter, One
    <3> QED
      BY <3>1, <3>2
  <2>9. ByRestart(n)' = ByRestart(n)
    BY <1>6 DEF ByRestart
  <2>10. IsFiniteSet(At("deps")') /\ IsFiniteSet(At("enqueue")')
    BY <1>6 DEF RepeatInv
  <2>11. /\ InQueue(n)' \in Nat /\ ByCounter(n)' \in {0, 1}
         /\ Work(n)' = InQueue(n)' + InHand(n)' + ToContinue(n)'
    BY <2>5, <2>10, BudgetTypesNext
  <2>12. /\ commits[n] \in Nat /\ unrest \in Nat /\ InQueue(n) \in Nat
         /\ ToContinue(n) \in {0, 1} /\ ByCounter(n) \in {0, 1} /\ ByRestart(n) \in Nat
         /\ commits[n] + Work(n) + ByCounter(n) + ByRestart(n) <= 1 + unrest
    BY BudgetTypes
  <2>13. InQueue(n)' <= InQueue(n) + b
    BY <2>5 DEF InQueue
  <2>14. b \in {0, 1} /\ d \in {0, 1}
    BY DEF One
  <2>15. Work(n) = InQueue(n) + d + ToContinue(n)
    BY <2>7 DEF Work
  <2> HIDE DEF b, d
  <2>16. commits'[n] + Work(n)' + ByCounter(n)' + ByRestart(n)' <= 1 + unrest
    BY <2>6, <2>7, <2>8, <2>9, <2>11, <2>12, <2>13, <2>14, <2>15
  <2> QED
    BY <1>2, <2>5, <2>16 DEF Budget
<1>9. deps'[Root] = 0
  BY <1>0, <1>2, RerunAssumption DEF RepeatInv
<1>10. status' # "failed" /\ h'.pc # "failJob"
  BY <1>2, <1>3
<1> QED
  BY <1>6, <1>8, <1>9, <1>10 DEF RepeatInv

(***************************************************************************)
(* A crash: the job in hand is back, and the restarts are gone.            *)
(***************************************************************************)
LEMMA RepeatCrash ==
  ASSUME BaseTypeOK, RepeatInv, Crash
  PROVE  RepeatInv'
<1>1. /\ h' = IdleHandler /\ h'.pc = "idle"
      /\ queue' = IF Live THEN queue (+) SetToBag({h.job}) ELSE queue
      /\ x' = [c \in Callers |-> IdleCaller]
      /\ UNCHANGED <<status, deps, fcont, commits, unrest>>
      /\ h.job \in Jobs
  BY Idles DEF Crash, ghostVars, Live, BaseTypeOK, Handlers
<1>2. PICK j \in Jobs : j = h.job
  BY <1>1
<1>3. At("deps")' = {} /\ At("enqueue")' = {}
  BY <1>1, Idles DEF At
<1>4. IsFiniteSet(At("deps")') /\ IsFiniteSet(At("enqueue")')
  BY <1>3, FS_EmptySet
<1>5. ASSUME NEW n \in Nodes PROVE IsFiniteSet(Copies(queue', n)) /\ Budget(n)'
  <2>1. /\ IsFiniteSet(Copies(queue', n)) /\ InQueue(n)' <= InQueue(n) + InHand(n)
        /\ InQueue(n) \in Nat
    <3>1. CASE Live
      <4>1. /\ IsFiniteSet(Copies(queue', n))
            /\ InQueue(n)' <= InQueue(n) + One(j.node = n) /\ InQueue(n) \in Nat
        BY <1>1, <1>2, <3>1, EnqueueCopies
      <4>2. InHand(n) = One(j.node = n)
        BY <1>2, <3>1 DEF InHand, One
      <4> QED
        BY <4>1, <4>2
    <3>2. CASE ~Live
      <4>1. IsFiniteSet(Copies(queue', n)) /\ InQueue(n)' = InQueue(n) /\ InQueue(n) \in Nat
        BY <1>1, <3>2, FS_CardinalityType DEF RepeatInv, InQueue
      <4>2. InHand(n) = 0
        BY <3>2 DEF InHand, One
      <4> QED
        BY <4>1, <4>2
    <3> QED
      BY <3>1, <3>2
  <2>2. InHand(n)' = 0 /\ ToContinue(n)' <= ToContinue(n)
    BY <1>1 DEF InHand, Live, ToContinue, One
  <2>3. /\ InQueue(n)' \in Nat /\ ToContinue(n)' \in {0, 1} /\ ByCounter(n)' \in {0, 1}
        /\ Work(n)' = InQueue(n)' + InHand(n)' + ToContinue(n)'
    BY <1>4, <2>1, BudgetTypesNext
  <2>4. /\ commits[n] \in Nat /\ unrest \in Nat /\ InHand(n) \in {0, 1}
        /\ ToContinue(n) \in {0, 1} /\ ByCounter(n) \in {0, 1} /\ ByRestart(n) \in Nat
        /\ commits[n] + Work(n) + ByCounter(n) + ByRestart(n) <= 1 + unrest
        /\ Cardinality(At("deps")) \in Nat /\ Cardinality(At("enqueue")) \in Nat
    BY BudgetTypes
  <2>5. ByRestart(n)' = 0
    <3>1. Cardinality(At("deps")') = 0 /\ Cardinality(At("enqueue")') = 0
      BY <1>3, FS_EmptySet
    <3> QED
      BY <3>1 DEF ByRestart
  <2>6. ByCounter(n)' <= ByCounter(n) + ByRestart(n)
    <3>1. CASE At("deps") = {}
      <4>1. ~Leftover(n)
        BY <3>1 DEF Leftover
      <4>2. ByCounter(n)' <= ByCounter(n)
        BY <1>1, <4>1 DEF ByCounter, One
      <4> QED
        BY <2>3, <2>4, <4>2
    <3>2. CASE At("deps") # {}
      <4>1. Cardinality(At("deps")) # 0
        BY <3>2, FS_EmptySet DEF RepeatInv
      <4>2. ByRestart(n) >= 1
        BY <2>4, <4>1 DEF ByRestart
      <4> QED
        BY <2>3, <2>4, <4>2
    <3> QED
      BY <3>1, <3>2
  <2>7. Work(n) = InQueue(n) + InHand(n) + ToContinue(n)
    BY DEF Work
  <2>8. commits[n] + Work(n)' + ByCounter(n)' + ByRestart(n)' <= 1 + unrest
    BY <2>1, <2>2, <2>3, <2>4, <2>5, <2>6, <2>7
  <2> QED
    BY <1>1, <2>1, <2>8 DEF Budget
<1>6. deps'[Root] = 0
  BY <1>1 DEF RepeatInv
<1> QED
  BY <1>1, <1>4, <1>5, <1>6 DEF RepeatInv

(***************************************************************************)
(* Where the restarts stand after a step of caller c.                      *)
(***************************************************************************)
LEMMA CallerAt ==
  ASSUME BaseTypeOK, NEW c \in Callers,
         OperatorAsks(c) \/ NodeAsks(c) \/ CallerStep(c)
  PROVE  /\ At("deps")' = (At("deps") \ {c}) \cup (IF RestartCreate(c) THEN {c} ELSE {})
         /\ At("enqueue")' = (At("enqueue") \ {c}) \cup (IF RestartDeps(c) THEN {c} ELSE {})
         /\ h' = h
<1>1. PICK r \in Calls : /\ x' = [x EXCEPT ![c] = r]
                         /\ r.pc = "deps" <=> RestartCreate(c)
                         /\ r.pc = "enqueue" <=> RestartDeps(c)
  BY CallerRecord
<1>2. \A d \in Callers : x'[d] = IF d = c THEN r ELSE x[d]
  BY <1>1 DEF BaseTypeOK
<1>3. h' = h
  BY DEF OperatorAsks, NodeAsks, CallerStep, GetFailedContinuation, rerunContinue,
     RestartRefused, RestartCreate, RestartDeps, RestartEnqueue, Discard, NodeCommits
<1>4. At("deps")' = (At("deps") \ {c}) \cup (IF RestartCreate(c) THEN {c} ELSE {})
  BY <1>1, <1>2 DEF At
<1>5. At("enqueue")' = (At("enqueue") \ {c}) \cup (IF RestartDeps(c) THEN {c} ELSE {})
  BY <1>1, <1>2 DEF At
<1> QED
  BY <1>3, <1>4, <1>5

(***************************************************************************)
(* The steps of a caller that neither continue nor restart the run.        *)
(***************************************************************************)
LEMMA RepeatQuiet ==
  ASSUME BaseTypeOK, RepeatInv, NEW c \in Callers,
         OperatorAsks(c) \/ NodeAsks(c) \/ CallerStep(c),
         ~rerunContinue(c), ~RestartCreate(c), ~RestartDeps(c), ~RestartEnqueue(c)
  PROVE  RepeatInv'
<1>1. /\ UNCHANGED <<status, deps, queue, commits, unrest>> /\ fcont' \in {fcont, NoNode}
      /\ x[c].pc \notin {"deps", "enqueue"}
  BY DEF OperatorAsks, NodeAsks, CallerStep, GetFailedContinuation,
     RestartRefused, Discard, NodeCommits, storeVars, ghostVars
<1>2. h' = h /\ At("deps")' = At("deps") /\ At("enqueue")' = At("enqueue")
  BY <1>1, CallerAt DEF At
<1>3. ASSUME NEW n \in Nodes PROVE IsFiniteSet(Copies(queue, n))' /\ Work(n)' <= Work(n)
  <2>1. IsFiniteSet(Copies(queue, n))' /\ InQueue(n)' = InQueue(n) /\ InQueue(n) \in Nat
    BY <1>1, FS_CardinalityType DEF RepeatInv, InQueue
  <2>2. InHand(n)' = InHand(n) /\ InHand(n) \in {0, 1}
    BY <1>2 DEF InHand, Live, One
  <2>3. /\ ToContinue(n)' <= ToContinue(n)
        /\ ToContinue(n) \in {0, 1} /\ ToContinue(n)' \in {0, 1}
    BY <1>1, <1>2, RerunAssumption DEF ToContinue, One
  <2> QED
    BY <2>1, <2>2, <2>3 DEF Work
<1>4. \A S \in SUBSET Nodes : NoJobIn(S) => NoJobIn(S)'
  BY <1>1, <1>2 DEF NoJobIn, Live
<1>5. status' = "failed" => h'.pc \in {"idle", "status"}
  BY <1>1, <1>2 DEF RepeatInv
<1>6. h'.pc = "failJob" => fcont' \in {h'.job.node, NoNode}
  BY <1>1, <1>2 DEF RepeatInv
<1> QED
  BY <1>1, <1>2, <1>3, <1>4, <1>5, <1>6, RepeatFrame

(***************************************************************************)
(* A continue.  At rest it brings the dead-lettered job back; otherwise it *)
(* adds to the budget what it enqueues.                                    *)
(***************************************************************************)
LEMMA RepeatContinue ==
  ASSUME BaseTypeOK, CallerInv, RepeatInv, NEW c \in Callers, rerunContinue(c)
  PROVE  RepeatInv'
<1>0. CallerStep(c) /\ ~RestartCreate(c) /\ ~RestartDeps(c) /\ x[c].pc = "tx"
  BY DEF CallerStep, rerunContinue, RestartCreate, RestartDeps
<1>1. h' = h /\ At("deps")' = At("deps") /\ At("enqueue")' = At("enqueue")
  BY <1>0, CallerAt DEF At
<1>2. PICK m \in Nodes : m = x[c].node
  BY <1>0 DEF BaseTypeOK, CallerInv, Calls
<1>3. PICK j \in Jobs : j = NewJob(m) /\ j.node = m
  BY Idles
<1>4. /\ status' = "running" /\ queue' = queue (+) SetToBag({j})
      /\ UNCHANGED <<deps, fcont, commits>>
      /\ unrest' = IF AtRest /\ status = "failed" /\ fcont = m THEN unrest ELSE unrest + 1
  BY <1>2, <1>3 DEF rerunContinue, NodeToContinue
<1>5. ASSUME NEW n \in Nodes PROVE IsFiniteSet(Copies(queue', n)) /\ Budget(n)'
  <2> DEFINE d == One(m = n)
  <2>1. /\ IsFiniteSet(Copies(queue', n)) /\ InQueue(n)' <= InQueue(n) + One(j.node = n)
        /\ InQueue(n) \in Nat /\ InQueue(n)' \in Nat /\ DOMAIN queue' = DOMAIN queue \cup {j}
    BY <1>4, EnqueueCopies
  <2>2. One(j.node = n) = d /\ d \in {0, 1}
    BY <1>3 DEF One
  <2>3. InHand(n)' = InHand(n) /\ ToContinue(n)' <= ToContinue(n)
    BY <1>1, <1>4 DEF InHand, Live, ToContinue, One
  <2>4. ByRestart(n)' = ByRestart(n)
    BY <1>1 DEF ByRestart
  <2>5. IsFiniteSet(At("deps")') /\ IsFiniteSet(At("enqueue")')
    BY <1>1 DEF RepeatInv
  <2>6. /\ ToContinue(n)' \in {0, 1} /\ ByCounter(n)' \in {0, 1}
        /\ Work(n)' = InQueue(n)' + InHand(n)' + ToContinue(n)'
    BY <2>1, <2>5, BudgetTypesNext
  <2>7. /\ commits[n] \in Nat /\ unrest \in Nat /\ InHand(n) \in {0, 1}
        /\ ToContinue(n) \in {0, 1} /\ ByCounter(n) \in {0, 1} /\ ByRestart(n) \in Nat
        /\ commits[n] + Work(n) + ByCounter(n) + ByRestart(n) <= 1 + unrest
    BY BudgetTypes
  <2>8. Work(n) = InQueue(n) + InHand(n) + ToContinue(n)
    BY DEF Work
  <2>9. ToContinue(n)' + d + ByCounter(n)' + unrest <= ToContinue(n) + ByCounter(n) + unrest'
    <3>1. CASE AtRest /\ status = "failed" /\ fcont = m
      <4>1. At("deps") = {} /\ h.pc = "idle"
        BY <3>1 DEF AtRest, At
      <4>2. ToContinue(n) = d /\ ToContinue(n)' = 0
        BY <1>1, <1>4, <3>1, <4>1 DEF ToContinue, One
      <4>3. ByCounter(n)' = ByCounter(n)
        BY <1>1, <1>4, <4>1 DEF ByCounter, Leftover
      <4> QED
        BY <1>4, <2>2, <2>7, <3>1, <4>2, <4>3
    <3>2. CASE ~(AtRest /\ status = "failed" /\ fcont = m)
      <4>1. unrest' = unrest + 1
        BY <1>4, <3>2
      <4>2. CASE m # n
        <5>1. d = 0
          BY <4>2 DEF One
        <5> QED
          BY <2>3, <2>6, <2>7, <4>1, <5>1
      <4>3. CASE m = n
        <5>1. Leftover(n) => Leftover(n)'
          <6> SUFFICES ASSUME Leftover(n) PROVE Leftover(n)'
            OBVIOUS
          <6>1. PICK S \in SUBSET Nodes : Upstream(S, n) /\ NoJobIn(S)
            BY DEF Leftover
          <6>2. NoJobIn(S)'
            BY <1>1, <1>3, <2>1, <4>3, <6>1 DEF NoJobIn, Live, Upstream
          <6> QED
            BY <1>1, <6>1, <6>2 DEF Leftover
        <5>2. ByCounter(n)' <= ByCounter(n)
          BY <1>4, <5>1 DEF ByCounter, One
        <5> QED
          BY <2>2, <2>3, <2>6, <2>7, <4>1, <5>2
      <4> QED
        BY <4>2, <4>3
    <3> QED
      BY <3>1, <3>2
  <2>10. unrest' \in Nat
    BY <1>4, <2>7
  <2> HIDE DEF d
  <2>11. commits[n] + Work(n)' + ByCounter(n)' + ByRestart(n)' <= 1 + unrest'
    BY <2>1, <2>2, <2>3, <2>4, <2>6, <2>7, <2>8, <2>9, <2>10
  <2> QED
    BY <1>4, <2>1, <2>11 DEF Budget
<1>6. deps'[Root] = 0
  BY <1>4 DEF RepeatInv
<1>7. status' # "failed" /\ (h'.pc = "failJob" => fcont' \in {h'.job.node, NoNode})
  BY <1>1, <1>4 DEF RepeatInv
<1> QED
  BY <1>1, <1>5, <1>6, <1>7 DEF RepeatInv

(***************************************************************************)
(* The first commit of a restart.  At rest nothing is left of the run but  *)
(* its counters, and they are about to be reset; otherwise the restart     *)
(* adds its own jobs to the budget.                                        *)
(***************************************************************************)
LEMMA RepeatCreate ==
  ASSUME BaseTypeOK, RepeatInv, NEW c \in Callers, RestartCreate(c)
  PROVE  RepeatInv'
<1>0. CallerStep(c) /\ ~RestartDeps(c) /\ x[c].pc = "tx"
  BY DEF CallerStep, RestartCreate, RestartDeps
<1>1. /\ h' = h /\ At("deps")' = At("deps") \cup {c} /\ c \notin At("deps")
      /\ At("enqueue")' = At("enqueue")
  BY <1>0, CallerAt DEF At
<1>2. /\ status' = "running" /\ commits' = [n \in Nodes |-> 0]
      /\ UNCHANGED <<deps, fcont, queue>>
      /\ unrest' = IF AtRest THEN unrest ELSE unrest + 1
  BY DEF RestartCreate
<1>3. IsFiniteSet(At("deps")) /\ IsFiniteSet(At("enqueue"))
  BY DEF RepeatInv
<1>4. /\ IsFiniteSet(At("deps")') /\ IsFiniteSet(At("enqueue")')
      /\ Cardinality(At("deps")') = Cardinality(At("deps")) + 1
  BY <1>1, <1>3, FS_AddElement
<1>5. ASSUME NEW n \in Nodes PROVE IsFiniteSet(Copies(queue', n)) /\ Budget(n)'
  <2>1. IsFiniteSet(Copies(queue', n)) /\ InQueue(n)' = InQueue(n)
    BY <1>2 DEF RepeatInv, InQueue
  <2>2. InHand(n)' = InHand(n) /\ ToContinue(n)' <= ToContinue(n)
    BY <1>1, <1>2 DEF InHand, Live, ToContinue, One
  <2>3. /\ commits[n] \in Nat /\ unrest \in Nat /\ InQueue(n) \in Nat /\ InHand(n) \in {0, 1}
        /\ ToContinue(n) \in {0, 1} /\ ByCounter(n) \in {0, 1} /\ ByRestart(n) \in Nat
        /\ Cardinality(At("deps")) \in Nat /\ Cardinality(At("enqueue")) \in Nat
        /\ commits[n] + Work(n) + ByCounter(n) + ByRestart(n) <= 1 + unrest
    BY BudgetTypes
  <2>4. Work(n) = InQueue(n) + InHand(n) + ToContinue(n)
    BY DEF Work
  <2>5. /\ ToContinue(n)' \in {0, 1} /\ ByCounter(n)' \in {0, 1}
        /\ Work(n)' = InQueue(n)' + InHand(n)' + ToContinue(n)'
    BY <1>4, <2>1, BudgetTypesNext
  <2>6. ByRestart(n)' = ByRestart(n) + 1
    BY <1>1, <1>4, <2>3 DEF ByRestart
  <2>7. commits'[n] = 0
    BY <1>2
  <2>8. CASE AtRest
    <3>1. queue = EmptyBag /\ h.pc = "idle" /\ At("deps") = {} /\ At("enqueue") = {}
      BY <2>8 DEF AtRest, At
    <3>2. InQueue(n) = 0
      <4>1. DOMAIN queue = {}
        BY <3>1 DEF EmptyBag, SetToBag
      <4>2. Copies(queue, n) = {}
        BY <4>1 DEF Copies
      <4> QED
        BY <4>2, FS_EmptySet DEF InQueue
    <3>3. InHand(n) = 0 /\ ToContinue(n)' = 0
      BY <1>1, <1>2, <3>1 DEF InHand, Live, ToContinue, One
    <3>4. ByRestart(n) = 0
      <4>1. Cardinality(At("deps")) = 0 /\ Cardinality(At("enqueue")) = 0
        BY <3>1, FS_EmptySet
      <4> QED
        BY <4>1 DEF ByRestart
    <3>5. ByCounter(n)' = 0
      <4>1. PICK S \in SUBSET Nodes : Upstream(S, n)
        BY UpstreamExists
      <4>2. NoJobIn(S)'
        <5>1. DOMAIN queue' = {}
          BY <1>2, <3>1 DEF EmptyBag, SetToBag
        <5> QED
          BY <1>1, <3>1, <5>1 DEF NoJobIn, Live
      <4>3. Leftover(n)'
        BY <1>1, <3>1, <4>1, <4>2 DEF Leftover
      <4> QED
        BY <4>3 DEF ByCounter, One
    <3>6. commits'[n] + Work(n)' + ByCounter(n)' + ByRestart(n)' <= 1 + unrest'
      BY <1>2, <2>1, <2>2, <2>3, <2>5, <2>6, <2>7, <2>8, <3>2, <3>3, <3>4, <3>5
    <3> QED
      BY <2>1, <3>6 DEF Budget
  <2>9. CASE ~AtRest
    <3>1. Leftover(n) => Leftover(n)'
      BY <1>1, <1>2 DEF Leftover, NoJobIn, Live
    <3>2. ByCounter(n)' <= ByCounter(n)
      BY <1>2, <3>1 DEF ByCounter, One
    <3>3. unrest' = unrest + 1
      BY <1>2, <2>9
    <3>4. commits'[n] + Work(n)' + ByCounter(n)' + ByRestart(n)' <= 1 + unrest'
      BY <2>1, <2>2, <2>3, <2>4, <2>5, <2>6, <2>7, <3>2, <3>3
    <3> QED
      BY <2>1, <3>4 DEF Budget
  <2> QED
    BY <2>8, <2>9
<1>6. deps'[Root] = 0
  BY <1>2 DEF RepeatInv
<1>7. status' # "failed" /\ (h'.pc = "failJob" => fcont' \in {h'.job.node, NoNode})
  BY <1>1, <1>2 DEF RepeatInv
<1> QED
  BY <1>4, <1>5, <1>6, <1>7 DEF RepeatInv

(***************************************************************************)
(* The second commit of a restart trades itself for the counters.          *)
(***************************************************************************)
LEMMA RepeatDeps ==
  ASSUME BaseTypeOK, RepeatInv, NEW c \in Callers, RestartDeps(c)
  PROVE  RepeatInv'
<1>0. CallerStep(c) /\ ~RestartCreate(c) /\ x[c].pc = "deps"
  BY DEF CallerStep, RestartCreate, RestartDeps
<1>1. /\ h' = h /\ At("deps")' = At("deps") \ {c} /\ c \in At("deps")
      /\ At("enqueue")' = At("enqueue") \cup {c} /\ c \notin At("enqueue")
  BY <1>0, CallerAt DEF At
<1>2. deps' = InitialDeps /\ UNCHANGED <<status, fcont, queue, commits, unrest>>
  BY DEF RestartDeps, ghostVars
<1>3. IsFiniteSet(At("deps")) /\ IsFiniteSet(At("enqueue"))
  BY DEF RepeatInv
<1>4. IsFiniteSet(At("deps")') /\ Cardinality(At("deps")') = Cardinality(At("deps")) - 1
  BY <1>1, <1>3, FS_RemoveElement
<1>5. IsFiniteSet(At("enqueue")') /\ Cardinality(At("enqueue")') = Cardinality(At("enqueue")) + 1
  BY <1>1, <1>3, FS_AddElement
<1>6. deps'[Root] = 0
  BY <1>2, RerunAssumption, FS_EmptySet DEF InitialDeps
<1>7. ASSUME NEW n \in Nodes PROVE IsFiniteSet(Copies(queue', n)) /\ Budget(n)'
  <2>1. IsFiniteSet(Copies(queue', n)) /\ InQueue(n)' = InQueue(n)
    BY <1>2 DEF RepeatInv, InQueue
  <2>2. InHand(n)' = InHand(n) /\ ToContinue(n)' = ToContinue(n)
    BY <1>1, <1>2 DEF InHand, Live, ToContinue
  <2>3. /\ commits[n] \in Nat /\ unrest \in Nat /\ Work(n) \in Nat
        /\ ByCounter(n) \in {0, 1} /\ ByRestart(n) \in Nat
        /\ Cardinality(At("deps")) \in Nat /\ Cardinality(At("enqueue")) \in Nat
        /\ commits[n] + Work(n) + ByCounter(n) + ByRestart(n) <= 1 + unrest
    BY BudgetTypes
  <2>4. Work(n)' = Work(n)
    BY <2>1, <2>2 DEF Work
  <2>5. ByCounter(n)' \in {0, 1}
    BY <1>4, <1>5, <2>1, BudgetTypesNext
  <2>6. ByCounter(n)' + ByRestart(n)' <= ByRestart(n)
    <3>1. CASE n = Root
      <4>1. ByCounter(n)' = 0
        BY <1>6, <3>1 DEF ByCounter, One
      <4> QED
        BY <1>4, <1>5, <2>3, <3>1, <4>1 DEF ByRestart
    <3>2. CASE n # Root
      BY <1>4, <2>3, <2>5, <3>2 DEF ByRestart
    <3> QED
      BY <3>1, <3>2
  <2>7. ByRestart(n)' \in Nat
    BY <1>4, <1>5, <2>1, BudgetTypesNext
  <2>8. commits[n] + Work(n)' + ByCounter(n)' + ByRestart(n)' <= 1 + unrest
    BY <2>3, <2>4, <2>5, <2>6, <2>7
  <2> QED
    BY <1>2, <2>1, <2>8 DEF Budget
<1>8. /\ status' = "failed" => h'.pc \in {"idle", "status"}
      /\ h'.pc = "failJob" => fcont' \in {h'.job.node, NoNode}
  BY <1>1, <1>2 DEF RepeatInv
<1> QED
  BY <1>4, <1>5, <1>6, <1>7, <1>8 DEF RepeatInv

(***************************************************************************)
(* The third commit of a restart trades itself for the job of the head.    *)
(***************************************************************************)
LEMMA RepeatEnqueue ==
  ASSUME BaseTypeOK, RepeatInv, NEW c \in Callers, RestartEnqueue(c)
  PROVE  RepeatInv'
<1>0. CallerStep(c) /\ ~RestartCreate(c) /\ ~RestartDeps(c) /\ x[c].pc = "enqueue"
  BY DEF CallerStep, RestartCreate, RestartDeps, RestartEnqueue
<1>1. /\ h' = h /\ At("deps")' = At("deps")
      /\ At("enqueue")' = At("enqueue") \ {c} /\ c \in At("enqueue")
  BY <1>0, CallerAt DEF At
<1>2. PICK j \in Jobs : j = NewJob(Root) /\ j.node = Root
  BY Idles, RerunAssumption
<1>3. queue' = queue (+) SetToBag({j}) /\ UNCHANGED <<status, deps, fcont, commits, unrest>>
  BY <1>2 DEF RestartEnqueue, ghostVars
<1>4. IsFiniteSet(At("deps")) /\ IsFiniteSet(At("enqueue"))
  BY DEF RepeatInv
<1>5. /\ IsFiniteSet(At("enqueue")') /\ IsFiniteSet(At("deps")')
      /\ Cardinality(At("enqueue")') = Cardinality(At("enqueue")) - 1
  BY <1>1, <1>4, FS_RemoveElement
<1>6. ASSUME NEW n \in Nodes PROVE IsFiniteSet(Copies(queue', n)) /\ Budget(n)'
  <2>1. /\ IsFiniteSet(Copies(queue', n)) /\ InQueue(n)' <= InQueue(n) + One(j.node = n)
        /\ InQueue(n) \in Nat /\ InQueue(n)' \in Nat
    BY <1>3, EnqueueCopies
  <2>2. InHand(n)' = InHand(n) /\ ToContinue(n)' = ToContinue(n)
    BY <1>1, <1>3 DEF InHand, Live, ToContinue
  <2>3. /\ commits[n] \in Nat /\ unrest \in Nat /\ InHand(n) \in {0, 1}
        /\ ToContinue(n) \in {0, 1} /\ ByCounter(n) \in {0, 1} /\ ByRestart(n) \in Nat
        /\ Cardinality(At("deps")) \in Nat /\ Cardinality(At("enqueue")) \in Nat
        /\ commits[n] + Work(n) + ByCounter(n) + ByRestart(n) <= 1 + unrest
    BY BudgetTypes
  <2>4. Work(n) = InQueue(n) + InHand(n) + ToContinue(n)
    BY DEF Work
  <2>5. /\ ByCounter(n)' \in {0, 1} /\ ByRestart(n)' \in Nat
        /\ Work(n)' = InQueue(n)' + InHand(n)' + ToContinue(n)'
    BY <1>5, <2>1, BudgetTypesNext
  <2>6. ByCounter(n)' <= ByCounter(n)
    <3>1. ~Leftover(n)
      BY <1>1 DEF Leftover
    <3> QED
      BY <1>3, <3>1 DEF ByCounter, One
  <2>7. One(j.node = n) + ByRestart(n)' <= ByRestart(n)
    <3>1. CASE n = Root
      <4>1. One(j.node = n) = 1
        BY <1>2, <3>1 DEF One
      <4> QED
        BY <1>1, <1>5, <2>3, <3>1, <4>1 DEF ByRestart
    <3>2. CASE n # Root
      <4>1. One(j.node = n) = 0
        BY <1>2, <3>2 DEF One
      <4> QED
        BY <1>1, <2>3, <3>2, <4>1 DEF ByRestart
    <3> QED
      BY <3>1, <3>2
  <2>8. One(j.node = n) \in {0, 1}
    BY DEF One
  <2>9. commits[n] + Work(n)' + ByCounter(n)' + ByRestart(n)' <= 1 + unrest
    BY <2>1, <2>2, <2>3, <2>4, <2>5, <2>6, <2>7, <2>8
  <2> QED
    BY <1>3, <2>1, <2>9 DEF Budget
<1>7. deps'[Root] = 0
  BY <1>3 DEF RepeatInv
<1>8. /\ status' = "failed" => h'.pc \in {"idle", "status"}
      /\ h'.pc = "failJob" => fcont' \in {h'.job.node, NoNode}
  BY <1>1, <1>3 DEF RepeatInv
<1> QED
  BY <1>5, <1>6, <1>7, <1>8 DEF RepeatInv

(***************************************************************************)
(* A new run has the job of its head and no other.                         *)
(***************************************************************************)
LEMMA RepeatInit == Init => BaseTypeOK /\ CallerInv /\ RepeatInv
<1> SUFFICES ASSUME Init PROVE BaseTypeOK /\ CallerInv /\ RepeatInv
  OBVIOUS
<1>1. PICK j \in Jobs : j = NewJob(Root) /\ j.node = Root
  BY Idles, RerunAssumption
<1>2. /\ DOMAIN queue = {j} /\ queue[j] = 1
      /\ \A n \in Nodes : Copies(queue, n) \subseteq {<<j, 1>>}
      /\ \A n \in Nodes : n # Root => Copies(queue, n) = {}
  <2>1. DOMAIN queue = {j} /\ queue[j] = 1
    BY <1>1 DEF Init, SetToBag
  <2>2. ASSUME NEW n \in Nodes, NEW q \in Copies(queue, n) PROVE q = <<j, 1>> /\ n = Root
    <3>1. q \in Jobs \X Nat /\ q[1] = j /\ q[2] \in 1..1 /\ q[1].node = n
      BY <2>1, <2>2 DEF Copies
    <3> QED
      BY <1>1, <3>1
  <2> QED
    BY <2>1, <2>2
<1>3. At("deps") = {} /\ At("enqueue") = {} /\ h.pc = "idle" /\ status = "running"
  BY Idles DEF At, Init
<1>4. ASSUME NEW n \in Nodes PROVE IsFiniteSet(Copies(queue, n)) /\ Budget(n)
  <2>1. IsFiniteSet({<<j, 1>>}) /\ Cardinality({<<j, 1>>}) = 1
    BY FS_Singleton
  <2>2. IsFiniteSet(Copies(queue, n)) /\ Cardinality(Copies(queue, n)) <= 1
    BY <1>2, <2>1, FS_Subset
  <2>3. InQueue(n) \in Nat /\ InQueue(n) <= 1 /\ (n # Root => InQueue(n) = 0)
    BY <1>2, <2>2, FS_CardinalityType, FS_EmptySet DEF InQueue
  <2>4. InHand(n) = 0 /\ ToContinue(n) = 0
    BY <1>3 DEF InHand, ToContinue, Live, One
  <2>5. ByRestart(n) = 0
    BY <1>3, FS_EmptySet DEF ByRestart
  <2>6. ByCounter(n) \in {0, 1} /\ (n = Root => ByCounter(n) = 0)
    <3>1. deps[Root] = 0
      BY RerunAssumption, FS_EmptySet DEF Init, InitialDeps
    <3> QED
      BY <3>1 DEF ByCounter, One
  <2>7. commits[n] = 0 /\ unrest = 0
    BY DEF Init
  <2>8. InQueue(n) + ByCounter(n) <= 1
    BY <2>3, <2>6
  <2> QED
    BY <2>2, <2>3, <2>4, <2>5, <2>6, <2>7, <2>8 DEF Budget, Work
<1>5. deps[Root] = 0
  BY RerunAssumption, FS_EmptySet DEF Init, InitialDeps
<1>6. IsFiniteSet(At("deps")) /\ IsFiniteSet(At("enqueue"))
  BY <1>3, FS_EmptySet
<1>7. RepeatInv
  BY <1>3, <1>4, <1>5, <1>6 DEF RepeatInv
<1>8. BaseTypeOK /\ CallerInv
  <2>1. IsABag(queue) /\ BagToSet(queue) \subseteq Jobs
    BY <1>1, <1>2 DEF Init, IsABag, BagToSet, SetToBag
  <2>2. deps \in [Nodes -> Int]
    BY InitialDepsType DEF Init
  <2>3. CallerInv
    BY Idles DEF Init, CallerInv
  <2>4. h \in Handlers /\ x \in [Callers -> Calls]
    BY Idles DEF Init
  <2>5. status = "running" /\ pending = 1 /\ fcont = NoNode /\ asked = 0
    BY DEF Init
  <2>6. reruns \in 0..MaxReruns /\ crashes \in 0..MaxCrashes
    BY RerunAssumption DEF Init
  <2>7. commits \in [Nodes -> Nat] /\ unrest \in Nat
    BY DEF Init
  <2> QED
    BY <2>1, <2>2, <2>3, <2>4, <2>5, <2>6, <2>7 DEF BaseTypeOK
<1> QED
  BY <1>7, <1>8

-----------------------------------------------------------------------------
(* Theorems *)

(***************************************************************************)
(* The invariant holds in every reachable state of a chain's run.          *)
(***************************************************************************)
THEOREM RerunInvariance ==
  ASSUME Chain
  PROVE  Spec => []RerunInv
<1>1. Init => RerunInv
  BY InitRerun
<1>2. RerunInv /\ [Next]_vars => RerunInv'
  <2> SUFFICES ASSUME RerunInv, [Next]_vars PROVE RerunInv'
    OBVIOUS
  <2>1. CASE UNCHANGED vars
    <3>1. /\ UNCHANGED <<status, pending, deps, fcont, queue, h>>
          /\ UNCHANGED <<x, asked, reruns, crashes, commits, unrest>>
      BY <2>1 DEF vars, storeVars, ghostVars
    <3>2. BaseTypeOK' /\ CallerInv'
      BY <3>1 DEF RerunInv, BaseTypeOK, CallerInv
    <3>3. Rested => Rested'
      <4>1. Committed' = Committed /\ Frontier' = Frontier /\ Restarting' = Restarting
        BY <3>1, KeepProgress DEF Restarting
      <4>2. \A n : Continues(n) => Continues(n)'
        BY <3>1, <4>1 DEF Continues
      <4>3. InitialDeps' = InitialDeps
        BY DEF InitialDeps
      <4>4. Queued => Queued'
        BY <3>1, <4>1, <4>2 DEF Queued
      <4>5. (Held => Held') /\ (Dead => Dead') /\ (Failed => Failed')
        BY <3>1, <4>1 DEF Held, Dead, Failed, Continues
      <4>6. (Finished => Finished') /\ (Lost => Lost') /\ (Starting => Starting')
        BY <3>1, <4>1, <4>3 DEF Finished, Lost, Starting
      <4> QED
        BY <3>1, <4>4, <4>5, <4>6 DEF Rested, Shape
    <3> QED
      BY <3>1, <3>2, <3>3 DEF RerunInv
  <2>2. CASE Next
    <3>1. BaseTypeOK' /\ CallerInv'
      BY <2>2, BaseTypeStep DEF RerunInv
    <3>2. unrest' = 0 => unrest = 0
      <4>1. unrest' \in {unrest, unrest + 1}
        BY <2>2 DEF Next, WorkerStep, Claim, HandleStatus, Commit, RunRetry, RunFails,
           SaveCont, DeadLetter, SetFailed, ReadPending, SetCompleted, OperatorAsks, NodeAsks,
           CallerStep, GetFailedContinuation, rerunContinue, RestartRefused, RestartCreate,
           RestartDeps, RestartEnqueue, Discard, NodeCommits, Crash, ghostVars
      <4> QED
        BY <4>1 DEF RerunInv, BaseTypeOK
    <3>3. ASSUME unrest' = 0 PROVE Rested'
      <4>1. BaseTypeOK /\ CallerInv /\ Rested
        BY <3>2, <3>3 DEF RerunInv
      <4>2. CASE WorkerStep
        BY <4>1, <4>2, WorkerRested
      <4>3. CASE \E c \in Callers : OperatorAsks(c) \/ NodeAsks(c) \/ CallerStep(c)
        BY <3>3, <4>1, <4>3, CallerRested
      <4>4. CASE Crash
        BY <4>1, <4>4, CrashRested
      <4> QED
        BY <2>2, <4>2, <4>3, <4>4 DEF Next, Callers
    <3> QED
      BY <3>1, <3>3 DEF RerunInv
  <2> QED
    BY <2>1, <2>2
<1> QED
  BY <1>1, <1>2, PTL DEF Spec

(***************************************************************************)
(* Every variable keeps its type, and the counters of a run that is only   *)
(* rerun at rest never go below zero (rerunContinue, rerunRestart).        *)
(***************************************************************************)
THEOREM RerunTypeCorrectness ==
  ASSUME Chain
  PROVE  Spec => []RerunTypeOK
<1>1. RerunInv => RerunTypeOK
  BY DEF RerunInv, BaseTypeOK, Rested, RerunTypeOK
<1> QED
  BY <1>1, RerunInvariance, PTL

(***************************************************************************)
(* A run that is only rerun at rest is completed when every node has       *)
(* committed since it last started (rerunContinue takes up the node that   *)
(* failed, rerunRestart leaves nothing of the failed run behind).          *)
(***************************************************************************)
THEOREM RerunsComplete ==
  ASSUME Chain
  PROVE  Spec => []RerunCompletesTheRun
<1>1. RerunInv => RerunCompletesTheRun
  <2> SUFFICES ASSUME RerunInv, status = "completed", unrest = 0, NEW n \in Nodes
               PROVE  commits[n] > 0
    BY DEF RerunCompletesTheRun
  <2>1. Shape
    BY DEF RerunInv, Rested
  <2>2. Finished
    BY <2>1 DEF Shape, Queued, Held, Dead, Failed, Lost, Starting
  <2> QED
    BY <2>2 DEF Finished, Committed
<1> QED
  BY <1>1, RerunInvariance, PTL

(***************************************************************************)
(* For every workflow, not chains alone: a node that has committed commits *)
(* again only after a restart, or once for each continue or restart that   *)
(* found the run not at rest.  A rerun-failed node's job that a crash      *)
(* delivers again is such a continue (rerunContinue keeps the              *)
(* continuation and looks at no status).                                   *)
(***************************************************************************)
THEOREM NothingIsRepeated == Spec => []ContinueRepeatsNothing
<1> DEFINE Inv == BaseTypeOK /\ CallerInv /\ RepeatInv
<1>1. Init => Inv
  BY RepeatInit
<1>2. Inv /\ [Next]_vars => Inv'
  <2> SUFFICES ASSUME Inv, [Next]_vars PROVE Inv'
    OBVIOUS
  <2>1. CASE UNCHANGED vars
    <3>1. /\ UNCHANGED <<status, pending, deps, fcont, queue, h>>
          /\ UNCHANGED <<x, asked, reruns, crashes, commits, unrest>>
      BY <2>1 DEF vars, storeVars, ghostVars
    <3>2. BaseTypeOK' /\ CallerInv'
      BY <3>1 DEF BaseTypeOK, CallerInv
    <3>3. At("deps")' = At("deps") /\ At("enqueue")' = At("enqueue")
      BY <3>1 DEF At
    <3>4. \A S : NoJobIn(S) => NoJobIn(S)'
      BY <3>1 DEF NoJobIn, Live
    <3>5. ASSUME NEW n \in Nodes PROVE IsFiniteSet(Copies(queue, n))' /\ Work(n)' <= Work(n)
      <4>1. Work(n)' = Work(n) /\ IsFiniteSet(Copies(queue, n))'
        BY <3>1 DEF RepeatInv, Work, InQueue, InHand, ToContinue, Live
      <4> QED
        BY <4>1, BudgetTypes
    <3>6. RepeatInv'
      BY <3>1, <3>3, <3>4, <3>5, RepeatFrame DEF RepeatInv
    <3> QED
      BY <3>2, <3>6
  <2>2. CASE Next
    <3>1. BaseTypeOK' /\ CallerInv'
      BY <2>2, BaseTypeStep
    <3>2. CASE WorkerStep
      BY <3>1, <3>2, RepeatClaim, RepeatHandler, RepeatRetry, RepeatCommit DEF WorkerStep
    <3>3. CASE \E c \in Callers : OperatorAsks(c) \/ NodeAsks(c) \/ CallerStep(c)
      BY <3>1, <3>3, RepeatQuiet, RepeatContinue, RepeatCreate, RepeatDeps, RepeatEnqueue
    <3>4. CASE Crash
      BY <3>1, <3>4, RepeatCrash
    <3> QED
      BY <2>2, <3>2, <3>3, <3>4 DEF Next, Callers
  <2> QED
    BY <2>1, <2>2
<1>3. Inv => ContinueRepeatsNothing
  <2> SUFFICES ASSUME Inv, NEW n \in Nodes PROVE commits[n] <= 1 + unrest
    BY DEF ContinueRepeatsNothing
  <2> QED
    BY BudgetTypes
<1> QED
  BY <1>1, <1>2, <1>3, PTL DEF Spec

(***************************************************************************)
(* While a run that is only rerun at rest has jobs, runs.pending is their  *)
(* number, although the dead letter was still counted when it failed       *)
(* (UPDATE runs SET pending = 1 in rerunContinue).                         *)
(***************************************************************************)
THEOREM RerunPendingIsExact ==
  ASSUME Chain
  PROVE  Spec => []RerunPendingExact
<1>1. RerunInv => RerunPendingExact
  <2> SUFFICES ASSUME RerunInv, status = "running", unrest = 0, LiveJobs > 0
               PROVE  pending = LiveJobs
    BY DEF RerunPendingExact
  <2>1. Shape
    BY DEF RerunInv, Rested
  <2>2. queue = EmptyBag => Cardinality(QueuedJobs) = 0
    <3> SUFFICES ASSUME queue = EmptyBag PROVE Cardinality(QueuedJobs) = 0
      OBVIOUS
    <3>1. BagToSet(queue) = {}
      BY DEF BagToSet, EmptyBag, SetToBag
    <3>2. QueuedJobs = {}
      BY <3>1 DEF QueuedJobs
    <3> QED
      BY <3>2, FS_EmptySet
  <2>3. CASE Queued
    <3>1. PICK j \in Jobs : queue = SetToBag({j})
      BY <2>3 DEF Queued
    <3>2. BagToSet(queue) = {j} /\ queue[j] = 1
      BY <3>1 DEF BagToSet, SetToBag
    <3>3. QueuedJobs = {<<j, 1>>}
      <4>1. {j} \X (1..queue[j]) = {<<j, 1>>}
        BY <3>2
      <4>2. QueuedJobs = {j} \X (1..queue[j])
        BY <3>2 DEF QueuedJobs
      <4> QED
        BY <4>1, <4>2
    <3>4. Cardinality(QueuedJobs) = 1
      BY <3>3, FS_Singleton
    <3> QED
      BY <2>3, <3>4 DEF Queued, LiveJobs
  <2>4. CASE Held
    BY <2>2, <2>4 DEF Held, LiveJobs
  <2>5. CASE Dead \/ Failed \/ Finished \/ Lost \/ Starting
    BY <2>2, <2>5 DEF Dead, Failed, Finished, Lost, Starting, LiveJobs
  <2> QED
    BY <2>1, <2>3, <2>4, <2>5 DEF Shape
<1> QED
  BY <1>1, RerunInvariance, PTL
=============================================================================
