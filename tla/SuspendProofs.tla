--------------------------- MODULE SuspendProofs ----------------------------
(***************************************************************************)
(* Theorems about Suspend: parked and resumed runs keep their counters,    *)
(* and no node runs ahead of a wait, for every workflow, every set of      *)
(* waits, signals and timers, and every number of crashes, as long as one  *)
(* resume of a wait is in progress at a time (SoleResumer).                *)
(*                                                                         *)
(* A parked wait's job is acked but the wait is not done, so the role that *)
(* Completed has in WorkerProofs is played here by Resolved: the counters  *)
(* of run_deps and the queue follow the nodes whose results are final.     *)
(***************************************************************************)
EXTENDS Suspend, WorkerProofs

(***************************************************************************)
(* One worker loop, one signal at a time, and no wait with both sources:   *)
(* two resumes of one wait are never in progress together.  The hypothesis *)
(* is needed: resumeInstance checks the continuation before its            *)
(* transaction, so two resumes that overlap both fan out.                  *)
(***************************************************************************)
SoleResumer ==
  /\ OneWorker
  /\ \A x, y \in Senders : x = y
  /\ \A n \in TimerNodes : SignalName[n] = NoName

\* The nodes with a final result: committed or resumed.
Resolved == {n \in Nodes : result[n] \in {"ok", "skipped"}}

Unresolved(n) == Preds[n] \ Resolved

\* A counter of run_deps is the number of dependencies not resolved.
WaitDepsInv ==
  starter \in {"enqueue", "done"} =>
    \A n \in Nodes : deps[n] = Cardinality(Unresolved(n))

\* A node with dependencies is enqueued, once, when they are all resolved.
WaitReadyInv ==
  \A n \in Nodes :
    /\ issued[n] = IF jobState[n] = "absent" THEN 0 ELSE 1
    /\ jobState[n] # "absent" => Preds[n] \subseteq Resolved
    /\ Preds[n] # {} /\ Preds[n] \subseteq Resolved => jobState[n] # "absent"

\* A final result is written with, or after, the ack of the node's job.
FinalInv == Resolved \subseteq Completed

WaitQueueInv ==
  StarterInv /\ WaitDepsInv /\ WaitReadyInv /\ FinalInv /\ PendingExact

\* A handler's node was enqueued, and while it works on the job it is not done.
WaitHandlerInv ==
  \A w \in Workers :
    /\ h[w].pc # "idle" => jobState[h[w].node] # "absent"
    /\ h[w].pc \in Working => h[w].node \notin Completed

\* A continuation is that of an acked wait whose result is not final.
ParkInv == parked \subseteq Completed \ Resolved

(***************************************************************************)
(* A resume in progress is of a wait with the resumer's kind of source;    *)
(* past the check of the continuation, the wait is not resolved.           *)
(***************************************************************************)
ResumeInv ==
  \A x \in Resumers :
    /\ res[x].pc \in {"readStatus", "readCont", "resume"} =>
         /\ res[x].node \in WaitNodes
         /\ x \in Workers => res[x].node \in TimerNodes
         /\ x \in Senders => SignalName[res[x].node] # NoName
    /\ res[x].pc = "resume" => res[x].node \in Completed \ Resolved

TimerInv == \A n \in WaitNodes : timer[n] # "absent" => n \in TimerNodes

WaitInv ==
  /\ SuspendTypeOK /\ WaitQueueInv /\ WaitHandlerInv
  /\ ParkInv /\ ResumeInv /\ TimerInv

-----------------------------------------------------------------------------
(* The counters *)

(***************************************************************************)
(* A step that enqueues, acks and resolves no node and leaves the counters *)
(* alone preserves WaitQueueInv.                                           *)
(***************************************************************************)
LEMMA WaitFrame ==
  ASSUME WaitQueueInv,
         deps' = deps, issued' = issued, pending' = pending, starter' = starter,
         status' = "none" <=> status = "none",
         Resolved' = Resolved,
         \A n \in Nodes : /\ jobState'[n] = "absent" <=> jobState[n] = "absent"
                          /\ jobState'[n] = "acked" <=> jobState[n] = "acked"
  PROVE  WaitQueueInv'
<1>1. InFlight' = InFlight
  BY DEF InFlight
<1>2. StarterInv'
  BY DagAssumption DEF WaitQueueInv, StarterInv
<1>3. WaitDepsInv'
  BY DEF WaitQueueInv, WaitDepsInv, Unresolved
<1>4. WaitReadyInv'
  BY DEF WaitQueueInv, WaitReadyInv
<1>5. PendingExact'
  BY <1>1 DEF WaitQueueInv, PendingExact
<1>6. FinalInv'
  BY DEF WaitQueueInv, FinalInv, Completed, Resolved
<1> QED
  BY <1>2, <1>3, <1>4, <1>5, <1>6 DEF WaitQueueInv

(***************************************************************************)
(* The fan-out of a node that was not resolved, whether its job is acked   *)
(* in the same transaction (CommitNodeAtom, completeWait) or was acked at  *)
(* the park (resumeInstance), preserves WaitQueueInv.                      *)
(***************************************************************************)
LEMMA FanOut ==
  ASSUME StoreTypeOK, WaitQueueInv, starter' = starter, status' # "none",
         NEW n \in Nodes, n \notin Resolved, jobState[n] # "absent",
         deps' = [m \in Nodes |-> IF m \in Dependents(n) THEN deps[m] - 1 ELSE deps[m]],
         jobState' = [m \in Nodes |-> IF m \in ReadyAfter(n) THEN "pending"
                                      ELSE IF m = n THEN "acked" ELSE jobState[m]],
         issued' = [m \in Nodes |-> IF m \in ReadyAfter(n) THEN issued[m] + 1 ELSE issued[m]],
         result'[n] \in {"ok", "skipped"},
         \A m \in Nodes : m # n => result'[m] = result[m],
         pending' = pending + Cardinality(ReadyAfter(n)) - (IF n \in InFlight THEN 1 ELSE 0)
  PROVE  /\ WaitQueueInv'
         /\ pending' \in Nat /\ deps' \in [Nodes -> Nat] /\ issued' \in [Nodes -> Nat]
         /\ jobState' \in [Nodes -> JobStates]
         /\ Resolved' = Resolved \cup {n}
         /\ Completed' = Completed \cup {n}
         /\ \A m \in Nodes : jobState[m] # "absent" => jobState'[m] # "absent"
<1> DEFINE ready == ReadyAfter(n)
<1>1. Resolved \subseteq Nodes /\ \A m \in Nodes : jobState[m] # "absent" => m \notin ready
  <2>1. ASSUME NEW m \in Nodes, m \in ready PROVE jobState[m] = "absent"
    BY <2>1 DEF ReadyAfter, Dependents, WaitQueueInv, WaitReadyInv
  <2> QED
    BY <2>1 DEF Resolved
<1>2. starter = "done" /\ status # "none"
  BY DEF WaitQueueInv, StarterInv
<1>3. \A m \in Nodes : deps[m] = Cardinality(Unresolved(m))
  BY <1>2 DEF WaitQueueInv, WaitDepsInv
<1>4. \A m \in Nodes : Unresolved(m) \in SUBSET Nodes
  BY DagAssumption DEF Unresolved
<1>5. \A m \in Dependents(n) : m \in Nodes /\ n \in Preds[m] /\ n \in Unresolved(m)
  BY DEF Dependents, Unresolved
<1>6. \A m \in Dependents(n) : jobState[m] = "absent" /\ m # n
  BY <1>5 DEF WaitQueueInv, WaitReadyInv
<1>7. ready \in SUBSET Dependents(n) /\ ready \in SUBSET Nodes
  BY DEF ReadyAfter, Dependents
<1>8. \A m \in Dependents(n) : m \in ready <=> Unresolved(m) = {n}
  <2> SUFFICES ASSUME NEW m \in Dependents(n)
               PROVE  m \in ready <=> Unresolved(m) = {n}
    OBVIOUS
  <2>1. IsFiniteSet(Unresolved(m)) /\ Cardinality(Unresolved(m)) \in Nat
    BY <1>4, <1>5, NodeSets
  <2>2. m \in ready <=> Cardinality(Unresolved(m)) = 1
    BY <1>3, <1>5, <2>1 DEF ReadyAfter
  <2>3. Cardinality(Unresolved(m)) = 1 <=> \E y : Unresolved(m) = {y}
    BY <2>1, FS_Singleton
  <2> QED
    BY <1>5, <2>2, <2>3
<1>9. \A m \in Nodes : jobState'[m] = IF m \in ready THEN "pending"
                                     ELSE IF m = n THEN "acked" ELSE jobState[m]
  OBVIOUS
<1>10. Completed' = Completed \cup {n}
  BY <1>6, <1>7, <1>9 DEF Completed
<1>11. Resolved' = Resolved \cup {n}
  BY DEF Resolved
<1>12. InFlight' = (InFlight \ {n}) \cup ready
  BY <1>1, <1>6, <1>7, <1>9 DEF InFlight
<1>13. \A m \in Nodes : Unresolved(m)' = Unresolved(m) \ {n}
  BY <1>11 DEF Unresolved
<1>14. \A m \in Nodes : deps'[m] = Cardinality(Unresolved(m)') /\ deps'[m] \in Nat
  <2> SUFFICES ASSUME NEW m \in Nodes
               PROVE  deps'[m] = Cardinality(Unresolved(m)') /\ deps'[m] \in Nat
    OBVIOUS
  <2>1. IsFiniteSet(Unresolved(m)) /\ Cardinality(Unresolved(m)) \in Nat
    BY <1>4, NodeSets
  <2>2. Cardinality(Unresolved(m) \ {n}) =
          IF n \in Unresolved(m) THEN deps[m] - 1 ELSE deps[m]
    BY <1>3, <2>1, FS_RemoveElement
  <2>3. n \in Unresolved(m) <=> m \in Dependents(n)
    BY DEF Unresolved, Dependents
  <2>4. deps'[m] = Cardinality(Unresolved(m) \ {n})
    BY <2>2, <2>3
  <2>5. Cardinality(Unresolved(m) \ {n}) \in Nat
    BY <1>4, NodeSets
  <2> QED
    BY <1>13, <2>4, <2>5
<1>15. WaitDepsInv'
  BY <1>2, <1>14 DEF WaitDepsInv
<1>16. StarterInv'
  BY <1>2, <1>9, DagAssumption DEF WaitQueueInv, StarterInv
<1>17. WaitReadyInv'
  <2> SUFFICES ASSUME NEW m \in Nodes
               PROVE  /\ issued'[m] = IF jobState'[m] = "absent" THEN 0 ELSE 1
                      /\ jobState'[m] # "absent" => Preds[m] \subseteq Resolved'
                      /\ Preds[m] # {} /\ Preds[m] \subseteq Resolved'
                           => jobState'[m] # "absent"
    BY DEF WaitReadyInv
  <2>1. issued[m] = (IF jobState[m] = "absent" THEN 0 ELSE 1)
    BY DEF WaitQueueInv, WaitReadyInv
  <2>2. issued'[m] = IF m \in ready THEN issued[m] + 1 ELSE issued[m]
    OBVIOUS
  <2>3. CASE m \in ready
    <3>1. jobState[m] = "absent" /\ jobState'[m] = "pending"
      BY <1>6, <1>7, <1>9, <2>3
    <3>2. Preds[m] \subseteq Resolved'
      BY <1>7, <1>8, <1>11, <2>3 DEF Unresolved
    <3> QED
      BY <2>1, <2>2, <2>3, <3>1, <3>2
  <2>4. CASE m \notin ready
    <3>1. jobState'[m] = "absent" <=> jobState[m] = "absent"
      BY <1>9, <2>4
    <3>2. jobState[m] # "absent" => Preds[m] \subseteq Resolved'
      BY <1>11 DEF WaitQueueInv, WaitReadyInv
    <3>3. Preds[m] # {} /\ Preds[m] \subseteq Resolved' => jobState[m] # "absent"
      <4>1. CASE n \in Preds[m]
        <5>1. m \in Dependents(n)
          BY <4>1 DEF Dependents
        <5> QED
          BY <1>5, <1>8, <1>11, <2>4, <5>1 DEF Unresolved
      <4>2. CASE n \notin Preds[m]
        BY <1>11, <4>2 DEF WaitQueueInv, WaitReadyInv
      <4> QED
        BY <4>1, <4>2
    <3> QED
      BY <2>1, <2>2, <2>4, <3>1, <3>2, <3>3
  <2> QED
    BY <2>3, <2>4
<1>18. PendingExact' /\ pending' \in Nat
  <2>1. InFlight \in SUBSET Nodes /\ InFlight \ {n} \in SUBSET Nodes /\ InFlight' \in SUBSET Nodes
    BY DEF InFlight
  <2>2. /\ IsFiniteSet(InFlight) /\ IsFiniteSet(ready) /\ IsFiniteSet(InFlight \ {n})
        /\ Cardinality(InFlight) \in Nat /\ Cardinality(ready) \in Nat
        /\ Cardinality(InFlight \ {n}) \in Nat
        /\ Cardinality(InFlight') \in Nat
    BY <1>7, <2>1, NodeSets
  <2>3. (InFlight \ {n}) \cap ready = {}
    BY <1>6, <1>7 DEF InFlight
  <2>4. Cardinality(InFlight \ {n}) = Cardinality(InFlight) - (IF n \in InFlight THEN 1 ELSE 0)
    <3>1. CASE n \in InFlight
      BY <2>2, <3>1, FS_RemoveElement
    <3>2. CASE n \notin InFlight
      <4>1. InFlight \ {n} = InFlight
        BY <3>2
      <4>2. Cardinality(InFlight \ {n}) = Cardinality(InFlight)
        BY <4>1
      <4> QED
        BY <2>2, <3>2, <4>2
    <3> QED
      BY <3>1, <3>2
  <2>5. Cardinality((InFlight \ {n}) \cup ready) =
          Cardinality(InFlight \ {n}) + Cardinality(ready)
            - Cardinality((InFlight \ {n}) \cap ready)
    BY <2>2, FS_Union
  <2>6. Cardinality(InFlight') = Cardinality(InFlight \ {n}) + Cardinality(ready)
    <3>1. Cardinality((InFlight \ {n}) \cap ready) = 0
      BY <2>3, FS_EmptySet
    <3>2. Cardinality(InFlight') = Cardinality((InFlight \ {n}) \cup ready)
      BY <1>12
    <3> QED
      BY <2>2, <2>5, <3>1, <3>2
  <2>7. pending = Cardinality(InFlight)
    BY <1>2, <2>2 DEF WaitQueueInv, PendingExact
  <2>8. pending' = Cardinality(InFlight')
    BY <2>2, <2>4, <2>6, <2>7
  <2> QED
    BY <1>2, <2>2, <2>8 DEF PendingExact
<1>19. issued' \in [Nodes -> Nat] /\ jobState' \in [Nodes -> JobStates]
  BY DEF StoreTypeOK, JobStates
<1>20. deps' \in [Nodes -> Nat]
  BY <1>14
<1>21. \A m \in Nodes : jobState[m] # "absent" => jobState'[m] # "absent"
  BY <1>9
<1>22. FinalInv'
  BY <1>10, <1>11 DEF WaitQueueInv, FinalInv
<1> QED
  BY <1>10, <1>11, <1>15, <1>16, <1>17, <1>18, <1>19, <1>20, <1>21, <1>22
  DEF WaitQueueInv

-----------------------------------------------------------------------------
(* The handlers of Worker *)

(***************************************************************************)
(* Where a run with a job stands: it was started, and it has a row.        *)
(***************************************************************************)
LEMMA JobMeansStarted ==
  ASSUME WaitQueueInv, NEW n \in Nodes, jobState[n] # "absent"
  PROVE  starter = "done" /\ status # "none"
  BY DEF WaitQueueInv, StarterInv

(***************************************************************************)
(* Every step of a busy handler keeps the handler's type and its node, and *)
(* none takes it back to its job once it has given the job up.             *)
(***************************************************************************)
LEMMA HandlerRecord ==
  ASSUME TypeOK, NEW w \in Workers, Handle(w), ~Claim(w)
  PROVE  /\ h[w].pc # "idle"
         /\ \E r \in Handlers : /\ h' = [h EXCEPT ![w] = r]
                                /\ r.pc # "idle" => r.node = h[w].node
                                /\ r.pc \in Working => h[w].pc \in Working
<1>1. h \in [Workers -> Handlers] /\ h[w] \in Handlers /\ h[w].node \in Nodes
  BY DEF TypeOK, WorkerTypeOK, Handlers
<1>2. IdleHandler \in Handlers /\ IdleHandler.pc = "idle" /\ "idle" \notin Working
  BY DagAssumption, AttemptCapType DEF Handlers, IdleHandler, PCs, Faults, Working
<1>3. h[w].pc # "idle"
  BY DEF Handle, HandleStatus, HandleDrop, RunNode, RunSwitch, RunFails, Commit,
     CommitRollback, ReadPending, ReadStatus, SetCompleted, OnDone, CommitFailed, Retry,
     SaveCont, DeadLetter, SetFailed, OnFailed, Goto, Return
<1>4. ASSUME NEW p \in PCs, h' = [h EXCEPT ![w].pc = p],
             p \in Working => h[w].pc \in Working
      PROVE  \E r \in Handlers : /\ h' = [h EXCEPT ![w] = r]
                                 /\ r.pc # "idle" => r.node = h[w].node
                                 /\ r.pc \in Working => h[w].pc \in Working
  <2> DEFINE r == [h[w] EXCEPT !.pc = p]
  <2>1. r \in Handlers /\ r.pc = p /\ r.node = h[w].node
    BY <1>1 DEF Handlers
  <2>2. h' = [h EXCEPT ![w] = r]
    BY <1>4
  <2> QED
    BY <1>4, <2>1, <2>2
<1>5. CASE HandleStatus(w)
  <2> DEFINE p == IF ~StatusIsLive THEN "drop"
                  ELSE IF skip[h[w].node] THEN "commit" ELSE "run"
             k == IF skip[h[w].node] THEN Dependents(h[w].node) ELSE {}
             r == [h[w] EXCEPT !.pc = p, !.skips = k]
  <2>1. p \in {"drop", "commit", "run"} /\ k \in SUBSET Nodes
    BY DEF Dependents
  <2>2. h' = [h EXCEPT ![w].pc = p, ![w].skips = k] /\ h[w].pc = "status"
    BY <1>5 DEF HandleStatus
  <2> HIDE DEF p, k
  <2>3. r \in Handlers /\ r.node = h[w].node
    BY <1>1, <2>1 DEF Handlers, PCs
  <2>4. h' = [h EXCEPT ![w] = r]
    BY <1>1, <2>2 DEF Handlers
  <2> QED
    BY <1>3, <2>2, <2>3, <2>4 DEF Working
<1>6. CASE RunSwitch(w)
  <2>1. PICK c \in Nodes : h' = [h EXCEPT ![w].pc = "commit",
                                          ![w].skips = Dependents(h[w].node) \ {c}]
    BY <1>6 DEF RunSwitch
  <2> DEFINE k == Dependents(h[w].node) \ {c}
             r == [h[w] EXCEPT !.pc = "commit", !.skips = k]
  <2>2. k \in SUBSET Nodes /\ h' = [h EXCEPT ![w].pc = "commit", ![w].skips = k]
    BY <2>1 DEF Dependents
  <2>3. h[w].pc = "run"
    BY <1>6 DEF RunSwitch
  <2> HIDE DEF k
  <2>4. r \in Handlers /\ r.node = h[w].node
    BY <1>1, <2>2 DEF Handlers, PCs
  <2>5. h' = [h EXCEPT ![w] = r]
    BY <1>1, <2>2 DEF Handlers
  <2> QED
    BY <2>3, <2>4, <2>5 DEF Working
<1>7. CASE RunFails(w)
  <2>1. PICK f \in Faults : h' = [h EXCEPT ![w].pc = "commitFailed", ![w].fault = f]
    BY <1>7 DEF RunFails
  <2> DEFINE r == [h[w] EXCEPT !.pc = "commitFailed", !.fault = f]
  <2>2. r \in Handlers /\ r.node = h[w].node
    BY <1>1 DEF Handlers, PCs
  <2>3. h' = [h EXCEPT ![w] = r] /\ h[w].pc = "run"
    BY <1>1, <1>7, <2>1 DEF Handlers, RunFails
  <2> QED
    BY <2>2, <2>3 DEF Working
<1>8. CASE \E from \in PCs : Return(w, from)
  <2>1. h' = [h EXCEPT ![w] = IdleHandler]
    BY <1>8 DEF Return
  <2> QED
    BY <1>2, <1>3, <2>1
<1>9. CASE \/ RunNode(w) \/ Commit(w) \/ CommitFailed(w) \/ SaveCont(w)
  <2>1. PICK p \in {"commit", "readPending", "saveCont", "retry", "failJob"} :
          h' = [h EXCEPT ![w].pc = p] /\ h[w].pc \in {"run", "commit", "commitFailed", "saveCont"}
    BY <1>9 DEF RunNode, Commit, CommitFailed, SaveCont, Goto
  <2> QED
    BY <1>3, <1>4, <2>1 DEF PCs, Working
<1>10. CASE DeadLetter(w) \/ SetFailed(w) \/ SetCompleted(w)
  <2>1. PICK p \in {"setFailed", "onFailed", "onDone"} : h' = [h EXCEPT ![w].pc = p]
    BY <1>10 DEF DeadLetter, SetFailed, SetCompleted, Goto
  <2> QED
    BY <1>3, <1>4, <2>1 DEF PCs, Working
<1>11. CASE ReadPending(w) \/ ReadStatus(w)
  <2>1. \/ \E from \in PCs : Return(w, from)
        \/ \E p \in {"readStatus", "setCompleted"} : h' = [h EXCEPT ![w].pc = p]
    BY <1>11 DEF ReadPending, ReadStatus, Goto, PCs
  <2>2. CASE \E p \in {"readStatus", "setCompleted"} : h' = [h EXCEPT ![w].pc = p]
    BY <1>3, <1>4, <2>2 DEF PCs, Working
  <2> QED
    BY <1>8, <2>1, <2>2
<1>12. CASE \/ HandleDrop(w) \/ CommitRollback(w) \/ OnDone(w) \/ Retry(w) \/ OnFailed(w)
  BY <1>8, <1>12 DEF HandleDrop, CommitRollback, OnDone, Retry, OnFailed, PCs
<1>13. \E r \in Handlers : /\ h' = [h EXCEPT ![w] = r]
                           /\ r.pc # "idle" => r.node = h[w].node
                           /\ r.pc \in Working => h[w].pc \in Working
  BY <1>5, <1>6, <1>7, <1>9, <1>10, <1>11, <1>12 DEF Handle
<1> QED
  BY <1>3, <1>13

(***************************************************************************)
(* Every step of a busy handler but the commit leaves the counters, the    *)
(* set of acked jobs and the final results alone.                          *)
(***************************************************************************)
LEMMA HandlerStore ==
  ASSUME TypeOK, WaitQueueInv, WaitHandlerInv,
         NEW w \in Workers, Handle(w), ~Claim(w), ~Commit(w)
  PROVE  /\ StoreTypeOK'
         /\ UNCHANGED <<deps, issued, pending, starter, canceller, crashes>>
         /\ doneCalls' \in Nat /\ failCalls' \in Nat
         /\ status' = "none" <=> status = "none"
         /\ \A n \in Nodes : /\ jobState'[n] = "absent" <=> jobState[n] = "absent"
                             /\ jobState'[n] = "acked" <=> jobState[n] = "acked"
         /\ Completed' = Completed
         /\ Resolved' = Resolved
<1>0. /\ StoreTypeOK /\ h[w] \in Handlers /\ h[w].node \in Nodes
      /\ doneCalls \in Nat /\ failCalls \in Nat
  BY DEF TypeOK, WorkerTypeOK, Handlers
<1>1. h[w].pc # "idle"
  BY HandlerRecord
<1>2. status # "none" /\ starter = "done"
  BY <1>0, <1>1, JobMeansStarted DEF WaitHandlerInv
<1>3. CASE \/ HandleStatus(w) \/ RunNode(w) \/ RunSwitch(w) \/ RunFails(w)
           \/ CommitRollback(w) \/ ReadPending(w) \/ ReadStatus(w) \/ OnDone(w)
           \/ OnFailed(w)
  <2>1. UNCHANGED storeVars /\ UNCHANGED <<starter, canceller, crashes>>
    BY <1>3 DEF HandleStatus, RunNode, RunSwitch, RunFails, CommitRollback,
       ReadPending, ReadStatus, OnDone, OnFailed
  <2>2. doneCalls' \in Nat /\ failCalls' \in Nat
    BY <1>0, <1>3 DEF HandleStatus, RunNode, RunSwitch, RunFails, CommitRollback,
       ReadPending, ReadStatus, OnDone, OnFailed, callVars
  <2>3. /\ UNCHANGED <<status, pending, deps, result, fcont, jobState, claimant>>
        /\ UNCHANGED <<attempts, issued, skip, steps>>
    BY <2>1 DEF storeVars
  <2>4. StoreTypeOK' /\ Completed' = Completed /\ Resolved' = Resolved
    BY <1>0, <2>3 DEF StoreTypeOK, Completed, Resolved
  <2> QED
    BY <2>1, <2>2, <2>3, <2>4
<1>4. CASE HandleDrop(w) \/ Retry(w) \/ DeadLetter(w)
  <2>1. PICK to \in {"pending", "dropped", "dead"} : MoveClaimed(w, h[w].node, to)
    BY <1>4 DEF HandleDrop, Retry, DeadLetter, AckJob, RetryJob, FailJob
  <2>2. UNCHANGED <<starter, canceller, crashes, doneCalls, failCalls>>
    BY <1>4 DEF HandleDrop, Retry, DeadLetter, callVars
  <2>3. /\ StoreTypeOK' /\ UNCHANGED <<status, pending, deps, issued>>
        /\ \A m \in Nodes : /\ jobState'[m] = "absent" <=> jobState[m] = "absent"
                            /\ jobState'[m] = "acked" <=> jobState[m] = "acked"
    BY <1>0, <2>1, MoveClaimedFrame
  <2>4. Completed' = Completed
    BY <2>3 DEF Completed
  <2>5. result' = result
    BY <2>1 DEF MoveClaimed
  <2>6. Resolved' = Resolved
    BY <2>4, <2>5 DEF Resolved
  <2> QED
    BY <1>0, <2>2, <2>3, <2>4, <2>6
<1>5. CASE CommitFailed(w) \/ SaveCont(w) \/ SetFailed(w) \/ SetCompleted(w)
  <2>1. /\ UNCHANGED <<starter, canceller, crashes, deps, issued, pending, jobState>>
        /\ UNCHANGED <<claimant, attempts, skip, steps, doneCalls, failCalls>>
    BY <1>5 DEF CommitFailed, SaveCont, SetFailed, SetCompleted, SetRunStatus,
       CommitFailedResult, WriteFailedContinuation, queueVars, runVars, callVars
  <2>2. status' \in Statuses /\ status' # "none"
    BY <1>0, <1>2, <1>5 DEF CommitFailed, SaveCont, SetFailed, SetCompleted, SetRunStatus,
       CommitFailedResult, WriteFailedContinuation, runVars, Statuses, StoreTypeOK
  <2>3. fcont' \in Nodes \cup {NoNode}
    BY <1>0, <1>5 DEF CommitFailed, SaveCont, SetFailed, SetCompleted, SetRunStatus,
       CommitFailedResult, WriteFailedContinuation, StoreTypeOK
  <2>4. Completed' = Completed
    BY <2>1 DEF Completed
  <2>5. CASE CommitFailed(w)
    <3>1. result' = [result EXCEPT ![h[w].node] = "failed"] /\ h[w].pc = "commitFailed"
      BY <2>5 DEF CommitFailed, CommitFailedResult, Goto
    <3>2. result' \in [Nodes -> Results]
      BY <1>0, <3>1 DEF StoreTypeOK, Results
    <3>3. h[w].node \notin Resolved
      BY <3>1 DEF WaitHandlerInv, Working, WaitQueueInv, FinalInv
    <3>4. \A m \in Nodes : result'[m] = IF m = h[w].node THEN "failed" ELSE result[m]
      BY <1>0, <3>1 DEF StoreTypeOK
    <3>5. Resolved' = Resolved
      BY <3>3, <3>4 DEF Resolved
    <3>6. StoreTypeOK'
      BY <1>0, <2>1, <2>2, <2>3, <3>2 DEF StoreTypeOK
    <3> QED
      BY <1>0, <1>2, <2>1, <2>2, <2>4, <3>5, <3>6
  <2>6. CASE SaveCont(w) \/ SetFailed(w) \/ SetCompleted(w)
    <3>1. result' = result
      BY <2>6 DEF SaveCont, SetFailed, SetCompleted, SetRunStatus, WriteFailedContinuation
    <3>2. Resolved' = Resolved
      BY <2>4, <3>1 DEF Resolved
    <3>3. StoreTypeOK'
      BY <1>0, <2>1, <2>2, <2>3, <3>1 DEF StoreTypeOK
    <3> QED
      BY <1>0, <1>2, <2>1, <2>2, <2>4, <3>2, <3>3
  <2> QED
    BY <1>5, <2>5, <2>6
<1> QED
  BY <1>3, <1>4, <1>5 DEF Handle

-----------------------------------------------------------------------------
(* What a step leaves alone *)

(***************************************************************************)
(* The tables of the waits and the resumes in progress stay consistent in  *)
(* a step that changes none of them, as long as no wait that was acked and *)
(* not resolved is resolved.                                               *)
(***************************************************************************)
LEMMA KeepWaits ==
  ASSUME ParkInv, ResumeInv, TimerInv,
         parked' = parked, res' = res, timer' = timer,
         \A n \in Completed \ Resolved : n \in Completed' /\ n \notin Resolved'
  PROVE  ParkInv' /\ ResumeInv' /\ TimerInv'
<1>1. ParkInv'
  BY DEF ParkInv
<1>2. ResumeInv'
  BY DEF ResumeInv
<1>3. TimerInv'
  BY DEF TimerInv
<1> QED
  BY <1>1, <1>2, <1>3

(***************************************************************************)
(* The handlers of the workers stay consistent in a step that is not one   *)
(* of theirs, acks no other job and takes none away.                       *)
(***************************************************************************)
LEMMA KeepHandlers ==
  ASSUME h \in [Workers -> Handlers], WaitHandlerInv, h' = h,
         Completed' = Completed,
         \A n \in Nodes : jobState[n] # "absent" => jobState'[n] # "absent"
  PROVE  WaitHandlerInv'
<1>1. \A w \in Workers : h[w].node \in Nodes
  BY DEF Handlers
<1> QED
  BY <1>1 DEF WaitHandlerInv

(***************************************************************************)
(* With one worker, its handler is the only one there is.                  *)
(***************************************************************************)
LEMMA OnlyHandler ==
  ASSUME OneWorker, NEW w \in Workers, h \in [Workers -> Handlers],
         NEW r \in Handlers, h' = [h EXCEPT ![w] = r],
         r.pc # "idle" => jobState'[r.node] # "absent",
         r.pc \in Working => r.node \notin Completed'
  PROVE  WaitHandlerInv' /\ h' \in [Workers -> Handlers]
<1>1. h'[w] = r /\ \A v \in Workers : v = w
  BY DEF OneWorker
<1>2. h' \in [Workers -> Handlers]
  OBVIOUS
<1> QED
  BY <1>1, <1>2 DEF WaitHandlerInv

(***************************************************************************)
(* A returning resumer is idle.                                            *)
(***************************************************************************)
LEMMA IdleResumerType == IdleResumer \in ResumeCalls /\ IdleResumer.pc = "idle"
<1>1. \E s : s \in Signals
  <2>1. PICK a \in Names, b \in Payloads : TRUE
    BY SuspendAssumption
  <2>2. [name |-> a, payload |-> b] \in Signals
    BY <2>1 DEF Signals
  <2> QED
    BY <2>2
<1>2. (CHOOSE s \in Signals : TRUE) \in Signals
  BY <1>1
<1> QED
  BY <1>2, DagAssumption DEF IdleResumer, ResumeCalls, ResumerPCs

(***************************************************************************)
(* An empty database satisfies WaitInv.                                    *)
(***************************************************************************)
LEMMA InitWait == SuspendInit => WaitInv
<1> SUFFICES ASSUME SuspendInit PROVE WaitInv
  OBVIOUS
<1>1. TypeOK
  BY InitIInv DEF SuspendInit, IInv
<1> USE DEF SuspendInit, Init, StoreInit
<1>2. IdleResumer \in ResumeCalls /\ IdleResumer.pc = "idle"
  BY IdleResumerType
<1>3. SuspendTypeOK
  BY <1>1, <1>2, SuspendAssumption DEF SuspendTypeOK, TimerStates
<1>4. Resolved = {} /\ Completed = {}
  BY DEF Resolved, Completed
<1>5. StarterInv /\ WaitDepsInv /\ FinalInv /\ PendingExact
  BY <1>4 DEF StarterInv, WaitDepsInv, FinalInv, PendingExact
<1>6. WaitReadyInv
  BY <1>4 DEF WaitReadyInv
<1>7. WaitHandlerInv
  BY DEF WaitHandlerInv, IdleHandler, Working
<1>8. ParkInv /\ TimerInv
  BY DEF ParkInv, TimerInv
<1>9. ResumeInv
  BY <1>2 DEF ResumeInv
<1> QED
  BY <1>3, <1>5, <1>6, <1>7, <1>8, <1>9 DEF WaitInv, WaitQueueInv

-----------------------------------------------------------------------------
(* The steps of Worker preserve WaitInv *)

(***************************************************************************)
(* StartRun preserves WaitInv: no node has a job before it.                *)
(***************************************************************************)
LEMMA StartWait ==
  ASSUME WaitInv, StartStep
  PROVE  WaitInv'
<1> USE DEF WaitInv
<1>0. /\ StoreTypeOK /\ UNCHANGED <<parked, buffered, lastId, timer, timerBy, res, sent>>
      /\ h \in [Workers -> Handlers]
  BY DEF SuspendTypeOK, TypeOK, WorkerTypeOK, StartStep, suspendVars
<1>1. starter # "done" /\ h' = h
  BY DEF StartStep, StartRun, StartCreate, StartDeps, StartEnqueue
<1>2. \A n \in Nodes : jobState[n] = "absent" /\ issued[n] = 0
  BY <1>1 DEF WaitQueueInv, StarterInv, WaitReadyInv
<1>3. Completed = {} /\ InFlight = {} /\ Resolved = {}
  BY <1>2 DEF Completed, InFlight, WaitQueueInv, FinalInv
<1>4. Cardinality(InFlight) = 0
  BY <1>3, FS_EmptySet
<1>5. WaitQueueInv' /\ TypeOK' /\ Completed' = {} /\ Resolved' = {}
  <2>1. CASE StartCreate
    <3> USE <2>1 DEF StartCreate, CreateRun, queueVars
    <3>1. TypeOK'
      BY DEF SuspendTypeOK, TypeOK, StoreTypeOK, WorkerTypeOK, Statuses, callVars
    <3>2. Completed' = Completed /\ InFlight' = InFlight /\ Resolved' = Resolved
      BY DEF Completed, InFlight, Resolved
    <3>3. StarterInv' /\ WaitDepsInv' /\ WaitReadyInv' /\ FinalInv'
      BY <3>2 DEF WaitQueueInv, StarterInv, WaitDepsInv, WaitReadyInv, FinalInv
    <3>4. PendingExact'
      <4>1. Cardinality(InFlight') = 0
        BY <1>4, <3>2
      <4> QED
        BY <4>1 DEF PendingExact
    <3> QED
      BY <1>3, <3>1, <3>2, <3>3, <3>4 DEF WaitQueueInv
  <2>2. CASE StartDeps
    <3> USE <2>2 DEF StartDeps, InitRunDeps, queueVars, runVars
    <3>1. \A n \in Nodes : Cardinality(Preds[n]) \in Nat
      BY DagAssumption, NodeSets
    <3>2. TypeOK'
      BY <3>1 DEF SuspendTypeOK, TypeOK, StoreTypeOK, WorkerTypeOK, callVars
    <3>3. Completed' = Completed /\ InFlight' = InFlight /\ Resolved' = Resolved
      BY DEF Completed, InFlight, Resolved
    <3>4. StarterInv' /\ WaitReadyInv' /\ FinalInv'
      BY <3>3 DEF WaitQueueInv, StarterInv, WaitReadyInv, FinalInv
    <3>5. WaitDepsInv'
      <4>1. \A n \in Nodes : Unresolved(n)' = Preds[n]
        BY <1>3, <3>3 DEF Unresolved
      <4> QED
        BY <4>1 DEF WaitDepsInv
    <3>6. PendingExact'
      <4>1. Cardinality(InFlight') = Cardinality(InFlight)
        BY <3>3
      <4> QED
        BY <4>1 DEF WaitQueueInv, PendingExact
    <3> QED
      BY <1>3, <3>2, <3>3, <3>4, <3>5, <3>6 DEF WaitQueueInv
  <2>3. CASE StartEnqueue
    <3> USE <2>3 DEF StartEnqueue, EnqueueHead, runVars
    <3>1. /\ jobState' \in [Nodes -> JobStates]
          /\ \A n \in Nodes : jobState'[n] = IF n = Root THEN "pending" ELSE "absent"
      BY <1>0, <1>2, DagAssumption DEF StoreTypeOK, JobStates
    <3>2. TypeOK'
      BY <1>2, <3>1, DagAssumption DEF SuspendTypeOK, TypeOK, StoreTypeOK, WorkerTypeOK, callVars
    <3>3. Completed' = {} /\ InFlight' = {Root} /\ Resolved' = Resolved
      BY <3>1, DagAssumption DEF Completed, InFlight, Resolved
    <3>4. StarterInv'
      BY <3>1, DagAssumption DEF WaitQueueInv, StarterInv
    <3>5. WaitDepsInv'
      <4>1. \A n \in Nodes : Unresolved(n)' = Unresolved(n)
        BY <3>3 DEF Unresolved
      <4> QED
        BY <4>1 DEF WaitQueueInv, WaitDepsInv
    <3>6. WaitReadyInv'
      BY <1>0, <1>2, <1>3, <3>1, <3>3, DagAssumption DEF WaitReadyInv, StoreTypeOK
    <3>7. PendingExact'
      <4>1. Cardinality(InFlight') = 1
        BY <3>3, FS_Singleton
      <4> QED
        BY <1>4, <4>1 DEF WaitQueueInv, PendingExact, StarterInv
    <3> QED
      BY <1>3, <3>2, <3>3, <3>4, <3>5, <3>6, <3>7 DEF WaitQueueInv, FinalInv
  <2> QED
    BY <2>1, <2>2, <2>3 DEF StartStep, StartRun
<1>6. SuspendTypeOK'
  BY <1>0, <1>5 DEF SuspendTypeOK
<1>7. ParkInv' /\ ResumeInv' /\ TimerInv'
  BY <1>0, <1>3, KeepWaits
<1>8. WaitHandlerInv'
  <2>1. \A w \in Workers : h[w].pc = "idle"
    BY <1>0, <1>2 DEF WaitHandlerInv, Handlers
  <2> QED
    BY <1>1, <2>1 DEF WaitHandlerInv, Working
<1> QED
  BY <1>5, <1>6, <1>7, <1>8

(***************************************************************************)
(* A handler's step that commits nothing preserves WaitInv.                *)
(***************************************************************************)
LEMMA HandleWait ==
  ASSUME OneWorker, WaitInv, NEW w \in Workers,
         Handle(w), ~Commit(w), UNCHANGED suspendVars
  PROVE  WaitInv'
<1> USE DEF WaitInv
<1>0. /\ TypeOK /\ StoreTypeOK
      /\ UNCHANGED <<parked, buffered, lastId, timer, timerBy, res, sent>>
      /\ h \in [Workers -> Handlers]
  BY DEF SuspendTypeOK, TypeOK, WorkerTypeOK, suspendVars
<1>1. /\ StoreTypeOK'
      /\ UNCHANGED <<deps, issued, pending, starter, canceller, crashes>>
      /\ doneCalls' \in Nat /\ failCalls' \in Nat
      /\ status' = "none" <=> status = "none"
      /\ \A n \in Nodes : /\ jobState'[n] = "absent" <=> jobState[n] = "absent"
                          /\ jobState'[n] = "acked" <=> jobState[n] = "acked"
      /\ Completed' = Completed
      /\ Resolved' = Resolved
  <2>1. CASE Claim(w)
    <3>1. PICK n \in Nodes : ClaimJob(w, n)
      BY <2>1 DEF Claim
    <3>2. StoreTypeOK'
      BY <1>0, <3>1, AttemptCapType DEF StoreTypeOK, ClaimJob, JobStates, runVars
    <3>3. \A m \in Nodes : /\ jobState'[m] = "absent" <=> jobState[m] = "absent"
                           /\ jobState'[m] = "acked" <=> jobState[m] = "acked"
      BY <1>0, <3>1 DEF ClaimJob, StoreTypeOK
    <3>4. /\ UNCHANGED <<deps, issued, pending, starter, canceller, crashes>>
          /\ UNCHANGED <<status, result, doneCalls, failCalls>>
      BY <2>1, <3>1 DEF Claim, ClaimJob, runVars, callVars
    <3>5. Completed' = Completed /\ Resolved' = Resolved
      BY <3>3, <3>4 DEF Completed, Resolved
    <3>6. doneCalls' \in Nat /\ failCalls' \in Nat
      BY <1>0, <3>4 DEF TypeOK, WorkerTypeOK
    <3> QED
      BY <3>2, <3>3, <3>4, <3>5, <3>6
  <2>2. CASE ~Claim(w)
    BY <1>0, <2>2, HandlerStore
  <2> QED
    BY <2>1, <2>2
<1>2. PICK r \in Handlers : /\ h' = [h EXCEPT ![w] = r]
                            /\ r.pc # "idle" => jobState'[r.node] # "absent"
                            /\ r.pc \in Working => r.node \notin Completed
  <2>1. CASE Claim(w)
    <3>1. PICK n \in Nodes :
            /\ ClaimJob(w, n)
            /\ h' = [h EXCEPT ![w] = [IdleHandler EXCEPT !.pc = "status", !.node = n,
                                                         !.tries = attempts'[n]]]
      BY <2>1 DEF Claim
    <3> DEFINE r == [IdleHandler EXCEPT !.pc = "status", !.node = n, !.tries = attempts'[n]]
    <3>2. r \in Handlers /\ r.node = n
      BY <1>1, DagAssumption DEF StoreTypeOK, Handlers, IdleHandler, PCs, Faults
    <3>3. jobState'[n] # "absent" /\ n \notin Completed
      BY <1>1, <3>1 DEF ClaimJob, Completed
    <3> QED
      BY <3>1, <3>2, <3>3
  <2>2. CASE ~Claim(w)
    <3>1. PICK r \in Handlers : /\ h' = [h EXCEPT ![w] = r]
                                /\ r.pc # "idle" => r.node = h[w].node
                                /\ r.pc \in Working => h[w].pc \in Working
                                /\ h[w].pc # "idle"
      BY <1>0, <2>2, HandlerRecord
    <3>2. r.pc \in Working => r.pc # "idle"
      BY DEF Working
    <3>3. h[w].node \in Nodes
      BY <1>0 DEF Handlers
    <3> QED
      BY <1>1, <3>1, <3>2, <3>3 DEF WaitHandlerInv
  <2> QED
    BY <2>1, <2>2
<1>3. WaitHandlerInv' /\ h' \in [Workers -> Handlers]
  BY <1>0, <1>1, <1>2, OnlyHandler
<1>4. WaitQueueInv'
  BY <1>1, WaitFrame
<1>5. ParkInv' /\ ResumeInv' /\ TimerInv'
  BY <1>0, <1>1, KeepWaits
<1>6. TypeOK'
  BY <1>0, <1>1, <1>3 DEF TypeOK, WorkerTypeOK
<1>7. SuspendTypeOK'
  BY <1>0, <1>6 DEF SuspendTypeOK
<1> QED
  BY <1>3, <1>4, <1>5, <1>7

(***************************************************************************)
(* A committed completion preserves WaitInv, whether the node has run or   *)
(* was skipped (Commit) or is a wait whose signal had come before it       *)
(* (WaitConsumes).                                                         *)
(***************************************************************************)
LEMMA AtomWait ==
  ASSUME OneWorker, WaitInv, NEW w \in Workers,
         Goto(w, "commit", "readPending"),
         NEW rs \in {"ok", "skipped"}, NEW sk \in SUBSET Nodes,
         CommitNodeAtom(w, h[w].node, rs, sk),
         UNCHANGED <<starter, canceller, callVars, crashes>>,
         UNCHANGED <<parked, timer, timerBy, res, sent, lastId>>,
         buffered' \subseteq buffered
  PROVE  WaitInv'
<1> USE DEF WaitInv
<1> DEFINE n == h[w].node
           ready == ReadyAfter(n)
           r == [h[w] EXCEPT !.pc = "readPending"]
<1>0. /\ TypeOK /\ StoreTypeOK /\ h \in [Workers -> Handlers]
      /\ h[w] \in Handlers /\ n \in Nodes
  BY DEF SuspendTypeOK, TypeOK, WorkerTypeOK, Handlers
<1>1. h[w].pc = "commit" /\ h' = [h EXCEPT ![w] = r]
  BY DEF Goto
<1>2. /\ jobState[n] = "processing" /\ n \notin Completed
      /\ n \in InFlight
  BY <1>0 DEF CommitNodeAtom, CanCommit, HoldsClaim, Completed, InFlight
<1>3. n \notin Resolved
  BY <1>2 DEF WaitQueueInv, FinalInv
<1>4. /\ deps' = [m \in Nodes |-> IF m \in Dependents(n) THEN deps[m] - 1 ELSE deps[m]]
      /\ jobState' = [m \in Nodes |-> IF m \in ReadyAfter(n) THEN "pending"
                                      ELSE IF m = n THEN "acked" ELSE jobState[m]]
      /\ issued' = [m \in Nodes |-> IF m \in ReadyAfter(n) THEN issued[m] + 1 ELSE issued[m]]
      /\ result' = [result EXCEPT ![n] = rs]
  BY DEF CommitNodeAtom
<1>5. UNCHANGED <<status, fcont, claimant, attempts>>
  BY DEF CommitNodeAtom
<1>6. /\ starter' = starter /\ status' # "none"
  BY <1>0, <1>2, <1>5, JobMeansStarted
<1>7. pending' = pending + Cardinality(ReadyAfter(n)) - (IF n \in InFlight THEN 1 ELSE 0)
  BY <1>2 DEF CommitNodeAtom, PendingAfter
<1>8. /\ result'[n] = rs /\ \A m \in Nodes : m # n => result'[m] = result[m]
      /\ result' \in [Nodes -> Results]
  BY <1>0, <1>4 DEF StoreTypeOK, Results
<1>9. /\ WaitQueueInv'
      /\ pending' \in Nat /\ deps' \in [Nodes -> Nat] /\ issued' \in [Nodes -> Nat]
      /\ jobState' \in [Nodes -> JobStates]
      /\ Resolved' = Resolved \cup {n}
      /\ Completed' = Completed \cup {n}
      /\ \A m \in Nodes : jobState[m] # "absent" => jobState'[m] # "absent"
  BY <1>0, <1>2, <1>3, <1>4, <1>6, <1>7, <1>8, FanOut
<1>10. steps' \in [Nodes -> SUBSET Nodes]
  BY <1>0 DEF CommitNodeAtom, StoreTypeOK
<1>11. skip' \in [Nodes -> BOOLEAN]
  <2>1. skip \in [Nodes -> BOOLEAN]
    BY <1>0 DEF StoreTypeOK
  <2>2. skip' = [m \in Nodes |-> IF m \in ready THEN m \in sk ELSE skip[m]]
    BY Zenon DEF CommitNodeAtom
  <2>3. \A m \in Nodes : (IF m \in ready THEN m \in sk ELSE skip[m]) \in BOOLEAN
    <3> SUFFICES ASSUME NEW m \in Nodes
                 PROVE  (IF m \in ready THEN m \in sk ELSE skip[m]) \in BOOLEAN
      OBVIOUS
    <3>1. skip[m] \in BOOLEAN
      BY <2>1
    <3>2. (m \in sk) \in BOOLEAN
      OBVIOUS
    <3> QED
      BY <3>1, <3>2, Zenon
  <2> QED
    BY <2>2, <2>3, Zenon
<1>12. StoreTypeOK'
  BY <1>0, <1>5, <1>8, <1>9, <1>10, <1>11 DEF StoreTypeOK
<1>13. r \in Handlers /\ r.pc = "readPending" /\ r.node = n
  BY <1>0 DEF Handlers, PCs
<1>14. WaitHandlerInv' /\ h' \in [Workers -> Handlers]
  <2> HIDE DEF r
  <2> QED
    BY <1>0, <1>1, <1>2, <1>9, <1>13, OnlyHandler DEF Working
<1>15. TypeOK'
  BY <1>0, <1>12, <1>14 DEF TypeOK, WorkerTypeOK, callVars
<1>16. SuspendTypeOK'
  BY <1>15 DEF SuspendTypeOK
<1>17. ParkInv' /\ ResumeInv' /\ TimerInv'
  BY <1>2, <1>9, KeepWaits
<1> QED
  BY <1>9, <1>14, <1>16, <1>17

(***************************************************************************)
(* Every step of a handler, and the consumption of a buffered signal,      *)
(* preserves WaitInv.                                                      *)
(***************************************************************************)
LEMMA NodeStepWait ==
  ASSUME OneWorker, WaitInv, NEW w \in Workers, NodeStep(w) \/ WaitConsumes(w)
  PROVE  WaitInv'
<1>1. CASE NodeStep(w) /\ Commit(w)
  <2>1. UNCHANGED <<parked, buffered, lastId, timer, timerBy, res, sent>>
    BY <1>1 DEF NodeStep, suspendVars
  <2>2. h[w].skips \in SUBSET Nodes
    BY DEF WaitInv, SuspendTypeOK, TypeOK, WorkerTypeOK, Handlers
  <2> DEFINE rs == IF skip[h[w].node] THEN "skipped" ELSE "ok"
  <2>3. rs \in {"ok", "skipped"}
    OBVIOUS
  <2>4. /\ Goto(w, "commit", "readPending")
        /\ CommitNodeAtom(w, h[w].node, rs, h[w].skips)
        /\ UNCHANGED <<starter, canceller, callVars, crashes>>
    BY <1>1, Zenon DEF Commit
  <2> HIDE DEF rs
  <2> QED
    BY <2>1, <2>2, <2>3, <2>4, AtomWait
<1>2. CASE NodeStep(w) /\ ~Commit(w)
  BY <1>2, HandleWait DEF NodeStep
<1>3. CASE WaitConsumes(w)
  <2>1. /\ Goto(w, "commit", "readPending")
        /\ CommitNodeAtom(w, h[w].node, "ok", {})
        /\ UNCHANGED <<starter, canceller, callVars, crashes>>
        /\ UNCHANGED <<parked, timer, timerBy, res, sent, lastId>>
    BY <1>3 DEF WaitConsumes
  <2>2. buffered' \subseteq buffered
    BY <1>3 DEF WaitConsumes, TakeBufferedSignal
  <2> QED
    BY <2>1, <2>2, AtomWait
<1> QED
  BY <1>1, <1>2, <1>3

(***************************************************************************)
(* Parking a wait, or failing to, preserves WaitInv: the job is acked, the *)
(* wait is not resolved, and its dependents' counters do not move.         *)
(***************************************************************************)
LEMMA ParkWait ==
  ASSUME OneWorker, WaitInv, NEW w \in Workers, WaitParks(w) \/ WaitRollback(w)
  PROVE  WaitInv'
<1> USE DEF WaitInv
<1> DEFINE n == h[w].node
<1>0. /\ TypeOK /\ StoreTypeOK /\ h \in [Workers -> Handlers]
      /\ h[w] \in Handlers /\ n \in Nodes
  BY DEF SuspendTypeOK, TypeOK, WorkerTypeOK, Handlers
<1>1. h[w].pc = "commit" /\ n \in WaitNodes
  BY DEF WaitParks, WaitRollback, AtWait
<1>2. n \notin Completed /\ n \notin Resolved /\ jobState[n] # "absent"
  BY <1>1 DEF WaitHandlerInv, Working, WaitQueueInv, FinalInv
<1>3. starter = "done" /\ status # "none"
  BY <1>0, <1>2, JobMeansStarted
<1>4. CASE WaitRollback(w)
  <2> DEFINE r == [h[w] EXCEPT !.pc = "commitFailed"]
  <2>1. r \in Handlers /\ r.node = n
    BY <1>0 DEF Handlers, PCs
  <2>2. h' = [h EXCEPT ![w] = r]
    BY <1>4 DEF WaitRollback, Goto
  <2>3. /\ UNCHANGED <<parked, buffered, lastId, timer, timerBy, res, sent>>
        /\ UNCHANGED <<status, pending, deps, result, fcont, jobState>>
        /\ UNCHANGED <<claimant, attempts, issued, skip, steps>>
        /\ UNCHANGED <<starter, canceller, crashes, doneCalls, failCalls>>
    BY <1>4 DEF WaitRollback, suspendVars, storeVars, callVars
  <2>4. Completed' = Completed /\ Resolved' = Resolved
    BY <2>3 DEF Completed, Resolved
  <2> HIDE DEF r
  <2>5. WaitHandlerInv' /\ h' \in [Workers -> Handlers]
    BY <1>0, <1>2, <2>1, <2>2, <2>3, <2>4, OnlyHandler
  <2>6. StoreTypeOK'
    BY <1>0, <2>3 DEF StoreTypeOK
  <2>7. SuspendTypeOK'
    BY <2>3, <2>5, <2>6 DEF SuspendTypeOK, TypeOK, WorkerTypeOK
  <2>8. WaitQueueInv'
    BY <2>3, <2>4, WaitFrame
  <2>9. ParkInv' /\ ResumeInv' /\ TimerInv'
    BY <2>3, <2>4, KeepWaits
  <2> QED
    BY <2>5, <2>7, <2>8, <2>9
<1>5. CASE WaitParks(w)
  <2> DEFINE r == [h[w] EXCEPT !.pc = "readPending"]
  <2>1. r \in Handlers /\ r.node = n /\ r.pc = "readPending"
    BY <1>0 DEF Handlers, PCs
  <2>2. h' = [h EXCEPT ![w] = r]
    BY <1>5 DEF WaitParks, Goto
  <2>3. /\ UNCHANGED <<buffered, lastId, timerBy, res, sent>>
        /\ UNCHANGED <<deps, result, fcont, claimant, attempts, issued, skip, steps>>
        /\ UNCHANGED <<starter, canceller, crashes, doneCalls, failCalls>>
    BY <1>5 DEF WaitParks, callVars
  <2>4. /\ parked' = parked \cup {n} /\ status' = "waiting" /\ pending' = pending - 1
        /\ jobState' = [jobState EXCEPT ![n] = "acked"]
        /\ timer' = IF n \in TimerNodes THEN [timer EXCEPT ![n] = "pending"] ELSE timer
    BY <1>5 DEF WaitParks, ParkPending, TimerAfterPark
  <2>5. /\ jobState' \in [Nodes -> JobStates]
        /\ \A m \in Nodes : jobState'[m] = IF m = n THEN "acked" ELSE jobState[m]
    BY <1>0, <2>4 DEF StoreTypeOK, JobStates
  <2>6. /\ Completed' = Completed \cup {n} /\ Resolved' = Resolved
        /\ InFlight' = InFlight \ {n} /\ n \in InFlight
    BY <1>0, <1>2, <2>3, <2>5 DEF Completed, Resolved, InFlight
  <2>7. PendingExact' /\ pending' \in Nat
    <3>1. InFlight \in SUBSET Nodes /\ InFlight' \in SUBSET Nodes
      BY DEF InFlight
    <3>2. IsFiniteSet(InFlight) /\ Cardinality(InFlight) \in Nat /\ Cardinality(InFlight') \in Nat
      BY <3>1, NodeSets
    <3>3. Cardinality(InFlight \ {n}) = Cardinality(InFlight) - 1
      BY <2>6, <3>2, FS_RemoveElement
    <3>4. Cardinality(InFlight') = Cardinality(InFlight) - 1
      BY <2>6, <3>3
    <3>5. pending = Cardinality(InFlight)
      BY <1>3, <3>2 DEF WaitQueueInv, PendingExact
    <3>6. pending' = Cardinality(InFlight')
      BY <2>4, <3>4, <3>5
    <3> QED
      BY <1>3, <2>3, <3>2, <3>6 DEF PendingExact
  <2>8. StarterInv'
    BY <1>3, <2>3, <2>4, <2>5, DagAssumption DEF WaitQueueInv, StarterInv
  <2>9. WaitDepsInv'
    BY <2>3, <2>6 DEF WaitQueueInv, WaitDepsInv, Unresolved
  <2>10. WaitReadyInv'
    BY <1>2, <2>3, <2>5, <2>6 DEF WaitQueueInv, WaitReadyInv
  <2>11. FinalInv'
    BY <2>6 DEF WaitQueueInv, FinalInv
  <2>12. WaitHandlerInv' /\ h' \in [Workers -> Handlers]
    <3>1. jobState'[n] # "absent"
      BY <1>0, <2>5
    <3> HIDE DEF r
    <3> QED
      BY <1>0, <2>1, <2>2, <3>1, OnlyHandler DEF Working
  <2>13. StoreTypeOK'
    BY <1>0, <2>3, <2>4, <2>5, <2>7 DEF StoreTypeOK, Statuses
  <2>14. /\ timer' \in [WaitNodes -> TimerStates] /\ parked' \subseteq WaitNodes
         /\ TimerInv'
    BY <1>1, <2>4 DEF SuspendTypeOK, TimerStates, TimerInv
  <2>15. SuspendTypeOK'
    BY <2>3, <2>12, <2>13, <2>14 DEF SuspendTypeOK, TypeOK, WorkerTypeOK
  <2>16. ParkInv'
    BY <1>2, <2>4, <2>6 DEF ParkInv
  <2>17. ResumeInv'
    BY <2>3, <2>6 DEF ResumeInv
  <2> QED
    BY <2>7, <2>8, <2>9, <2>10, <2>11, <2>12, <2>14, <2>15, <2>16, <2>17 DEF WaitQueueInv
<1> QED
  BY <1>4, <1>5

-----------------------------------------------------------------------------
(* The resumers preserve WaitInv *)

(***************************************************************************)
(* A step of a resumer outside the store: it keeps WaitInv if the resumer  *)
(* is idle afterwards, or works on a wait that suits it.                   *)
(***************************************************************************)
LEMMA ResumerWait ==
  ASSUME WaitInv, NEW x \in Resumers, NEW c \in ResumeCalls,
         res' = [res EXCEPT ![x] = c],
         UNCHANGED <<vars, parked>>,
         buffered' \subseteq [id : Nat, signal : Signals], lastId' \in Nat,
         timer' \in [WaitNodes -> TimerStates], TimerInv',
         timerBy' \in [WaitNodes -> Workers \cup {NoWorker}],
         sent' \in 0..MaxSignals,
         c.pc \in {"readStatus", "readCont", "resume"} =>
           /\ c.node \in WaitNodes
           /\ x \in Workers => c.node \in TimerNodes
           /\ x \in Senders => SignalName[c.node] # NoName,
         c.pc = "resume" => c.node \in Completed \ Resolved
  PROVE  WaitInv'
<1> USE DEF WaitInv
<1>1. /\ UNCHANGED <<status, pending, deps, result, fcont, jobState>>
      /\ UNCHANGED <<claimant, attempts, issued, skip, steps>>
      /\ UNCHANGED <<starter, canceller, h, crashes, doneCalls, failCalls>>
  BY DEF vars, storeVars, callVars
<1>2. Completed' = Completed /\ Resolved' = Resolved
  BY <1>1 DEF Completed, Resolved
<1>3. WaitQueueInv'
  BY <1>1, <1>2, WaitFrame
<1>4. WaitHandlerInv'
  BY <1>1, <1>2 DEF WaitHandlerInv
<1>5. TypeOK'
  BY <1>1 DEF SuspendTypeOK, TypeOK, StoreTypeOK, WorkerTypeOK
<1>6. res' \in [Resumers -> ResumeCalls] /\ \A y \in Resumers : res'[y] = IF y = x THEN c ELSE res[y]
  BY DEF SuspendTypeOK
<1>7. SuspendTypeOK'
  BY <1>5, <1>6 DEF SuspendTypeOK
<1>8. ParkInv'
  BY <1>2 DEF ParkInv
<1>9. ResumeInv'
  BY <1>2, <1>6 DEF ResumeInv
<1> QED
  BY <1>3, <1>4, <1>7, <1>8, <1>9

(***************************************************************************)
(* The reads of resumeInstance preserve WaitInv: a wait found parked is    *)
(* acked and not resolved.                                                 *)
(***************************************************************************)
LEMMA ResumeReadsWait ==
  ASSUME WaitInv, NEW x \in Resumers, ResumeReadStatus(x) \/ ResumeReadCont(x)
  PROVE  WaitInv'
<1>0. /\ res \in [Resumers -> ResumeCalls] /\ res[x] \in ResumeCalls
      /\ res[x].node \in Nodes
      /\ UNCHANGED <<vars, parked, buffered, lastId, timer, timerBy, sent>>
  BY DEF WaitInv, SuspendTypeOK, ResumeCalls, ResumeReadStatus, ResumeReadCont
<1>1. /\ buffered' \subseteq [id : Nat, signal : Signals] /\ lastId' \in Nat
      /\ timer' \in [WaitNodes -> TimerStates] /\ TimerInv'
      /\ timerBy' \in [WaitNodes -> Workers \cup {NoWorker}]
      /\ sent' \in 0..MaxSignals
  BY <1>0 DEF WaitInv, SuspendTypeOK, TimerInv
<1>2. ASSUME NEW p \in ResumerPCs, res' = [res EXCEPT ![x].pc = p],
             p \in {"readCont", "resume", "ack"},
             res[x].pc \in {"readStatus", "readCont"},
             p = "resume" => res[x].node \in parked
      PROVE  WaitInv'
  <2> DEFINE c == [res[x] EXCEPT !.pc = p]
  <2>1. c \in ResumeCalls /\ c.pc = p /\ c.node = res[x].node
    BY <1>0 DEF ResumeCalls
  <2>2. res' = [res EXCEPT ![x] = c]
    BY <1>0, <1>2
  <2>3. /\ res[x].node \in WaitNodes
        /\ x \in Workers => res[x].node \in TimerNodes
        /\ x \in Senders => SignalName[res[x].node] # NoName
    BY <1>2 DEF WaitInv, ResumeInv
  <2>4. p = "resume" => res[x].node \in Completed \ Resolved
    BY <1>2 DEF WaitInv, ParkInv
  <2> HIDE DEF c
  <2> QED
    BY <1>0, <1>1, <2>1, <2>2, <2>3, <2>4, ResumerWait
<1>3. ASSUME res' = [res EXCEPT ![x] = IdleResumer]
      PROVE  WaitInv'
  BY <1>0, <1>1, <1>3, IdleResumerType, ResumerWait
<1>4. CASE ResumeReadStatus(x)
  <2>1. \/ res' = [res EXCEPT ![x] = IdleResumer]
        \/ \E p \in {"readCont", "ack"} : res' = [res EXCEPT ![x].pc = p] /\ res[x].pc = "readStatus"
    BY <1>4 DEF ResumeReadStatus, AfterResume, ResumerGoto, ResumerReturn
  <2> QED
    BY <1>2, <1>3, <2>1 DEF ResumerPCs
<1>5. CASE ResumeReadCont(x)
  <2>1. \/ res' = [res EXCEPT ![x] = IdleResumer]
        \/ \E p \in {"resume", "ack"} : /\ res' = [res EXCEPT ![x].pc = p]
                                        /\ res[x].pc = "readCont"
                                        /\ p = "resume" => res[x].node \in parked
    BY <1>5 DEF ResumeReadCont, AfterResume, ResumerGoto, ResumerReturn
  <2> QED
    BY <1>2, <1>3, <2>1 DEF ResumerPCs
<1> QED
  BY <1>4, <1>5

(***************************************************************************)
(* The steps of ResumeBySignal preserve WaitInv: a lookup finds waits that *)
(* have a signal source.                                                   *)
(***************************************************************************)
LEMMA SignalWait ==
  ASSUME WaitInv, NEW x \in Senders, SendSignal(x) \/ LookupParked(x) \/ BufferSignal(x)
  PROVE  WaitInv'
<1>0. /\ x \in Resumers /\ x \notin Workers
      /\ res \in [Resumers -> ResumeCalls] /\ res[x] \in ResumeCalls
      /\ res[x].node \in Nodes /\ res[x].signal \in Signals
  BY SuspendAssumption DEF WaitInv, SuspendTypeOK, ResumeCalls, Resumers
<1>1. /\ UNCHANGED <<vars, parked, timer, timerBy>>
      /\ timer' \in [WaitNodes -> TimerStates] /\ TimerInv'
      /\ timerBy' \in [WaitNodes -> Workers \cup {NoWorker}]
  BY DEF WaitInv, SuspendTypeOK, TimerInv, SendSignal, LookupParked, BufferSignal
<1>2. CASE SendSignal(x)
  <2>1. PICK s \in Signals : res' = [res EXCEPT ![x].pc = "lookup", ![x].signal = s]
    BY <1>2 DEF SendSignal
  <2> DEFINE c == [res[x] EXCEPT !.pc = "lookup", !.signal = s]
  <2>2. c \in ResumeCalls /\ c.pc = "lookup"
    BY <1>0 DEF ResumeCalls, ResumerPCs
  <2>3. res' = [res EXCEPT ![x] = c]
    BY <1>0, <2>1 DEF ResumeCalls
  <2>4. sent' \in 0..MaxSignals /\ UNCHANGED <<buffered, lastId>>
    BY <1>2, SuspendAssumption DEF SendSignal, WaitInv, SuspendTypeOK
  <2>5. buffered' \subseteq [id : Nat, signal : Signals] /\ lastId' \in Nat
    BY <2>4 DEF WaitInv, SuspendTypeOK
  <2> HIDE DEF c
  <2> QED
    BY <1>0, <1>1, <2>2, <2>3, <2>4, <2>5, ResumerWait
<1>3. CASE LookupParked(x)
  <2>1. /\ buffered' \subseteq [id : Nat, signal : Signals] /\ lastId' \in Nat
        /\ sent' \in 0..MaxSignals
    BY <1>3 DEF LookupParked, WaitInv, SuspendTypeOK
  <2>2. CASE res' = [res EXCEPT ![x] = IdleResumer]
    BY <1>0, <1>1, <2>1, <2>2, IdleResumerType, ResumerWait
  <2>3. CASE res' = [res EXCEPT ![x].pc = "buffer"]
    <3> DEFINE c == [res[x] EXCEPT !.pc = "buffer"]
    <3>1. c \in ResumeCalls /\ c.pc = "buffer"
      BY <1>0 DEF ResumeCalls, ResumerPCs
    <3>2. res' = [res EXCEPT ![x] = c]
      BY <1>0, <2>3
    <3> HIDE DEF c
    <3> QED
      BY <1>0, <1>1, <2>1, <3>1, <3>2, ResumerWait
  <2>4. ASSUME NEW n \in ParkedOn(res[x].signal.name),
               res' = [res EXCEPT ![x].pc = "readStatus", ![x].node = n]
        PROVE  WaitInv'
    <3> DEFINE c == [res[x] EXCEPT !.pc = "readStatus", !.node = n]
    <3>1. n \in WaitNodes /\ n \in Nodes /\ SignalName[n] # NoName
      BY <1>0, SuspendAssumption DEF ParkedOn, WaitInv, SuspendTypeOK, Signals
    <3>2. c \in ResumeCalls /\ c.pc = "readStatus" /\ c.node = n
      BY <1>0, <3>1 DEF ResumeCalls, ResumerPCs
    <3>3. res' = [res EXCEPT ![x] = c]
      BY <1>0, <2>4 DEF ResumeCalls
    <3> HIDE DEF c
    <3> QED
      BY <1>0, <1>1, <2>1, <3>1, <3>2, <3>3, ResumerWait
  <2>5. \/ res' = [res EXCEPT ![x] = IdleResumer]
        \/ res' = [res EXCEPT ![x].pc = "buffer"]
        \/ \E n \in ParkedOn(res[x].signal.name) :
             res' = [res EXCEPT ![x].pc = "readStatus", ![x].node = n]
    BY <1>3 DEF LookupParked, ResumerGoto, ResumerReturn
  <2> QED
    BY <2>2, <2>3, <2>4, <2>5
<1>4. CASE BufferSignal(x)
  <2>1. /\ lastId' \in Nat /\ sent' \in 0..MaxSignals
        /\ buffered' = buffered \cup {[id |-> lastId', signal |-> res[x].signal]}
        /\ res' = [res EXCEPT ![x] = IdleResumer]
    BY <1>4 DEF BufferSignal, ResumerReturn, WaitInv, SuspendTypeOK
  <2>2. buffered' \subseteq [id : Nat, signal : Signals]
    BY <1>0, <2>1 DEF WaitInv, SuspendTypeOK
  <2> QED
    BY <1>0, <1>1, <2>1, <2>2, IdleResumerType, ResumerWait
<1> QED
  BY <1>2, <1>3, <1>4

(***************************************************************************)
(* The timer job's claim and ack preserve WaitInv: only waits with a timer *)
(* have one.                                                               *)
(***************************************************************************)
LEMMA TimerWait ==
  ASSUME WaitInv, NEW w \in Workers, ClaimTimer(w) \/ AckTimer(w)
  PROVE  WaitInv'
<1>0. /\ w \in Resumers /\ w \notin Senders
      /\ res \in [Resumers -> ResumeCalls] /\ res[w] \in ResumeCalls
      /\ timer \in [WaitNodes -> TimerStates]
      /\ timerBy \in [WaitNodes -> Workers \cup {NoWorker}]
  BY SuspendAssumption DEF WaitInv, SuspendTypeOK, Resumers
<1>1. /\ UNCHANGED <<vars, parked>>
      /\ buffered' \subseteq [id : Nat, signal : Signals] /\ lastId' \in Nat
      /\ sent' \in 0..MaxSignals
  BY DEF WaitInv, SuspendTypeOK, ClaimTimer, AckTimer
<1>2. CASE ClaimTimer(w)
  <2>1. PICK n \in WaitNodes :
          /\ timer[n] \in {"pending", "expired"}
          /\ timer' = [timer EXCEPT ![n] = "processing"]
          /\ timerBy' = [timerBy EXCEPT ![n] = w]
          /\ res' = [res EXCEPT ![w].pc = "readStatus", ![w].node = n]
    BY <1>2 DEF ClaimTimer
  <2> DEFINE c == [res[w] EXCEPT !.pc = "readStatus", !.node = n]
  <2>2. n \in Nodes /\ n \in TimerNodes
    BY <2>1, SuspendAssumption DEF WaitInv, TimerInv
  <2>3. c \in ResumeCalls /\ c.pc = "readStatus" /\ c.node = n
    BY <1>0, <2>2 DEF ResumeCalls, ResumerPCs
  <2>4. res' = [res EXCEPT ![w] = c]
    BY <1>0, <2>1 DEF ResumeCalls
  <2>5. /\ timer' \in [WaitNodes -> TimerStates] /\ TimerInv'
        /\ timerBy' \in [WaitNodes -> Workers \cup {NoWorker}]
    BY <1>0, <2>1, <2>2 DEF TimerStates, TimerInv, WaitInv
  <2> HIDE DEF c
  <2> QED
    BY <1>0, <1>1, <2>1, <2>2, <2>3, <2>4, <2>5, ResumerWait
<1>3. CASE AckTimer(w)
  <2>1. /\ res' = [res EXCEPT ![w] = IdleResumer] /\ timerBy' = timerBy
        /\ \/ timer' = timer
           \/ /\ timer' = [timer EXCEPT ![res[w].node] = "gone"]
              /\ timer[res[w].node] = "processing"
    BY <1>3 DEF AckTimer, ResumerReturn
  <2>2. timer' \in [WaitNodes -> TimerStates] /\ TimerInv'
    BY <1>0, <2>1 DEF TimerStates, TimerInv, WaitInv
  <2> QED
    BY <1>0, <1>1, <2>1, <2>2, IdleResumerType, ResumerWait
<1> QED
  BY <1>2, <1>3

(***************************************************************************)
(* The transaction of resumeInstance preserves WaitInv: the wait was acked *)
(* and not resolved, no other resume is of the same wait, and the fan-out  *)
(* is counted once.                                                        *)
(***************************************************************************)
LEMMA ResumeTxWait ==
  ASSUME SoleResumer, WaitInv, NEW x \in Resumers, ResumeTx(x)
  PROVE  WaitInv'
<1> USE DEF WaitInv
<1> DEFINE n == res[x].node
           ready == ReadyAfter(n)
<1>0. /\ TypeOK /\ StoreTypeOK /\ h \in [Workers -> Handlers]
      /\ res \in [Resumers -> ResumeCalls] /\ res[x] \in ResumeCalls /\ n \in Nodes
  BY DEF SuspendTypeOK, TypeOK, WorkerTypeOK, ResumeCalls
<1>1. /\ res[x].pc = "resume" /\ n \in WaitNodes
      /\ x \in Workers => n \in TimerNodes
      /\ x \in Senders => SignalName[n] # NoName
      /\ n \in Completed /\ n \notin Resolved
  BY DEF ResumeTx, ResumeInv
<1>2. jobState[n] = "acked" /\ n \notin InFlight
  BY <1>1 DEF Completed, InFlight
<1>3. /\ UNCHANGED <<fcont, claimant, attempts, starter, canceller, h>>
      /\ UNCHANGED <<crashes, doneCalls, failCalls>>
      /\ UNCHANGED <<buffered, lastId, timer, timerBy, sent>>
  BY DEF ResumeTx, callVars
<1>4. /\ deps' = [m \in Nodes |-> IF m \in Dependents(n) THEN deps[m] - 1 ELSE deps[m]]
      /\ issued' = [m \in Nodes |-> IF m \in ReadyAfter(n) THEN issued[m] + 1 ELSE issued[m]]
      /\ result' = [result EXCEPT ![n] = "ok"]
      /\ pending' = pending + Cardinality(ReadyAfter(n))
      /\ parked' = parked \ {n}
      /\ status' \in {"running", status}
  BY DEF ResumeTx, ParkedAfter
<1>5. jobState' = [m \in Nodes |-> IF m \in ReadyAfter(n) THEN "pending"
                                   ELSE IF m = n THEN "acked" ELSE jobState[m]]
  <2>1. jobState' = [m \in Nodes |-> IF m \in ReadyAfter(n) THEN "pending" ELSE jobState[m]]
    BY DEF ResumeTx
  <2> QED
    BY <1>2, <2>1
<1>6. status # "none" /\ status' # "none" /\ status' \in Statuses
  BY <1>0, <1>2, <1>4, JobMeansStarted DEF StoreTypeOK, Statuses
<1>7. pending' = pending + Cardinality(ReadyAfter(n)) - (IF n \in InFlight THEN 1 ELSE 0)
  <2>1. Cardinality(ReadyAfter(n)) \in Nat /\ pending \in Nat
    <3>1. ReadyAfter(n) \in SUBSET Nodes
      BY DEF ReadyAfter, Dependents
    <3> QED
      BY <1>0, <3>1, NodeSets DEF StoreTypeOK
  <2> QED
    BY <1>2, <1>4, <2>1
<1>8. /\ result'[n] = "ok" /\ \A m \in Nodes : m # n => result'[m] = result[m]
      /\ result' \in [Nodes -> Results]
  BY <1>0, <1>4 DEF StoreTypeOK, Results
<1>9. /\ WaitQueueInv'
      /\ pending' \in Nat /\ deps' \in [Nodes -> Nat] /\ issued' \in [Nodes -> Nat]
      /\ jobState' \in [Nodes -> JobStates]
      /\ Resolved' = Resolved \cup {n}
      /\ Completed' = Completed \cup {n}
      /\ \A m \in Nodes : jobState[m] # "absent" => jobState'[m] # "absent"
  <2>1. starter' = starter /\ jobState[n] # "absent"
    BY <1>2, <1>3
  <2> QED
    BY <1>0, <1>1, <1>4, <1>5, <1>6, <1>7, <1>8, <2>1, FanOut
<1>10. steps' \in [Nodes -> SUBSET Nodes]
  BY <1>0 DEF ResumeTx, StoreTypeOK
<1>11. skip' \in [Nodes -> BOOLEAN]
  <2>1. skip \in [Nodes -> BOOLEAN]
    BY <1>0 DEF StoreTypeOK
  <2>2. skip' = [m \in Nodes |-> IF m \in ready THEN FALSE ELSE skip[m]]
    BY Zenon DEF ResumeTx
  <2>3. \A m \in Nodes : (IF m \in ready THEN FALSE ELSE skip[m]) \in BOOLEAN
    <3> SUFFICES ASSUME NEW m \in Nodes
                 PROVE  (IF m \in ready THEN FALSE ELSE skip[m]) \in BOOLEAN
      OBVIOUS
    <3>1. skip[m] \in BOOLEAN
      BY <2>1
    <3> QED
      BY <3>1, Zenon
  <2> QED
    BY <2>2, <2>3, Zenon
<1>12. StoreTypeOK'
  BY <1>0, <1>3, <1>6, <1>8, <1>9, <1>10, <1>11 DEF StoreTypeOK
<1>13. Completed' = Completed
  BY <1>1, <1>9
<1>14. WaitHandlerInv'
  BY <1>0, <1>3, <1>9, <1>13, KeepHandlers
<1>15. PICK c \in ResumeCalls : res' = [res EXCEPT ![x] = c] /\ c.pc \in {"idle", "ack"}
  <2>1. \/ res' = [res EXCEPT ![x] = IdleResumer]
        \/ res' = [res EXCEPT ![x].pc = "ack"]
    BY DEF ResumeTx, AfterResume, ResumerGoto, ResumerReturn
  <2>2. CASE res' = [res EXCEPT ![x] = IdleResumer]
    BY <2>2, IdleResumerType
  <2>3. CASE res' = [res EXCEPT ![x].pc = "ack"]
    <3>1. [res[x] EXCEPT !.pc = "ack"] \in ResumeCalls
      BY <1>0 DEF ResumeCalls, ResumerPCs
    <3>2. res' = [res EXCEPT ![x] = [res[x] EXCEPT !.pc = "ack"]]
      BY <1>0, <2>3
    <3>3. [res[x] EXCEPT !.pc = "ack"].pc = "ack"
      BY <1>0 DEF ResumeCalls
    <3> QED
      BY <3>1, <3>2, <3>3
  <2> QED
    BY <2>1, <2>2, <2>3
<1>16. /\ res' \in [Resumers -> ResumeCalls]
       /\ \A y \in Resumers : res'[y] = IF y = x THEN c ELSE res[y]
  BY <1>0, <1>15
<1>17. ResumeInv'
  <2> SUFFICES ASSUME NEW y \in Resumers
               PROVE  /\ res'[y].pc \in {"readStatus", "readCont", "resume"} =>
                           /\ res'[y].node \in WaitNodes
                           /\ y \in Workers => res'[y].node \in TimerNodes
                           /\ y \in Senders => SignalName[res'[y].node] # NoName
                      /\ res'[y].pc = "resume" => res'[y].node \in Completed' \ Resolved'
    BY DEF ResumeInv
  <2>1. CASE y = x
    BY <1>15, <1>16, <2>1
  <2>2. CASE y # x
    <3>1. res'[y] = res[y]
      BY <1>16, <2>2
    <3>2. res[y].pc = "resume" => res[y].node # n
      <4> SUFFICES ASSUME res[y].pc = "resume", res[y].node = n PROVE FALSE
        OBVIOUS
      <4>1. (y \in Workers => n \in TimerNodes) /\ (y \in Senders => SignalName[n] # NoName)
        BY DEF ResumeInv
      <4> QED
        BY <1>1, <2>2, <4>1 DEF SoleResumer, OneWorker, Resumers
    <3> QED
      BY <1>9, <3>1, <3>2 DEF ResumeInv
  <2> QED
    BY <2>1, <2>2
<1>18. ParkInv'
  BY <1>4, <1>9 DEF ParkInv
<1>19. TimerInv'
  BY <1>3 DEF TimerInv
<1>20. TypeOK'
  BY <1>0, <1>3, <1>12 DEF TypeOK, WorkerTypeOK
<1>21. SuspendTypeOK'
  BY <1>3, <1>4, <1>16, <1>20 DEF SuspendTypeOK
<1> QED
  BY <1>9, <1>14, <1>17, <1>18, <1>19, <1>21

-----------------------------------------------------------------------------
(* The environment preserves WaitInv *)

(***************************************************************************)
(* CancelRun, the expiry of claims and the crash of the daemon preserve    *)
(* WaitInv: none acks a job or makes a result final.                       *)
(***************************************************************************)
LEMMA EnvironmentWait ==
  ASSUME WaitInv,
         \/ CancelStep
         \/ \E n \in Nodes : ExpireStep(n)
         \/ \E n \in WaitNodes : ExpireTimer(n)
         \/ CrashStep
  PROVE  WaitInv'
<1> USE DEF WaitInv
<1>0. /\ TypeOK /\ StoreTypeOK /\ h \in [Workers -> Handlers]
  BY DEF SuspendTypeOK, TypeOK, WorkerTypeOK
<1>1. ASSUME TypeOK', deps' = deps, issued' = issued, pending' = pending,
             starter' = starter, result' = result, h' = h, res' = res,
             status' = "none" <=> status = "none",
             \A n \in Nodes : /\ jobState'[n] = "absent" <=> jobState[n] = "absent"
                              /\ jobState'[n] = "acked" <=> jobState[n] = "acked",
             parked' \subseteq parked,
             timer' \in [WaitNodes -> TimerStates], TimerInv',
             UNCHANGED <<buffered, lastId, timerBy, sent>>
      PROVE  WaitInv'
  <2>1. Completed' = Completed /\ Resolved' = Resolved
    BY <1>1 DEF Completed, Resolved
  <2>2. WaitQueueInv'
    BY <1>1, <2>1, WaitFrame
  <2>3. WaitHandlerInv'
    BY <1>0, <1>1, <2>1, KeepHandlers
  <2>4. ParkInv' /\ ResumeInv'
    BY <1>1, <2>1 DEF ParkInv, ResumeInv
  <2>5. SuspendTypeOK'
    BY <1>1 DEF SuspendTypeOK
  <2> QED
    BY <1>1, <2>2, <2>3, <2>4, <2>5
<1>2. CASE CancelStep
  <2>1. CASE CancelStatus /\ UNCHANGED suspendVars
    <3>1. /\ UNCHANGED <<parked, buffered, lastId, timer, timerBy, res, sent>>
          /\ UNCHANGED <<deps, issued, pending, starter, result, h, jobState>>
      BY <2>1 DEF suspendVars, CancelStatus, SetRunStatus, queueVars
    <3>2. TypeOK' /\ (status' = "none" <=> status = "none")
      BY <1>0, <2>1 DEF CancelStatus, SetRunStatus, queueVars, TypeOK, StoreTypeOK,
         WorkerTypeOK, Statuses, callVars
    <3>3. timer' \in [WaitNodes -> TimerStates] /\ TimerInv'
      BY <3>1 DEF SuspendTypeOK, TimerInv
    <3> QED
      BY <1>1, <3>1, <3>2, <3>3
  <2>2. CASE /\ CancelDelete
             /\ timer' = [n \in WaitNodes |-> IF timer[n] = "pending" THEN "gone" ELSE timer[n]]
             /\ UNCHANGED <<parked, buffered, lastId, timerBy, res, sent>>
    <3>1. UNCHANGED <<status, deps, issued, pending, starter, result, h>>
      BY <2>2 DEF CancelDelete, DeletePendingJobs, runVars
    <3>2. \A n \in Nodes : /\ jobState'[n] = "absent" <=> jobState[n] = "absent"
                           /\ jobState'[n] = "acked" <=> jobState[n] = "acked"
      BY <2>2 DEF CancelDelete, DeletePendingJobs
    <3>3. TypeOK'
      BY <1>0, <2>2 DEF CancelDelete, DeletePendingJobs, runVars, TypeOK, StoreTypeOK,
         WorkerTypeOK, JobStates, callVars
    <3>4. timer' \in [WaitNodes -> TimerStates] /\ TimerInv'
      BY <2>2 DEF SuspendTypeOK, TimerInv, TimerStates
    <3> QED
      BY <1>1, <2>2, <3>1, <3>2, <3>3, <3>4
  <2>3. CASE /\ CancelDrop
             /\ parked' = {}
             /\ UNCHANGED <<buffered, lastId, timer, timerBy, res, sent>>
    <3>1. /\ UNCHANGED <<status, pending, deps, result, fcont, jobState>>
          /\ UNCHANGED <<claimant, attempts, issued, skip, steps>>
          /\ UNCHANGED <<starter, h, crashes, doneCalls, failCalls>>
      BY <2>3 DEF CancelDrop, storeVars, callVars
    <3>2. TypeOK'
      BY <1>0, <2>3, <3>1 DEF CancelDrop, TypeOK, StoreTypeOK, WorkerTypeOK
    <3>3. timer' \in [WaitNodes -> TimerStates] /\ TimerInv' /\ parked' \subseteq parked
      BY <2>3 DEF SuspendTypeOK, TimerInv
    <3> QED
      BY <1>1, <2>3, <3>1, <3>2, <3>3
  <2> QED
    BY <1>2, <2>1, <2>2, <2>3 DEF CancelStep
<1>3. CASE \E n \in Nodes : ExpireStep(n)
  <2>1. PICK n \in Nodes : ExpireStep(n)
    BY <1>3
  <2>2. /\ UNCHANGED <<parked, buffered, lastId, timer, timerBy, res, sent>>
        /\ UNCHANGED <<status, deps, issued, pending, starter, result, h>>
    BY <2>1 DEF ExpireStep, suspendVars, Expire, ExpireClaim, runVars
  <2>3. TypeOK'
    BY <1>0, <2>1 DEF ExpireStep, Expire, ExpireClaim, runVars, TypeOK, StoreTypeOK,
       WorkerTypeOK, JobStates, callVars
  <2>4. \A m \in Nodes : /\ jobState'[m] = "absent" <=> jobState[m] = "absent"
                         /\ jobState'[m] = "acked" <=> jobState[m] = "acked"
    BY <1>0, <2>1 DEF ExpireStep, Expire, ExpireClaim, StoreTypeOK
  <2>5. timer' \in [WaitNodes -> TimerStates] /\ TimerInv'
    BY <2>2 DEF SuspendTypeOK, TimerInv
  <2> QED
    BY <1>1, <2>2, <2>3, <2>4, <2>5
<1>4. CASE \E n \in WaitNodes : ExpireTimer(n)
  <2>1. PICK n \in WaitNodes : ExpireTimer(n)
    BY <1>4
  <2>2. /\ UNCHANGED <<status, pending, deps, result, fcont, jobState>>
        /\ UNCHANGED <<claimant, attempts, issued, skip, steps>>
        /\ UNCHANGED <<starter, canceller, h, crashes, doneCalls, failCalls>>
        /\ UNCHANGED <<parked, buffered, lastId, timerBy, res, sent>>
    BY <2>1 DEF ExpireTimer, vars, storeVars, callVars
  <2>3. TypeOK'
    BY <1>0, <2>2 DEF TypeOK, StoreTypeOK, WorkerTypeOK
  <2>4. timer' \in [WaitNodes -> TimerStates] /\ TimerInv'
    BY <2>1 DEF ExpireTimer, SuspendTypeOK, TimerInv, TimerStates
  <2> QED
    BY <1>1, <2>2, <2>3, <2>4
<1>5. CASE CrashStep
  <2>1. /\ UNCHANGED <<status, pending, deps, result, fcont, jobState>>
        /\ UNCHANGED <<claimant, attempts, issued, skip, steps>>
        /\ UNCHANGED <<parked, buffered, lastId, timer, timerBy, sent>>
        /\ UNCHANGED <<doneCalls, failCalls>>
    BY <1>5 DEF CrashStep, Crash, storeVars, callVars
  <2>2. /\ h' = [w \in Workers |-> IdleHandler] /\ IdleHandler \in Handlers
        /\ IdleHandler.pc = "idle"
        /\ crashes' = crashes + 1 /\ canceller' = "idle"
        /\ starter' = IF starter \in {"deps", "enqueue"} THEN "lost" ELSE starter
        /\ res' = [x \in Resumers |-> IdleResumer]
    BY <1>5, DagAssumption, AttemptCapType
    DEF CrashStep, Crash, Handlers, IdleHandler, PCs, Faults
  <2>3. TypeOK'
    BY <1>0, <2>1, <2>2 DEF TypeOK, StoreTypeOK, WorkerTypeOK
  <2>4. Completed' = Completed /\ Resolved' = Resolved /\ InFlight' = InFlight
    BY <2>1 DEF Completed, Resolved, InFlight
  <2>5. StarterInv' /\ WaitDepsInv' /\ WaitReadyInv' /\ FinalInv'
    BY <2>1, <2>2, <2>4 DEF WaitQueueInv, StarterInv, WaitDepsInv, WaitReadyInv, FinalInv,
       Unresolved
  <2>6. PendingExact'
    <3>1. Cardinality(InFlight') = Cardinality(InFlight)
      BY <2>4
    <3> QED
      BY <2>1, <2>2, <3>1 DEF WaitQueueInv, PendingExact
  <2>7. WaitHandlerInv'
    BY <2>2 DEF WaitHandlerInv, Working
  <2>8. ParkInv' /\ TimerInv'
    BY <2>1, <2>4 DEF ParkInv, TimerInv
  <2>9. ResumeInv' /\ res' \in [Resumers -> ResumeCalls]
    BY <2>2, IdleResumerType DEF ResumeInv
  <2>10. SuspendTypeOK'
    BY <2>1, <2>3, <2>9 DEF SuspendTypeOK
  <2> QED
    BY <2>5, <2>6, <2>7, <2>8, <2>9, <2>10 DEF WaitQueueInv
<1> QED
  BY <1>2, <1>3, <1>4, <1>5

-----------------------------------------------------------------------------
(* Theorems *)

(***************************************************************************)
(* The invariant holds in every reachable state, while one resume of a     *)
(* wait is in progress at a time.                                          *)
(***************************************************************************)
THEOREM WaitInvariance ==
  ASSUME SoleResumer
  PROVE  SuspendSpec => []WaitInv
<1>0. OneWorker
  BY DEF SoleResumer
<1>1. WaitInv /\ [SuspendNext]_suspVars => WaitInv'
  <2> SUFFICES ASSUME WaitInv, [SuspendNext]_suspVars PROVE WaitInv'
    OBVIOUS
  <2>1. CASE UNCHANGED suspVars
    <3>1. /\ UNCHANGED <<status, pending, deps, result, fcont, jobState>>
          /\ UNCHANGED <<claimant, attempts, issued, skip, steps>>
          /\ UNCHANGED <<starter, canceller, h, crashes, doneCalls, failCalls>>
          /\ UNCHANGED <<parked, buffered, lastId, timer, timerBy, res, sent>>
      BY <2>1 DEF suspVars, suspendVars, vars, storeVars, callVars
    <3>2. Completed' = Completed /\ Resolved' = Resolved
      BY <3>1 DEF Completed, Resolved
    <3>3. WaitQueueInv'
      BY <3>1, <3>2, WaitFrame DEF WaitInv
    <3>4. WaitHandlerInv'
      BY <3>1, <3>2 DEF WaitInv, WaitHandlerInv
    <3>5. ParkInv' /\ ResumeInv' /\ TimerInv'
      BY <3>1, <3>2, KeepWaits DEF WaitInv
    <3>6. TypeOK'
      BY <3>1 DEF WaitInv, SuspendTypeOK, TypeOK, StoreTypeOK, WorkerTypeOK
    <3>7. SuspendTypeOK'
      BY <3>1, <3>6 DEF WaitInv, SuspendTypeOK
    <3> QED
      BY <3>3, <3>4, <3>5, <3>7 DEF WaitInv
  <2>2. CASE StartStep
    BY <2>2, StartWait
  <2>3. CASE \E w \in Workers : WorkerStep(w)
    <3>1. PICK w \in Workers : WorkerStep(w)
      BY <2>3
    <3>2. w \in Resumers
      BY DEF Resumers
    <3> QED
      BY <1>0, <3>1, <3>2, NodeStepWait, ParkWait, TimerWait, ResumeReadsWait, ResumeTxWait
      DEF WorkerStep, ResumeStep
  <2>4. CASE \E x \in Senders : SendSignal(x) \/ SenderStep(x)
    <3>1. PICK x \in Senders : SendSignal(x) \/ SenderStep(x)
      BY <2>4
    <3>2. x \in Resumers
      BY DEF Resumers
    <3> QED
      BY <3>1, <3>2, SignalWait, ResumeReadsWait, ResumeTxWait DEF SenderStep, ResumeStep
  <2>5. CASE \/ CancelStep \/ (\E n \in Nodes : ExpireStep(n))
             \/ (\E n \in WaitNodes : ExpireTimer(n)) \/ CrashStep
    BY <2>5, EnvironmentWait
  <2> QED
    BY <2>1, <2>2, <2>3, <2>4, <2>5 DEF SuspendNext
<1> QED
  BY <1>1, InitWait, PTL DEF SuspendSpec

(***************************************************************************)
(* Every variable keeps its type with waits in the workflow; in particular *)
(* runs.pending and the counters of run_deps never go below zero, although *)
(* a park and a resume adjust them in two transactions (handleWait,        *)
(* resumeInstance).                                                        *)
(***************************************************************************)
THEOREM WaitsTypeCorrectness ==
  ASSUME SoleResumer
  PROVE  SuspendSpec => []SuspendTypeOK
<1>1. WaitInv => SuspendTypeOK
  BY DEF WaitInv
<1> QED
  BY <1>1, WaitInvariance, PTL

(***************************************************************************)
(* No node is enqueued before all it depends on is done, and a parked wait *)
(* is not: no park, signal, timer, cancel or crash lets a node run ahead   *)
(* of its wait (fanOutContinuation).                                       *)
(***************************************************************************)
THEOREM NothingOvertakesAWait ==
  ASSUME SoleResumer
  PROVE  SuspendSpec => []EnqueuedAfterDependencies
<1>1. WaitInv => EnqueuedAfterDependencies
  <2> SUFFICES ASSUME WaitInv, NEW n \in Nodes, jobState[n] # "absent"
               PROVE  Preds[n] \subseteq Done
    BY DEF EnqueuedAfterDependencies
  <2>1. Preds[n] \subseteq Resolved
    BY DEF WaitInv, WaitQueueInv, WaitReadyInv
  <2> QED
    BY <2>1 DEF WaitInv, WaitQueueInv, FinalInv, ParkInv, Done
<1> QED
  BY <1>1, WaitInvariance, PTL

(***************************************************************************)
(* A saved continuation is that of a wait that was not resumed: it has no  *)
(* final result and nothing after it was enqueued (resumeInstance deletes  *)
(* the continuation in the transaction that fans out).                     *)
(***************************************************************************)
THEOREM ContinuationsAreUnresumed ==
  ASSUME SoleResumer
  PROVE  SuspendSpec => []ParkedIsUnresumed
<1>1. WaitInv => ParkedIsUnresumed
  <2> SUFFICES ASSUME WaitInv, NEW n \in parked
               PROVE  /\ jobState[n] = "acked"
                      /\ result[n] = "none" \/ result[n] = "failed"
                      /\ \A m \in Dependents(n) : jobState[m] = "absent"
    BY DEF ParkedIsUnresumed
  <2>1. n \in Completed /\ n \notin Resolved
    BY DEF WaitInv, ParkInv
  <2>2. n \in Nodes /\ jobState[n] = "acked"
    BY <2>1 DEF Completed
  <2>3. result[n] \in Results
    BY <2>2 DEF WaitInv, SuspendTypeOK, TypeOK, StoreTypeOK
  <2>4. result[n] = "none" \/ result[n] = "failed"
    BY <2>1, <2>2, <2>3 DEF Resolved, Results
  <2>5. \A m \in Dependents(n) : jobState[m] = "absent"
    BY <2>1 DEF Dependents, WaitInv, WaitQueueInv, WaitReadyInv
  <2> QED
    BY <2>2, <2>4, <2>5
<1> QED
  BY <1>1, WaitInvariance, PTL

(***************************************************************************)
(* runs.pending stays exact although a parked wait's job is taken off the  *)
(* count at the park and its dependents are put on at the resume           *)
(* (AdjustPending in handleWait and resumeInstance).                       *)
(***************************************************************************)
THEOREM PendingIsExactWithWaits ==
  ASSUME SoleResumer
  PROVE  SuspendSpec => []PendingExact
<1>1. WaitInv => PendingExact
  BY DEF WaitInv, WaitQueueInv
<1> QED
  BY <1>1, WaitInvariance, PTL
=============================================================================
