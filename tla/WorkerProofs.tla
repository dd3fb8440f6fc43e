---------------------------- MODULE WorkerProofs ----------------------------
(***************************************************************************)
(* Theorems about Worker for every workflow, every number of workers,      *)
(* every retry limit and every number of crashes.                          *)
(*                                                                         *)
(* The inductive invariant IInv says how the four records of a run's       *)
(* progress agree: the jobs (jobState), the fan-in counters (deps), the    *)
(* count of jobs in flight (pending) and the handlers' positions.          *)
(***************************************************************************)
EXTENDS Worker, FiniteSetTheorems, TLAPS

\* The dependencies of n that have not completed.
Unfinished(n) == Preds[n] \ Completed

(***************************************************************************)
(* The start: no job before the head is enqueued, and the head is the only *)
(* node enqueued without a dependency.                                     *)
(***************************************************************************)
StarterInv ==
  /\ starter = "create" <=> status = "none"
  /\ starter # "done" => \A n \in Nodes : jobState[n] = "absent"
  /\ starter = "done" => jobState[Root] # "absent"

(***************************************************************************)
(* A counter of run_deps is the number of dependencies not completed.      *)
(***************************************************************************)
DepsInv ==
  starter \in {"enqueue", "done"} =>
    \A n \in Nodes : deps[n] = Cardinality(Unfinished(n))

(***************************************************************************)
(* A node with dependencies is enqueued if and only if all have completed, *)
(* and a node is enqueued at most once.                                    *)
(***************************************************************************)
ReadyInv ==
  \A n \in Nodes :
    /\ issued[n] = IF jobState[n] = "absent" THEN 0 ELSE 1
    /\ jobState[n] # "absent" => Preds[n] \subseteq Completed
    /\ Preds[n] # {} /\ Preds[n] \subseteq Completed => jobState[n] # "absent"

QueueInv == StarterInv /\ DepsInv /\ ReadyInv /\ PendingExact

(***************************************************************************)
(* A busy handler's node was enqueued; and when a handler is about to mark *)
(* the run completed, or has, nothing is in flight any more.               *)
(***************************************************************************)
HandlerInv ==
  /\ \A w \in Workers : h[w].pc # "idle" => jobState[h[w].node] # "absent"
  /\ \A w \in Workers : h[w].pc \in {"readStatus", "setCompleted", "onDone"} => InFlight = {}
  /\ status = "completed" => InFlight = {} /\ starter = "done"

IInv == TypeOK /\ QueueInv /\ HandlerInv

-----------------------------------------------------------------------------
(* Facts about sets of nodes *)

(***************************************************************************)
(* A set of nodes is finite, so its cardinality (pending, deps) is a       *)
(* natural number, and zero for the empty set alone.                       *)
(***************************************************************************)
LEMMA NodeSets ==
  ASSUME NEW S \in SUBSET Nodes
  PROVE  /\ IsFiniteSet(S)
         /\ Cardinality(S) \in Nat
         /\ Cardinality(S) = 0 <=> S = {}
<1>1. IsFiniteSet(S)
  BY DagAssumption, FS_Subset
<1> QED
  BY <1>1, FS_CardinalityType, FS_EmptySet

(***************************************************************************)
(* In an acyclic workflow whose only node without dependencies is the      *)
(* head, a set of nodes that holds the head and every node whose           *)
(* dependencies it holds is the whole workflow.                            *)
(***************************************************************************)
LEMMA ClosedSetIsAll ==
  ASSUME \A n \in Nodes \ {Root} : Preds[n] # {},
         NEW S \in SUBSET Nodes,
         Root \in S,
         \A n \in Nodes : Preds[n] # {} /\ Preds[n] \subseteq S => n \in S
  PROVE  S = Nodes
<1>1. SUFFICES ASSUME Nodes \ S # {} PROVE FALSE
  OBVIOUS
<1>2. PICK n \in Nodes \ S : Preds[n] \cap (Nodes \ S) = {}
  BY <1>1, DagAssumption
<1>3. Preds[n] \subseteq S
  BY <1>2, DagAssumption
<1> QED
  BY <1>2, <1>3

(***************************************************************************)
(* AttemptCap, at which the count of a job's claims stops, is positive.    *)
(***************************************************************************)
LEMMA AttemptCapType == AttemptCap \in Nat \ {0}
  BY AttemptsAssumption DEF AttemptCap

-----------------------------------------------------------------------------
(* Steps of the queue and the store that leave the progress as it is *)

(***************************************************************************)
(* A step that enqueues no node, commits none and leaves the counters      *)
(* alone (a claim, an expiry, a retry, a dead letter, a drop, a change of  *)
(* status) preserves QueueInv, and the sets of completed nodes and of      *)
(* nodes in flight.                                                        *)
(***************************************************************************)
LEMMA Frame ==
  ASSUME QueueInv,
         deps' = deps, issued' = issued, pending' = pending, starter' = starter,
         status' = "none" <=> status = "none",
         \A n \in Nodes : /\ jobState'[n] = "absent" <=> jobState[n] = "absent"
                          /\ jobState'[n] = "acked" <=> jobState[n] = "acked"
  PROVE  QueueInv' /\ Completed' = Completed /\ InFlight' = InFlight
<1>1. Completed' = Completed
  BY DEF Completed
<1>2. InFlight' = InFlight
  BY DEF InFlight
<1>3. StarterInv'
  BY DagAssumption DEF QueueInv, StarterInv
<1>4. DepsInv'
  BY <1>1 DEF QueueInv, DepsInv, Unfinished
<1>5. ReadyInv'
  BY <1>1 DEF QueueInv, ReadyInv
<1>6. PendingExact'
  BY <1>2 DEF QueueInv, PendingExact
<1> QED
  BY <1>1, <1>2, <1>3, <1>4, <1>5, <1>6 DEF QueueInv

-----------------------------------------------------------------------------
(* The completion atom *)

(***************************************************************************)
(* The commit of a node's completion preserves QueueInv and the type of    *)
(* the store: the counters of its dependents go down by one, the ones that *)
(* reach zero are enqueued for the first time, and pending follows.        *)
(***************************************************************************)
LEMMA CommitPreservesQueue ==
  ASSUME StoreTypeOK, QueueInv, starter' = starter,
         NEW w \in Workers, NEW n \in Nodes, NEW res \in Results,
         NEW sk \in SUBSET Nodes,
         CommitNodeAtom(w, n, res, sk)
  PROVE  /\ StoreTypeOK' /\ QueueInv'
         /\ n \in InFlight
         /\ Completed' = Completed \cup {n}
         /\ \A m \in Nodes : jobState[m] # "absent" => jobState'[m] # "absent"
<1> DEFINE ready == ReadyAfter(n)
<1>1. jobState[n] = "processing" /\ n \notin Completed /\ n \in InFlight
  BY DEF CommitNodeAtom, CanCommit, HoldsClaim, Completed, InFlight
<1>2. starter = "done" /\ status # "none" /\ status' = status
  BY <1>1 DEF QueueInv, StarterInv, CommitNodeAtom
<1>3. \A m \in Nodes : deps[m] = Cardinality(Unfinished(m))
  BY <1>2 DEF QueueInv, DepsInv
<1>4. \A m \in Nodes : Unfinished(m) \in SUBSET Nodes
  BY DagAssumption DEF Unfinished
<1>5. \A m \in Dependents(n) : m \in Nodes /\ n \in Preds[m] /\ n \in Unfinished(m)
  BY <1>1 DEF Dependents, Unfinished
<1>6. \A m \in Dependents(n) : jobState[m] = "absent" /\ m # n
  BY <1>1, <1>5 DEF QueueInv, ReadyInv
<1>7. ready \in SUBSET Dependents(n)
  BY DEF ReadyAfter
<1>8. \A m \in Dependents(n) : m \in ready <=> Unfinished(m) = {n}
  <2> SUFFICES ASSUME NEW m \in Dependents(n)
               PROVE  m \in ready <=> Unfinished(m) = {n}
    OBVIOUS
  <2>1. IsFiniteSet(Unfinished(m)) /\ Cardinality(Unfinished(m)) \in Nat
    BY <1>4, <1>5, NodeSets
  <2>2. m \in ready <=> Cardinality(Unfinished(m)) = 1
    BY <1>3, <1>5, <2>1 DEF ReadyAfter
  <2>3. Cardinality(Unfinished(m)) = 1 <=> \E x : Unfinished(m) = {x}
    BY <2>1, FS_Singleton
  <2> QED
    BY <1>5, <2>2, <2>3
<1>9. \A m \in Nodes : jobState'[m] = IF m \in ready THEN "pending"
                                     ELSE IF m = n THEN "acked" ELSE jobState[m]
  BY DEF CommitNodeAtom
<1>10. Completed' = Completed \cup {n}
  BY <1>6, <1>7, <1>9 DEF Completed
<1>11. InFlight' = (InFlight \ {n}) \cup ready
  <2>1. ready \subseteq Nodes
    BY <1>7 DEF Dependents
  <2> QED
    BY <1>6, <1>7, <1>9, <2>1 DEF InFlight
<1>12. \A m \in Nodes : Unfinished(m)' = Unfinished(m) \ {n}
  BY <1>10 DEF Unfinished
<1>13. \A m \in Nodes : deps'[m] = Cardinality(Unfinished(m)') /\ deps'[m] \in Nat
  <2> SUFFICES ASSUME NEW m \in Nodes
               PROVE  deps'[m] = Cardinality(Unfinished(m)') /\ deps'[m] \in Nat
    OBVIOUS
  <2>1. IsFiniteSet(Unfinished(m)) /\ Cardinality(Unfinished(m)) \in Nat
    BY <1>4, NodeSets
  <2>2. Cardinality(Unfinished(m) \ {n}) =
          IF n \in Unfinished(m) THEN deps[m] - 1 ELSE deps[m]
    BY <1>3, <2>1, FS_RemoveElement
  <2>3. n \in Unfinished(m) <=> m \in Dependents(n)
    BY <1>1 DEF Unfinished, Dependents
  <2>4. deps'[m] = Cardinality(Unfinished(m) \ {n})
    BY <2>2, <2>3 DEF CommitNodeAtom
  <2>5. Cardinality(Unfinished(m) \ {n}) \in Nat
    BY <1>4, NodeSets
  <2> QED
    BY <1>12, <2>4, <2>5
<1>14. DepsInv'
  BY <1>2, <1>13 DEF DepsInv
<1>15. StarterInv'
  BY <1>2, <1>9, DagAssumption DEF QueueInv, StarterInv
<1>16. ReadyInv'
  <2> SUFFICES ASSUME NEW m \in Nodes
               PROVE  /\ issued'[m] = IF jobState'[m] = "absent" THEN 0 ELSE 1
                      /\ jobState'[m] # "absent" => Preds[m] \subseteq Completed'
                      /\ Preds[m] # {} /\ Preds[m] \subseteq Completed'
                           => jobState'[m] # "absent"
    BY DEF ReadyInv
  <2>1. issued[m] = (IF jobState[m] = "absent" THEN 0 ELSE 1)
    BY DEF QueueInv, ReadyInv
  <2>2. issued'[m] = IF m \in ready THEN issued[m] + 1 ELSE issued[m]
    BY DEF CommitNodeAtom
  <2>3. CASE m \in ready
    <3>1. jobState[m] = "absent" /\ jobState'[m] = "pending"
      BY <1>6, <1>7, <1>9, <2>3
    <3>2. Preds[m] \subseteq Completed'
      BY <1>7, <1>8, <1>10, <2>3 DEF Unfinished
    <3> QED
      BY <2>1, <2>2, <2>3, <3>1, <3>2
  <2>4. CASE m \notin ready
    <3>1. jobState'[m] = "absent" <=> jobState[m] = "absent"
      BY <1>1, <1>9, <2>4
    <3>2. jobState[m] # "absent" => Preds[m] \subseteq Completed'
      BY <1>10 DEF QueueInv, ReadyInv
    <3>3. Preds[m] # {} /\ Preds[m] \subseteq Completed' => jobState[m] # "absent"
      <4>1. CASE n \in Preds[m]
        <5>1. m \in Dependents(n)
          BY <4>1 DEF Dependents
        <5> QED
          BY <1>5, <1>8, <1>10, <2>4, <5>1 DEF Unfinished
      <4>2. CASE n \notin Preds[m]
        BY <1>10, <4>2 DEF QueueInv, ReadyInv
      <4> QED
        BY <4>1, <4>2
    <3> QED
      BY <2>1, <2>2, <2>4, <3>1, <3>2, <3>3
  <2> QED
    BY <2>3, <2>4
<1>17. PendingExact' /\ pending' \in Nat
  <2>1. InFlight \in SUBSET Nodes /\ ready \in SUBSET Nodes /\ InFlight' \in SUBSET Nodes
    BY <1>7 DEF InFlight, Dependents
  <2>2. /\ IsFiniteSet(InFlight) /\ IsFiniteSet(ready) /\ IsFiniteSet(InFlight \ {n})
        /\ Cardinality(InFlight) \in Nat /\ Cardinality(ready) \in Nat
        /\ Cardinality(InFlight') \in Nat
    BY <2>1, NodeSets, FS_RemoveElement
  <2>3. (InFlight \ {n}) \cap ready = {}
    BY <1>6, <1>7 DEF InFlight
  <2>4. Cardinality(InFlight \ {n}) = Cardinality(InFlight) - 1
    BY <1>1, <2>2, FS_RemoveElement
  <2>5. Cardinality((InFlight \ {n}) \cup ready) =
          Cardinality(InFlight \ {n}) + Cardinality(ready)
            - Cardinality((InFlight \ {n}) \cap ready)
    BY <2>2, FS_Union
  <2>6. Cardinality(InFlight') = Cardinality(InFlight) - 1 + Cardinality(ready)
    <3>1. Cardinality((InFlight \ {n}) \cap ready) = 0
      BY <2>3, FS_EmptySet
    <3>2. Cardinality(InFlight') = Cardinality((InFlight \ {n}) \cup ready)
      BY <1>11
    <3> QED
      BY <2>2, <2>4, <2>5, <3>1, <3>2
  <2>7. pending = Cardinality(InFlight)
    BY <1>2, <2>2 DEF QueueInv, PendingExact
  <2>8. pending' = pending + Cardinality(ready) - 1
    BY DEF CommitNodeAtom, PendingAfter
  <2>9. pending' = Cardinality(InFlight')
    BY <2>2, <2>6, <2>7, <2>8
  <2> QED
    BY <1>2, <2>2, <2>9 DEF PendingExact
<1>18. StoreTypeOK'
  <2>1. deps' \in [Nodes -> Nat]
    BY <1>13 DEF CommitNodeAtom
  <2>2. jobState' \in [Nodes -> JobStates]
    BY DEF CommitNodeAtom, StoreTypeOK, JobStates
  <2>3. issued' \in [Nodes -> Nat]
    BY DEF CommitNodeAtom, StoreTypeOK
  <2>4. steps' \in [Nodes -> SUBSET Nodes]
    BY DEF CommitNodeAtom, StoreTypeOK
  <2>5. skip' \in [Nodes -> BOOLEAN]
    <3>1. skip \in [Nodes -> BOOLEAN]
      BY DEF StoreTypeOK
    <3>2. skip' = [m \in Nodes |-> IF m \in ready THEN m \in sk ELSE skip[m]]
      BY Zenon DEF CommitNodeAtom
    <3>3. \A m \in Nodes : (IF m \in ready THEN m \in sk ELSE skip[m]) \in BOOLEAN
      <4> SUFFICES ASSUME NEW m \in Nodes
                   PROVE  (IF m \in ready THEN m \in sk ELSE skip[m]) \in BOOLEAN
        OBVIOUS
      <4>1. skip[m] \in BOOLEAN
        BY <3>1
      <4>2. (m \in sk) \in BOOLEAN
        OBVIOUS
      <4> QED
        BY <4>1, <4>2, Zenon
    <3> QED
      BY <3>2, <3>3, Zenon
  <2>6. UNCHANGED <<status, fcont, claimant, attempts>> /\ result' = [result EXCEPT ![n] = res]
    BY DEF CommitNodeAtom
  <2> QED
    BY <1>17, <2>1, <2>2, <2>3, <2>4, <2>5, <2>6 DEF StoreTypeOK
<1>19. \A m \in Nodes : jobState[m] # "absent" => jobState'[m] # "absent"
  BY <1>9
<1> QED
  BY <1>1, <1>10, <1>14, <1>15, <1>16, <1>17, <1>18, <1>19 DEF QueueInv

-----------------------------------------------------------------------------
(* The invariant is inductive *)

(***************************************************************************)
(* Before the run is created the store is empty and IInv holds.            *)
(***************************************************************************)
LEMMA InitIInv == Init => IInv
<1> SUFFICES ASSUME Init PROVE IInv
  OBVIOUS
<1> USE DEF Init, StoreInit
<1>1. TypeOK
  BY DagAssumption, AttemptCapType
  DEF TypeOK, StoreTypeOK, WorkerTypeOK, Handlers, IdleHandler, PCs, Faults,
      Statuses, Results, JobStates
<1>2. StarterInv /\ DepsInv /\ PendingExact
  BY DEF StarterInv, DepsInv, PendingExact
<1>3. ReadyInv
  BY DEF ReadyInv, Completed
<1>4. HandlerInv
  BY DEF HandlerInv, IdleHandler
<1> QED
  BY <1>1, <1>2, <1>3, <1>4 DEF IInv, QueueInv

(***************************************************************************)
(* StartRun's three commits preserve IInv: no handler is busy before the   *)
(* head is enqueued.                                                       *)
(***************************************************************************)
LEMMA StartRunIInv == IInv /\ StartRun => IInv'
<1> SUFFICES ASSUME IInv, StartRun PROVE IInv'
  OBVIOUS
<1> USE DEF IInv
<1>0. starter # "done" =>
        /\ Completed = {} /\ InFlight = {}
        /\ \A w \in Workers : h[w].pc = "idle"
  BY DEF QueueInv, StarterInv, HandlerInv, TypeOK, WorkerTypeOK, Handlers,
         Completed, InFlight
<1>1. CASE StartCreate
  <2> USE <1>1 DEF StartCreate, CreateRun, queueVars
  <2>1. TypeOK'
    BY DEF TypeOK, StoreTypeOK, WorkerTypeOK, Statuses, callVars
  <2>2. Completed' = Completed /\ InFlight' = InFlight
    BY DEF Completed, InFlight
  <2>3. StarterInv' /\ DepsInv' /\ ReadyInv'
    BY <2>2 DEF QueueInv, StarterInv, DepsInv, ReadyInv
  <2>4. PendingExact'
    BY <1>0, <2>2, FS_EmptySet DEF PendingExact
  <2>5. HandlerInv'
    BY <1>0, <2>2 DEF HandlerInv
  <2> QED
    BY <2>1, <2>3, <2>4, <2>5 DEF QueueInv
<1>2. CASE StartDeps
  <2> USE <1>2 DEF StartDeps, InitRunDeps, queueVars, runVars
  <2>1. \A n \in Nodes : Cardinality(Preds[n]) \in Nat
    BY DagAssumption, NodeSets
  <2>2. TypeOK'
    BY <2>1 DEF TypeOK, StoreTypeOK, WorkerTypeOK, callVars
  <2>3. Completed' = Completed /\ InFlight' = InFlight
    BY DEF Completed, InFlight
  <2>4. StarterInv' /\ ReadyInv' /\ PendingExact'
    BY <2>3 DEF QueueInv, StarterInv, ReadyInv, PendingExact
  <2>5. DepsInv'
    <3>1. \A n \in Nodes : Unfinished(n)' = Preds[n]
      BY <1>0, <2>3 DEF Unfinished
    <3> QED
      BY <3>1 DEF DepsInv
  <2>6. HandlerInv'
    BY <1>0, <2>3 DEF HandlerInv
  <2> QED
    BY <2>2, <2>4, <2>5, <2>6 DEF QueueInv
<1>3. CASE StartEnqueue
  <2> USE <1>3 DEF StartEnqueue, EnqueueHead, runVars
  <2>0. \A n \in Nodes : jobState[n] = "absent" /\ issued[n] = 0
    BY DEF QueueInv, StarterInv, ReadyInv
  <2>1. /\ jobState' \in [Nodes -> JobStates]
        /\ \A n \in Nodes : jobState'[n] = IF n = Root THEN "pending" ELSE "absent"
    BY <2>0, DagAssumption DEF TypeOK, StoreTypeOK, JobStates
  <2>2. TypeOK'
    BY <2>0, <2>1, DagAssumption DEF TypeOK, StoreTypeOK, WorkerTypeOK, callVars
  <2>3. Completed' = {} /\ InFlight' = {Root}
    BY <2>1, DagAssumption DEF Completed, InFlight
  <2>4. StarterInv'
    BY <2>1, DagAssumption DEF QueueInv, StarterInv
  <2>5. DepsInv'
    <3>1. \A n \in Nodes : Unfinished(n)' = Unfinished(n)
      BY <1>0, <2>3 DEF Unfinished
    <3> QED
      BY <3>1 DEF QueueInv, DepsInv
  <2>6. ReadyInv'
    BY <2>0, <2>1, <2>3, DagAssumption DEF ReadyInv, TypeOK, StoreTypeOK
  <2>7. PendingExact'
    <3>1. Cardinality(InFlight) = 0 /\ Cardinality(InFlight') = 1
      BY <1>0, <2>3, FS_EmptySet, FS_Singleton
    <3> QED
      BY <3>1 DEF QueueInv, PendingExact, StarterInv
  <2>8. HandlerInv'
    BY <1>0 DEF HandlerInv
  <2> QED
    BY <2>2, <2>4, <2>5, <2>6, <2>7, <2>8 DEF QueueInv
<1> QED
  BY <1>1, <1>2, <1>3 DEF StartRun

(***************************************************************************)
(* CancelRun preserves IInv: it changes the status, and the jobs it drops  *)
(* stay in flight for pending, so a cancelled run's count never reaches    *)
(* zero by it.                                                             *)
(***************************************************************************)
LEMMA CancelIInv == IInv /\ Cancel => IInv'
<1> SUFFICES ASSUME IInv, Cancel PROVE IInv'
  OBVIOUS
<1> USE DEF IInv
<1>1. CASE CancelStatus
  <2> USE <1>1 DEF CancelStatus, SetRunStatus, queueVars
  <2>1. TypeOK'
    BY DEF TypeOK, StoreTypeOK, WorkerTypeOK, Statuses, callVars
  <2>2. QueueInv' /\ InFlight' = InFlight
    BY Frame
  <2>3. HandlerInv'
    BY <2>2 DEF HandlerInv
  <2> QED
    BY <2>1, <2>2, <2>3
<1>2. CASE CancelDelete
  <2> USE <1>2 DEF CancelDelete, DeletePendingJobs, runVars
  <2>1. TypeOK'
    BY DEF TypeOK, StoreTypeOK, WorkerTypeOK, JobStates, callVars
  <2>2. \A n \in Nodes : /\ jobState'[n] = "absent" <=> jobState[n] = "absent"
                         /\ jobState'[n] = "acked" <=> jobState[n] = "acked"
    OBVIOUS
  <2>3. QueueInv' /\ InFlight' = InFlight
    BY <2>2, Frame
  <2>4. HandlerInv'
    BY <2>2, <2>3 DEF HandlerInv, TypeOK, WorkerTypeOK, Handlers
  <2> QED
    BY <2>1, <2>3, <2>4
<1>3. CASE CancelDrop
  <2> USE <1>3 DEF CancelDrop
  <2>1. TypeOK'
    BY DEF TypeOK, StoreTypeOK, WorkerTypeOK, callVars, storeVars
  <2>2. QueueInv' /\ InFlight' = InFlight
    BY Frame DEF storeVars
  <2>3. HandlerInv'
    BY <2>2 DEF HandlerInv, storeVars
  <2> QED
    BY <2>1, <2>2, <2>3
<1> QED
  BY <1>1, <1>2, <1>3 DEF Cancel

(***************************************************************************)
(* A busy handler's run has been started: its head was enqueued and it has *)
(* a row in runs.                                                          *)
(***************************************************************************)
LEMMA BusyMeansStarted ==
  ASSUME IInv, NEW w \in Workers, h[w].pc # "idle"
  PROVE  /\ h[w] \in Handlers /\ h[w].node \in Nodes
         /\ jobState[h[w].node] # "absent"
         /\ starter = "done" /\ status # "none"
<1>1. h[w] \in Handlers /\ h[w].node \in Nodes
  BY DEF IInv, TypeOK, WorkerTypeOK, Handlers
<1>2. jobState[h[w].node] # "absent"
  BY DEF IInv, HandlerInv
<1> QED
  BY <1>1, <1>2 DEF IInv, QueueInv, StarterInv

(***************************************************************************)
(* A step of one handler that neither enqueues nor commits a node          *)
(* preserves IInv, provided that it keeps the types, and that it goes on   *)
(* to mark the run completed, or does so, only with nothing in flight.     *)
(***************************************************************************)
LEMMA QuietStep ==
  ASSUME IInv, StoreTypeOK',
         NEW w \in Workers, NEW r \in Handlers, h' = [h EXCEPT ![w] = r],
         r.pc # "idle" => jobState[r.node] # "absent",
         r.pc \in {"readStatus", "setCompleted", "onDone"} => InFlight = {},
         \/ status' = status
         \/ status # "none" /\ status' = "failed"
         \/ status # "none" /\ status' = "completed" /\ InFlight = {} /\ starter = "done",
         deps' = deps, issued' = issued, pending' = pending,
         \A n \in Nodes : /\ jobState'[n] = "absent" <=> jobState[n] = "absent"
                          /\ jobState'[n] = "acked" <=> jobState[n] = "acked",
         UNCHANGED <<starter, canceller, crashes>>,
         doneCalls' \in Nat, failCalls' \in Nat
  PROVE  IInv'
<1>1. QueueInv' /\ InFlight' = InFlight
  <2>1. status' = "none" <=> status = "none"
    OBVIOUS
  <2> QED
    BY <2>1, Frame DEF IInv
<1>2. h' \in [Workers -> Handlers]
  BY DEF IInv, TypeOK, WorkerTypeOK
<1>3. TypeOK'
  BY <1>2 DEF IInv, TypeOK, WorkerTypeOK
<1>4. \A v \in Workers : h'[v] = IF v = w THEN r ELSE h[v]
  BY DEF IInv, TypeOK, WorkerTypeOK
<1>5. HandlerInv'
  <2>1. ASSUME NEW v \in Workers, h'[v].pc # "idle"
        PROVE  jobState'[h'[v].node] # "absent"
    <3>1. h'[v].node \in Nodes
      BY <1>2 DEF Handlers
    <3>2. jobState[h'[v].node] # "absent"
      BY <1>4, <2>1 DEF IInv, HandlerInv
    <3> QED
      BY <3>1, <3>2
  <2>2. ASSUME NEW v \in Workers, h'[v].pc \in {"readStatus", "setCompleted", "onDone"}
        PROVE  InFlight' = {}
    BY <1>1, <1>4, <2>2 DEF IInv, HandlerInv
  <2>3. status' = "completed" => InFlight' = {} /\ starter' = "done"
    BY <1>1 DEF IInv, HandlerInv
  <2> QED
    BY <2>1, <2>2, <2>3 DEF HandlerInv
<1> QED
  BY <1>1, <1>3, <1>5 DEF IInv

(***************************************************************************)
(* Job.Ack, Job.Retry and Job.Fail touch a claimed job alone, so none of   *)
(* them commits or enqueues a node.                                        *)
(***************************************************************************)
LEMMA MoveClaimedFrame ==
  ASSUME StoreTypeOK, NEW w, NEW n \in Nodes, NEW to \in {"pending", "dropped", "dead"},
         MoveClaimed(w, n, to)
  PROVE  /\ StoreTypeOK'
         /\ UNCHANGED <<status, pending, deps, issued>>
         /\ \A m \in Nodes : /\ jobState'[m] = "absent" <=> jobState[m] = "absent"
                             /\ jobState'[m] = "acked" <=> jobState[m] = "acked"
<1>1. jobState' \in [Nodes -> JobStates]
  BY DEF MoveClaimed, StoreTypeOK, JobStates
<1>2. UNCHANGED <<status, pending, deps, result, fcont,
                  claimant, attempts, issued, skip, steps>>
  BY DEF MoveClaimed, runVars
<1>3. \A m \in Nodes : /\ jobState'[m] = "absent" <=> jobState[m] = "absent"
                       /\ jobState'[m] = "acked" <=> jobState[m] = "acked"
  BY DEF MoveClaimed, HoldsClaim, StoreTypeOK
<1> QED
  BY <1>1, <1>2, <1>3 DEF StoreTypeOK

(***************************************************************************)
(* A handler that ends with one of these calls preserves IInv.             *)
(***************************************************************************)
LEMMA MoveClaimedIInv ==
  ASSUME IInv, NEW w \in Workers, NEW n \in Nodes,
         NEW to \in {"pending", "dropped", "dead"}, MoveClaimed(w, n, to),
         h' = [h EXCEPT ![w] = IdleHandler],
         UNCHANGED <<starter, canceller, crashes, doneCalls, failCalls>>
  PROVE  IInv'
<1>1. IdleHandler \in Handlers /\ IdleHandler.pc = "idle"
  BY DagAssumption, AttemptCapType DEF Handlers, IdleHandler, PCs, Faults
<1>2. StoreTypeOK /\ doneCalls \in Nat /\ failCalls \in Nat
  BY DEF IInv, TypeOK, WorkerTypeOK
<1>3. /\ StoreTypeOK'
      /\ UNCHANGED <<status, pending, deps, issued>>
      /\ \A m \in Nodes : /\ jobState'[m] = "absent" <=> jobState[m] = "absent"
                          /\ jobState'[m] = "acked" <=> jobState[m] = "acked"
  BY <1>2, MoveClaimedFrame
<1> QED
  BY <1>1, <1>2, <1>3, QuietStep

(***************************************************************************)
(* Worker.Run and handle up to the node's outcome preserve IInv: the claim *)
(* of a job, the read of the run's status, the drop of an ended run's job  *)
(* and the node's execution enqueue and commit nothing.                    *)
(***************************************************************************)
LEMMA HandleIInv ==
  ASSUME IInv, NEW w \in Workers,
         \/ Claim(w) \/ HandleStatus(w) \/ HandleDrop(w)
         \/ RunNode(w) \/ RunSwitch(w) \/ RunFails(w) \/ CommitRollback(w)
  PROVE  IInv'
<1> USE DEF IInv
<1>0. StoreTypeOK /\ h \in [Workers -> Handlers] /\ IdleHandler \in Handlers
      /\ doneCalls \in Nat /\ failCalls \in Nat
  BY DagAssumption, AttemptCapType
  DEF TypeOK, WorkerTypeOK, Handlers, IdleHandler, PCs, Faults
<1>1. CASE Claim(w)
  <2>1. PICK n \in Nodes :
          /\ ClaimJob(w, n)
          /\ h' = [h EXCEPT ![w] = [IdleHandler EXCEPT !.pc = "status", !.node = n,
                                                       !.tries = attempts'[n]]]
    BY <1>1 DEF Claim
  <2> DEFINE r == [IdleHandler EXCEPT !.pc = "status", !.node = n, !.tries = attempts'[n]]
  <2>2. StoreTypeOK'
    BY <1>0, <2>1, AttemptCapType DEF StoreTypeOK, ClaimJob, JobStates, runVars
  <2>3. r \in Handlers /\ r.pc = "status" /\ r.node = n
    BY <2>2, DagAssumption DEF StoreTypeOK, Handlers, IdleHandler, PCs, Faults
  <2>4. jobState[n] # "absent"
    BY <2>1 DEF ClaimJob
  <2>5. \A m \in Nodes : /\ jobState'[m] = "absent" <=> jobState[m] = "absent"
                         /\ jobState'[m] = "acked" <=> jobState[m] = "acked"
    BY <1>0, <2>1 DEF ClaimJob, StoreTypeOK
  <2>6. /\ UNCHANGED <<starter, canceller, crashes, status, deps, issued, pending>>
        /\ UNCHANGED <<doneCalls, failCalls>>
    BY <1>1, <2>1 DEF Claim, ClaimJob, runVars, callVars
  <2> HIDE DEF r
  <2>7. h' = [h EXCEPT ![w] = r]
    BY <2>1 DEF r
  <2> QED
    BY <1>0, <2>2, <2>3, <2>4, <2>5, <2>6, <2>7, QuietStep
<1>2. CASE \/ HandleStatus(w) \/ RunNode(w) \/ RunSwitch(w) \/ RunFails(w)
           \/ CommitRollback(w)
  <2>1. UNCHANGED <<storeVars, starter, canceller, callVars, crashes>>
    BY <1>2 DEF HandleStatus, RunNode, RunSwitch, RunFails, CommitRollback
  <2>2. /\ jobState' = jobState /\ StoreTypeOK'
        /\ UNCHANGED <<status, pending, deps, issued, doneCalls, failCalls>>
        /\ UNCHANGED <<starter, canceller, crashes>>
    BY <1>0, <2>1 DEF StoreTypeOK, storeVars, callVars
  <2>3. h[w].pc # "idle"
    BY <1>2 DEF HandleStatus, RunNode, RunSwitch, RunFails, CommitRollback, Goto, Return
  <2>4. h[w] \in Handlers /\ h[w].node \in Nodes /\ jobState[h[w].node] # "absent"
    BY <2>3, BusyMeansStarted
  <2>5. Dependents(h[w].node) \in SUBSET Nodes
    BY DEF Dependents
  <2>6. \E r \in Handlers : /\ h' = [h EXCEPT ![w] = r]
                            /\ r.pc \notin {"readStatus", "setCompleted", "onDone"}
                            /\ r.pc # "idle" => r.node = h[w].node
    <3>1. CASE HandleStatus(w)
      <4> DEFINE p == IF ~StatusIsLive THEN "drop"
                      ELSE IF skip[h[w].node] THEN "commit" ELSE "run"
                 k == IF skip[h[w].node] THEN Dependents(h[w].node) ELSE {}
                 r == [h[w] EXCEPT !.pc = p, !.skips = k]
      <4>1. p \in {"drop", "commit", "run"} /\ k \in SUBSET Nodes
        BY <2>5
      <4>2. h' = [h EXCEPT ![w].pc = p, ![w].skips = k]
        BY <3>1 DEF HandleStatus
      <4> HIDE DEF p, k
      <4>3. r \in Handlers /\ r.pc = p /\ r.node = h[w].node
        BY <2>4, <4>1 DEF Handlers, PCs
      <4>4. h' = [h EXCEPT ![w] = r]
        BY <1>0, <2>4, <4>2 DEF Handlers
      <4> QED
        BY <4>1, <4>3, <4>4
    <3>2. CASE RunNode(w)
      <4> DEFINE r == [h[w] EXCEPT !.pc = "commit"]
      <4>1. r \in Handlers /\ r.pc = "commit" /\ r.node = h[w].node
        BY <2>4 DEF Handlers, PCs
      <4>2. h' = [h EXCEPT ![w] = r]
        BY <3>2 DEF RunNode, Goto
      <4> QED
        BY <4>1, <4>2
    <3>3. CASE RunSwitch(w)
      <4>1. PICK c \in Nodes : h' = [h EXCEPT ![w].pc = "commit",
                                              ![w].skips = Dependents(h[w].node) \ {c}]
        BY <3>3 DEF RunSwitch
      <4> DEFINE k == Dependents(h[w].node) \ {c}
                 r == [h[w] EXCEPT !.pc = "commit", !.skips = k]
      <4>2. k \in SUBSET Nodes /\ h' = [h EXCEPT ![w].pc = "commit", ![w].skips = k]
        BY <2>5, <4>1
      <4> HIDE DEF k
      <4>3. r \in Handlers /\ r.pc = "commit" /\ r.node = h[w].node
        BY <2>4, <4>2 DEF Handlers, PCs
      <4>4. h' = [h EXCEPT ![w] = r]
        BY <1>0, <2>4, <4>2 DEF Handlers
      <4> QED
        BY <4>3, <4>4
    <3>4. CASE RunFails(w)
      <4>1. PICK f \in Faults : h' = [h EXCEPT ![w].pc = "commitFailed", ![w].fault = f]
        BY <3>4 DEF RunFails
      <4> DEFINE r == [h[w] EXCEPT !.pc = "commitFailed", !.fault = f]
      <4>2. r \in Handlers /\ r.pc = "commitFailed" /\ r.node = h[w].node
        BY <2>4 DEF Handlers, PCs
      <4>3. h' = [h EXCEPT ![w] = r]
        BY <1>0, <2>4, <4>1 DEF Handlers
      <4> QED
        BY <4>2, <4>3
    <3>5. CASE CommitRollback(w)
      BY <1>0, <3>5 DEF CommitRollback, Return, IdleHandler
    <3> QED
      BY <1>2, <3>1, <3>2, <3>3, <3>4, <3>5
  <2>7. PICK r \in Handlers : /\ h' = [h EXCEPT ![w] = r]
                              /\ r.pc \notin {"readStatus", "setCompleted", "onDone"}
                              /\ r.pc # "idle" => r.node = h[w].node
    BY <2>6
  <2>8. r.pc # "idle" => jobState[r.node] # "absent"
    BY <2>4, <2>7
  <2> QED
    BY <1>0, <2>2, <2>7, <2>8, QuietStep
<1>3. CASE HandleDrop(w)
  <2>1. h[w].pc # "idle" /\ h' = [h EXCEPT ![w] = IdleHandler]
    BY <1>3 DEF HandleDrop, Return
  <2>2. h[w].node \in Nodes
    BY <2>1, BusyMeansStarted
  <2>3. /\ MoveClaimed(w, h[w].node, "dropped")
        /\ UNCHANGED <<starter, canceller, crashes, doneCalls, failCalls>>
    BY <1>3 DEF HandleDrop, AckJob, callVars
  <2> QED
    BY <1>0, <2>1, <2>2, <2>3, MoveClaimedIInv
<1> QED
  BY <1>1, <1>2, <1>3

(***************************************************************************)
(* The commit of a completion (handleNode, handleSkip, handleSwitch)       *)
(* preserves IInv: while the committed job was in flight no handler was    *)
(* about to mark the run completed.                                        *)
(***************************************************************************)
LEMMA CommitIInv ==
  ASSUME IInv, NEW w \in Workers, Commit(w)
  PROVE  IInv'
<1> DEFINE n == h[w].node
           res == IF skip[n] THEN "skipped" ELSE "ok"
           r == [h[w] EXCEPT !.pc = "readPending"]
<1>1. h[w].pc = "commit" /\ h' = [h EXCEPT ![w] = r]
  BY DEF Commit, Goto
<1>2. h[w] \in Handlers /\ n \in Nodes /\ jobState[n] # "absent"
  BY <1>1, BusyMeansStarted
<1>3. res \in Results /\ h[w].skips \in SUBSET Nodes
  BY <1>2 DEF Results, Handlers
<1>4. CommitNodeAtom(w, n, res, h[w].skips)
  BY DEF Commit
<1>5. UNCHANGED <<starter, canceller, crashes, doneCalls, failCalls>>
  BY DEF Commit, callVars
<1>6. StoreTypeOK /\ QueueInv /\ h \in [Workers -> Handlers]
  BY DEF IInv, TypeOK, WorkerTypeOK
<1> HIDE DEF res
<1>7. /\ StoreTypeOK' /\ QueueInv'
      /\ n \in InFlight
      /\ \A m \in Nodes : jobState[m] # "absent" => jobState'[m] # "absent"
  BY <1>2, <1>3, <1>4, <1>5, <1>6, CommitPreservesQueue
<1>8. r \in Handlers /\ r.pc = "readPending" /\ r.node = n
  BY <1>2 DEF Handlers, PCs
<1> HIDE DEF r
<1>9. h' \in [Workers -> Handlers] /\ \A v \in Workers : h'[v] = IF v = w THEN r ELSE h[v]
  BY <1>1, <1>6, <1>8
<1>10. TypeOK'
  BY <1>5, <1>7, <1>9 DEF IInv, TypeOK, WorkerTypeOK
<1>11. HandlerInv'
  <2>1. ASSUME NEW v \in Workers, h'[v].pc # "idle"
        PROVE  jobState'[h'[v].node] # "absent"
    <3>1. h'[v].node \in Nodes
      BY <1>9 DEF Handlers
    <3>2. jobState[h'[v].node] # "absent"
      BY <1>2, <1>8, <1>9, <2>1 DEF IInv, HandlerInv
    <3> QED
      BY <1>7, <3>1, <3>2
  <2>2. \A v \in Workers : h[v].pc \notin {"readStatus", "setCompleted", "onDone"}
    BY <1>7 DEF IInv, HandlerInv
  <2>3. \A v \in Workers : h'[v].pc \notin {"readStatus", "setCompleted", "onDone"}
    BY <1>8, <1>9, <2>2
  <2>4. status # "completed" /\ status' = status
    BY <1>4, <1>7 DEF IInv, HandlerInv, CommitNodeAtom
  <2> QED
    BY <2>1, <2>3, <2>4 DEF HandlerInv
<1> QED
  BY <1>7, <1>10, <1>11 DEF IInv

(***************************************************************************)
(* checkRunComplete preserves IInv: the pending count it reads is exact,   *)
(* so a zero means nothing is in flight, and nothing ever is again.        *)
(***************************************************************************)
LEMMA CheckRunCompleteIInv ==
  ASSUME IInv, NEW w \in Workers, \/ ReadPending(w) \/ ReadStatus(w)
         \/ SetCompleted(w) \/ OnDone(w)
  PROVE  IInv'
<1>0. /\ StoreTypeOK /\ IdleHandler \in Handlers /\ IdleHandler.pc = "idle"
      /\ doneCalls \in Nat /\ failCalls \in Nat
  BY DagAssumption, AttemptCapType
  DEF IInv, TypeOK, WorkerTypeOK, Handlers, IdleHandler, PCs, Faults
<1>1. h[w].pc # "idle"
  BY DEF ReadPending, ReadStatus, SetCompleted, OnDone, Goto, Return
<1>2. /\ h[w] \in Handlers /\ h[w].node \in Nodes /\ jobState[h[w].node] # "absent"
      /\ starter = "done" /\ status # "none"
  BY <1>1, BusyMeansStarted
<1>3. /\ UNCHANGED <<starter, canceller, crashes, deps, issued, pending, jobState>>
      /\ UNCHANGED <<result, fcont, claimant, attempts, skip, steps, failCalls>>
      /\ doneCalls' \in Nat
  BY <1>0 DEF ReadPending, ReadStatus, SetCompleted, OnDone, SetRunStatus, storeVars, queueVars, callVars
<1>4. CASE ReadPending(w)
  <2>1. status' = status /\ StoreTypeOK'
    BY <1>0, <1>3, <1>4 DEF ReadPending, storeVars, StoreTypeOK
  <2>2. CASE pending = 0
    <3> DEFINE r == [h[w] EXCEPT !.pc = "readStatus"]
    <3>1. r \in Handlers /\ r.node = h[w].node
      BY <1>2 DEF Handlers, PCs
    <3>2. h' = [h EXCEPT ![w] = r]
      BY <1>4, <2>2 DEF ReadPending, Goto
    <3>3. InFlight = {}
      <4>1. InFlight \in SUBSET Nodes
        BY DEF InFlight
      <4>2. pending = Cardinality(InFlight) + 0
        BY <1>2 DEF IInv, QueueInv, PendingExact
      <4>3. Cardinality(InFlight) = 0
        BY <2>2, <4>1, <4>2, NodeSets
      <4> QED
        BY <4>1, <4>3, NodeSets
    <3> HIDE DEF r
    <3> QED
      BY <1>0, <1>2, <1>3, <2>1, <3>1, <3>2, <3>3, QuietStep
  <2>3. CASE pending # 0
    <3>1. h' = [h EXCEPT ![w] = IdleHandler]
      BY <1>4, <2>3 DEF ReadPending, Return
    <3> QED
      BY <1>0, <1>3, <2>1, <3>1, QuietStep
  <2> QED
    BY <2>2, <2>3
<1>5. CASE ReadStatus(w)
  <2>1. status' = status /\ StoreTypeOK'
    BY <1>0, <1>3, <1>5 DEF ReadStatus, storeVars, StoreTypeOK
  <2>2. CASE status # "waiting"
    <3> DEFINE r == [h[w] EXCEPT !.pc = "setCompleted"]
    <3>1. r \in Handlers /\ r.node = h[w].node
      BY <1>2 DEF Handlers, PCs
    <3>2. h' = [h EXCEPT ![w] = r] /\ h[w].pc = "readStatus"
      BY <1>5, <2>2 DEF ReadStatus, Goto
    <3>3. InFlight = {}
      BY <3>2 DEF IInv, HandlerInv
    <3> HIDE DEF r
    <3> QED
      BY <1>0, <1>2, <1>3, <2>1, <3>1, <3>2, <3>3, QuietStep
  <2>3. CASE status = "waiting"
    <3>1. h' = [h EXCEPT ![w] = IdleHandler]
      BY <1>5, <2>3 DEF ReadStatus, Return
    <3> QED
      BY <1>0, <1>3, <2>1, <3>1, QuietStep
  <2> QED
    BY <2>2, <2>3
<1>6. CASE SetCompleted(w)
  <2> DEFINE r == [h[w] EXCEPT !.pc = "onDone"]
  <2>1. r \in Handlers /\ r.node = h[w].node
    BY <1>2 DEF Handlers, PCs
  <2>2. h' = [h EXCEPT ![w] = r] /\ h[w].pc = "setCompleted" /\ status' = "completed"
    BY <1>6 DEF SetCompleted, Goto, SetRunStatus
  <2>3. InFlight = {}
    BY <2>2 DEF IInv, HandlerInv
  <2>4. StoreTypeOK'
    BY <1>0, <1>3, <2>2 DEF StoreTypeOK, Statuses
  <2> HIDE DEF r
  <2> QED
    BY <1>0, <1>2, <1>3, <2>1, <2>2, <2>3, <2>4, QuietStep
<1>7. CASE OnDone(w)
  <2>1. h' = [h EXCEPT ![w] = IdleHandler]
    BY <1>7 DEF OnDone, Return
  <2>2. status' = status /\ StoreTypeOK'
    BY <1>0, <1>3, <1>7 DEF OnDone, storeVars, StoreTypeOK
  <2> QED
    BY <1>0, <1>3, <2>1, <2>2, QuietStep
<1> QED
  BY <1>4, <1>5, <1>6, <1>7

(***************************************************************************)
(* recordFailure and resolveRunFailed preserve IInv: a failed node's job   *)
(* goes back to the queue or to the dead letters, and stays counted.       *)
(***************************************************************************)
LEMMA FailureIInv ==
  ASSUME IInv, NEW w \in Workers,
         \/ CommitFailed(w) \/ Retry(w) \/ SaveCont(w) \/ DeadLetter(w)
         \/ SetFailed(w) \/ OnFailed(w)
  PROVE  IInv'
<1>0. /\ StoreTypeOK /\ IdleHandler \in Handlers /\ IdleHandler.pc = "idle"
      /\ doneCalls \in Nat /\ failCalls \in Nat
  BY DagAssumption, AttemptCapType
  DEF IInv, TypeOK, WorkerTypeOK, Handlers, IdleHandler, PCs, Faults
<1>1. h[w].pc # "idle"
  BY DEF CommitFailed, Retry, SaveCont, DeadLetter, SetFailed, OnFailed, Goto, Return
<1>2. /\ h[w] \in Handlers /\ h[w].node \in Nodes /\ jobState[h[w].node] # "absent"
      /\ status # "none"
  BY <1>1, BusyMeansStarted
<1>3. ASSUME NEW p \in {"saveCont", "retry", "failJob", "setFailed", "onFailed"},
             h' = [h EXCEPT ![w].pc = p]
      PROVE  \E r \in Handlers : /\ h' = [h EXCEPT ![w] = r]
                                 /\ r.pc = p /\ r.node = h[w].node
  <2> DEFINE r == [h[w] EXCEPT !.pc = p]
  <2>1. r \in Handlers /\ r.pc = p /\ r.node = h[w].node
    BY <1>2 DEF Handlers, PCs
  <2>2. h' = [h EXCEPT ![w] = r]
    BY <1>3
  <2> QED
    BY <2>1, <2>2
<1>4. CASE Retry(w)
  <2>1. h' = [h EXCEPT ![w] = IdleHandler]
    BY <1>4 DEF Retry, Return
  <2>2. UNCHANGED <<starter, canceller, crashes, doneCalls, failCalls>>
    BY <1>4 DEF Retry, callVars
  <2>3. PICK to \in {"pending", "dropped", "dead"} : MoveClaimed(w, h[w].node, to)
    BY <1>4 DEF Retry, RetryJob
  <2> QED
    BY <1>2, <2>1, <2>2, <2>3, MoveClaimedIInv
<1>5. CASE DeadLetter(w)
  <2>1. PICK r \in Handlers : /\ h' = [h EXCEPT ![w] = r]
                              /\ r.pc = "setFailed" /\ r.node = h[w].node
    BY <1>3, <1>5 DEF DeadLetter, Goto
  <2>2. /\ MoveClaimed(w, h[w].node, "dead")
        /\ UNCHANGED <<starter, canceller, crashes, doneCalls, failCalls>>
    BY <1>5 DEF DeadLetter, FailJob, callVars
  <2>3. /\ StoreTypeOK'
        /\ UNCHANGED <<status, pending, deps, issued>>
        /\ \A m \in Nodes : /\ jobState'[m] = "absent" <=> jobState[m] = "absent"
                            /\ jobState'[m] = "acked" <=> jobState[m] = "acked"
    BY <1>0, <1>2, <2>2, MoveClaimedFrame
  <2> QED
    BY <1>0, <1>2, <2>1, <2>2, <2>3, QuietStep
<1>6. CASE CommitFailed(w) \/ SaveCont(w) \/ SetFailed(w) \/ OnFailed(w)
  <2>1. /\ UNCHANGED <<starter, canceller, crashes, deps, issued, pending, jobState>>
        /\ UNCHANGED <<claimant, attempts, skip, steps, doneCalls>>
        /\ failCalls' \in Nat
    BY <1>0, <1>6 DEF CommitFailed, SaveCont, SetFailed, OnFailed, SetRunStatus,
       CommitFailedResult, WriteFailedContinuation, storeVars, queueVars, runVars, callVars
  <2>2. StoreTypeOK' /\ (status' = status \/ status' = "failed")
    <3>1. CASE CommitFailed(w)
      BY <1>0, <1>2, <2>1, <3>1
      DEF CommitFailed, CommitFailedResult, runVars, StoreTypeOK, Results
    <3>2. CASE SaveCont(w)
      BY <1>0, <1>2, <2>1, <3>2
      DEF SaveCont, WriteFailedContinuation, runVars, StoreTypeOK
    <3>3. CASE SetFailed(w)
      BY <1>0, <2>1, <3>3 DEF SetFailed, SetRunStatus, StoreTypeOK, Statuses
    <3>4. CASE OnFailed(w)
      BY <1>0, <2>1, <3>4 DEF OnFailed, storeVars, StoreTypeOK
    <3> QED
      BY <1>6, <3>1, <3>2, <3>3, <3>4
  <2>3. \E r \in Handlers : /\ h' = [h EXCEPT ![w] = r]
                            /\ r.pc \notin {"readStatus", "setCompleted", "onDone"}
                            /\ r.pc # "idle" => r.node = h[w].node
    <3>1. CASE CommitFailed(w)
      BY <1>3, <3>1 DEF CommitFailed, Goto
    <3>2. CASE SaveCont(w)
      BY <1>3, <3>2 DEF SaveCont, Goto
    <3>3. CASE SetFailed(w)
      BY <1>3, <3>3 DEF SetFailed, Goto
    <3>4. CASE OnFailed(w)
      BY <1>0, <3>4 DEF OnFailed, Return
    <3> QED
      BY <1>6, <3>1, <3>2, <3>3, <3>4
  <2>4. PICK r \in Handlers : /\ h' = [h EXCEPT ![w] = r]
                              /\ r.pc \notin {"readStatus", "setCompleted", "onDone"}
                              /\ r.pc # "idle" => r.node = h[w].node
    BY <2>3
  <2> QED
    BY <1>0, <1>2, <2>1, <2>2, <2>4, QuietStep
<1> QED
  BY <1>4, <1>5, <1>6

(***************************************************************************)
(* The environment preserves IInv: an expired claim's job is still in      *)
(* flight, and a crash loses handlers and an unfinished start, no row.     *)
(***************************************************************************)
LEMMA EnvironmentIInv ==
  ASSUME IInv, (\E n \in Nodes : Expire(n)) \/ Crash
  PROVE  IInv'
<1> USE DEF IInv
<1>1. CASE \E n \in Nodes : Expire(n)
  <2>1. PICK n \in Nodes : Expire(n)
    BY <1>1
  <2> USE <2>1 DEF Expire, ExpireClaim, runVars
  <2>2. TypeOK'
    BY DEF TypeOK, StoreTypeOK, WorkerTypeOK, JobStates, callVars
  <2>3. \A m \in Nodes : /\ jobState'[m] = "absent" <=> jobState[m] = "absent"
                         /\ jobState'[m] = "acked" <=> jobState[m] = "acked"
    BY DEF TypeOK, StoreTypeOK
  <2>4. QueueInv' /\ InFlight' = InFlight
    BY <2>3, Frame
  <2>5. HandlerInv'
    BY <2>3, <2>4 DEF HandlerInv, TypeOK, WorkerTypeOK, Handlers
  <2> QED
    BY <2>2, <2>4, <2>5
<1>2. CASE Crash
  <2> USE <1>2 DEF Crash
  <2>1. UNCHANGED <<status, pending, deps, result, fcont, jobState, claimant,
                    attempts, issued, skip, steps>>
    BY DEF storeVars
  <2>2. StoreTypeOK' /\ Completed' = Completed /\ InFlight' = InFlight
    BY <2>1 DEF TypeOK, StoreTypeOK, Completed, InFlight
  <2>3. IdleHandler \in Handlers /\ IdleHandler.pc = "idle"
    BY DagAssumption, AttemptCapType DEF Handlers, IdleHandler, PCs, Faults
  <2>4. TypeOK'
    BY <2>2, <2>3 DEF TypeOK, WorkerTypeOK, callVars
  <2>5. StarterInv' /\ DepsInv' /\ ReadyInv' /\ PendingExact'
    BY <2>1, <2>2 DEF QueueInv, StarterInv, DepsInv, ReadyInv, PendingExact, Unfinished
  <2>6. HandlerInv'
    BY <2>1, <2>2, <2>3 DEF HandlerInv
  <2> QED
    BY <2>4, <2>5, <2>6 DEF QueueInv
<1> QED
  BY <1>1, <1>2

(***************************************************************************)
(* Every step of the system preserves IInv.                                *)
(***************************************************************************)
LEMMA NextIInv == IInv /\ [Next]_vars => IInv'
<1> SUFFICES ASSUME IInv, [Next]_vars PROVE IInv'
  OBVIOUS
<1>1. CASE StartRun
  BY <1>1, StartRunIInv
<1>2. CASE Cancel
  BY <1>2, CancelIInv
<1>3. CASE \E w \in Workers : Handle(w)
  <2>1. PICK w \in Workers : Handle(w)
    BY <1>3
  <2> QED
    BY <2>1, HandleIInv, CommitIInv, CheckRunCompleteIInv, FailureIInv DEF Handle
<1>4. CASE (\E n \in Nodes : Expire(n)) \/ Crash
  BY <1>4, EnvironmentIInv
<1>5. CASE UNCHANGED vars
  <2>1. UNCHANGED <<status, pending, deps, result, fcont, jobState, claimant,
                    attempts, issued, skip, steps, starter, canceller, h,
                    doneCalls, failCalls, crashes>>
    BY <1>5 DEF vars, storeVars, callVars
  <2>2. Completed' = Completed /\ InFlight' = InFlight
    BY <2>1 DEF Completed, InFlight
  <2> QED
    BY <2>1, <2>2 DEF IInv, TypeOK, StoreTypeOK, WorkerTypeOK, QueueInv, StarterInv,
       DepsInv, ReadyInv, PendingExact, HandlerInv, Unfinished
<1> QED
  BY <1>1, <1>2, <1>3, <1>4, <1>5 DEF Next

-----------------------------------------------------------------------------
(* The theorems *)

(***************************************************************************)
(* IInv holds in every reachable state.                                    *)
(***************************************************************************)
THEOREM Invariance == Spec => []IInv
  BY InitIInv, NextIInv, PTL DEF Spec

(***************************************************************************)
(* Every variable keeps its type; in particular runs.pending and the       *)
(* counters of run_deps, which the code only ever adjusts by differences,  *)
(* never go below zero.                                                    *)
(***************************************************************************)
THEOREM TypeCorrectness == Spec => []TypeOK
<1>1. IInv => TypeOK
  BY DEF IInv
<1> QED
  BY <1>1, Invariance, PTL

(***************************************************************************)
(* No node is enqueued twice in a run, whatever expires, crashes, is       *)
(* retried or cancelled (CommitNodeAtom, StartRun).                        *)
(***************************************************************************)
THEOREM NoDoubleIssue == Spec => []IssuedOnce
<1>1. IInv => IssuedOnce
  BY DEF IInv, QueueInv, ReadyInv, IssuedOnce
<1> QED
  BY <1>1, Invariance, PTL

(***************************************************************************)
(* runs.pending is exact in every reachable state (CreateRun,              *)
(* AdjustPending in CommitNodeAtom).                                       *)
(***************************************************************************)
THEOREM PendingIsExact == Spec => []PendingExact
<1>1. IInv => PendingExact
  BY DEF IInv, QueueInv
<1> QED
  BY <1>1, Invariance, PTL

(***************************************************************************)
(* No worker handles a node before all its dependencies have committed     *)
(* (decrementDependents).                                                  *)
(***************************************************************************)
THEOREM DependencyOrder == Spec => []StartsAfterDependencies
<1>1. IInv => StartsAfterDependencies
  <2> SUFFICES ASSUME IInv, NEW w \in Workers, h[w].pc # "idle"
               PROVE  Preds[h[w].node] \subseteq Completed
    BY DEF StartsAfterDependencies
  <2> QED
    BY BusyMeansStarted DEF IInv, QueueInv, ReadyInv
<1> QED
  BY <1>1, Invariance, PTL

(***************************************************************************)
(* In a workflow whose only node without dependencies is the head, a run   *)
(* marked completed has committed every node (checkRunComplete).  The      *)
(* hypothesis is needed: FromWafer enqueues the first root alone, so a     *)
(* second root would never run.                                            *)
(***************************************************************************)
THEOREM CompletedRunsAreDone ==
  ASSUME \A n \in Nodes \ {Root} : Preds[n] # {}
  PROVE  Spec => []CompletedMeansAllDone
<1>1. IInv => CompletedMeansAllDone
  <2> SUFFICES ASSUME IInv, status = "completed" PROVE Completed = Nodes
    BY DEF CompletedMeansAllDone
  <2>1. InFlight = {} /\ jobState[Root] # "absent"
    BY DEF IInv, HandlerInv, QueueInv, StarterInv
  <2>2. \A n \in Nodes : jobState[n] # "absent" => n \in Completed
    BY <2>1 DEF InFlight, Completed
  <2>3. Completed \in SUBSET Nodes /\ Root \in Completed
    BY <2>1, <2>2, DagAssumption DEF Completed
  <2>4. \A n \in Nodes : Preds[n] # {} /\ Preds[n] \subseteq Completed => n \in Completed
    BY <2>2 DEF IInv, QueueInv, ReadyInv
  <2> QED
    BY <2>3, <2>4, ClosedSetIsAll
<1> QED
  BY <1>1, Invariance, PTL

-----------------------------------------------------------------------------
(* Worker implements DagRun *)

\* The only node without dependencies is the head.
SingleRoot == \A n \in Nodes \ {Root} : Preds[n] # {}

(***************************************************************************)
(* A run with a started head and nothing in flight has completed every     *)
(* node: the argument behind checkRunComplete's test of pending alone.     *)
(***************************************************************************)
LEMMA QuietIsDone ==
  ASSUME SingleRoot, IInv, InFlight = {}, starter = "done"
  PROVE  Completed = Nodes
<1>1. \A n \in Nodes : jobState[n] # "absent" => n \in Completed
  BY DEF InFlight, Completed
<1>2. Completed \in SUBSET Nodes /\ Root \in Completed
  BY <1>1, DagAssumption DEF Completed, IInv, QueueInv, StarterInv
<1>3. \A n \in Nodes : Preds[n] # {} /\ Preds[n] \subseteq Completed => n \in Completed
  BY <1>1 DEF IInv, QueueInv, ReadyInv
<1> QED
  BY <1>2, <1>3, ClosedSetIsAll DEF SingleRoot

(***************************************************************************)
(* A step that commits no node and leaves runs.status alone is a stutter   *)
(* of DagRun (a claim, an expiry, a retry, a dead letter, a drop).         *)
(***************************************************************************)
LEMMA StutterStep ==
  ASSUME status' = status,
         \A n \in Nodes : jobState'[n] = "acked" <=> jobState[n] = "acked"
  PROVE  UNCHANGED Promise!vars
  BY DEF Promise!vars, Completed, Phase

(***************************************************************************)
(* A write of a final status to a run that has a row (SetRunStatus) is a   *)
(* report of DagRun.                                                       *)
(***************************************************************************)
LEMMA ReportStep ==
  ASSUME NEW s \in {"completed", "failed", "cancelled"}, SetRunStatus(s),
         status # "none", status \in Statuses,
         s = "completed" => Completed = Nodes
  PROVE  Promise!Next
<1>1. status' = s /\ jobState' = jobState
  BY DEF SetRunStatus, queueVars
<1>2. Completed' = Completed /\ Phase' = s /\ Phase # "new"
  BY <1>1 DEF Completed, Phase, Statuses
<1>3. Promise!Report(s)
  BY <1>2 DEF Promise!Report
<1> QED
  BY <1>3 DEF Promise!Next

(***************************************************************************)
(* The handlers' steps: the commit completes a node of DagRun,             *)
(* SetCompleted and SetFailed report, the others stutter.                  *)
(***************************************************************************)
LEMMA HandleRefines ==
  ASSUME SingleRoot, IInv, NEW w \in Workers, Handle(w)
  PROVE  [Promise!Next]_(Promise!vars)
<1> USE DEF IInv
<1>0. StoreTypeOK
  BY DEF TypeOK
<1>1. CASE Claim(w)
  <2>1. PICK n \in Nodes : ClaimJob(w, n)
    BY <1>1 DEF Claim
  <2> QED
    BY <1>0, <2>1, StutterStep DEF ClaimJob, StoreTypeOK, runVars
<1>2. CASE \/ HandleStatus(w) \/ RunNode(w) \/ RunSwitch(w) \/ RunFails(w)
           \/ CommitRollback(w) \/ ReadPending(w) \/ ReadStatus(w) \/ OnDone(w)
           \/ OnFailed(w)
  <2>1. UNCHANGED storeVars
    BY <1>2 DEF HandleStatus, RunNode, RunSwitch, RunFails, CommitRollback,
       ReadPending, ReadStatus, OnDone, OnFailed
  <2> QED
    BY <2>1, StutterStep DEF storeVars
<1>3. CASE HandleDrop(w) \/ Retry(w) \/ DeadLetter(w)
  <2>1. h[w].pc # "idle"
    BY <1>3 DEF HandleDrop, Retry, DeadLetter, Goto, Return
  <2>2. h[w].node \in Nodes
    BY <2>1, BusyMeansStarted
  <2>3. \E to \in {"pending", "dropped", "dead"} : MoveClaimed(w, h[w].node, to)
    BY <1>3 DEF HandleDrop, Retry, DeadLetter, AckJob, RetryJob, FailJob
  <2> QED
    BY <1>0, <2>2, <2>3, MoveClaimedFrame, StutterStep
<1>4. CASE CommitFailed(w) \/ SaveCont(w)
  <2>1. status' = status /\ jobState' = jobState
    BY <1>4 DEF CommitFailed, SaveCont, CommitFailedResult, WriteFailedContinuation,
       runVars, queueVars
  <2> QED
    BY <2>1, StutterStep
<1>5. CASE Commit(w)
  <2> DEFINE n == h[w].node
             res == IF skip[n] THEN "skipped" ELSE "ok"
  <2>1. h[w].pc # "idle" /\ h[w].pc = "commit"
    BY <1>5 DEF Commit, Goto
  <2>2. /\ n \in Nodes /\ h[w].skips \in SUBSET Nodes /\ res \in Results
        /\ jobState[n] # "absent" /\ status # "none"
    BY <2>1, BusyMeansStarted DEF Handlers, Results
  <2>3. CommitNodeAtom(w, n, res, h[w].skips) /\ starter' = starter
    BY <1>5 DEF Commit
  <2>4. n \in InFlight /\ Completed' = Completed \cup {n}
    BY <1>0, <2>2, <2>3, CommitPreservesQueue
  <2>5. n \notin Completed /\ Preds[n] \subseteq Completed
    BY <2>2, <2>4 DEF InFlight, Completed, QueueInv, ReadyInv
  <2>6. status' = status
    BY <2>3 DEF CommitNodeAtom
  <2>7. Phase # "new" /\ Phase' = Phase
    BY <2>2, <2>6, <1>0 DEF Phase, StoreTypeOK, Statuses
  <2>8. Promise!Complete(n)
    BY <2>4, <2>5, <2>7 DEF Promise!Complete
  <2> QED
    BY <2>2, <2>8 DEF Promise!Next
<1>6. CASE SetCompleted(w)
  <2>1. h[w].pc = "setCompleted" /\ SetRunStatus("completed")
    BY <1>6 DEF SetCompleted, Goto
  <2>2. starter = "done" /\ status # "none" /\ InFlight = {}
    BY <2>1, BusyMeansStarted DEF HandlerInv
  <2> QED
    BY <1>0, <2>1, <2>2, QuietIsDone, ReportStep DEF StoreTypeOK
<1>7. CASE SetFailed(w)
  <2>1. h[w].pc = "setFailed" /\ SetRunStatus("failed")
    BY <1>7 DEF SetFailed, Goto
  <2>2. status # "none"
    BY <2>1, BusyMeansStarted
  <2> QED
    BY <1>0, <2>1, <2>2, ReportStep DEF StoreTypeOK
<1> QED
  BY <1>1, <1>2, <1>3, <1>4, <1>5, <1>6, <1>7 DEF Handle

(***************************************************************************)
(* The start begins a run of DagRun, a cancel reports, and the queue's and *)
(* the daemon's own steps stutter.                                         *)
(***************************************************************************)
LEMMA OtherStepsRefine ==
  ASSUME IInv, StartRun \/ Cancel \/ (\E n \in Nodes : Expire(n)) \/ Crash
  PROVE  [Promise!Next]_(Promise!vars)
<1>0. StoreTypeOK
  BY DEF IInv, TypeOK
<1>1. CASE StartCreate
  <2>1. status = "none" /\ status' = "running" /\ jobState' = jobState
    BY <1>1 DEF IInv, QueueInv, StarterInv, StartCreate, CreateRun, queueVars
  <2>2. Completed' = Completed /\ Phase = "new" /\ Phase' = "open"
    BY <2>1 DEF Completed, Phase
  <2> QED
    BY <2>2 DEF Promise!Next, Promise!Begin
<1>2. CASE StartDeps
  BY <1>2, StutterStep DEF StartDeps, InitRunDeps, runVars, queueVars
<1>3. CASE StartEnqueue
  <2>1. jobState[Root] = "absent"
    BY <1>3, DagAssumption DEF StartEnqueue, IInv, QueueInv, StarterInv
  <2> QED
    BY <1>0, <1>3, <2>1, StutterStep DEF StartEnqueue, EnqueueHead, runVars, StoreTypeOK
<1>4. CASE CancelStatus
  BY <1>0, <1>4, ReportStep DEF CancelStatus, StoreTypeOK
<1>5. CASE CancelDelete
  BY <1>0, <1>5, StutterStep DEF CancelDelete, DeletePendingJobs, runVars, StoreTypeOK
<1>6. CASE CancelDrop \/ Crash
  BY <1>6, StutterStep DEF CancelDrop, Crash, storeVars
<1>7. CASE \E n \in Nodes : Expire(n)
  BY <1>0, <1>7, StutterStep DEF Expire, ExpireClaim, runVars, StoreTypeOK
<1> QED
  BY <1>1, <1>2, <1>3, <1>4, <1>5, <1>6, <1>7 DEF StartRun, Cancel

(***************************************************************************)
(* In a workflow with one initial node, every behaviour of the workers,    *)
(* the queue, the control plane and crashes is a behaviour of DagRun.      *)
(***************************************************************************)
THEOREM Refinement ==
  ASSUME SingleRoot
  PROVE  Spec => ImplementsDagRun
<1>1. Init => Promise!Init
  BY DEF Init, StoreInit, Promise!Init, Completed, Phase
<1>2. IInv /\ [Next]_vars => [Promise!Next]_(Promise!vars)
  <2> SUFFICES ASSUME IInv, [Next]_vars PROVE [Promise!Next]_(Promise!vars)
    OBVIOUS
  <2>1. CASE UNCHANGED vars
    BY <2>1, StutterStep DEF vars, storeVars
  <2>2. CASE \E w \in Workers : Handle(w)
    BY <2>2, HandleRefines
  <2>3. CASE StartRun \/ Cancel \/ (\E n \in Nodes : Expire(n)) \/ Crash
    BY <2>3, OtherStepsRefine
  <2> QED
    BY <2>1, <2>2, <2>3 DEF Next
<1> QED
  BY <1>1, <1>2, Invariance, PTL DEF Spec, ImplementsDagRun, Promise!Spec

-----------------------------------------------------------------------------
(* One handler at a time per job *)

(***************************************************************************)
(* Two handlers never work on one node: there is one worker loop (the      *)
(* daemon's default), or no handler outlives its claim.  Without this a    *)
(* slow handler records the failure of a node whose second handler has     *)
(* completed it, and the theorems of this section are false.               *)
(***************************************************************************)
Exclusive == ~MayOverrun \/ \A v, w \in Workers : v = w

\* Where a handler has not yet acked, retried or dead-lettered its job ...
Working == {"status", "drop", "run", "commit", "commitFailed", "saveCont",
            "failJob", "retry"}

\* ... and where it has gone on with it, the run being live.
Active == {"run", "commit", "commitFailed", "saveCont", "retry"}

(***************************************************************************)
(* A handler's node has not completed, and unless handlers may overrun     *)
(* their claims it holds the job's claim until it gives the job up.        *)
(***************************************************************************)
ClaimInv ==
  \A w \in Workers :
    /\ h[w].pc \in Working \cup {"setFailed"} => h[w].node \notin Completed
    /\ h[w].pc \in Working => MayOverrun \/ HoldsClaim(w, h[w].node)
    /\ h[w].pc = "setFailed" => MayOverrun \/ jobState[h[w].node] = "dead"

\* The row of a completed node says so, and an input carries such rows alone.
ResultInv == \A n \in Completed : result[n] \in {"ok", "skipped"}
StepsInv == \A n \in Nodes : steps[n] \subseteq Completed

(***************************************************************************)
(* While a handler is about to mark the run failed, the saved node's job   *)
(* can neither be claimed nor be committed by another handler.             *)
(***************************************************************************)
SavedInv ==
  (\E w \in Workers : h[w].pc \in {"failJob", "setFailed"}) =>
    /\ fcont \in Nodes /\ jobState[fcont] \notin {"absent", "acked"}
    /\ \A v \in Workers : h[v].node = fcont => h[v].pc \notin Working \ {"failJob"}
    /\ \/ MayOverrun
       \/ jobState[fcont] = "dead"
       \/ \E u \in Workers : h[u].node = fcont /\ h[u].pc = "failJob"

(***************************************************************************)
(* Once the run is failed, no handler gets past the status check with the  *)
(* saved node.                                                             *)
(***************************************************************************)
FailedInv ==
  status = "failed" =>
    /\ fcont \in Nodes /\ jobState[fcont] \notin {"absent", "acked"}
    /\ \A v \in Workers : h[v].node = fcont => h[v].pc \notin Active

ExclInv == ClaimInv /\ ResultInv /\ StepsInv /\ SavedInv /\ FailedInv

(***************************************************************************)
(* A step in which no handler takes up a job or gives one up as failed, no *)
(* node completes and no claim of a working handler is lost preserves      *)
(* ExclInv but for the results.                                            *)
(***************************************************************************)
LEMMA QuietClaims ==
  ASSUME ExclInv,
         \A n \in Nodes : /\ jobState'[n] = "acked" <=> jobState[n] = "acked"
                          /\ jobState'[n] = "absent" => jobState[n] = "absent"
                          /\ jobState[n] = "dead" => jobState'[n] = "dead",
         \A v \in Workers : h[v].node \in Nodes,
         \A v \in Workers :
           /\ h'[v].pc \in Working => h[v].pc \in Working
           /\ h'[v].pc \in Working \cup {"setFailed"} => h'[v].node = h[v].node
           /\ h'[v].pc \in Working => MayOverrun \/ HoldsClaim(v, h[v].node)'
           /\ h'[v].pc = "setFailed" => h[v].pc = "setFailed"
           /\ h'[v].pc = "failJob" <=> h[v].pc = "failJob"
           /\ h'[v].pc \in Active => h[v].pc \in Active \/ status' # "failed",
         UNCHANGED <<fcont, steps>>
  PROVE  /\ ClaimInv' /\ StepsInv' /\ SavedInv'
         /\ (status' = "failed" => status = "failed") => FailedInv'
<1>1. Completed' = Completed
  BY DEF Completed
<1>2. ClaimInv'
  <2> SUFFICES ASSUME NEW v \in Workers
               PROVE  /\ h'[v].pc \in Working \cup {"setFailed"} => h'[v].node \notin Completed'
                      /\ h'[v].pc \in Working => MayOverrun \/ HoldsClaim(v, h[v].node)'
                      /\ h'[v].pc = "setFailed" => MayOverrun \/ jobState'[h'[v].node] = "dead"
    BY DEF ClaimInv, HoldsClaim
  <2>1. h'[v].pc \in Working \cup {"setFailed"} => h'[v].node \notin Completed'
    BY <1>1 DEF ExclInv, ClaimInv
  <2>2. h'[v].pc \in Working => MayOverrun \/ HoldsClaim(v, h[v].node)'
    BY DEF HoldsClaim
  <2>3. h'[v].pc = "setFailed" => MayOverrun \/ jobState'[h'[v].node] = "dead"
    BY DEF ExclInv, ClaimInv
  <2> QED
    BY <2>1, <2>2, <2>3
<1>3. StepsInv'
  BY <1>1 DEF ExclInv, StepsInv
<1>4. SavedInv'
  <2> SUFFICES ASSUME NEW w \in Workers, h'[w].pc \in {"failJob", "setFailed"}
               PROVE  /\ fcont \in Nodes /\ jobState'[fcont] \notin {"absent", "acked"}
                      /\ \A v \in Workers :
                           h'[v].node = fcont => h'[v].pc \notin Working \ {"failJob"}
                      /\ \/ MayOverrun
                         \/ jobState'[fcont] = "dead"
                         \/ \E u \in Workers : h'[u].node = fcont /\ h'[u].pc = "failJob"
    BY DEF SavedInv
  <2>1. h[w].pc \in {"failJob", "setFailed"}
    OBVIOUS
  <2>2. /\ fcont \in Nodes /\ jobState[fcont] \notin {"absent", "acked"}
        /\ \A v \in Workers : h[v].node = fcont => h[v].pc \notin Working \ {"failJob"}
        /\ \/ MayOverrun
           \/ jobState[fcont] = "dead"
           \/ \E u \in Workers : h[u].node = fcont /\ h[u].pc = "failJob"
    BY <2>1 DEF ExclInv, SavedInv
  <2>3. \A v \in Workers : h'[v].node = fcont => h'[v].pc \notin Working \ {"failJob"}
    BY <2>2
  <2>4. \A u \in Workers : h[u].node = fcont /\ h[u].pc = "failJob"
                             => h'[u].node = fcont /\ h'[u].pc = "failJob"
    BY DEF Working
  <2> QED
    BY <2>2, <2>3, <2>4
<1>5. ASSUME status' = "failed" => status = "failed"
      PROVE  FailedInv'
  <2> SUFFICES ASSUME status' = "failed"
               PROVE  /\ fcont \in Nodes /\ jobState'[fcont] \notin {"absent", "acked"}
                      /\ \A v \in Workers : h'[v].node = fcont => h'[v].pc \notin Active
    BY DEF FailedInv
  <2> QED
    BY <1>5 DEF ExclInv, FailedInv, Active, Working
<1> QED
  BY <1>2, <1>3, <1>4, <1>5

(***************************************************************************)
(* Nothing has been claimed, completed or saved when the run is created.   *)
(***************************************************************************)
LEMMA InitExcl == Init => ExclInv
  BY DEF Init, StoreInit, ExclInv, ClaimInv, ResultInv, StepsInv, SavedInv, FailedInv,
     IdleHandler, Working, Active, Completed

(***************************************************************************)
(* The steps of a handler that touch no job and save nothing preserve      *)
(* ExclInv: a handler that reads the status of a failed run drops the job. *)
(***************************************************************************)
LEMMA LocalExcl ==
  ASSUME IInv, ExclInv, NEW w \in Workers,
         \/ HandleStatus(w) \/ RunNode(w) \/ RunSwitch(w) \/ RunFails(w)
         \/ CommitRollback(w) \/ ReadPending(w) \/ ReadStatus(w)
         \/ SetCompleted(w) \/ OnDone(w) \/ OnFailed(w)
  PROVE  ExclInv'
<1>1. h \in [Workers -> Handlers] /\ \A v \in Workers : h[v].node \in Nodes
  BY DEF IInv, TypeOK, WorkerTypeOK, Handlers
<1>2. /\ UNCHANGED <<jobState, claimant, fcont, steps, result>>
      /\ status' = "failed" => status = "failed"
      /\ status' # status => status' = "completed"
  BY DEF HandleStatus, RunNode, RunSwitch, RunFails, CommitRollback, ReadPending,
     ReadStatus, SetCompleted, OnDone, OnFailed, SetRunStatus, storeVars, queueVars
<1>3. \A v \in Workers : v # w => h'[v] = h[v]
  BY <1>1 DEF HandleStatus, RunNode, RunSwitch, RunFails, CommitRollback, ReadPending,
     ReadStatus, SetCompleted, OnDone, OnFailed, Goto, Return
<1>4. /\ h'[w].pc \in Working => h[w].pc \in Working
      /\ h'[w].pc \in Working => h'[w].node = h[w].node
      /\ h'[w].pc # "setFailed"
      /\ h'[w].pc # "failJob" /\ h[w].pc # "failJob"
      /\ h'[w].pc \in Active => h[w].pc \in Active \/ status' # "failed"
  <2>0. h[w] \in Handlers
    BY <1>1
  <2>1. CASE HandleStatus(w)
    <3> DEFINE p == IF ~StatusIsLive THEN "drop"
                    ELSE IF skip[h[w].node] THEN "commit" ELSE "run"
               k == IF skip[h[w].node] THEN Dependents(h[w].node) ELSE {}
    <3>1. h' = [h EXCEPT ![w].pc = p, ![w].skips = k] /\ h[w].pc = "status"
      BY <2>1 DEF HandleStatus
    <3>2. p \in {"drop", "commit", "run"} /\ (p # "drop" => status # "failed")
      BY DEF StatusIsLive
    <3>3. status' = status
      BY <2>1 DEF HandleStatus, storeVars
    <3> HIDE DEF p, k
    <3>4. h'[w].pc = p /\ h'[w].node = h[w].node
      BY <1>1, <2>0, <3>1 DEF Handlers
    <3> QED
      BY <3>1, <3>2, <3>3, <3>4 DEF Working, Active
  <2>2. CASE RunNode(w)
    BY <1>1, <2>0, <2>2 DEF RunNode, Goto, Working, Active, Handlers
  <2>3. CASE RunSwitch(w)
    <3>1. PICK k : h' = [h EXCEPT ![w].pc = "commit", ![w].skips = k] /\ h[w].pc = "run"
      BY <2>3 DEF RunSwitch
    <3>2. h'[w].pc = "commit" /\ h'[w].node = h[w].node
      BY <1>1, <2>0, <3>1 DEF Handlers
    <3> QED
      BY <3>1, <3>2 DEF Working, Active
  <2>4. CASE RunFails(w)
    <3>1. PICK f : h' = [h EXCEPT ![w].pc = "commitFailed", ![w].fault = f] /\ h[w].pc = "run"
      BY <2>4 DEF RunFails
    <3>2. h'[w].pc = "commitFailed" /\ h'[w].node = h[w].node
      BY <1>1, <2>0, <3>1 DEF Handlers
    <3> QED
      BY <3>1, <3>2 DEF Working, Active
  <2>5. CASE CommitRollback(w) \/ OnDone(w) \/ OnFailed(w)
    <3>1. h'[w].pc = "idle" /\ h[w].pc # "failJob"
      BY <1>1, <2>5 DEF CommitRollback, OnDone, OnFailed, Return, IdleHandler
    <3> QED
      BY <3>1 DEF Working, Active
  <2>6. CASE ReadPending(w) \/ ReadStatus(w) \/ SetCompleted(w)
    <3>1. h'[w].pc \in {"idle", "readStatus", "setCompleted", "onDone"} /\ h[w].pc # "failJob"
      BY <1>1, <2>0, <2>6
      DEF ReadPending, ReadStatus, SetCompleted, Goto, Return, IdleHandler, Handlers
    <3> QED
      BY <3>1 DEF Working, Active
  <2> QED
    BY <2>1, <2>2, <2>3, <2>4, <2>5, <2>6
<1>5. \A v \in Workers : h'[v].pc \in Working => MayOverrun \/ HoldsClaim(v, h[v].node)'
  <2> SUFFICES ASSUME NEW v \in Workers, h'[v].pc \in Working, ~MayOverrun
               PROVE  HoldsClaim(v, h[v].node)'
    OBVIOUS
  <2>1. h[v].pc \in Working /\ h'[v].node = h[v].node
    BY <1>3, <1>4
  <2>2. HoldsClaim(v, h[v].node)
    BY <2>1 DEF ExclInv, ClaimInv
  <2> QED
    BY <1>2, <2>1, <2>2 DEF HoldsClaim
<1>6. \A v \in Workers :
        /\ h'[v].pc \in Working => h[v].pc \in Working
        /\ h'[v].pc \in Working \cup {"setFailed"} => h'[v].node = h[v].node
        /\ h'[v].pc = "setFailed" => h[v].pc = "setFailed"
        /\ h'[v].pc = "failJob" <=> h[v].pc = "failJob"
        /\ h'[v].pc \in Active => h[v].pc \in Active \/ status' # "failed"
  BY <1>3, <1>4
<1>7. ClaimInv' /\ StepsInv' /\ SavedInv' /\ FailedInv'
  BY <1>1, <1>2, <1>5, <1>6, QuietClaims
<1>8. ResultInv'
  BY <1>2 DEF ExclInv, ResultInv, Completed
<1> QED
  BY <1>7, <1>8 DEF ExclInv

(***************************************************************************)
(* A step of the queue or the store outside a handler's progress (an ended *)
(* handler, an expiry, a start, a cancel) preserves ExclInv when the       *)
(* working handlers keep their claims.                                     *)
(***************************************************************************)
LEMMA JobExcl ==
  ASSUME IInv, ExclInv,
         \A n \in Nodes : /\ jobState'[n] = "acked" <=> jobState[n] = "acked"
                          /\ jobState'[n] = "absent" => jobState[n] = "absent"
                          /\ jobState[n] = "dead" => jobState'[n] = "dead",
         \A v \in Workers :
           \/ h'[v] = h[v]
           \/ h'[v].pc = "idle" /\ h[v].pc # "failJob",
         \A v \in Workers :
           h'[v] = h[v] /\ HoldsClaim(v, h[v].node) /\ ~MayOverrun /\ h[v].pc # "idle"
             => jobState'[h[v].node] = "processing",
         claimant' = claimant,
         status' = "failed" => status = "failed",
         UNCHANGED <<fcont, steps, result>>
  PROVE  ExclInv'
<1>1. \A v \in Workers : h[v].node \in Nodes
  BY DEF IInv, TypeOK, WorkerTypeOK, Handlers
<1>2. \A v \in Workers :
        /\ h'[v].pc \in Working => h[v].pc \in Working
        /\ h'[v].pc \in Working \cup {"setFailed"} => h'[v].node = h[v].node
        /\ h'[v].pc = "setFailed" => h[v].pc = "setFailed"
        /\ h'[v].pc = "failJob" <=> h[v].pc = "failJob"
        /\ h'[v].pc \in Active => h[v].pc \in Active \/ status' # "failed"
  BY DEF Working, Active
<1>3. \A v \in Workers : h'[v].pc \in Working => MayOverrun \/ HoldsClaim(v, h[v].node)'
  <2> SUFFICES ASSUME NEW v \in Workers, h'[v].pc \in Working, ~MayOverrun
               PROVE  HoldsClaim(v, h[v].node)'
    OBVIOUS
  <2>1. h'[v] = h[v] /\ h[v].pc \in Working /\ h[v].pc # "idle"
    BY DEF Working
  <2>2. HoldsClaim(v, h[v].node)
    BY <2>1 DEF ExclInv, ClaimInv
  <2> QED
    BY <2>1, <2>2 DEF HoldsClaim
<1>4. ClaimInv' /\ StepsInv' /\ SavedInv' /\ FailedInv'
  BY <1>1, <1>2, <1>3, QuietClaims
<1>5. ResultInv'
  BY DEF ExclInv, ResultInv, Completed
<1> QED
  BY <1>4, <1>5 DEF ExclInv

(***************************************************************************)
(* The claim of a job (Worker.Run) preserves ExclInv: no other handler is  *)
(* at work on a job that can be claimed.                                   *)
(***************************************************************************)
LEMMA ClaimExcl ==
  ASSUME Exclusive, IInv, ExclInv, NEW w \in Workers, Claim(w)
  PROVE  ExclInv'
<1>1. PICK n \in Nodes :
        /\ ClaimJob(w, n)
        /\ h' = [h EXCEPT ![w] = [IdleHandler EXCEPT !.pc = "status", !.node = n,
                                                     !.tries = attempts'[n]]]
  BY DEF Claim
<1>2. /\ h[w].pc = "idle"
      /\ UNCHANGED <<status, fcont, steps, result>>
      /\ jobState[n] \in {"pending", "expired"}
  BY <1>1 DEF Claim, ClaimJob, runVars
<1>3. h \in [Workers -> Handlers] /\ \A v \in Workers : h[v].node \in Nodes
  BY DEF IInv, TypeOK, WorkerTypeOK, Handlers
<1>4. /\ h'[w].pc = "status" /\ h'[w].node = n
      /\ \A v \in Workers : v # w => h'[v] = h[v]
  BY <1>1, <1>3 DEF IdleHandler
<1>5. /\ \A m \in Nodes : m # n => jobState'[m] = jobState[m] /\ claimant'[m] = claimant[m]
      /\ jobState'[n] = "processing" /\ claimant'[n] = w
  BY <1>1 DEF ClaimJob, IInv, TypeOK, StoreTypeOK
<1>6. Completed' = Completed /\ n \notin Completed
  BY <1>2, <1>5 DEF Completed
<1>7. ASSUME NEW v \in Workers, v # w, h[v].pc \in Working
      PROVE  ~MayOverrun /\ HoldsClaim(v, h[v].node) /\ h[v].node # n
  BY <1>2, <1>7 DEF Exclusive, ExclInv, ClaimInv, HoldsClaim
<1>8. ClaimInv'
  <2> SUFFICES ASSUME NEW v \in Workers
               PROVE  /\ h'[v].pc \in Working \cup {"setFailed"} => h'[v].node \notin Completed'
                      /\ h'[v].pc \in Working => MayOverrun \/ HoldsClaim(v, h[v].node)'
                      /\ h'[v].pc = "setFailed" => MayOverrun \/ jobState'[h'[v].node] = "dead"
    BY DEF ClaimInv
  <2>1. CASE v = w
    BY <1>4, <1>5, <1>6, <2>1 DEF HoldsClaim
  <2>2. CASE v # w
    <3>1. h'[v] = h[v]
      BY <1>4, <2>2
    <3>2. h[v].pc \in Working => HoldsClaim(v, h[v].node)'
      BY <1>3, <1>5, <1>7, <2>2, <3>1 DEF HoldsClaim
    <3>3. h[v].pc = "setFailed" => MayOverrun \/ jobState'[h[v].node] = "dead"
      BY <1>2, <1>3, <1>5 DEF ExclInv, ClaimInv
    <3> QED
      BY <1>6, <3>1, <3>2, <3>3 DEF ExclInv, ClaimInv
  <2> QED
    BY <2>1, <2>2
<1>9. ResultInv' /\ StepsInv'
  BY <1>2, <1>6 DEF ExclInv, ResultInv, StepsInv
<1>10. SavedInv'
  <2> SUFFICES ASSUME NEW u \in Workers, h'[u].pc \in {"failJob", "setFailed"}
               PROVE  /\ fcont \in Nodes /\ jobState'[fcont] \notin {"absent", "acked"}
                      /\ \A v \in Workers :
                           h'[v].node = fcont => h'[v].pc \notin Working \ {"failJob"}
                      /\ \/ MayOverrun
                         \/ jobState'[fcont] = "dead"
                         \/ \E x \in Workers : h'[x].node = fcont /\ h'[x].pc = "failJob"
    BY <1>2 DEF SavedInv
  <2>1. u # w /\ h[u].pc \in {"failJob", "setFailed"} /\ ~MayOverrun
    BY <1>4 DEF Exclusive
  <2>2. /\ fcont \in Nodes /\ jobState[fcont] \notin {"absent", "acked"}
        /\ \A v \in Workers : h[v].node = fcont => h[v].pc \notin Working \ {"failJob"}
        /\ \/ jobState[fcont] = "dead"
           \/ \E x \in Workers : h[x].node = fcont /\ h[x].pc = "failJob"
    BY <2>1 DEF ExclInv, SavedInv
  <2>3. fcont # n
    <3>1. CASE jobState[fcont] = "dead"
      BY <1>2, <3>1
    <3>2. ASSUME NEW x \in Workers, h[x].node = fcont, h[x].pc = "failJob"
          PROVE  fcont # n
      BY <1>2, <1>7, <3>2 DEF Working
    <3> QED
      BY <2>2, <3>1, <3>2
  <2>4. jobState'[fcont] = jobState[fcont]
    BY <1>5, <2>2, <2>3
  <2>5. \A x \in Workers : h[x].pc = "failJob" => h'[x] = h[x]
    BY <1>2, <1>4
  <2>6. \A v \in Workers : h'[v].node = fcont => h'[v].pc \notin Working \ {"failJob"}
    BY <1>4, <2>2, <2>3
  <2> QED
    BY <2>2, <2>4, <2>5, <2>6
<1>11. FailedInv'
  <2> SUFFICES ASSUME status = "failed"
               PROVE  /\ fcont \in Nodes /\ jobState'[fcont] \notin {"absent", "acked"}
                      /\ \A v \in Workers : h'[v].node = fcont => h'[v].pc \notin Active
    BY <1>2 DEF FailedInv
  <2> QED
    BY <1>4, <1>5 DEF ExclInv, FailedInv, Active
<1> QED
  BY <1>8, <1>9, <1>10, <1>11 DEF ExclInv

(***************************************************************************)
(* A handler that drops or retries its job preserves ExclInv: Job.Ack and  *)
(* Job.Retry act on its own claim alone.                                   *)
(***************************************************************************)
LEMMA GiveUpExcl ==
  ASSUME IInv, ExclInv, NEW w \in Workers, HandleDrop(w) \/ Retry(w)
  PROVE  ExclInv'
<1>1. h[w].pc \in {"drop", "retry"} /\ h' = [h EXCEPT ![w] = IdleHandler]
  BY DEF HandleDrop, Retry, Return
<1>2. h \in [Workers -> Handlers] /\ h[w].node \in Nodes
  BY DEF IInv, TypeOK, WorkerTypeOK, Handlers
<1>3. PICK to \in {"pending", "dropped", "dead"} : MoveClaimed(w, h[w].node, to)
  BY DEF HandleDrop, Retry, AckJob, RetryJob
<1>4. UNCHANGED <<status, claimant, fcont, steps, result>>
  BY <1>3 DEF MoveClaimed, runVars
<1>5. \A n \in Nodes : jobState'[n] =
        IF n = h[w].node /\ HoldsClaim(w, n) THEN to ELSE jobState[n]
  BY <1>2, <1>3 DEF MoveClaimed, IInv, TypeOK, StoreTypeOK
<1>6. \A n \in Nodes : /\ jobState'[n] = "acked" <=> jobState[n] = "acked"
                       /\ jobState'[n] = "absent" => jobState[n] = "absent"
                       /\ jobState[n] = "dead" => jobState'[n] = "dead"
  BY <1>5 DEF HoldsClaim
<1>7. \A v \in Workers : h'[v] = h[v] \/ (h'[v].pc = "idle" /\ h[v].pc # "failJob")
  BY <1>1, <1>2 DEF IdleHandler
<1>8. ASSUME NEW v \in Workers, h'[v] = h[v], HoldsClaim(v, h[v].node), h[v].pc # "idle"
      PROVE  jobState'[h[v].node] = "processing"
  <2>1. v # w
    BY <1>1, <1>2, <1>8 DEF IdleHandler
  <2>2. h[v].node \in Nodes
    BY DEF IInv, TypeOK, WorkerTypeOK, Handlers
  <2> QED
    BY <1>5, <1>8, <2>1, <2>2 DEF HoldsClaim
<1> QED
  BY <1>4, <1>6, <1>7, <1>8, JobExcl

(***************************************************************************)
(* The commit of a completion preserves ExclInv: the committing handler    *)
(* holds the claim, so no other one works on the node, and the node is not *)
(* the one saved for a rerun.                                              *)
(***************************************************************************)
LEMMA CommitExcl ==
  ASSUME Exclusive, IInv, ExclInv, NEW w \in Workers, Commit(w)
  PROVE  ExclInv'
<1> DEFINE n == h[w].node
           res == IF skip[n] THEN "skipped" ELSE "ok"
           ready == ReadyAfter(n)
<1>1. h[w].pc = "commit" /\ h' = [h EXCEPT ![w].pc = "readPending"]
  BY DEF Commit, Goto
<1>2. h \in [Workers -> Handlers] /\ \A v \in Workers : h[v] \in Handlers /\ h[v].node \in Nodes
  BY DEF IInv, TypeOK, WorkerTypeOK, Handlers
<1>3. CommitNodeAtom(w, n, res, h[w].skips) /\ starter' = starter
  BY DEF Commit
<1>4. res \in {"ok", "skipped"} /\ res \in Results /\ h[w].skips \in SUBSET Nodes /\ n \in Nodes
  BY <1>2 DEF Results, Handlers
<1> HIDE DEF res
<1>5. Completed' = Completed \cup {n} /\ n \in InFlight
  BY <1>3, <1>4, CommitPreservesQueue DEF IInv, TypeOK
<1>6. /\ jobState[n] = "processing" /\ claimant[n] = w
      /\ UNCHANGED <<status, fcont, claimant>>
  BY <1>3 DEF CommitNodeAtom, CanCommit, HoldsClaim
<1>7. \A m \in Nodes : m \in ready => jobState[m] = "absent"
  <2> SUFFICES ASSUME NEW m \in Nodes, m \in ready PROVE jobState[m] = "absent"
    OBVIOUS
  <2>1. n \in Preds[m] /\ n \notin Completed
    BY <1>6 DEF ReadyAfter, Dependents, Completed
  <2> QED
    BY <2>1 DEF IInv, QueueInv, ReadyInv
<1>8. \A m \in Nodes : jobState'[m] = IF m \in ready THEN "pending"
                                     ELSE IF m = n THEN "acked" ELSE jobState[m]
  BY <1>3 DEF CommitNodeAtom
<1>9. \A m \in Nodes : m # n /\ jobState[m] # "absent" => jobState'[m] = jobState[m]
  BY <1>7, <1>8
<1>10. /\ h'[w].pc = "readPending" /\ h'[w].node = n
       /\ \A v \in Workers : v # w => h'[v] = h[v]
  BY <1>1, <1>2 DEF Handlers
<1>11. ClaimInv'
  <2> SUFFICES ASSUME NEW v \in Workers
               PROVE  /\ h'[v].pc \in Working \cup {"setFailed"} => h'[v].node \notin Completed'
                      /\ h'[v].pc \in Working => MayOverrun \/ HoldsClaim(v, h[v].node)'
                      /\ h'[v].pc = "setFailed" => MayOverrun \/ jobState'[h'[v].node] = "dead"
    BY DEF ClaimInv
  <2>1. CASE v = w
    BY <1>10, <2>1 DEF Working
  <2>2. CASE v # w
    <3>1. h'[v] = h[v] /\ ~MayOverrun /\ h[v].node \in Nodes
      BY <1>2, <1>10, <2>2 DEF Exclusive
    <3>2. ASSUME h[v].pc \in Working
          PROVE  h[v].node # n /\ HoldsClaim(v, h[v].node)'
      <4>1. jobState[h[v].node] = "processing" /\ claimant[h[v].node] = v
        BY <3>1, <3>2 DEF ExclInv, ClaimInv, HoldsClaim
      <4> QED
        BY <1>6, <1>9, <2>2, <3>1, <4>1 DEF HoldsClaim
    <3>3. ASSUME h[v].pc = "setFailed"
          PROVE  h[v].node # n /\ jobState'[h[v].node] = "dead"
      BY <1>6, <1>9, <3>1, <3>3 DEF ExclInv, ClaimInv
    <3> QED
      BY <1>5, <3>1, <3>2, <3>3 DEF ExclInv, ClaimInv
  <2> QED
    BY <2>1, <2>2
<1>12. ResultInv'
  <2>1. \A m \in Nodes : result'[m] = IF m = n THEN res ELSE result[m]
    BY <1>3 DEF CommitNodeAtom, IInv, TypeOK, StoreTypeOK
  <2>2. Completed' \subseteq Nodes
    BY <1>4, <1>5 DEF Completed
  <2> QED
    BY <1>4, <1>5, <2>1, <2>2 DEF ExclInv, ResultInv
<1>13. StepsInv'
  <2>1. \A m \in Nodes : steps'[m] = IF m \in ready THEN steps[n] \cup {n} ELSE steps[m]
    BY <1>3 DEF CommitNodeAtom
  <2> QED
    BY <1>4, <1>5, <2>1 DEF ExclInv, StepsInv
<1>14. SavedInv'
  <2> SUFFICES ASSUME NEW u \in Workers, h'[u].pc \in {"failJob", "setFailed"}
               PROVE  /\ fcont \in Nodes /\ jobState'[fcont] \notin {"absent", "acked"}
                      /\ \A v \in Workers :
                           h'[v].node = fcont => h'[v].pc \notin Working \ {"failJob"}
                      /\ \/ MayOverrun
                         \/ jobState'[fcont] = "dead"
                         \/ \E x \in Workers : h'[x].node = fcont /\ h'[x].pc = "failJob"
    BY <1>6 DEF SavedInv
  <2>1. u # w /\ h[u].pc \in {"failJob", "setFailed"}
    BY <1>10
  <2>2. /\ fcont \in Nodes /\ jobState[fcont] \notin {"absent", "acked"}
        /\ \A v \in Workers : h[v].node = fcont => h[v].pc \notin Working \ {"failJob"}
        /\ \/ MayOverrun
           \/ jobState[fcont] = "dead"
           \/ \E x \in Workers : h[x].node = fcont /\ h[x].pc = "failJob"
    BY <2>1 DEF ExclInv, SavedInv
  <2>3. fcont # n
    BY <1>1, <2>2 DEF Working
  <2>4. jobState'[fcont] = jobState[fcont]
    BY <1>9, <2>2, <2>3
  <2>5. \A x \in Workers : h[x].pc = "failJob" => h'[x] = h[x]
    BY <1>1, <1>10
  <2>6. \A v \in Workers : h'[v].node = fcont => h'[v].pc \notin Working \ {"failJob"}
    BY <1>10, <2>2, <2>3
  <2> QED
    BY <2>2, <2>4, <2>5, <2>6
<1>15. FailedInv'
  <2> SUFFICES ASSUME status = "failed"
               PROVE  /\ fcont \in Nodes /\ jobState'[fcont] \notin {"absent", "acked"}
                      /\ \A v \in Workers : h'[v].node = fcont => h'[v].pc \notin Active
    BY <1>6 DEF FailedInv
  <2>1. /\ fcont \in Nodes /\ jobState[fcont] \notin {"absent", "acked"}
        /\ \A v \in Workers : h[v].node = fcont => h[v].pc \notin Active
    BY DEF ExclInv, FailedInv
  <2>2. fcont # n
    BY <1>1, <2>1 DEF Active
  <2> QED
    BY <1>9, <1>10, <2>1, <2>2 DEF Active
<1> QED
  BY <1>11, <1>12, <1>13, <1>14, <1>15 DEF ExclInv

(***************************************************************************)
(* recordFailure writes the failure of a node that has not completed and   *)
(* goes on, so no completed node's row is overwritten.                     *)
(***************************************************************************)
LEMMA CommitFailedExcl ==
  ASSUME IInv, ExclInv, NEW w \in Workers, CommitFailed(w)
  PROVE  ExclInv'
<1>1. PICK p \in {"saveCont", "retry"} :
        h[w].pc = "commitFailed" /\ h' = [h EXCEPT ![w].pc = p]
  BY DEF CommitFailed, Goto
<1>2. h \in [Workers -> Handlers] /\ \A v \in Workers : h[v] \in Handlers /\ h[v].node \in Nodes
  BY DEF IInv, TypeOK, WorkerTypeOK, Handlers
<1>3. /\ UNCHANGED <<status, jobState, claimant, fcont, steps>>
      /\ result' = [result EXCEPT ![h[w].node] = "failed"]
  BY DEF CommitFailed, CommitFailedResult, runVars, queueVars
<1>4. /\ h'[w].pc = p /\ h'[w].node = h[w].node
      /\ \A v \in Workers : v # w => h'[v] = h[v]
  BY <1>1, <1>2 DEF Handlers
<1>5. \A v \in Workers :
        /\ h'[v].pc \in Working => h[v].pc \in Working
        /\ h'[v].pc \in Working \cup {"setFailed"} => h'[v].node = h[v].node
        /\ h'[v].pc = "setFailed" => h[v].pc = "setFailed"
        /\ h'[v].pc = "failJob" <=> h[v].pc = "failJob"
        /\ h'[v].pc \in Active => h[v].pc \in Active \/ status' # "failed"
  BY <1>1, <1>4 DEF Working, Active
<1>6. \A v \in Workers : h'[v].pc \in Working => MayOverrun \/ HoldsClaim(v, h[v].node)'
  BY <1>3, <1>5 DEF ExclInv, ClaimInv, HoldsClaim
<1>7. ClaimInv' /\ StepsInv' /\ SavedInv' /\ FailedInv'
  BY <1>2, <1>3, <1>5, <1>6, QuietClaims
<1>8. ResultInv'
  <2>1. h[w].node \notin Completed /\ Completed' = Completed
    BY <1>1, <1>3 DEF ExclInv, ClaimInv, Working, Completed
  <2>2. \A m \in Nodes : m # h[w].node => result'[m] = result[m]
    BY <1>3 DEF IInv, TypeOK, StoreTypeOK
  <2> QED
    BY <2>1, <2>2 DEF ExclInv, ResultInv, Completed
<1> QED
  BY <1>7, <1>8 DEF ExclInv

(***************************************************************************)
(* saveFailedContinuation saves a node that has not completed and that no  *)
(* other handler works on.                                                 *)
(***************************************************************************)
LEMMA SaveContExcl ==
  ASSUME Exclusive, IInv, ExclInv, NEW w \in Workers, SaveCont(w)
  PROVE  ExclInv'
<1> DEFINE n == h[w].node
<1>1. h[w].pc = "saveCont" /\ h' = [h EXCEPT ![w].pc = "failJob"]
  BY DEF SaveCont, Goto
<1>2. h \in [Workers -> Handlers] /\ \A v \in Workers : h[v] \in Handlers /\ h[v].node \in Nodes
  BY DEF IInv, TypeOK, WorkerTypeOK, Handlers
<1>3. UNCHANGED <<status, jobState, claimant, result, steps>> /\ fcont' = n
  BY DEF SaveCont, WriteFailedContinuation, runVars, queueVars
<1>4. /\ h'[w].pc = "failJob" /\ h'[w].node = n
      /\ \A v \in Workers : v # w => h'[v] = h[v]
  BY <1>1, <1>2 DEF Handlers
<1>5. n \in Nodes /\ jobState[n] \notin {"absent", "acked"} /\ n \notin Completed
  BY <1>1, <1>2, BusyMeansStarted DEF ExclInv, ClaimInv, Working, Completed
<1>6. \A v \in Workers : v # w /\ h[v].node = n => h[v].pc \notin Working
  BY <1>1 DEF Exclusive, ExclInv, ClaimInv, HoldsClaim, Working
<1>7. Completed' = Completed
  BY <1>3 DEF Completed
<1>8. ResultInv' /\ StepsInv'
  BY <1>3, <1>7 DEF ExclInv, ResultInv, StepsInv
<1>9. ClaimInv'
  <2> SUFFICES ASSUME NEW v \in Workers
               PROVE  /\ h'[v].pc \in Working \cup {"setFailed"} => h'[v].node \notin Completed'
                      /\ h'[v].pc \in Working => MayOverrun \/ HoldsClaim(v, h[v].node)'
                      /\ h'[v].pc = "setFailed" => MayOverrun \/ jobState'[h'[v].node] = "dead"
    BY DEF ClaimInv
  <2>1. h'[v].node = h[v].node
    BY <1>4
  <2>2. h'[v].pc \in Working <=> h[v].pc \in Working
    BY <1>1, <1>4 DEF Working
  <2>3. h'[v].pc = "setFailed" <=> h[v].pc = "setFailed"
    BY <1>1, <1>4
  <2> QED
    BY <1>3, <1>7, <2>1, <2>2, <2>3 DEF ExclInv, ClaimInv, HoldsClaim
<1>10. SavedInv'
  <2>1. \A v \in Workers : h'[v].node = n => h'[v].pc \notin Working \ {"failJob"}
    BY <1>4, <1>6
  <2>2. \E u \in Workers : h'[u].node = n /\ h'[u].pc = "failJob"
    BY <1>4
  <2> QED
    BY <1>3, <1>5, <2>1, <2>2 DEF SavedInv
<1>11. FailedInv'
  <2>1. \A v \in Workers : h'[v].node = n => h'[v].pc \notin Active
    BY <1>4, <1>6 DEF Active, Working
  <2> QED
    BY <1>3, <1>5, <2>1 DEF FailedInv
<1> QED
  BY <1>8, <1>9, <1>10, <1>11 DEF ExclInv

(***************************************************************************)
(* Job.Fail moves the handler's own job to the dead letters, or nothing    *)
(* when the claim has expired.                                             *)
(***************************************************************************)
LEMMA DeadLetterExcl ==
  ASSUME Exclusive, IInv, ExclInv, NEW w \in Workers, DeadLetter(w)
  PROVE  ExclInv'
<1> DEFINE n == h[w].node
<1>1. h[w].pc = "failJob" /\ h' = [h EXCEPT ![w].pc = "setFailed"]
  BY DEF DeadLetter, Goto
<1>2. h \in [Workers -> Handlers] /\ \A v \in Workers : h[v] \in Handlers /\ h[v].node \in Nodes
  BY DEF IInv, TypeOK, WorkerTypeOK, Handlers
<1>3. MoveClaimed(w, n, "dead")
  BY DEF DeadLetter, FailJob
<1>4. UNCHANGED <<status, claimant, fcont, result, steps>>
  BY <1>3 DEF MoveClaimed, runVars
<1>5. \A m \in Nodes : jobState'[m] =
        IF m = n /\ HoldsClaim(w, m) THEN "dead" ELSE jobState[m]
  BY <1>2, <1>3 DEF MoveClaimed, IInv, TypeOK, StoreTypeOK
<1>6. /\ h'[w].pc = "setFailed" /\ h'[w].node = n
      /\ \A v \in Workers : v # w => h'[v] = h[v]
  BY <1>1, <1>2 DEF Handlers
<1>7. \A m \in Nodes : /\ jobState'[m] = "acked" <=> jobState[m] = "acked"
                       /\ jobState'[m] = "absent" <=> jobState[m] = "absent"
                       /\ jobState[m] = "dead" => jobState'[m] = "dead"
  BY <1>5 DEF HoldsClaim
<1>8. Completed' = Completed
  BY <1>7 DEF Completed
<1>9. n \notin Completed /\ (MayOverrun \/ jobState'[n] = "dead")
  BY <1>1, <1>2, <1>5 DEF ExclInv, ClaimInv, Working
<1>10. ClaimInv'
  <2> SUFFICES ASSUME NEW v \in Workers
               PROVE  /\ h'[v].pc \in Working \cup {"setFailed"} => h'[v].node \notin Completed'
                      /\ h'[v].pc \in Working => MayOverrun \/ HoldsClaim(v, h[v].node)'
                      /\ h'[v].pc = "setFailed" => MayOverrun \/ jobState'[h'[v].node] = "dead"
    BY DEF ClaimInv
  <2>1. CASE v = w
    BY <1>6, <1>8, <1>9, <2>1 DEF Working
  <2>2. CASE v # w
    <3>1. h'[v] = h[v] /\ h[v].node \in Nodes
      BY <1>2, <1>6, <2>2
    <3>2. ASSUME h[v].pc \in Working, ~MayOverrun
          PROVE  HoldsClaim(v, h[v].node)'
      BY <1>4, <1>5, <2>2, <3>1, <3>2 DEF ExclInv, ClaimInv, HoldsClaim
    <3> QED
      BY <1>7, <1>8, <3>1, <3>2 DEF ExclInv, ClaimInv
  <2> QED
    BY <2>1, <2>2
<1>11. ResultInv' /\ StepsInv'
  BY <1>4, <1>8 DEF ExclInv, ResultInv, StepsInv
<1>12. SavedInv'
  <2>1. /\ fcont \in Nodes /\ jobState[fcont] \notin {"absent", "acked"}
        /\ \A v \in Workers : h[v].node = fcont => h[v].pc \notin Working \ {"failJob"}
        /\ \/ MayOverrun
           \/ jobState[fcont] = "dead"
           \/ \E u \in Workers : h[u].node = fcont /\ h[u].pc = "failJob"
    BY <1>1 DEF ExclInv, SavedInv
  <2>2. \A v \in Workers : h'[v].node = fcont => h'[v].pc \notin Working \ {"failJob"}
    BY <1>6, <2>1 DEF Working
  <2>3. jobState'[fcont] \notin {"absent", "acked"}
    BY <1>7, <2>1
  <2>4. \/ MayOverrun
        \/ jobState'[fcont] = "dead"
        \/ \E u \in Workers : h'[u].node = fcont /\ h'[u].pc = "failJob"
    <3>1. CASE \E u \in Workers : h[u].node = fcont /\ h[u].pc = "failJob"
      <4>1. PICK u \in Workers : h[u].node = fcont /\ h[u].pc = "failJob"
        BY <3>1
      <4>2. CASE u = w
        BY <1>9, <4>1, <4>2
      <4>3. CASE u # w
        BY <1>6, <4>1, <4>3
      <4> QED
        BY <4>2, <4>3
    <3> QED
      BY <1>7, <2>1, <3>1
  <2> QED
    BY <1>4, <2>1, <2>2, <2>3, <2>4 DEF SavedInv
<1>13. FailedInv'
  <2> SUFFICES ASSUME status = "failed"
               PROVE  /\ fcont \in Nodes /\ jobState'[fcont] \notin {"absent", "acked"}
                      /\ \A v \in Workers : h'[v].node = fcont => h'[v].pc \notin Active
    BY <1>4 DEF FailedInv
  <2> QED
    BY <1>6, <1>7 DEF ExclInv, FailedInv, Active
<1> QED
  BY <1>10, <1>11, <1>12, <1>13 DEF ExclInv

(***************************************************************************)
(* resolveRunFailed marks the run failed while the saved node is safe from *)
(* every other handler.                                                    *)
(***************************************************************************)
LEMMA SetFailedExcl ==
  ASSUME IInv, ExclInv, NEW w \in Workers, SetFailed(w)
  PROVE  ExclInv'
<1>1. h[w].pc = "setFailed" /\ h' = [h EXCEPT ![w].pc = "onFailed"]
  BY DEF SetFailed, Goto
<1>2. h \in [Workers -> Handlers] /\ \A v \in Workers : h[v] \in Handlers /\ h[v].node \in Nodes
  BY DEF IInv, TypeOK, WorkerTypeOK, Handlers
<1>3. UNCHANGED <<jobState, claimant, fcont, result, steps>>
  BY DEF SetFailed, SetRunStatus, queueVars
<1>4. /\ h'[w].pc = "onFailed" /\ h'[w].node = h[w].node
      /\ \A v \in Workers : v # w => h'[v] = h[v]
  BY <1>1, <1>2 DEF Handlers
<1>5. \A v \in Workers :
        /\ h'[v].pc \in Working => h[v].pc \in Working
        /\ h'[v].pc \in Working \cup {"setFailed"} => h'[v].node = h[v].node
        /\ h'[v].pc = "setFailed" => h[v].pc = "setFailed"
        /\ h'[v].pc = "failJob" <=> h[v].pc = "failJob"
        /\ h'[v].pc \in Active => h[v].pc \in Active
  BY <1>1, <1>4 DEF Working, Active
<1>6. \A v \in Workers : h'[v].pc \in Working => MayOverrun \/ HoldsClaim(v, h[v].node)'
  BY <1>3, <1>5 DEF ExclInv, ClaimInv, HoldsClaim
<1>7. ClaimInv' /\ StepsInv' /\ SavedInv'
  BY <1>2, <1>3, <1>5, <1>6, QuietClaims
<1>8. ResultInv'
  BY <1>3 DEF ExclInv, ResultInv, Completed
<1>9. FailedInv'
  <2>1. /\ fcont \in Nodes /\ jobState[fcont] \notin {"absent", "acked"}
        /\ \A v \in Workers : h[v].node = fcont => h[v].pc \notin Working \ {"failJob"}
    BY <1>1 DEF ExclInv, SavedInv
  <2>2. \A v \in Workers : h'[v].node = fcont => h'[v].pc \notin Active
    BY <1>4, <2>1 DEF Active, Working
  <2> QED
    BY <1>3, <2>1, <2>2 DEF FailedInv
<1> QED
  BY <1>7, <1>8, <1>9 DEF ExclInv

(***************************************************************************)
(* The start, a cancel, an expiry and a crash preserve ExclInv: a claim    *)
(* held by a working handler expires only if handlers may overrun.         *)
(***************************************************************************)
LEMMA OtherExcl ==
  ASSUME IInv, ExclInv,
         StartRun \/ Cancel \/ (\E n \in Nodes : Expire(n)) \/ Crash
  PROVE  ExclInv'
<1>1. h \in [Workers -> Handlers] /\ \A v \in Workers : h[v].node \in Nodes
  BY DEF IInv, TypeOK, WorkerTypeOK, Handlers
<1>2. jobState \in [Nodes -> JobStates] /\ claimant \in [Nodes -> Workers \cup {NoWorker}]
  BY DEF IInv, TypeOK, StoreTypeOK
<1>3. CASE Crash
  <2>1. UNCHANGED <<status, jobState, claimant, fcont, result, steps>>
    BY <1>3 DEF Crash, storeVars
  <2>2. \A v \in Workers : h'[v].pc = "idle"
    BY <1>3 DEF Crash, IdleHandler
  <2>3. Completed' = Completed
    BY <2>1 DEF Completed
  <2> QED
    BY <2>1, <2>2, <2>3
    DEF ExclInv, ClaimInv, ResultInv, StepsInv, SavedInv, FailedInv, Working, Active
<1>4. CASE StartCreate \/ StartDeps \/ CancelStatus \/ CancelDrop
  <2>1. UNCHANGED <<jobState, claimant, fcont, result, steps, h>>
    BY <1>4 DEF StartCreate, StartDeps, CancelStatus, CancelDrop, CreateRun, InitRunDeps,
       SetRunStatus, queueVars, storeVars
  <2>2. status' = "failed" => status = "failed"
    BY <1>4 DEF StartCreate, StartDeps, CancelStatus, CancelDrop, CreateRun, InitRunDeps,
       SetRunStatus, runVars, storeVars
  <2>3. \A v \in Workers : HoldsClaim(v, h[v].node) => jobState'[h[v].node] = "processing"
    BY <2>1 DEF HoldsClaim
  <2> QED
    BY <2>1, <2>2, <2>3, JobExcl
<1>5. CASE StartEnqueue
  <2>1. /\ jobState' = [jobState EXCEPT ![Root] = "pending"]
        /\ UNCHANGED <<status, claimant, fcont, result, steps, h>>
    BY <1>5 DEF StartEnqueue, EnqueueHead, runVars
  <2>2. \A n \in Nodes : jobState[n] = "absent"
    BY <1>5 DEF StartEnqueue, IInv, QueueInv, StarterInv
  <2>3. \A n \in Nodes : jobState'[n] \in {"absent", "pending"}
    BY <1>2, <2>1, <2>2, DagAssumption
  <2>4. \A v \in Workers : ~HoldsClaim(v, h[v].node)
    BY <1>1, <2>2 DEF HoldsClaim
  <2> QED
    BY <2>1, <2>2, <2>3, <2>4, JobExcl
<1>6. CASE CancelDelete
  <2>1. /\ jobState' = [n \in Nodes |-> IF jobState[n] = "pending" THEN "dropped" ELSE jobState[n]]
        /\ UNCHANGED <<status, claimant, fcont, result, steps, h>>
    BY <1>6 DEF CancelDelete, DeletePendingJobs, runVars
  <2>2. \A v \in Workers : HoldsClaim(v, h[v].node) => jobState'[h[v].node] = "processing"
    BY <1>1, <2>1 DEF HoldsClaim
  <2> QED
    BY <2>1, <2>2, JobExcl
<1>7. CASE \E n \in Nodes : Expire(n)
  <2>1. PICK n \in Nodes : Expire(n)
    BY <1>7
  <2>2. /\ jobState[n] = "processing" /\ jobState' = [jobState EXCEPT ![n] = "expired"]
        /\ UNCHANGED <<status, claimant, fcont, result, steps, h>>
    BY <2>1 DEF Expire, ExpireClaim, runVars
  <2>3. \A m \in Nodes : jobState'[m] = IF m = n THEN "expired" ELSE jobState[m]
    BY <1>2, <2>2
  <2>4. ASSUME NEW v \in Workers, HoldsClaim(v, h[v].node), ~MayOverrun, h[v].pc # "idle"
        PROVE  jobState'[h[v].node] = "processing"
    <3>1. h[v].node # n
      BY <2>1, <2>4 DEF Expire
    <3> QED
      BY <1>1, <2>3, <2>4, <3>1 DEF HoldsClaim
  <2> QED
    BY <2>2, <2>3, <2>4, JobExcl
<1> QED
  BY <1>3, <1>4, <1>5, <1>6, <1>7 DEF StartRun, Cancel

(***************************************************************************)
(* ExclInv holds in every reachable state when handlers are exclusive.     *)
(***************************************************************************)
THEOREM ExclusiveHandling ==
  ASSUME Exclusive
  PROVE  Spec => []ExclInv
<1>1. IInv /\ ExclInv /\ [Next]_vars => ExclInv'
  <2> SUFFICES ASSUME IInv, ExclInv, [Next]_vars PROVE ExclInv'
    OBVIOUS
  <2>1. CASE UNCHANGED vars
    <3>1. UNCHANGED <<status, jobState, claimant, fcont, result, steps, h>>
      BY <2>1 DEF vars, storeVars
    <3>2. Completed' = Completed
      BY <3>1 DEF Completed
    <3> QED
      BY <3>1, <3>2
      DEF ExclInv, ClaimInv, ResultInv, StepsInv, SavedInv, FailedInv, HoldsClaim
  <2>2. CASE \E w \in Workers : Handle(w)
    <3>1. PICK w \in Workers : Handle(w)
      BY <2>2
    <3> QED
      BY <3>1, LocalExcl, ClaimExcl, GiveUpExcl, CommitExcl, CommitFailedExcl,
         SaveContExcl, DeadLetterExcl, SetFailedExcl DEF Handle
  <2>3. CASE StartRun \/ Cancel \/ (\E n \in Nodes : Expire(n)) \/ Crash
    BY <2>3, OtherExcl
  <2> QED
    BY <2>1, <2>2, <2>3 DEF Next
<1> QED
  BY <1>1, InitExcl, Invariance, PTL DEF Spec

(***************************************************************************)
(* A failed run can always be continued by runner.Rerun: what              *)
(* saveFailedContinuation saved has not completed, all it depends on has,  *)
(* and no crash, cancel or retry changes that.                             *)
(***************************************************************************)
THEOREM FailedRunsAreRerunnable ==
  ASSUME Exclusive
  PROVE  Spec => []FailedIsRerunnable
<1>1. IInv /\ ExclInv => FailedIsRerunnable
  <2> SUFFICES ASSUME IInv, ExclInv, status = "failed"
               PROVE  /\ fcont # NoNode
                      /\ fcont \notin Completed
                      /\ Preds[fcont] \subseteq Completed
    BY DEF FailedIsRerunnable
  <2>1. fcont \in Nodes /\ jobState[fcont] \notin {"absent", "acked"}
    BY DEF ExclInv, FailedInv
  <2> QED
    BY <2>1, NullAssumption DEF Completed, IInv, QueueInv, ReadyInv
<1> QED
  BY <1>1, Invariance, ExclusiveHandling, PTL

(***************************************************************************)
(* A node's input is built from committed results whose rows are never     *)
(* overwritten by a failure (threadInput, commitFailed).                   *)
(***************************************************************************)
THEOREM InputsAgreeWithResults ==
  ASSUME Exclusive
  PROVE  Spec => []InputAgreesWithResults
<1>1. ExclInv => InputAgreesWithResults
  BY DEF ExclInv, StepsInv, ResultInv, InputAgreesWithResults
<1> QED
  BY <1>1, ExclusiveHandling, PTL

-----------------------------------------------------------------------------
(* The completion callback *)

\* One worker loop: what daemon.Run starts when Workers is not set.
OneWorker == \A v, w \in Workers : v = w

\* checkRunComplete, from the read of the count to the callback.
Checking == {"readPending", "readStatus", "setCompleted", "onDone"}

(***************************************************************************)
(* OnRunComplete has not been called while a handler is in                 *)
(* checkRunComplete, and once it is called the whole run is done.          *)
(***************************************************************************)
NotifyInv ==
  /\ \A w \in Workers : h[w].pc \in Checking => doneCalls = 0
  /\ CompletionNotifiedOnce

(***************************************************************************)
(* A completed node stays completed.                                       *)
(***************************************************************************)
LEMMA CompletedGrows ==
  ASSUME SingleRoot, IInv, [Next]_vars
  PROVE  Completed \subseteq Completed'
<1>1. [Promise!Next]_(Promise!vars)
  <2>1. CASE UNCHANGED vars
    BY <2>1, StutterStep DEF vars, storeVars
  <2>2. CASE \E w \in Workers : Handle(w)
    BY <2>2, HandleRefines
  <2>3. CASE StartRun \/ Cancel \/ (\E n \in Nodes : Expire(n)) \/ Crash
    BY <2>3, OtherStepsRefine
  <2> QED
    BY <2>1, <2>2, <2>3 DEF Next
<1> QED
  BY <1>1 DEF Promise!Next, Promise!vars, Promise!Begin, Promise!Complete, Promise!Report

(***************************************************************************)
(* A handler enters checkRunComplete by a commit alone, and it is over     *)
(* with the call of OnRunComplete.                                         *)
(***************************************************************************)
LEMMA CheckingStep ==
  ASSUME IInv, [Next]_vars, NEW w \in Workers, h'[w].pc \in Checking, ~Commit(w)
  PROVE  h[w].pc \in Checking /\ ~OnDone(w)
<1>0. h \in [Workers -> Handlers] /\ h[w] \in Handlers
  BY DEF IInv, TypeOK, WorkerTypeOK
<1>1. CASE h'[w] = h[w]
  BY <1>0, <1>1 DEF OnDone, Return, IdleHandler, Checking
<1>2. CASE Handle(w)
  <2>1. CASE Claim(w)
    <3>1. h'[w].pc = "status"
      BY <1>0, <2>1 DEF Claim, IdleHandler
    <3> QED
      BY <3>1 DEF Checking
  <2>2. CASE HandleStatus(w)
    <3>1. h'[w].pc \in {"drop", "commit", "run"}
      BY <1>0, <2>2 DEF HandleStatus, Handlers
    <3> QED
      BY <3>1 DEF Checking
  <2>3. CASE RunNode(w) \/ RunSwitch(w) \/ RunFails(w)
    <3>1. h'[w].pc \in {"commit", "commitFailed"}
      BY <1>0, <2>3 DEF RunNode, RunSwitch, RunFails, Goto, Handlers
    <3> QED
      BY <3>1 DEF Checking
  <2>4. CASE HandleDrop(w) \/ CommitRollback(w) \/ OnDone(w) \/ Retry(w) \/ OnFailed(w)
    <3>1. h'[w].pc = "idle"
      BY <1>0, <2>4 DEF HandleDrop, CommitRollback, OnDone, Retry, OnFailed, Return, IdleHandler
    <3> QED
      BY <3>1 DEF Checking
  <2>5. CASE ReadPending(w) \/ ReadStatus(w) \/ SetCompleted(w)
    <3>1. h[w].pc \in {"readPending", "readStatus", "setCompleted"}
      BY <2>5 DEF ReadPending, ReadStatus, SetCompleted, Goto, Return
    <3> QED
      BY <3>1 DEF Checking, OnDone, Return
  <2>6. CASE CommitFailed(w) \/ SaveCont(w) \/ DeadLetter(w) \/ SetFailed(w)
    <3>1. h'[w].pc \in {"saveCont", "retry", "failJob", "setFailed", "onFailed"}
      BY <1>0, <2>6 DEF CommitFailed, SaveCont, DeadLetter, SetFailed, Goto, Handlers
    <3> QED
      BY <3>1 DEF Checking
  <2> QED
    BY <1>2, <2>1, <2>2, <2>3, <2>4, <2>5, <2>6 DEF Handle
<1>3. CASE Crash
  BY <1>3 DEF Crash, IdleHandler, Checking
<1>4. CASE StartRun \/ Cancel \/ (\E n \in Nodes : Expire(n)) \/ UNCHANGED vars
  <2>1. h' = h
    BY <1>4 DEF StartRun, StartCreate, StartDeps, StartEnqueue, Cancel, CancelStatus,
       CancelDelete, CancelDrop, Expire, vars
  <2> QED
    BY <1>1, <2>1
<1>5. ASSUME NEW v \in Workers, v # w, Handle(v) PROVE h'[w] = h[w]
  BY <1>0, <1>5
  DEF Handle, Claim, HandleStatus, HandleDrop, RunNode, RunSwitch, RunFails, Commit,
      CommitRollback, ReadPending, ReadStatus, SetCompleted, OnDone, CommitFailed, Retry,
      SaveCont, DeadLetter, SetFailed, OnFailed, Goto, Return
<1> QED
  BY <1>1, <1>2, <1>3, <1>4, <1>5 DEF Next

(***************************************************************************)
(* With one worker the `completed` triggers of other workflows fire at     *)
(* most once for a run, and only when every node is done.  With two, both  *)
(* may read a pending count of zero and both call OnRunComplete.           *)
(***************************************************************************)
THEOREM NotifiesOnce ==
  ASSUME SingleRoot, OneWorker
  PROVE  Spec => []CompletionNotifiedOnce
<1>1. Exclusive
  BY DEF Exclusive, OneWorker
<1>2. Init => NotifyInv
  BY DEF Init, NotifyInv, CompletionNotifiedOnce, IdleHandler, Checking
<1>3. IInv /\ ExclInv /\ NotifyInv /\ [Next]_vars => NotifyInv'
  <2> SUFFICES ASSUME IInv, ExclInv, NotifyInv, [Next]_vars PROVE NotifyInv'
    OBVIOUS
  <2>1. doneCalls \in Nat /\ Completed \subseteq Nodes /\ Completed' \subseteq Nodes
    BY DEF IInv, TypeOK, WorkerTypeOK, Completed
  <2>2. Completed \subseteq Completed'
    BY CompletedGrows
  <2>3. CASE \E w \in Workers : OnDone(w)
    <3>1. PICK w \in Workers : OnDone(w)
      BY <2>3
    <3>2. h[w].pc = "onDone" /\ h' = [h EXCEPT ![w] = IdleHandler] /\ doneCalls' = doneCalls + 1
      BY <3>1 DEF OnDone, Return
    <3>3. doneCalls = 0
      BY <3>2 DEF NotifyInv, Checking
    <3>4. Completed = Nodes
      BY <3>2, BusyMeansStarted, QuietIsDone DEF IInv, HandlerInv
    <3>5. \A v \in Workers : h'[v].pc = "idle"
      BY <3>2 DEF OneWorker, IInv, TypeOK, WorkerTypeOK, IdleHandler
    <3> QED
      BY <2>1, <2>2, <3>2, <3>3, <3>4, <3>5 DEF NotifyInv, CompletionNotifiedOnce, Checking
  <2>4. CASE ~\E w \in Workers : OnDone(w)
    <3>1. doneCalls' = doneCalls
      BY <2>4 DEF Next, Handle, Claim, HandleStatus, HandleDrop, RunNode, RunSwitch,
         RunFails, Commit, CommitRollback, ReadPending, ReadStatus, SetCompleted,
         CommitFailed, Retry, SaveCont, DeadLetter, SetFailed, OnFailed, StartRun,
         StartCreate, StartDeps, StartEnqueue, Cancel, CancelStatus, CancelDelete,
         CancelDrop, Expire, Crash, callVars, vars
    <3>2. CompletionNotifiedOnce'
      BY <2>1, <2>2, <3>1 DEF NotifyInv, CompletionNotifiedOnce
    <3>3. ASSUME NEW w \in Workers, h'[w].pc \in Checking PROVE doneCalls' = 0
      <4>1. CASE Commit(w)
        <5>1. h[w].pc = "commit" /\ h[w].node \in Nodes
          BY <4>1 DEF Commit, Goto, IInv, TypeOK, WorkerTypeOK, Handlers
        <5>2. h[w].node \notin Completed
          BY <5>1 DEF ExclInv, ClaimInv, Working
        <5> QED
          BY <2>1, <3>1, <5>1, <5>2 DEF NotifyInv, CompletionNotifiedOnce
      <4>2. CASE ~Commit(w)
        BY <3>1, <3>3, <4>2, CheckingStep DEF NotifyInv
      <4> QED
        BY <4>1, <4>2
    <3> QED
      BY <3>2, <3>3 DEF NotifyInv
  <2> QED
    BY <2>3, <2>4
<1>4. NotifyInv => CompletionNotifiedOnce
  BY DEF NotifyInv
<1> QED
  BY <1>1, <1>2, <1>3, <1>4, Invariance, ExclusiveHandling, PTL DEF Spec
=============================================================================
