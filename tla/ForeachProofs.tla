--------------------------- MODULE ForeachProofs ----------------------------
(***************************************************************************)
(* Proofs about Foreach: for every workflow of the stated shape and lists  *)
(* of any length, whatever fails and whenever the daemon dies, nothing is  *)
(* enqueued twice, a rejoin collects every iteration, and a completed run  *)
(* has run all that it should.                                             *)
(*                                                                         *)
(* The argument counts: a node's counter is the number of its dependencies *)
(* (a rejoin's, of the iterations) that have not committed, pending is the *)
(* number of ids enqueued and not committed, and an id is enqueued by the  *)
(* commit that takes the counter to zero.                                  *)
(***************************************************************************)
EXTENDS Foreach, FiniteSetTheorems, NaturalsInduction, TLAPS

-----------------------------------------------------------------------------
(* The inductive invariant *)

HeadNode == RunOrder[1]

Id(j) == <<j.node, j.iter>>

Done == {id \in Ids : result[id] \in {"ok", "skipped"}}

\* The ids that were enqueued and not committed.
Open == {id \in Ids : issued[id] = 1 /\ id \notin Done}

\* The dependencies of n that have not decremented its counter.  The foreach
\* never does.
Waits(n) == {m \in Preds[n] : m = Loop \/ <<m, 0>> \notin Done}

\* The iterations that have not committed.
Left == {i \in 1..items : <<Body, i>> \notin Done}

FannedOut == result[<<Loop, 0>>] = "ok"

\* The types of ForeachTypeOK, without the signs, which follow from the rest.
BaseTypeOK ==
  /\ items \in 0..MaxItems
  /\ status \in {"running", "completed", "failed"}
  /\ pending \in Int
  /\ deps \in [Nodes -> Int]
  /\ result \in [Ids -> Results]
  /\ queue \in SUBSET Jobs
  /\ h \in [pc : Steps, job : Jobs, at : 1..(Len(Rejoins) + 1)]
  /\ crashes \in 0..MaxCrashes
  /\ issued \in [Ids -> Nat]
  /\ lost \in Nat
  /\ got \in [Nodes -> Seq(Results)]

\* A job that may be claimed or is in hand: only a rejoin's is bare, and a
\* skipped foreach leaves no rejoin to run.
Good(j) ==
  /\ Id(j) \in Open
  /\ j.form = "bare" => IsRejoin(j.node)
  /\ j.iter > 0 => j.mode = "run"
  /\ IsRejoin(j.node) /\ j.mode = "run" => ~Skipped

\* Each id has one job at most.
JobInv ==
  /\ \A j \in queue : Good(j)
  /\ \A j, k \in queue : Id(j) = Id(k) => j = k
  /\ InHand => Good(h.job) /\ \A j \in queue : Id(j) # Id(h.job)

\* A counter is the number of commits that are still to decrement it.  Before
\* the fan-out a rejoin has its static counter or the foreach's.
DepsInv ==
  \A n \in Nodes :
    IF ~IsRejoin(n) THEN deps[n] = Cardinality(Waits(n))
    ELSE IF FannedOut THEN deps[n] = Cardinality(Left)
    ELSE deps[n] \in {1, items}

\* The ids that may be, and those that must have been, enqueued.
OnceInv ==
  /\ \A id \in Ids : issued[id] \in {0, 1}
  /\ \A id \in Done : issued[id] = 1

IterInv ==
  /\ issued[<<Body, 0>>] = 0
  /\ \A n \in Nodes, i \in 1..MaxItems :
       /\ issued[<<n, i>>] = 1 <=> (n = Body /\ i <= items /\ FannedOut)
       /\ result[<<n, i>>] # "skipped"

RejoinInv ==
  \A n \in Nodes : IsRejoin(n) =>
    (issued[<<n, 0>>] = 1 <=> (Skipped \/ (FannedOut /\ items > 0 /\ Left = {})))

\* n may start: it is the head, or has dependencies and waits for none.
MayStart(n) == n = HeadNode \/ (Preds[n] # {} /\ Waits(n) = {})

\* A rejoin's copy does not enqueue what follows it.
PlainInv ==
  \A n \in Nodes \ {Body} : ~IsRejoin(n) =>
    /\ issued[<<n, 0>>] = 1 => MayStart(n)
    /\ MayStart(n) /\ (\A m \in Preds[n] : ~IsRejoin(m)) => issued[<<n, 0>>] = 1

\* pending counts the open ids, and a run completes with none.
PendingInv ==
  /\ pending = Cardinality(Open)
  /\ h.pc = "setCompleted" => pending = 0
  /\ status = "completed" => pending = 0

\* The handler.  The foreach commits with all its rejoins' counters set, a
\* rejoin with all the iterations collected.
HandlerInv ==
  /\ h.pc \in {"status", "run"} => h.at = 1
  /\ h.pc = "run" => h.job.mode = "run"
  /\ h.pc = "setDeps" => h.job.node = Loop /\ h.job.mode = "run"
  /\ h.pc = "setDeps" => \A k \in DOMAIN Rejoins : k < h.at => deps[Rejoins[k]] = items
  /\ h.pc = "commit" /\ h.job.node = Loop /\ h.job.mode = "run" =>
       \A n \in Nodes : IsRejoin(n) => deps[n] = items
  /\ h.pc = "commit" /\ IsRejoin(h.job.node) /\ h.job.mode = "run" =>
       got[h.job.node] = [i \in 1..items |-> "ok"]

IInv ==
  /\ BaseTypeOK /\ JobInv /\ DepsInv /\ OnceInv /\ IterInv /\ RejoinInv /\ PlainInv
  /\ PendingInv /\ HandlerInv /\ RejoinCollectsAll

-----------------------------------------------------------------------------
(* Facts about the layout of FromWafer *)

\* A nonempty set of numbers has a least one.
LEMMA LeastNumber ==
  ASSUME NEW T \in SUBSET Nat, T # {}
  PROVE  \E p \in T : \A q \in T : p <= q
<1> DEFINE R == OpToRel(<, Nat)
<1>1. IsWellFoundedOn(R, Nat)
  BY NatLessThanWellFounded, Zenon
<1>2. \A p, q \in Nat : <<q, p>> \in R <=> q < p
  BY DEF OpToRel
<1> HIDE DEF R
<1>3. PICK p \in T : \A q \in T : ~(<<q, p>> \in R)
  BY <1>1, WFMin
<1>4. SUFFICES ASSUME NEW q \in T PROVE p <= q
  BY <1>3
<1>5. p \in Nat /\ q \in Nat
  BY <1>3
<1>6. ~(q < p)
  BY <1>2, <1>3, <1>5
<1> QED
  BY <1>5, <1>6

\* The run order is a list without repeats of all the nodes, which are finitely
\* many.
LEMMA OrderFacts ==
  /\ Len(RunOrder) \in Nat
  /\ DOMAIN RunOrder = 1..Len(RunOrder)
  /\ RunOrder \in [1..Len(RunOrder) -> Nodes]
  /\ \A n \in Nodes : \E i \in 1..Len(RunOrder) : RunOrder[i] = n
  /\ IsFiniteSet(Nodes)
<1>1. /\ Len(RunOrder) \in Nat
      /\ DOMAIN RunOrder = 1..Len(RunOrder)
      /\ RunOrder \in [1..Len(RunOrder) -> Nodes]
  BY ForeachAssumption
<1>2. \A n \in Nodes : \E i \in 1..Len(RunOrder) : RunOrder[i] = n
  BY <1>1, ForeachAssumption
<1>3. RunOrder \in Surjection(1..Len(RunOrder), Nodes)
  BY <1>1, <1>2 DEF Surjection
<1>4. IsFiniteSet(1..Len(RunOrder))
  BY <1>1, FS_Interval
<1>5. IsFiniteSet(Nodes)
  BY <1>3, <1>4, FS_Surjection
<1> QED
  BY <1>1, <1>2, <1>5

\* A dependency comes earlier in the run order.
LEMMA Earlier ==
  ASSUME NEW i \in 1..Len(RunOrder), NEW j \in 1..Len(RunOrder),
         RunOrder[j] \in Preds[RunOrder[i]]
  PROVE  j < i
<1>1. Preds[RunOrder[i]] \subseteq {RunOrder[k] : k \in 1..(i - 1)}
  BY OrderFacts, ForeachAssumption
<1>2. PICK k \in 1..(i - 1) : RunOrder[j] = RunOrder[k]
  BY <1>1
<1>3. i \in Nat /\ j \in Nat /\ Len(RunOrder) \in Nat /\ k \in 1..Len(RunOrder)
  BY OrderFacts
<1>4. j = k
  BY <1>2, <1>3, OrderFacts, ForeachAssumption
<1> QED
  BY <1>3, <1>4

(***************************************************************************)
(* InRunOrder lists the nodes of a set, each once.  The position of a node *)
(* in the list is the number of listed nodes up to it in the run order,    *)
(* and that number is a bijection because it is injective into as many     *)
(* positions.                                                              *)
(***************************************************************************)
LEMMA InRunOrderLists ==
  ASSUME NEW S \in SUBSET Nodes
  PROVE  /\ InRunOrder(S) \in Seq(Nodes)
         /\ Elems(InRunOrder(S)) = S
         /\ \A k, l \in 1..Len(InRunOrder(S)) :
              InRunOrder(S)[k] = InRunOrder(S)[l] => k = l
<1> DEFINE N == Len(RunOrder)
           at == {i \in DOMAIN RunOrder : RunOrder[i] \in S}
           c == Cardinality(at)
           below(i) == {j \in at : j < i}
           f == [i \in at |-> Cardinality(below(i)) + 1]
           pick(k) == CHOOSE i \in at : Cardinality(below(i)) = k - 1
<1>1. N \in Nat /\ at \in SUBSET (1..N) /\ DOMAIN RunOrder = 1..N
  BY OrderFacts
<1>2. IsFiniteSet(at) /\ c \in Nat /\ IsFiniteSet(1..c)
  <2>1. IsFiniteSet(1..N)
    BY <1>1, FS_Interval
  <2>2. IsFiniteSet(at) /\ c \in Nat
    BY <1>1, <2>1, FS_Subset, FS_CardinalityType
  <2> QED
    BY <2>2, FS_Interval
<1>3. ASSUME NEW i \in at
      PROVE  /\ IsFiniteSet(below(i)) /\ Cardinality(below(i)) \in 0..(c - 1)
             /\ Cardinality(below(i)) \in Int
  <2>1. at \ {i} \in SUBSET at /\ IsFiniteSet(at \ {i}) /\ Cardinality(at \ {i}) = c - 1
    BY <1>2, FS_RemoveElement
  <2>2. below(i) \in SUBSET (at \ {i})
    BY <1>1
  <2>3. IsFiniteSet(below(i)) /\ Cardinality(below(i)) <= c - 1
    BY <2>1, <2>2, FS_Subset
  <2>4. Cardinality(below(i)) \in Nat
    BY <2>3, FS_CardinalityType
  <2> QED
    BY <1>2, <2>3, <2>4
<1>4. ASSUME NEW i \in at, NEW j \in at, i < j
      PROVE  Cardinality(below(i)) # Cardinality(below(j))
  <2>1. below(i) \in SUBSET below(j) /\ i \in below(j) /\ i \notin below(i)
    BY <1>1, <1>4
  <2>2. Cardinality(below(j)) = Cardinality(below(i)) => below(j) = below(i)
    BY <1>3, <2>1, FS_Subset
  <2> QED
    BY <2>1, <2>2
<1>5. f \in Injection(at, 1..c)
  <2>1. f \in [at -> 1..c]
    <3>1. ASSUME NEW i \in at PROVE Cardinality(below(i)) + 1 \in 1..c
      <4> HIDE DEF below
      <4>1. Cardinality(below(i)) \in 0..(c - 1)
        BY <1>3
      <4> QED
        BY <1>2, <4>1
    <3> HIDE DEF below, c, at
    <3> QED
      BY <3>1
  <2>2. ASSUME NEW i \in at, NEW j \in at, f[i] = f[j] PROVE i = j
    <3>1. Cardinality(below(i)) = Cardinality(below(j))
      <4>1. Cardinality(below(i)) \in Int /\ Cardinality(below(j)) \in Int
        BY <1>3, Zenon
      <4>2. f[i] = Cardinality(below(i)) + 1 /\ f[j] = Cardinality(below(j)) + 1
        OBVIOUS
      <4>3. Cardinality(below(i)) + 1 = Cardinality(below(j)) + 1
        BY <2>2, <4>2, Zenon
      <4> HIDE DEF at, below
      <4> QED
        BY <4>1, <4>3
    <3>2. i \in Nat /\ j \in Nat
      BY <1>1
    <3>3. ~(i < j) /\ ~(j < i)
      BY <1>4, <3>1
    <3> QED
      BY <3>2, <3>3
  <2> HIDE DEF f, c, at
  <2> QED
    BY <2>1, <2>2 DEF Injection, IsInjective
<1>6. f \in Surjection(at, 1..c)
  <2>1. Cardinality(1..c) = c
    <3>1. \A k \in Nat : Cardinality(1..k) = k
      BY FS_Interval
    <3> QED
      BY <1>2, <3>1
  <2> HIDE DEF f, at
  <2> QED
    BY <1>2, <1>5, <2>1, FS_Injection
<1>7. ASSUME NEW k \in 1..c
      PROVE  pick(k) \in at /\ Cardinality(below(pick(k))) = k - 1
  <2>1. \E i \in at : f[i] = k
    BY <1>6 DEF Surjection
  <2>2. \E i \in at : Cardinality(below(i)) = k - 1
    <3>1. PICK i \in at : f[i] = k
      BY <2>1
    <3>2. Cardinality(below(i)) \in Int /\ f[i] = Cardinality(below(i)) + 1
      BY <1>3, Zenon
    <3> HIDE DEF f, below
    <3>3. Cardinality(below(i)) = k - 1
      BY <1>2, <3>1, <3>2
    <3> QED
      BY <3>3
  <2> HIDE DEF below, at
  <2> QED
    BY <2>2
<1>8. ASSUME NEW i \in at
      PROVE  f[i] \in 1..c /\ pick(f[i]) = i
  <2>1. f[i] \in 1..c
    BY <1>5 DEF Injection
  <2>2. pick(f[i]) \in at /\ Cardinality(below(pick(f[i]))) = f[i] - 1
    BY <1>7, <2>1
  <2>3. Cardinality(below(i)) = f[i] - 1
    <3>1. Cardinality(below(i)) \in Int /\ f[i] = Cardinality(below(i)) + 1
      BY <1>3, Zenon
    <3> HIDE DEF f, below
    <3> QED
      BY <3>1
  <2>4. ASSUME NEW k \in at, Cardinality(below(k)) = Cardinality(below(i)) PROVE k = i
    <3>1. ~(i < k) /\ ~(k < i)
      BY <1>4, <2>4
    <3>2. i \in Nat /\ k \in Nat
      BY <1>1
    <3> QED
      BY <3>1, <3>2
  <2> HIDE DEF f, below, at, pick
  <2> QED
    BY <2>1, <2>2, <2>3, <2>4
<1>9. InRunOrder(S) = [k \in 1..c |-> RunOrder[pick(k)]]
  BY DEF InRunOrder
<1> HIDE DEF f, below, c, pick
<1>10. \A i \in at : i \in 1..N /\ RunOrder[i] \in S /\ RunOrder[i] \in Nodes
  BY <1>1
<1>11. \A m \in S : \E i \in at : RunOrder[i] = m
  BY <1>1, OrderFacts
<1>12. InRunOrder(S) \in [1..c -> Nodes]
  BY <1>7, <1>9, <1>10
<1>13. InRunOrder(S) \in Seq(Nodes) /\ Len(InRunOrder(S)) = c /\ DOMAIN InRunOrder(S) = 1..c
  BY <1>2, <1>12
<1> HIDE DEF at
<1>14. Elems(InRunOrder(S)) = S
  <2>1. ASSUME NEW k \in 1..c PROVE InRunOrder(S)[k] \in S
    BY <1>7, <1>9, <1>10
  <2>2. ASSUME NEW m \in S PROVE \E k \in 1..c : InRunOrder(S)[k] = m
    <3>1. PICK i \in at : RunOrder[i] = m
      BY <1>11
    <3> QED
      BY <1>8, <1>9, <3>1
  <2> QED
    BY <1>13, <2>1, <2>2 DEF Elems
<1>15. ASSUME NEW k \in 1..c, NEW l \in 1..c, InRunOrder(S)[k] = InRunOrder(S)[l]
       PROVE  k = l
  <2>1. RunOrder[pick(k)] = RunOrder[pick(l)] /\ pick(k) \in at /\ pick(l) \in at
    BY <1>7, <1>9, <1>15
  <2>2. pick(k) = pick(l)
    BY <1>1, <1>10, <2>1, ForeachAssumption
  <2>3. k - 1 = l - 1
    BY <1>7, <2>2
  <2> QED
    BY <1>2, <2>3
<1> QED
  BY <1>13, <1>14, <1>15

\* The dependents of a node are listed once each; the foreach's without the body.
LEMMA DependentsAre ==
  ASSUME NEW n \in Nodes
  PROVE  /\ Dependents[n] \in Seq(Nodes)
         /\ Elems(Dependents[n]) = {m \in Nodes : n \in Preds[m] /\ ~(n = Loop /\ m = Body)}
         /\ \A k, l \in 1..Len(Dependents[n]) : Dependents[n][k] = Dependents[n][l] => k = l
<1> DEFINE S == {m \in Nodes : n \in Preds[m] /\ ~(n = Loop /\ m = Body)}
<1>1. Dependents[n] = InRunOrder(S)
  BY DEF Dependents
<1>2. S \in SUBSET Nodes
  OBVIOUS
<1> HIDE DEF S
<1>3. /\ InRunOrder(S) \in Seq(Nodes)
      /\ Elems(InRunOrder(S)) = S
      /\ \A k, l \in 1..Len(InRunOrder(S)) :
           InRunOrder(S)[k] = InRunOrder(S)[l] => k = l
  BY <1>2, InRunOrderLists
<1>4. Elems(Dependents[n]) = S
  BY <1>1, <1>3
<1>5. Dependents[n] \in Seq(Nodes)
  BY <1>1, <1>3
<1>6. \A k, l \in 1..Len(Dependents[n]) : Dependents[n][k] = Dependents[n][l] => k = l
  BY <1>1, <1>3
<1> QED
  BY <1>4, <1>5, <1>6 DEF S

\* No node depends on itself.
LEMMA NoSelfDependency == \A n \in Nodes : n \notin Preds[n]
<1> SUFFICES ASSUME NEW n \in Nodes, n \in Preds[n] PROVE FALSE
  OBVIOUS
<1>1. PICK i \in 1..Len(RunOrder) : RunOrder[i] = n
  BY OrderFacts
<1>2. i < i
  BY <1>1, Earlier
<1> QED
  BY <1>2

\* The foreach, the body, the rejoins and the head are different nodes, but
\* that the foreach may be the head.
LEMMA Layout ==
  /\ Loop \in Nodes /\ Body \in Nodes /\ HeadNode \in Nodes
  /\ Body # Loop /\ HeadNode # Body
  /\ Preds[HeadNode] = {}
  /\ Rejoins \in Seq(Nodes)
  /\ \A n : IsRejoin(n) <=> n \in Nodes /\ Body \in Preds[n]
  /\ ~IsRejoin(Loop) /\ ~IsRejoin(Body) /\ ~IsRejoin(HeadNode)
<1>1. Loop \in Nodes /\ Body \in Nodes /\ Loop \in Preds[Body]
  BY ForeachAssumption
<1>2. Body # Loop
  BY <1>1, NoSelfDependency
<1>3. Rejoins \in Seq(Nodes) /\ Elems(Rejoins) = {m \in Nodes : Body \in Preds[m]}
  <2>1. Elems(Dependents[Body])
           = {m \in Nodes : Body \in Preds[m] /\ ~(Body = Loop /\ m = Body)}
    BY <1>1, DependentsAre
  <2>2. Dependents[Body] \in Seq(Nodes)
    BY <1>1, DependentsAre
  <2> QED
    BY <1>2, <2>1, <2>2 DEF Rejoins
<1>4. \A n : IsRejoin(n) <=> n \in Nodes /\ Body \in Preds[n]
  BY <1>3 DEF IsRejoin
<1>5. HeadNode \in Nodes /\ Preds[HeadNode] = {}
  <2>1. PICK i \in 1..Len(RunOrder) : RunOrder[i] = Loop
    BY <1>1, OrderFacts
  <2>2. 1 \in 1..Len(RunOrder)
    BY <2>1, OrderFacts
  <2>3. Preds[RunOrder[1]] \subseteq {RunOrder[j] : j \in 1..(1 - 1)}
    BY <2>2, OrderFacts, ForeachAssumption
  <2> QED
    BY <2>2, <2>3, OrderFacts DEF HeadNode
<1>6. ~IsRejoin(Loop)
  <2>1. SUFFICES ASSUME Body \in Preds[Loop] PROVE FALSE
    BY <1>4
  <2>2. PICK i \in 1..Len(RunOrder) : RunOrder[i] = Loop
    BY <1>1, OrderFacts
  <2>3. PICK j \in 1..Len(RunOrder) : RunOrder[j] = Body
    BY <1>1, OrderFacts
  <2>4. i < j /\ j < i
    BY <1>1, <2>1, <2>2, <2>3, Earlier
  <2> QED
    BY <2>4
<1>7. ~IsRejoin(Body)
  BY <1>1, <1>4, NoSelfDependency
<1>8. ~IsRejoin(HeadNode) /\ HeadNode # Body
  BY <1>1, <1>4, <1>5
<1> QED
  BY <1>1, <1>2, <1>3, <1>4, <1>5, <1>6, <1>7, <1>8

-----------------------------------------------------------------------------
(* What a commit enqueues *)

\* The copy of a node's job that a commit enqueues.
Copy(n, form, S) ==
  [node |-> n, iter |-> 0, form |-> form,
   mode |-> IF n \in S THEN "run" ELSE "skip", tries |-> 0]

Ready(s) == {m \in Elems(s) : deps[m] - 1 = 0}

\* Lists that are paired by position: the copies of the ready dependents.
LEMMA PairedNew ==
  ASSUME NEW s \in Seq(Nodes), NEW form, NEW S
  PROVE  NewJobs(s, [i \in DOMAIN s |-> Copy(s[i], form, S)])
           = {Copy(m, form, S) : m \in Ready(s)}
<1> DEFINE d == [i \in DOMAIN s |-> Copy(s[i], form, S)]
<1>1. DOMAIN d = DOMAIN s /\ DOMAIN s = 1..Len(s) /\ Len(s) \in Nat
  OBVIOUS
<1>2. \A k \in DOMAIN s : d[k] = Copy(s[k], form, S) /\ k <= Len(s)
  BY <1>1
<1> HIDE DEF d
<1>3. NewJobs(s, d) = {d[i] : i \in {k \in DOMAIN s : deps[s[k]] - 1 = 0}}
  BY <1>1, <1>2 DEF NewJobs
<1>4. {d[i] : i \in {k \in DOMAIN s : deps[s[k]] - 1 = 0}}
        = {Copy(s[i], form, S) : i \in {k \in DOMAIN s : deps[s[k]] - 1 = 0}}
  BY <1>2
<1>5. {Copy(s[i], form, S) : i \in {k \in DOMAIN s : deps[s[k]] - 1 = 0}}
        = {Copy(m, form, S) : m \in Ready(s)}
  BY DEF Ready, Elems
<1> QED
  BY <1>3, <1>4, <1>5 DEF d

\* Marking a list of copies sets their modes.
LEMMA MarkedCopies ==
  ASSUME NEW j, NEW s \in Seq(Nodes), NEW form, NEW S,
         DownstreamOf(j) = [i \in DOMAIN s |-> NodeJob(s[i], form)]
  PROVE  Marked(j, S) = [i \in DOMAIN s |-> Copy(s[i], form, S)]
<1> DEFINE d == DownstreamOf(j)
<1>1. DOMAIN d = DOMAIN s /\ \A i \in DOMAIN s : d[i] = NodeJob(s[i], form)
  OBVIOUS
<1> HIDE DEF d
<1>2. Marked(j, S) = [i \in DOMAIN d |->
                        [d[i] EXCEPT !.mode = IF d[i].node \in S THEN "run" ELSE "skip"]]
  BY DEF Marked, d
<1>3. ASSUME NEW i \in DOMAIN s
      PROVE  [d[i] EXCEPT !.mode = IF d[i].node \in S THEN "run" ELSE "skip"]
               = Copy(s[i], form, S)
  BY <1>1 DEF NodeJob, Copy
<1> QED
  BY <1>1, <1>2, <1>3

\* A node other than the foreach and the iterations enqueues its ready
\* dependents, if its job carries them.
LEMMA NewOfPlain ==
  ASSUME NEW j \in Jobs, j.node # Loop, j.iter = 0, NEW S
  PROVE  NewJobs(Dependents[j.node], Marked(j, S))
           = IF j.form = "bare" THEN {}
             ELSE {Copy(m, "full", S) : m \in Ready(Dependents[j.node])}
<1>1. j.node \in Nodes
  BY DEF Jobs
<1>2. Dependents[j.node] \in Seq(Nodes)
  BY <1>1, DependentsAre
<1>3. CASE j.form = "bare"
  <2>1. DOMAIN Marked(j, S) = {}
    BY <1>3 DEF Marked, DownstreamOf
  <2> QED
    BY <1>3, <2>1 DEF NewJobs
<1>4. CASE j.form # "bare"
  <2> DEFINE s == Dependents[j.node]
  <2>1. DownstreamOf(j) = [i \in DOMAIN s |-> NodeJob(s[i], "full")]
    BY <1>4 DEF DownstreamOf, FullDownstream
  <2> HIDE DEF s
  <2>2. s \in Seq(Nodes)
    BY <1>2 DEF s
  <2>3. Marked(j, S) = [i \in DOMAIN s |-> Copy(s[i], "full", S)]
    BY <2>1, <2>2, MarkedCopies
  <2>4. NewJobs(s, Marked(j, S)) = {Copy(m, "full", S) : m \in Ready(s)}
    BY <2>2, <2>3, PairedNew
  <2> QED
    BY <1>4, <2>4 DEF s
<1> QED
  BY <1>3, <1>4

\* An iteration enqueues the ready rejoins.
LEMMA NewOfBody ==
  ASSUME NEW j \in Jobs, j.node = Body, j.iter > 0, j.form # "bare", NEW S
  PROVE  NewJobs(Dependents[j.node], Marked(j, S))
           = {Copy(m, "bare", S) : m \in Ready(Rejoins)}
<1>1. DownstreamOf(j) = [i \in DOMAIN Rejoins |-> NodeJob(Rejoins[i], "bare")]
  BY DEF DownstreamOf, rejoinJobs, RejoinCopies
<1>2. Rejoins \in Seq(Nodes)
  BY Layout
<1>3. Marked(j, S) = [i \in DOMAIN Rejoins |-> Copy(Rejoins[i], "bare", S)]
  BY <1>1, <1>2, MarkedCopies
<1>4. Dependents[j.node] = Rejoins
  BY DEF Rejoins
<1> QED
  BY <1>2, <1>3, <1>4, PairedNew

\* The foreach, with the body as its only dependent, has none to decrement.
LEMMA LoopHasNone ==
  ASSUME LoopAlone
  PROVE  Dependents[Loop] = <<>>
<1>1. Dependents[Loop] \in Seq(Nodes) /\ Elems(Dependents[Loop]) = {}
  <2>1. Elems(Dependents[Loop])
          = {m \in Nodes : Loop \in Preds[m] /\ ~(Loop = Loop /\ m = Body)}
    BY Layout, DependentsAre
  <2>2. Dependents[Loop] \in Seq(Nodes)
    BY Layout, DependentsAre
  <2> QED
    BY <2>1, <2>2 DEF LoopAlone
<1>2. DOMAIN Dependents[Loop] = 1..Len(Dependents[Loop]) /\ Len(Dependents[Loop]) \in Nat
  BY <1>1
<1>3. DOMAIN Dependents[Loop] = {}
  BY <1>1 DEF Elems
<1>4. Len(Dependents[Loop]) = 0
  <2>1. 1 \notin 1..Len(Dependents[Loop])
    BY <1>2, <1>3
  <2> QED
    BY <1>2, <2>1
<1> QED
  BY <1>1, <1>4

\* A skipped foreach enqueues all its rejoins.
LEMMA NewOfLoop ==
  ASSUME LoopAlone, NEW j \in Jobs, j.node = Loop, j.iter = 0, j.form # "bare", NEW S
  PROVE  NewJobs(Dependents[j.node], Marked(j, S))
           = {Copy(m, "bare", S) : m \in Elems(Rejoins)}
<1>1. Dependents[j.node] = <<>>
  BY LoopHasNone
<1>2. Rejoins \in Seq(Nodes)
  BY Layout
<1>3. DownstreamOf(j) = [i \in DOMAIN Rejoins |-> NodeJob(Rejoins[i], "bare")]
  <2>1. DownstreamOf(j) = RejoinCopies \o <<>>
    <3>1. DownstreamOf(j) = FullDownstream(Loop)
      BY DEF DownstreamOf
    <3>2. [i \in DOMAIN Dependents[Loop] |-> NodeJob(Dependents[Loop][i], "full")] = <<>>
      BY <1>1
    <3> QED
      BY <3>1, <3>2 DEF FullDownstream
  <2>2. RejoinCopies \in Seq({NodeJob(m, "bare") : m \in Nodes})
    BY <1>2 DEF RejoinCopies
  <2>3. RejoinCopies \o <<>> = RejoinCopies
    BY <2>2
  <2> QED
    BY <2>1, <2>3 DEF RejoinCopies
<1>4. Marked(j, S) = [i \in DOMAIN Rejoins |-> Copy(Rejoins[i], "bare", S)]
  BY <1>2, <1>3, MarkedCopies
<1> DEFINE d == Marked(j, S)
<1>5. DOMAIN d = 1..Len(Rejoins) /\ \A k \in 1..Len(Rejoins) : d[k] = Copy(Rejoins[k], "bare", S)
  BY <1>2, <1>4
<1> HIDE DEF d
<1>6. NewJobs(<<>>, d) = {d[k] : k \in 1..Len(Rejoins)}
  <2>1. \A k \in 1..Len(Rejoins) : ~(k <= Len(<<>>))
    BY <1>2
  <2> QED
    BY <1>5, <2>1 DEF NewJobs
<1>7. {d[k] : k \in 1..Len(Rejoins)} = {Copy(Rejoins[k], "bare", S) : k \in 1..Len(Rejoins)}
  BY <1>5
<1>8. {Copy(Rejoins[k], "bare", S) : k \in 1..Len(Rejoins)}
        = {Copy(m, "bare", S) : m \in Elems(Rejoins)}
  BY <1>2 DEF Elems
<1> QED
  BY <1>1, <1>6, <1>7, <1>8 DEF d

\* The fan-out enqueues one body job for each element.
LEMMA NewOfFan ==
  ASSUME items \in Nat
  PROVE  NewJobs(<<>>, [i \in 1..items |-> BodyJob(i)]) = {BodyJob(i) : i \in 1..items}
<1> DEFINE d == [i \in 1..items |-> BodyJob(i)]
<1>1. DOMAIN d = 1..items /\ \A k \in 1..items : d[k] = BodyJob(k) /\ ~(k <= Len(<<>>))
  OBVIOUS
<1> HIDE DEF d
<1>2. NewJobs(<<>>, d) = {d[k] : k \in 1..items}
  BY <1>1 DEF NewJobs
<1>3. {d[k] : k \in 1..items} = {BodyJob(k) : k \in 1..items}
  BY <1>1
<1> QED
  BY <1>2, <1>3 DEF d

-----------------------------------------------------------------------------
(* Counting *)

\* Sets of ids, of nodes and of iterations are finite.
LEMMA FiniteSets ==
  /\ \A X \in SUBSET Ids : IsFiniteSet(X) /\ Cardinality(X) \in Nat
  /\ \A X \in SUBSET Nodes : IsFiniteSet(X) /\ Cardinality(X) \in Nat
  /\ \A i \in Nat : \A X \in SUBSET (1..i) : IsFiniteSet(X) /\ Cardinality(X) \in Nat
<1>1. IsFiniteSet(Nodes) /\ IsFiniteSet(0..MaxItems)
  BY OrderFacts, FS_Interval, ForeachAssumption
<1>2. IsFiniteSet(Ids)
  BY <1>1, FS_Product DEF Ids
<1>3. \A i \in Nat : IsFiniteSet(1..i)
  BY FS_Interval
<1> QED
  BY <1>1, <1>2, <1>3, FS_Subset, FS_CardinalityType

\* A set without one of its members has one fewer, and none left if it had one.
LEMMA OneLess ==
  ASSUME NEW X, IsFiniteSet(X), NEW x \in X
  PROVE  /\ Cardinality(X \ {x}) = Cardinality(X) - 1
         /\ Cardinality(X) = 1 <=> X \ {x} = {}
<1>1. IsFiniteSet(X \ {x}) /\ Cardinality(X \ {x}) = Cardinality(X) - 1
  BY FS_RemoveElement
<1>2. Cardinality(X) \in Nat /\ Cardinality(X \ {x}) \in Nat
  BY <1>1, FS_CardinalityType
<1>3. Cardinality(X \ {x}) = 0 <=> X \ {x} = {}
  BY <1>1, FS_EmptySet
<1> QED
  BY <1>1, <1>2, <1>3

\* What CommitNodeAtom does to the store, but for the counters of dependents.
Effect(new, res) ==
  /\ h.pc = "commit" /\ h' = [h EXCEPT !.pc = "readPending"]
  /\ result' = [result EXCEPT ![Id(h.job)] = res]
  /\ queue' = queue \cup new
  /\ issued' = [id \in Ids |-> issued[id] + Cardinality({k \in new : Id(k) = id})]
  /\ pending' = pending + Cardinality(new) - 1
  /\ UNCHANGED <<items, status, crashes, lost, got>>

\* The new jobs have ids that no job had before, one each.
Fresh(new) ==
  /\ new \in SUBSET Jobs
  /\ \A k, l \in new : Id(k) = Id(l) => k = l
  /\ \A k \in new : issued[Id(k)] = 0

\* The id of a job.
LEMMA IdType == \A j \in Jobs : Id(j) \in Ids /\ j.node \in Nodes /\ j.iter \in 0..MaxItems
BY DEF Jobs, Id, Ids

(***************************************************************************)
(* A commit closes the id in hand and opens those of the new jobs, and the *)
(* change of pending is that difference (CommitNodeAtom, AdjustPending).   *)
(***************************************************************************)
LEMMA CommitCounts ==
  ASSUME BaseTypeOK, JobInv, OnceInv, PendingInv,
         NEW new, NEW res \in {"ok", "skipped"}, Effect(new, res), Fresh(new)
  PROVE  /\ Id(h.job) \in Open /\ h.job \in Jobs
         /\ Done' = Done \cup {Id(h.job)}
         /\ \A id \in Ids : issued'[id] = IF id \in {Id(k) : k \in new} THEN 1 ELSE issued[id]
         /\ issued' \in [Ids -> Nat]
         /\ OnceInv'
         /\ Open' = (Open \ {Id(h.job)}) \cup {Id(k) : k \in new}
         /\ PendingInv'
         /\ \A j, k \in queue' : Id(j) = Id(k) => j = k
<1> DEFINE id0 == Id(h.job)
           new0 == {Id(k) : k \in new}
<1>1. h.pc = "commit" /\ h' = [h EXCEPT !.pc = "readPending"] /\ queue' = queue \cup new
  BY DEF Effect
<1>2. result' = [result EXCEPT ![Id(h.job)] = res]
  BY DEF Effect
<1>3. issued' = [id \in Ids |-> issued[id] + Cardinality({k \in new : Id(k) = id})]
  BY DEF Effect
<1>4. pending' = pending + Cardinality(new) - 1
  BY DEF Effect
<1>5. new \in SUBSET Jobs /\ (\A k, l \in new : Id(k) = Id(l) => k = l)
      /\ \A k \in new : issued[Id(k)] = 0
  BY DEF Fresh
<1>6. /\ id0 \in Open /\ h.job \in Jobs
      /\ h' \in [pc : Steps, job : Jobs, at : 1..(Len(Rejoins) + 1)]
      /\ \A j \in queue : Id(j) # id0 /\ Id(j) \in Open
  <2>1. InHand
    BY <1>1 DEF InHand
  <2>2. h.job \in Jobs /\ h' \in [pc : Steps, job : Jobs, at : 1..(Len(Rejoins) + 1)]
    BY <1>1 DEF BaseTypeOK, Steps
  <2> QED
    BY <2>1, <2>2 DEF JobInv, Good
<1>7. id0 \in Ids /\ id0 \notin Done /\ issued[id0] = 1 /\ Open \in SUBSET Ids
  BY <1>6 DEF Open
<1>8. Done' = Done \cup {id0}
  <2>1. result \in [Ids -> Results]
    BY DEF BaseTypeOK
  <2>2. \A id \in Ids : result'[id] = IF id = id0 THEN res ELSE result[id]
    BY <1>2, <2>1
  <2> HIDE DEF id0
  <2> QED
    BY <1>7, <2>2 DEF Done
<1>9. new0 \in SUBSET Ids /\ new0 \cap Open = {} /\ new0 \cap Done = {}
  <2>1. \A k \in new : Id(k) \in Ids
    BY <1>5, IdType
  <2>2. \A id \in new0 : issued[id] = 0
    BY <1>5
  <2>3. \A id \in Open \cup Done : issued[id] = 1
    BY DEF OnceInv, Open
  <2> QED
    BY <2>1, <2>2, <2>3
<1>10. IsFiniteSet(new) /\ Cardinality(new) = Cardinality(new0)
  <2> DEFINE f == [k \in new |-> Id(k)]
  <2>1. f \in Injection(new, new0)
    BY <1>5 DEF Injection, IsInjective
  <2>2. IsFiniteSet(new0)
    BY <1>9, FiniteSets
  <2>3. f \in Surjection(new, new0)
    BY DEF Surjection
  <2> HIDE DEF f, new0
  <2> QED
    BY <2>1, <2>2, <2>3, FS_Injection
<1>11. ASSUME NEW id \in Ids
       PROVE  Cardinality({k \in new : Id(k) = id}) = IF id \in new0 THEN 1 ELSE 0
  <2>1. CASE id \in new0
    <3>1. PICK k \in new : Id(k) = id
      BY <2>1
    <3>2. {l \in new : Id(l) = id} = {k}
      BY <1>5, <3>1
    <3> QED
      BY <2>1, <3>2, FS_Singleton
  <2>2. CASE id \notin new0
    <3>1. {l \in new : Id(l) = id} = {}
      BY <2>2
    <3> QED
      BY <2>2, <3>1, FS_EmptySet
  <2> QED
    BY <2>1, <2>2
<1>12. ASSUME NEW id \in Ids
       PROVE  issued'[id] = IF id \in new0 THEN 1 ELSE issued[id]
  <2>1. issued'[id] = issued[id] + Cardinality({k \in new : Id(k) = id})
    BY <1>3
  <2>2. issued[id] \in Nat
    BY DEF BaseTypeOK
  <2>3. CASE id \in new0
    <3>1. issued[id] = 0
      BY <1>5, <2>3
    <3> QED
      BY <1>11, <2>1, <2>3, <3>1
  <2>4. CASE id \notin new0
    BY <1>11, <2>1, <2>2, <2>4
  <2> QED
    BY <2>3, <2>4
<1>13. issued' \in [Ids -> Nat]
  <2>1. \A id \in Ids : issued'[id] \in Nat
    BY <1>12 DEF BaseTypeOK
  <2>2. issued' = [id \in Ids |-> issued'[id]]
    BY <1>3
  <2> QED
    BY <2>1, <2>2
<1> HIDE DEF id0, new0
<1>14. OnceInv'
  <2>1. \A id \in Ids : issued'[id] \in {0, 1}
    BY <1>12 DEF OnceInv
  <2>2. ASSUME NEW id \in Done' PROVE issued'[id] = 1
    <3>1. id \in Ids /\ (id \in Done \/ id = id0)
      BY <1>7, <1>8 DEF Done
    <3>2. issued[id] = 1
      BY <1>7, <3>1 DEF OnceInv
    <3> QED
      BY <1>12, <3>1, <3>2
  <2> QED
    BY <2>1, <2>2 DEF OnceInv
<1>15. Open' = (Open \ {id0}) \cup new0
  <2>1. Open' = {id \in Ids : issued'[id] = 1 /\ id \notin Done'}
    BY DEF Open
  <2>2. \A id \in Ids : (issued'[id] = 1 /\ id \notin Done')
                          <=> (id \in (Open \ {id0}) \cup new0)
    <3> TAKE id \in Ids
    <3>1. id \in Open <=> issued[id] = 1 /\ id \notin Done
      BY DEF Open
    <3>2. id \in new0 => id # id0
      BY <1>6, <1>9 DEF id0
    <3> QED
      BY <1>8, <1>9, <1>12, <3>1, <3>2
  <2>3. (Open \ {id0}) \cup new0 \in SUBSET Ids
    BY <1>7, <1>9
  <2> QED
    BY <2>1, <2>2, <2>3
<1>16. pending' = Cardinality(Open')
  <2>1. IsFiniteSet(Open) /\ IsFiniteSet(new0) /\ Cardinality(new0) \in Nat
        /\ Cardinality(Open) \in Nat
    BY <1>7, <1>9, FiniteSets
  <2>2. IsFiniteSet(Open \ {id0}) /\ Cardinality(Open \ {id0}) = Cardinality(Open) - 1
    BY <1>6, <2>1, FS_RemoveElement DEF id0
  <2>3. (Open \ {id0}) \cap new0 = {}
    BY <1>9
  <2>4. Cardinality((Open \ {id0}) \cap new0) = 0
    BY <2>3, FS_EmptySet
  <2>5. Cardinality((Open \ {id0}) \cup new0)
          = Cardinality(Open \ {id0}) + Cardinality(new0)
              - Cardinality((Open \ {id0}) \cap new0)
    BY <2>1, <2>2, FS_Union
  <2>6. Cardinality((Open \ {id0}) \cup new0) = Cardinality(Open) - 1 + Cardinality(new0)
    BY <2>1, <2>2, <2>4, <2>5
  <2>7. pending = Cardinality(Open)
    BY DEF PendingInv
  <2>8. pending' = Cardinality(Open) + Cardinality(new0) - 1
    BY <1>4, <1>10, <2>7
  <2>9. Cardinality(Open') = Cardinality((Open \ {id0}) \cup new0)
    BY <1>15
  <2> QED
    BY <2>1, <2>6, <2>8, <2>9
<1>17. PendingInv'
  <2>1. h'.pc = "readPending" /\ status' = status
    BY <1>1 DEF BaseTypeOK, Effect
  <2>2. status # "completed"
    <3>1. Open # {} /\ IsFiniteSet(Open)
      BY <1>6, <1>7, FiniteSets
    <3>2. Cardinality(Open) # 0
      BY <3>1, FS_EmptySet
    <3> QED
      BY <3>2 DEF PendingInv
  <2> QED
    BY <1>16, <2>1, <2>2 DEF PendingInv
<1>18. ASSUME NEW j \in queue', NEW k \in queue', Id(j) = Id(k) PROVE j = k
  <2>1. \A l \in new : Id(l) \in new0
    BY DEF new0
  <2>2. \A l \in queue : Id(l) \in Open
    BY <1>6
  <2> QED
    BY <1>1, <1>5, <1>9, <1>18, <2>1, <2>2 DEF JobInv
<1> QED
  BY <1>6, <1>8, <1>12, <1>13, <1>14, <1>15, <1>17, <1>18 DEF id0, new0

-----------------------------------------------------------------------------
(* A commit preserves the invariant *)

\* CommitNodeAtom in terms of the jobs it enqueues.
LEMMA CommitIsEffect ==
  ASSUME NEW res, NEW s, NEW d, CommitNodeAtom(res, s, d)
  PROVE  /\ Effect(NewJobs(s, d), res)
         /\ deps' = [m \in Nodes |-> IF m \in Elems(s) THEN deps[m] - 1 ELSE deps[m]]
BY DEF CommitNodeAtom, Effect, Goto, ResultId, Id, PendingAfter

\* What the new jobs must be.
NewGood(new) ==
  \A k \in new :
    /\ k.form = "bare" => IsRejoin(k.node)
    /\ k.iter > 0 => k.mode = "run"
    /\ IsRejoin(k.node) /\ k.mode = "run" => result'[<<Loop, 0>>] # "skipped"

(***************************************************************************)
(* The parts of the invariant that a commit keeps in the same way whatever *)
(* the node.  A job of a rejoin is on the queue only once the foreach has  *)
(* committed, so no commit of the foreach makes it wrong.                  *)
(***************************************************************************)
LEMMA CommitRest ==
  ASSUME IInv, NEW new, NEW res \in {"ok", "skipped"}, Effect(new, res), Fresh(new),
         NewGood(new), deps' \in [Nodes -> Int],
         res = "ok" <=> h.job.mode = "run"
  PROVE  BaseTypeOK' /\ JobInv' /\ HandlerInv' /\ RejoinCollectsAll'
<1>1. h.pc = "commit" /\ h' = [h EXCEPT !.pc = "readPending"] /\ queue' = queue \cup new
  BY DEF Effect
<1>2. result' = [result EXCEPT ![Id(h.job)] = res]
  BY DEF Effect
<1>3. items' = items /\ status' = status /\ crashes' = crashes /\ lost' = lost /\ got' = got
  BY DEF Effect
<1>4. new \in SUBSET Jobs
  BY DEF Fresh
<1>5. /\ Id(h.job) \in Open /\ h.job \in Jobs
      /\ Done' = Done \cup {Id(h.job)}
      /\ issued' \in [Ids -> Nat]
      /\ Open' = (Open \ {Id(h.job)}) \cup {Id(k) : k \in new}
      /\ PendingInv'
      /\ \A j, k \in queue' : Id(j) = Id(k) => j = k
  BY CommitCounts DEF IInv
<1>6. BaseTypeOK /\ JobInv /\ HandlerInv /\ InHand
  BY <1>1 DEF IInv, InHand
<1>7. h' \in [pc : Steps, job : Jobs, at : 1..(Len(Rejoins) + 1)] /\ h'.pc = "readPending"
  BY <1>1, <1>6 DEF BaseTypeOK, Steps
<1>8. result' \in [Ids -> Results]
  BY <1>2, <1>6 DEF BaseTypeOK, Results
<1>9. pending' \in Int
  <2>1. Open' \in SUBSET Ids
    BY DEF Open
  <2>2. pending' = Cardinality(Open')
    BY <1>5 DEF PendingInv
  <2>3. Cardinality(Open') \in Nat
    BY <2>1, FiniteSets
  <2> QED
    BY <2>2, <2>3
<1>10. BaseTypeOK'
  BY <1>1, <1>3, <1>4, <1>5, <1>6, <1>7, <1>8, <1>9 DEF BaseTypeOK
<1>11. ~InHand'
  BY <1>7 DEF InHand
<1>12. ASSUME NEW j \in queue' PROVE Good(j)'
  <2>1. CASE j \in new
    <3>1. Id(j) \in Open'
      BY <1>5, <2>1
    <3> QED
      BY <2>1, <3>1 DEF Good, NewGood, Skipped, Id
  <2>2. CASE j \in queue
    <3>1. Good(j) /\ Id(j) # Id(h.job) /\ j \in Jobs
      BY <1>6, <2>2 DEF JobInv, BaseTypeOK
    <3>2. Id(j) \in Open'
      BY <1>5, <3>1 DEF Good
    <3>3. ASSUME IsRejoin(j.node), j.mode = "run" PROVE ~Skipped'
      <4>1. issued[Id(j)] = 1 /\ ~Skipped
        BY <3>1, <3>3 DEF Good, Open
      <4>2. j.iter = 0
        <5>1. j.iter \in 0..MaxItems /\ j.node \in Nodes /\ j.node # Body
          BY <3>1, <3>3, IdType, Layout
        <5>2. issued[<<j.node, j.iter>>] = 1
          BY <4>1 DEF Id
        <5>3. j.iter \notin 1..MaxItems
          BY <5>1, <5>2 DEF IInv, IterInv
        <5> QED
          BY <5>1, <5>3, ForeachAssumption
      <4>3. FannedOut
        BY <3>3, <4>1, <4>2, Layout DEF IInv, RejoinInv, Id
      <4>4. Id(h.job) # <<Loop, 0>>
        BY <1>5, <4>3 DEF FannedOut, Open, Done
      <4>5. <<Loop, 0>> \in Ids
        BY Layout, ForeachAssumption DEF Ids
      <4> QED
        BY <1>2, <1>6, <4>3, <4>4, <4>5 DEF BaseTypeOK, FannedOut, Skipped
    <3> QED
      BY <3>1, <3>2, <3>3 DEF Good, Id
  <2> QED
    BY <1>1, <2>1, <2>2
<1>13. JobInv'
  BY <1>5, <1>11, <1>12 DEF JobInv
<1>14. HandlerInv'
  BY <1>7 DEF HandlerInv
<1>15. RejoinCollectsAll'
  <2> SUFFICES ASSUME NEW n \in Nodes, IsRejoin(n), result'[<<n, 0>>] = "ok"
               PROVE  got'[n] = [i \in 1..items' |-> "ok"]
    BY DEF RejoinCollectsAll
  <2>1. <<n, 0>> \in Ids
    BY ForeachAssumption DEF Ids
  <2>2. CASE Id(h.job) = <<n, 0>>
    <3>1. h.job.node = n /\ res = "ok"
      BY <1>2, <1>6, <2>1, <2>2 DEF Id, BaseTypeOK
    <3> QED
      BY <1>1, <1>3, <1>6, <3>1 DEF HandlerInv
  <2>3. CASE Id(h.job) # <<n, 0>>
    <3>1. result[<<n, 0>>] = "ok"
      BY <1>2, <1>6, <2>1, <2>3 DEF BaseTypeOK
    <3> QED
      BY <1>3, <3>1 DEF IInv, RejoinCollectsAll
  <2> QED
    BY <2>2, <2>3
<1> QED
  BY <1>10, <1>13, <1>14, <1>15

\* Copies of nodes that were not enqueued before are fresh.
LEMMA FreshCopies ==
  ASSUME NEW form \in {"full", "bare"}, NEW S, NEW new,
         \A k \in new : /\ k = Copy(k.node, form, S)
                        /\ k.node \in Nodes
                        /\ issued[<<k.node, 0>>] = 0
  PROVE  Fresh(new)
<1>1. ASSUME NEW k \in new PROVE k \in Jobs /\ Id(k) = <<k.node, 0>>
  <2>1. PICK m \in Nodes : k = Copy(m, form, S)
    OBVIOUS
  <2>2. (IF m \in S THEN "run" ELSE "skip") \in {"run", "skip"}
    OBVIOUS
  <2>3. 0 \in 0..MaxItems /\ 0 \in 0..MaxAttempts
    BY ForeachAssumption
  <2>4. k \in Jobs
    BY <2>1, <2>2, <2>3 DEF Jobs, Copy
  <2> QED
    BY <2>1, <2>4 DEF Id, Copy
<1>2. new \in SUBSET Jobs
  BY <1>1
<1>3. ASSUME NEW k \in new, NEW l \in new, Id(k) = Id(l) PROVE k = l
  <2>1. k.node = l.node
    BY <1>1, <1>3
  <2> QED
    BY <2>1
<1>4. \A k \in new : issued[Id(k)] = 0
  BY <1>1
<1> QED
  BY <1>2, <1>3, <1>4 DEF Fresh

\* The ids of what is in hand when a commit is made.
LEMMA HandFacts ==
  ASSUME IInv, InHand
  PROVE  /\ h.job \in Jobs /\ Good(h.job) /\ Id(h.job) \in Open
         /\ h.job.node \in Nodes /\ h.job.iter \in 0..MaxItems
         /\ h.job.node # Body => h.job.iter = 0
         /\ h.job.node = Body => h.job.iter \in 1..items /\ FannedOut /\ h.job.mode = "run"
         /\ h.job.form = "bare" => IsRejoin(h.job.node)
<1>1. h.job \in Jobs /\ Good(h.job) /\ Id(h.job) \in Open
  BY DEF IInv, JobInv, BaseTypeOK, Good
<1>2. h.job.node \in Nodes /\ h.job.iter \in 0..MaxItems
  BY <1>1, IdType
<1>3. issued[<<h.job.node, h.job.iter>>] = 1
  BY <1>1 DEF Open, Id
<1>4. ASSUME h.job.iter # 0 PROVE h.job.node = Body /\ h.job.iter <= items /\ FannedOut
  <2>1. h.job.iter \in 1..MaxItems
    BY <1>2, <1>4, ForeachAssumption
  <2> QED
    BY <1>2, <1>3, <2>1 DEF IInv, IterInv
<1>5. ASSUME h.job.node = Body PROVE h.job.iter # 0
  BY <1>3, <1>5 DEF IInv, IterInv
<1>6. items \in Nat /\ MaxItems \in Nat
  BY ForeachAssumption DEF IInv, BaseTypeOK
<1>7. h.job.node = Body => h.job.iter \in 1..items /\ FannedOut
  BY <1>2, <1>4, <1>5, <1>6
<1>8. h.job.node = Body => h.job.mode = "run"
  BY <1>1, <1>2, <1>5, <1>6 DEF Good
<1> QED
  BY <1>1, <1>2, <1>4, <1>7, <1>8 DEF Good

\* The same in a commit.
LEMMA CommitHand ==
  ASSUME IInv, h.pc = "commit"
  PROVE  /\ h.job \in Jobs /\ Good(h.job) /\ Id(h.job) \in Open
         /\ h.job.node \in Nodes /\ h.job.iter \in 0..MaxItems
         /\ h.job.node # Body => h.job.iter = 0
         /\ h.job.node = Body => h.job.iter \in 1..items /\ FannedOut /\ h.job.mode = "run"
         /\ h.job.form = "bare" => IsRejoin(h.job.node)
BY HandFacts DEF InHand

(***************************************************************************)
(* The commit of a plain node, a switch or a rejoin, run or skipped: the   *)
(* dependents wait for one node less, and the ones that waited for this    *)
(* node alone are enqueued, unless it is a rejoin.                         *)
(***************************************************************************)
LEMMA CommitPlain ==
  ASSUME LoopAlone, IInv, NEW res \in {"ok", "skipped"}, NEW S,
         res = "ok" <=> h.job.mode = "run",
         h.job.node # Loop, h.job.node # Body,
         CommitNodeAtom(res, Dependents[h.job.node], Marked(h.job, S))
  PROVE  IInv'
<1>1. PICK x : x = h.job.node
  OBVIOUS
<1>2. PICK new : new = NewJobs(Dependents[h.job.node], Marked(h.job, S))
  OBVIOUS
<1>3. /\ Effect(new, res)
      /\ deps' = [m \in Nodes |-> IF m \in Elems(Dependents[x]) THEN deps[m] - 1 ELSE deps[m]]
  BY <1>1, <1>2, CommitIsEffect
<1>4. h.pc = "commit"
  BY <1>3 DEF Effect
<1>5. /\ h.job \in Jobs /\ Id(h.job) = <<x, 0>> /\ <<x, 0>> \in Open /\ h.job.iter = 0
      /\ x \in Nodes /\ x # Loop /\ x # Body /\ (h.job.form = "bare" => IsRejoin(x))
  BY <1>1, <1>4, CommitHand DEF Id
<1>6. new = IF h.job.form = "bare" THEN {}
            ELSE {Copy(m, "full", S) : m \in Ready(Dependents[x])}
  BY <1>1, <1>2, <1>5, NewOfPlain
<1>7. \A n \in Nodes : n \in Elems(Dependents[x]) <=> x \in Preds[n]
  <2>1. Elems(Dependents[x]) = {m \in Nodes : x \in Preds[m] /\ ~(x = Loop /\ m = Body)}
    BY <1>5, DependentsAre
  <2> QED
    BY <1>5, <2>1
<1>8. \A n \in Nodes : x \in Preds[n] => ~IsRejoin(n)
  BY <1>5, Layout DEF LoopAlone
<1>9. \A n \in Nodes : IsFiniteSet(Waits(n)) /\ (x \in Preds[n] <=> x \in Waits(n))
  <2>1. \A n \in Nodes : Waits(n) \in SUBSET Nodes
    BY ForeachAssumption DEF Waits
  <2>2. <<x, 0>> \notin Done
    BY <1>5 DEF Open
  <2> QED
    BY <2>1, <2>2, FiniteSets DEF Waits
<1>10. \A m \in Ready(Dependents[x]) :
         /\ m \in Nodes /\ x \in Preds[m] /\ ~IsRejoin(m) /\ m # Body
         /\ Waits(m) \ {x} = {} /\ Waits(m) # {} /\ issued[<<m, 0>>] = 0
  <2> TAKE m \in Ready(Dependents[x])
  <2>1. m \in Nodes /\ x \in Preds[m] /\ ~IsRejoin(m) /\ deps[m] - 1 = 0
    <3>1. m \in Elems(Dependents[x]) /\ deps[m] - 1 = 0
      BY DEF Ready
    <3>2. Elems(Dependents[x]) \subseteq Nodes
      BY <1>5, DependentsAre
    <3> QED
      BY <1>7, <1>8, <3>1, <3>2
  <2>2. deps[m] = Cardinality(Waits(m)) /\ deps[m] \in Int
    BY <2>1 DEF IInv, DepsInv, BaseTypeOK
  <2>3. x \in Waits(m) /\ Waits(m) \ {x} = {}
    <3>1. x \in Waits(m) /\ IsFiniteSet(Waits(m)) /\ Cardinality(Waits(m)) = 1
      BY <1>9, <2>1, <2>2
    <3> QED
      BY <3>1, OneLess
  <2>4. m # Body
    <3>1. Loop \in Waits(Body)
      BY ForeachAssumption DEF Waits
    <3> QED
      BY <1>5, <2>3, <3>1
  <2>5. ~MayStart(m)
    BY <2>1, <2>3, Layout DEF MayStart
  <2>6. issued[<<m, 0>>] # 1 /\ <<m, 0>> \in Ids
    <3>1. <<m, 0>> \in Ids
      BY <2>1, ForeachAssumption DEF Ids
    <3>2. issued[<<m, 0>>] # 1
      BY <2>1, <2>4, <2>5 DEF IInv, PlainInv
    <3> QED
      BY <3>1, <3>2
  <2>7. issued[<<m, 0>>] = 0
    BY <2>6 DEF IInv, OnceInv
  <2> QED
    BY <2>1, <2>3, <2>4, <2>7
<1>11. \A k \in new : \E m \in Ready(Dependents[x]) : k = Copy(m, "full", S)
  BY <1>6
<1>12. Fresh(new) /\ NewGood(new)
  <2>1. \A k \in new : \E m \in Ready(Dependents[x]) : k = Copy(m, "full", S)
    BY <1>6
  <2>2. \A k \in new : /\ k.node \in Ready(Dependents[x]) /\ k = Copy(k.node, "full", S)
                       /\ k.form = "full" /\ k.iter = 0
                       /\ k.mode = IF k.node \in S THEN "run" ELSE "skip"
    BY <2>1 DEF Copy
  <2>3. ASSUME NEW k \in new
        PROVE  k.node \in Nodes /\ issued[<<k.node, 0>>] = 0 /\ ~IsRejoin(k.node)
    BY <2>2, <1>10, Zenon
  <2>4. Fresh(new)
    <3>1. \A k \in new : /\ k = Copy(k.node, "full", S)
                         /\ k.node \in Nodes
                         /\ issued[<<k.node, 0>>] = 0
      BY <2>2, <2>3, Zenon
    <3> QED
      BY <3>1, FreshCopies
  <2>5. \A k \in new : k.form # "bare" /\ ~(k.iter > 0)
    BY <2>2
  <2>6. NewGood(new)
    BY <2>3, <2>5, Zenon DEF NewGood
  <2> QED
    BY <2>4, <2>6
<1>13. deps' \in [Nodes -> Int]
  BY <1>3 DEF IInv, BaseTypeOK
<1>14. BaseTypeOK' /\ JobInv' /\ HandlerInv' /\ RejoinCollectsAll'
  BY <1>3, <1>12, <1>13, CommitRest
<1>15. /\ Done' = Done \cup {<<x, 0>>}
       /\ \A id \in Ids : issued'[id] = IF id \in {Id(k) : k \in new} THEN 1 ELSE issued[id]
       /\ OnceInv' /\ PendingInv'
  BY <1>3, <1>5, <1>12, CommitCounts DEF IInv
<1>16. \A n \in Nodes, i \in 0..MaxItems :
         <<n, i>> \in {Id(k) : k \in new}
           <=> (i = 0 /\ h.job.form # "bare" /\ n \in Ready(Dependents[x]))
  <2>1. \A m : Id(Copy(m, "full", S)) = <<m, 0>>
    BY DEF Copy, Id
  <2> QED
    BY <1>6, <2>1
<1>17. \A id \in Ids : id # <<x, 0>> => result'[id] = result[id]
  BY <1>3, <1>5 DEF Effect, IInv, BaseTypeOK
<1>18. /\ result'[<<Loop, 0>>] = result[<<Loop, 0>>]
       /\ (FannedOut' <=> FannedOut) /\ (Skipped' <=> Skipped)
       /\ items' = items
  <2>1. <<Loop, 0>> \in Ids
    BY Layout, ForeachAssumption DEF Ids
  <2> QED
    BY <1>3, <1>5, <1>17, <2>1 DEF FannedOut, Skipped, Effect
<1>19. Left' = Left
  BY <1>5, <1>15, <1>18 DEF Left
<1>20. \A n \in Nodes : Waits(n)' = Waits(n) \ {x}
  BY <1>5, <1>15 DEF Waits
<1>21. DepsInv'
  <2> SUFFICES ASSUME NEW n \in Nodes
               PROVE  IF ~IsRejoin(n) THEN deps'[n] = Cardinality(Waits(n)')
                      ELSE IF FannedOut' THEN deps'[n] = Cardinality(Left')
                      ELSE deps'[n] \in {1, items'}
    BY DEF DepsInv
  <2>1. IF ~IsRejoin(n) THEN deps[n] = Cardinality(Waits(n))
        ELSE IF FannedOut THEN deps[n] = Cardinality(Left)
        ELSE deps[n] \in {1, items}
    BY DEF IInv, DepsInv
  <2>2. CASE x \in Preds[n]
    <3>1. deps'[n] = deps[n] - 1 /\ ~IsRejoin(n)
      BY <1>3, <1>7, <1>8, <2>2
    <3>2. Cardinality(Waits(n) \ {x}) = Cardinality(Waits(n)) - 1
      BY <1>9, <2>2, OneLess
    <3> QED
      BY <1>20, <2>1, <3>1, <3>2
  <2>3. CASE x \notin Preds[n]
    <3>1. deps'[n] = deps[n]
      BY <1>3, <1>7, <2>3
    <3>2. Waits(n)' = Waits(n)
      BY <1>9, <1>20, <2>3
    <3> QED
      BY <1>18, <1>19, <2>1, <3>1, <3>2
  <2> QED
    BY <2>2, <2>3
<1>22. \A n \in Nodes : <<n, 0>> \in Ids /\ 0 \in 0..MaxItems
  BY ForeachAssumption DEF Ids
<1>23. IterInv'
  <2>1. issued'[<<Body, 0>>] = 0
    <3>1. issued[<<Body, 0>>] = 0 /\ Body \in Nodes
      BY Layout DEF IInv, IterInv
    <3> QED
      BY <1>10, <1>15, <1>16, <1>22, <3>1
  <2>2. ASSUME NEW n \in Nodes, NEW i \in 1..MaxItems
        PROVE  issued'[<<n, i>>] = issued[<<n, i>>] /\ result'[<<n, i>>] = result[<<n, i>>]
    <3>1. <<n, i>> \in Ids /\ i \in 0..MaxItems /\ i # 0
      BY ForeachAssumption DEF Ids
    <3> QED
      BY <1>15, <1>16, <1>17, <3>1
  <2> QED
    BY <1>18, <2>1, <2>2 DEF IInv, IterInv
<1>24. RejoinInv'
  <2> SUFFICES ASSUME NEW n \in Nodes, IsRejoin(n)
               PROVE  issued'[<<n, 0>>] = 1
                        <=> (Skipped' \/ (FannedOut' /\ items' > 0 /\ Left' = {}))
    BY DEF RejoinInv
  <2>1. issued'[<<n, 0>>] = issued[<<n, 0>>]
    BY <1>10, <1>15, <1>16, <1>22
  <2> QED
    BY <1>18, <1>19, <2>1 DEF IInv, RejoinInv
<1>25. PlainInv'
  <2> SUFFICES ASSUME NEW n \in Nodes \ {Body}, ~IsRejoin(n)
               PROVE  /\ issued'[<<n, 0>>] = 1 => MayStart(n)'
                      /\ MayStart(n)' /\ (\A m \in Preds[n] : ~IsRejoin(m))
                           => issued'[<<n, 0>>] = 1
    BY DEF PlainInv
  <2>1. /\ issued[<<n, 0>>] = 1 => MayStart(n)
        /\ MayStart(n) /\ (\A m \in Preds[n] : ~IsRejoin(m)) => issued[<<n, 0>>] = 1
    BY DEF IInv, PlainInv
  <2>2. MayStart(n)' <=> (n = HeadNode \/ (Preds[n] # {} /\ Waits(n) \ {x} = {}))
    BY <1>20 DEF MayStart
  <2>3. issued'[<<n, 0>>] = 1 => MayStart(n)'
    <3>1. CASE n \in Ready(Dependents[x])
      BY <1>10, <2>2, <3>1
    <3>2. CASE n \notin Ready(Dependents[x])
      <4>1. issued'[<<n, 0>>] = issued[<<n, 0>>]
        BY <1>15, <1>16, <1>22, <3>2
      <4>2. MayStart(n) => MayStart(n)'
        BY <2>2 DEF MayStart
      <4> QED
        BY <2>1, <4>1, <4>2
    <3> QED
      BY <3>1, <3>2
  <2>4. ASSUME MayStart(n)', \A m \in Preds[n] : ~IsRejoin(m) PROVE issued'[<<n, 0>>] = 1
    <3>1. CASE MayStart(n)
      BY <1>15, <1>22, <2>1, <2>4, <3>1
    <3>2. CASE ~MayStart(n)
      <4>1. x \in Waits(n) /\ Waits(n) \ {x} = {}
        BY <2>2, <2>4, <3>2 DEF MayStart
      <4>2. x \in Preds[n] /\ h.job.form # "bare"
        BY <1>5, <1>9, <2>4, <4>1
      <4>3. deps[n] = Cardinality(Waits(n)) /\ Cardinality(Waits(n)) = 1
        BY <1>9, <4>1, OneLess DEF IInv, DepsInv
      <4>4. n \in Ready(Dependents[x])
        BY <1>7, <4>2, <4>3 DEF Ready
      <4> QED
        BY <1>15, <1>16, <1>22, <4>2, <4>4
    <3> QED
      BY <3>1, <3>2
  <2> QED
    BY <2>3, <2>4
<1> QED
  BY <1>14, <1>15, <1>21, <1>23, <1>24, <1>25 DEF IInv

(***************************************************************************)
(* The commit of an iteration: each rejoin waits for one iteration less,   *)
(* and the last one enqueues them all.                                     *)
(***************************************************************************)
LEMMA CommitBody ==
  ASSUME LoopAlone, IInv, NEW S, h.job.node = Body,
         CommitNodeAtom("ok", Dependents[h.job.node], Marked(h.job, S))
  PROVE  IInv'
<1>1. PICK i : i = h.job.iter
  OBVIOUS
<1>2. PICK new : new = NewJobs(Dependents[h.job.node], Marked(h.job, S))
  OBVIOUS
<1>3. /\ Effect(new, "ok")
      /\ deps' = [m \in Nodes |-> IF m \in Elems(Rejoins) THEN deps[m] - 1 ELSE deps[m]]
  BY <1>2, CommitIsEffect DEF Rejoins
<1>4. h.pc = "commit"
  BY <1>3 DEF Effect
<1>5. /\ h.job \in Jobs /\ Id(h.job) = <<Body, i>> /\ <<Body, i>> \in Open
      /\ i \in 1..items /\ FannedOut /\ h.job.mode = "run" /\ h.job.form # "bare"
  BY <1>1, <1>4, CommitHand, Layout DEF Id
<1>6. items \in Nat /\ i \in Nat /\ i > 0 /\ items > 0 /\ ~Skipped
  BY <1>5, ForeachAssumption DEF IInv, BaseTypeOK, FannedOut, Skipped
<1>7. PICK R : R = Ready(Rejoins)
  OBVIOUS
<1>8. new = {Copy(m, "bare", S) : m \in R}
  BY <1>7, <1>1, <1>2, <1>5, <1>6, NewOfBody
<1>9. i \in Left /\ IsFiniteSet(Left)
  <2>1. Left \in SUBSET (1..items)
    BY DEF Left
  <2> QED
    BY <1>5, <1>6, <2>1, FiniteSets DEF Left, Open
<1>10. \A n \in Nodes : IsRejoin(n) => deps[n] = Cardinality(Left)
  BY <1>5 DEF IInv, DepsInv
<1>11. \A n : n \in R <=> (IsRejoin(n) /\ Left \ {i} = {})
  <2> TAKE n
  <2>1. n \in R <=> (IsRejoin(n) /\ deps[n] - 1 = 0)
    BY <1>7 DEF Ready, IsRejoin
  <2>2. IsRejoin(n) => n \in Nodes
    BY Layout
  <2>3. Cardinality(Left) \in Nat /\ (Cardinality(Left) = 1 <=> Left \ {i} = {})
    BY <1>9, OneLess, FS_CardinalityType
  <2> QED
    BY <1>10, <2>1, <2>2, <2>3
<1>12. \A n \in Nodes : <<n, 0>> \in Ids /\ 0 \in 0..MaxItems
  BY ForeachAssumption DEF Ids
<1>13. R \in SUBSET Nodes /\ \A m \in R : IsRejoin(m) /\ issued[<<m, 0>>] = 0
  <2>1. R \in SUBSET Nodes /\ \A m \in R : IsRejoin(m)
    BY <1>11, Layout
  <2>2. ASSUME NEW m \in R PROVE issued[<<m, 0>>] = 0
    <3>1. m \in Nodes /\ IsRejoin(m)
      BY <2>1
    <3>2. issued[<<m, 0>>] # 1
      BY <1>6, <1>9, <3>1 DEF IInv, RejoinInv
    <3> QED
      BY <1>12, <3>1, <3>2 DEF IInv, OnceInv
  <2> QED
    BY <2>1, <2>2
<1>14. \A id \in Ids : id # <<Body, i>> => result'[id] = result[id]
  BY <1>3, <1>5 DEF Effect, IInv, BaseTypeOK
<1>15. /\ result'[<<Loop, 0>>] = result[<<Loop, 0>>]
       /\ FannedOut' /\ ~Skipped' /\ items' = items
  BY <1>3, <1>5, <1>6, <1>12, <1>14, Layout DEF FannedOut, Skipped, Effect
<1>16. Fresh(new) /\ NewGood(new)
  <2>1. \A k \in new : \E m \in R : k = Copy(m, "bare", S)
    BY <1>8
  <2>2. \A k \in new : /\ k.node \in R /\ k = Copy(k.node, "bare", S)
                       /\ k.form = "bare" /\ k.iter = 0
                       /\ k.mode = IF k.node \in S THEN "run" ELSE "skip"
    BY <2>1 DEF Copy
  <2>3. ASSUME NEW k \in new
        PROVE  k.node \in Nodes /\ issued[<<k.node, 0>>] = 0 /\ IsRejoin(k.node)
    BY <2>2, <1>13, Zenon
  <2>4. Fresh(new)
    <3>1. \A k \in new : /\ k = Copy(k.node, "bare", S)
                         /\ k.node \in Nodes
                         /\ issued[<<k.node, 0>>] = 0
      BY <2>2, <2>3, Zenon
    <3> QED
      BY <3>1, FreshCopies
  <2>5. \A k \in new : ~(k.iter > 0)
    BY <2>2
  <2>6. result'[<<Loop, 0>>] # "skipped"
    BY <1>15 DEF Skipped
  <2>7. NewGood(new)
    BY <2>3, <2>5, <2>6, Zenon DEF NewGood
  <2> QED
    BY <2>4, <2>7
<1>17. deps' \in [Nodes -> Int]
  BY <1>3 DEF IInv, BaseTypeOK
<1>18. BaseTypeOK' /\ JobInv' /\ HandlerInv' /\ RejoinCollectsAll'
  BY <1>3, <1>5, <1>16, <1>17, CommitRest
<1>19. /\ Done' = Done \cup {<<Body, i>>}
       /\ \A id \in Ids : issued'[id] = IF id \in {Id(k) : k \in new} THEN 1 ELSE issued[id]
       /\ OnceInv' /\ PendingInv'
  BY <1>3, <1>5, <1>16, CommitCounts DEF IInv
<1>20. \A n \in Nodes, k \in 0..MaxItems :
         <<n, k>> \in {Id(l) : l \in new} <=> (k = 0 /\ n \in R)
  <2>1. \A m : Id(Copy(m, "bare", S)) = <<m, 0>>
    BY DEF Copy, Id
  <2> QED
    BY <1>8, <2>1
<1>21. Left' = Left \ {i}
  BY <1>15, <1>19 DEF Left
<1>22. \A n \in Nodes : Waits(n)' = Waits(n)
  BY <1>6, <1>19 DEF Waits
<1>23. DepsInv'
  <2> SUFFICES ASSUME NEW n \in Nodes
               PROVE  IF ~IsRejoin(n) THEN deps'[n] = Cardinality(Waits(n)')
                      ELSE deps'[n] = Cardinality(Left')
    BY <1>15 DEF DepsInv
  <2>1. CASE IsRejoin(n)
    <3>1. deps'[n] = deps[n] - 1
      BY <1>3, <2>1 DEF IsRejoin
    <3>2. Cardinality(Left') = Cardinality(Left) - 1
      BY <1>9, <1>21, OneLess
    <3> QED
      BY <1>10, <2>1, <3>1, <3>2
  <2>2. CASE ~IsRejoin(n)
    <3>1. deps'[n] = deps[n]
      BY <1>3, <2>2 DEF IsRejoin
    <3> QED
      BY <1>22, <2>2, <3>1 DEF IInv, DepsInv
  <2> QED
    BY <2>1, <2>2
<1>24. IterInv'
  <2>1. issued'[<<Body, 0>>] = 0
    BY <1>12, <1>13, <1>19, <1>20, Layout DEF IInv, IterInv
  <2>2. ASSUME NEW n \in Nodes, NEW k \in 1..MaxItems
        PROVE  issued'[<<n, k>>] = issued[<<n, k>>] /\ result'[<<n, k>>] # "skipped"
    <3>1. <<n, k>> \in Ids /\ k \in 0..MaxItems /\ k # 0
      <4>1. MaxItems \in Nat
        BY ForeachAssumption
      <4>2. k \in 0..MaxItems /\ k # 0
        BY <4>1
      <4> QED
        BY <4>2 DEF Ids
    <3>2. result[<<n, k>>] # "skipped"
      BY DEF IInv, IterInv
    <3>3. result'[<<Body, i>>] = "ok"
      <4>1. <<Body, i>> \in Ids
        BY <1>5 DEF Open
      <4> QED
        BY <1>3, <1>5, <4>1 DEF Effect, IInv, BaseTypeOK
    <3> QED
      BY <1>14, <1>19, <1>20, <3>1, <3>2, <3>3
  <2> QED
    BY <1>5, <1>15, <2>1, <2>2 DEF IInv, IterInv
<1>25. RejoinInv'
  <2> SUFFICES ASSUME NEW n \in Nodes, IsRejoin(n)
               PROVE  issued'[<<n, 0>>] = 1 <=> Left' = {}
    BY <1>6, <1>15 DEF RejoinInv
  <2>1. issued[<<n, 0>>] # 1
    BY <1>6, <1>9 DEF IInv, RejoinInv
  <2> QED
    BY <1>11, <1>12, <1>19, <1>20, <1>21, <2>1
<1>26. PlainInv'
  <2> SUFFICES ASSUME NEW n \in Nodes \ {Body}, ~IsRejoin(n)
               PROVE  /\ issued'[<<n, 0>>] = 1 => MayStart(n)'
                      /\ MayStart(n)' /\ (\A m \in Preds[n] : ~IsRejoin(m))
                           => issued'[<<n, 0>>] = 1
    BY DEF PlainInv
  <2>1. issued'[<<n, 0>>] = issued[<<n, 0>>]
    BY <1>12, <1>13, <1>19, <1>20
  <2>2. MayStart(n)' <=> MayStart(n)
    BY <1>22 DEF MayStart
  <2> QED
    BY <2>1, <2>2 DEF IInv, PlainInv
<1> QED
  BY <1>18, <1>19, <1>23, <1>24, <1>25, <1>26 DEF IInv

(***************************************************************************)
(* The commit of a skipped foreach: its rejoins are enqueued to be skipped *)
(* and no counter changes.                                                 *)
(***************************************************************************)
LEMMA CommitSkippedLoop ==
  ASSUME LoopAlone, IInv, h.job.node = Loop, h.job.mode = "skip",
         CommitNodeAtom("skipped", Dependents[h.job.node], Marked(h.job, {}))
  PROVE  IInv'
<1>1. PICK new : new = NewJobs(Dependents[h.job.node], Marked(h.job, {}))
  OBVIOUS
<1>2. Effect(new, "skipped") /\ deps' = [m \in Nodes |-> deps[m]]
  <2>1. /\ Effect(new, "skipped")
        /\ deps' = [m \in Nodes |-> IF m \in Elems(Dependents[Loop]) THEN deps[m] - 1 ELSE deps[m]]
    BY <1>1, CommitIsEffect
  <2>2. Elems(Dependents[Loop]) = {}
    BY LoopHasNone DEF Elems
  <2> QED
    BY <2>1, <2>2
<1>3. h.pc = "commit" /\ deps' = deps
  BY <1>2 DEF Effect, IInv, BaseTypeOK
<1>4. /\ h.job \in Jobs /\ Id(h.job) = <<Loop, 0>> /\ <<Loop, 0>> \in Open /\ h.job.iter = 0
      /\ h.job.form # "bare"
  BY <1>3, CommitHand, Layout DEF Id
<1>5. PICK R : R = Elems(Rejoins)
  OBVIOUS
<1>6. new = {Copy(m, "bare", {}) : m \in R}
  BY <1>5, <1>1, <1>4, NewOfLoop
<1>7. ~FannedOut /\ ~Skipped
  BY <1>4 DEF Open, Done, FannedOut, Skipped
<1>8. \A n \in Nodes : <<n, 0>> \in Ids /\ 0 \in 0..MaxItems
  BY ForeachAssumption DEF Ids
<1>9. \A m : m \in R <=> IsRejoin(m)
  BY <1>5 DEF IsRejoin
<1>10. R \in SUBSET Nodes /\ \A m \in R : issued[<<m, 0>>] = 0
  <2>1. R \in SUBSET Nodes
    BY <1>9, Layout
  <2>2. ASSUME NEW m \in R PROVE issued[<<m, 0>>] = 0
    <3>1. m \in Nodes /\ IsRejoin(m)
      BY <1>9, <2>1
    <3>2. issued[<<m, 0>>] # 1
      BY <1>7, <3>1 DEF IInv, RejoinInv
    <3> QED
      BY <1>8, <3>1, <3>2 DEF IInv, OnceInv
  <2> QED
    BY <2>1, <2>2
<1>11. \A id \in Ids : id # <<Loop, 0>> => result'[id] = result[id]
  BY <1>2, <1>4 DEF Effect, IInv, BaseTypeOK
<1>12. ~FannedOut' /\ Skipped' /\ items' = items
  <2>1. result'[<<Loop, 0>>] = "skipped"
    BY <1>2, <1>4, <1>8, Layout DEF Effect, IInv, BaseTypeOK
  <2> QED
    BY <1>2, <2>1 DEF FannedOut, Skipped, Effect
<1>13. Fresh(new) /\ NewGood(new)
  <2>1. \A k \in new : \E m \in R : k = Copy(m, "bare", {})
    BY <1>6
  <2>2. \A k \in new : /\ k.node \in R /\ k = Copy(k.node, "bare", {})
                       /\ k.form = "bare" /\ k.iter = 0
                       /\ k.mode = IF k.node \in {} THEN "run" ELSE "skip"
    BY <2>1 DEF Copy
  <2>3. ASSUME NEW k \in new
        PROVE  k.node \in Nodes /\ issued[<<k.node, 0>>] = 0 /\ IsRejoin(k.node)
    BY <2>2, <1>9, <1>10, Zenon
  <2>4. Fresh(new)
    <3>1. \A k \in new : /\ k = Copy(k.node, "bare", {})
                         /\ k.node \in Nodes
                         /\ issued[<<k.node, 0>>] = 0
      BY <2>2, <2>3, Zenon
    <3> QED
      BY <3>1, FreshCopies
  <2>5. \A k \in new : ~(k.iter > 0) /\ k.mode # "run"
    BY <2>2
  <2>6. NewGood(new)
    BY <2>3, <2>5, Zenon DEF NewGood
  <2> QED
    BY <2>4, <2>6
<1>14. deps' \in [Nodes -> Int]
  BY <1>3 DEF IInv, BaseTypeOK
<1>15. BaseTypeOK' /\ JobInv' /\ HandlerInv' /\ RejoinCollectsAll'
  BY <1>2, <1>13, <1>14, CommitRest
<1>16. /\ Done' = Done \cup {<<Loop, 0>>}
       /\ \A id \in Ids : issued'[id] = IF id \in {Id(k) : k \in new} THEN 1 ELSE issued[id]
       /\ OnceInv' /\ PendingInv'
  BY <1>2, <1>4, <1>13, CommitCounts DEF IInv
<1>17. \A n \in Nodes, k \in 0..MaxItems :
         <<n, k>> \in {Id(l) : l \in new} <=> (k = 0 /\ IsRejoin(n))
  <2>1. \A m : Id(Copy(m, "bare", {})) = <<m, 0>>
    BY DEF Copy, Id
  <2> QED
    BY <1>6, <1>9, <2>1
<1>18. \A n \in Nodes : Waits(n)' = Waits(n)
  BY <1>16 DEF Waits
<1>19. DepsInv'
  BY <1>3, <1>7, <1>12, <1>18 DEF IInv, DepsInv
<1>20. IterInv'
  <2>1. issued'[<<Body, 0>>] = 0
    BY <1>8, <1>16, <1>17, Layout DEF IInv, IterInv
  <2>2. ASSUME NEW n \in Nodes, NEW k \in 1..MaxItems
        PROVE  issued'[<<n, k>>] = issued[<<n, k>>] /\ result'[<<n, k>>] = result[<<n, k>>]
    <3>1. <<n, k>> \in Ids /\ k \in 0..MaxItems /\ k # 0
      <4>1. MaxItems \in Nat
        BY ForeachAssumption
      <4>2. k \in 0..MaxItems /\ k # 0
        BY <4>1
      <4> QED
        BY <4>2 DEF Ids
    <3> QED
      BY <1>11, <1>16, <1>17, <3>1
  <2> QED
    BY <1>7, <1>12, <2>1, <2>2 DEF IInv, IterInv
<1>21. RejoinInv'
  <2> SUFFICES ASSUME NEW n \in Nodes, IsRejoin(n) PROVE issued'[<<n, 0>>] = 1
    BY <1>12 DEF RejoinInv
  <2> QED
    BY <1>8, <1>16, <1>17
<1>22. PlainInv'
  <2> SUFFICES ASSUME NEW n \in Nodes \ {Body}, ~IsRejoin(n)
               PROVE  /\ issued'[<<n, 0>>] = 1 => MayStart(n)'
                      /\ MayStart(n)' /\ (\A m \in Preds[n] : ~IsRejoin(m))
                           => issued'[<<n, 0>>] = 1
    BY DEF PlainInv
  <2>1. issued'[<<n, 0>>] = issued[<<n, 0>>]
    BY <1>8, <1>16, <1>17
  <2>2. MayStart(n)' <=> MayStart(n)
    BY <1>18 DEF MayStart
  <2> QED
    BY <2>1, <2>2 DEF IInv, PlainInv
<1> QED
  BY <1>15, <1>16, <1>19, <1>20, <1>21, <1>22 DEF IInv

(***************************************************************************)
(* The commit of a foreach: one body job for each element is enqueued, and *)
(* every rejoin waits for as many, because its counter was set before.     *)
(***************************************************************************)
LEMMA CommitFan ==
  ASSUME IInv, CommitForeach
  PROVE  IInv'
<1>1. PICK new : new = NewJobs(<<>>, [i \in 1..items |-> BodyJob(i)])
  OBVIOUS
<1>2. h.job.node = Loop /\ h.job.mode = "run"
      /\ CommitNodeAtom("ok", <<>>, [i \in 1..items |-> BodyJob(i)])
  BY DEF CommitForeach
<1>3. Effect(new, "ok") /\ deps' = [m \in Nodes |-> deps[m]]
  <2>1. /\ Effect(new, "ok")
        /\ deps' = [m \in Nodes |-> IF m \in Elems(<<>>) THEN deps[m] - 1 ELSE deps[m]]
    BY <1>1, <1>2, CommitIsEffect
  <2>2. Elems(<<>>) = {}
    BY DEF Elems
  <2> QED
    BY <2>1, <2>2
<1>4. h.pc = "commit" /\ deps' = deps
  BY <1>3 DEF Effect, IInv, BaseTypeOK
<1>5. Id(h.job) = <<Loop, 0>> /\ <<Loop, 0>> \in Open
  BY <1>2, <1>4, CommitHand, Layout DEF Id
<1>6. ~FannedOut /\ ~Skipped
  BY <1>5 DEF Open, Done, FannedOut, Skipped
<1>7. items \in 0..MaxItems /\ items \in Nat /\ MaxItems \in Nat
  BY ForeachAssumption DEF IInv, BaseTypeOK
<1>8. new = {BodyJob(i) : i \in 1..items}
  BY <1>1, <1>7, NewOfFan
<1>9. \A i \in 1..items : i \in 1..MaxItems /\ <<Body, i>> \in Ids
                          /\ issued[<<Body, i>>] = 0 /\ <<Body, i>> \notin Done
  <2> TAKE i \in 1..items
  <2>1. i \in 1..MaxItems /\ <<Body, i>> \in Ids
    BY <1>7, Layout DEF Ids
  <2>2. issued[<<Body, i>>] # 1
    BY <1>6, <2>1, Layout DEF IInv, IterInv
  <2> QED
    BY <2>1, <2>2 DEF IInv, OnceInv
<1>10. \A i \in 1..items : /\ BodyJob(i) \in Jobs /\ Id(BodyJob(i)) = <<Body, i>>
                           /\ BodyJob(i).node = Body /\ BodyJob(i).form = "full"
                           /\ BodyJob(i).mode = "run"
  <2> TAKE i \in 1..items
  <2>1. i \in 0..MaxItems /\ 0 \in 0..MaxAttempts /\ Body \in Nodes
    BY <1>7, <1>9, Layout, ForeachAssumption
  <2>2. BodyJob(i) = [node |-> Body, iter |-> i, form |-> "full", mode |-> "run", tries |-> 0]
    BY DEF BodyJob, NodeJob
  <2> QED
    BY <2>1, <2>2 DEF Jobs, Id
<1>11. \A k \in new : \E i \in 1..items : k = BodyJob(i)
  BY <1>8
<1>12. Fresh(new)
  <2>1. \A k, l \in new : Id(k) = Id(l) => k = l
    BY <1>10, <1>11
  <2>2. \A k \in new : k \in Jobs /\ issued[Id(k)] = 0
    BY <1>9, <1>10, <1>11
  <2> QED
    BY <2>1, <2>2 DEF Fresh
<1>13. NewGood(new)
  <2>1. \A k \in new : k.node = Body /\ k.form = "full" /\ k.mode = "run"
    BY <1>10, <1>11
  <2>2. \A k \in new : k.form # "bare" /\ k.mode = "run" /\ ~IsRejoin(k.node)
    BY <2>1, Layout
  <2> QED
    BY <2>2, Zenon DEF NewGood
<1>14. deps' \in [Nodes -> Int]
  BY <1>4 DEF IInv, BaseTypeOK
<1>15. BaseTypeOK' /\ JobInv' /\ HandlerInv' /\ RejoinCollectsAll'
  BY <1>2, <1>3, <1>12, <1>13, <1>14, CommitRest
<1>16. /\ Done' = Done \cup {<<Loop, 0>>}
       /\ \A id \in Ids : issued'[id] = IF id \in {Id(k) : k \in new} THEN 1 ELSE issued[id]
       /\ OnceInv' /\ PendingInv'
  BY <1>3, <1>5, <1>12, CommitCounts DEF IInv
<1>17. \A n \in Nodes, k \in 0..MaxItems :
         <<n, k>> \in {Id(l) : l \in new} <=> (n = Body /\ k \in 1..items)
  BY <1>8, <1>10
<1>18. FannedOut' /\ ~Skipped' /\ items' = items
  <2>1. result'[<<Loop, 0>>] = "ok"
    BY <1>3, <1>5 DEF Effect, IInv, BaseTypeOK, Open
  <2> QED
    BY <1>3, <2>1 DEF FannedOut, Skipped, Effect
<1>19. Left' = 1..items
  BY <1>9, <1>16, <1>18, Layout DEF Left
<1>20. \A n \in Nodes : Waits(n)' = Waits(n)
  BY <1>16 DEF Waits
<1>21. DepsInv'
  <2>1. ASSUME NEW n \in Nodes, IsRejoin(n) PROVE deps'[n] = Cardinality(Left')
    <3>1. deps[n] = items
      BY <1>2, <1>4, <2>1 DEF IInv, HandlerInv
    <3>2. \A k \in Nat : Cardinality(1..k) = k
      BY FS_Interval
    <3>3. Cardinality(Left') = Cardinality(1..items)
      BY <1>19
    <3> QED
      BY <1>4, <1>7, <3>1, <3>2, <3>3
  <2>2. ASSUME NEW n \in Nodes, ~IsRejoin(n) PROVE deps'[n] = Cardinality(Waits(n)')
    BY <1>4, <1>20, <2>2 DEF IInv, DepsInv
  <2> QED
    BY <1>18, <2>1, <2>2 DEF DepsInv
<1>22. \A n \in Nodes : <<n, 0>> \in Ids /\ 0 \in 0..MaxItems /\ 0 \notin 1..items
  BY <1>7 DEF Ids
<1>23. IterInv'
  <2>1. issued'[<<Body, 0>>] = 0
    BY <1>16, <1>17, <1>22, Layout DEF IInv, IterInv
  <2>2. ASSUME NEW n \in Nodes, NEW k \in 1..MaxItems
        PROVE  /\ issued'[<<n, k>>] = 1 <=> (n = Body /\ k <= items)
               /\ result'[<<n, k>>] # "skipped"
    <3>1. <<n, k>> \in Ids /\ k \in 0..MaxItems /\ k # 0 /\ (k \in 1..items <=> k <= items)
      BY <1>7 DEF Ids
    <3>2. issued[<<n, k>>] # 1 /\ result[<<n, k>>] # "skipped"
      BY <1>6 DEF IInv, IterInv
    <3>3. result'[<<n, k>>] = result[<<n, k>>]
      BY <1>3, <1>5, <3>1 DEF Effect, IInv, BaseTypeOK
    <3> QED
      BY <1>16, <1>17, <3>1, <3>2, <3>3
  <2> QED
    BY <1>18, <2>1, <2>2 DEF IterInv
<1>24. RejoinInv'
  <2> SUFFICES ASSUME NEW n \in Nodes, IsRejoin(n)
               PROVE  issued'[<<n, 0>>] = 1 <=> (items > 0 /\ Left' = {})
    BY <1>18 DEF RejoinInv
  <2>1. issued[<<n, 0>>] # 1
    BY <1>6 DEF IInv, RejoinInv
  <2>2. issued'[<<n, 0>>] # 1
    BY <1>16, <1>17, <1>22, <2>1
  <2>3. items > 0 => 1 \in Left'
    BY <1>7, <1>19
  <2> QED
    BY <2>2, <2>3
<1>25. PlainInv'
  <2> SUFFICES ASSUME NEW n \in Nodes \ {Body}, ~IsRejoin(n)
               PROVE  /\ issued'[<<n, 0>>] = 1 => MayStart(n)'
                      /\ MayStart(n)' /\ (\A m \in Preds[n] : ~IsRejoin(m))
                           => issued'[<<n, 0>>] = 1
    BY DEF PlainInv
  <2>1. issued'[<<n, 0>>] = issued[<<n, 0>>]
    BY <1>16, <1>17, <1>22
  <2>2. MayStart(n)' <=> MayStart(n)
    BY <1>20 DEF MayStart
  <2> QED
    BY <2>1, <2>2 DEF IInv, PlainInv
<1> QED
  BY <1>15, <1>16, <1>21, <1>23, <1>24, <1>25 DEF IInv

\* All the commits.
LEMMA CommitIInv ==
  ASSUME LoopAlone, IInv, CommitNode \/ CommitSwitch \/ CommitForeach
  PROVE  IInv'
<1>1. h.job.mode \in {"run", "skip"} /\ (h.pc = "commit" /\ h.job.node = Body => h.job.mode = "run")
  BY CommitHand DEF IInv, BaseTypeOK, Jobs
<1>2. CASE CommitNode
  <2>1. CASE h.job.mode = "skip"
    <3>1. CommitNodeAtom("skipped", Dependents[h.job.node], Marked(h.job, {})) /\ h.pc = "commit"
      BY <1>2, <2>1 DEF CommitNode, CommitNodeAtom, Goto
    <3>2. CASE h.job.node = Loop
      BY <2>1, <3>1, <3>2, CommitSkippedLoop
    <3>3. CASE h.job.node # Loop
      <4>1. h.job.node # Body
        BY <1>1, <2>1, <3>1
      <4> QED
        BY <2>1, <3>1, <3>3, <4>1, CommitPlain
    <3> QED
      BY <3>2, <3>3
  <2>2. CASE h.job.mode = "run"
    <3>1. /\ CommitNodeAtom("ok", Dependents[h.job.node], Marked(h.job, Nodes))
          /\ h.job.node # Loop
      BY <1>2, <2>2 DEF CommitNode
    <3>2. CASE h.job.node = Body
      BY <3>1, <3>2, CommitBody
    <3>3. CASE h.job.node # Body
      BY <2>2, <3>1, <3>3, CommitPlain
    <3> QED
      BY <3>2, <3>3
  <2> QED
    BY <1>1, <2>1, <2>2
<1>3. CASE CommitSwitch
  <2>1. PICK chosen \in Nodes :
          CommitNodeAtom("ok", Dependents[h.job.node], Marked(h.job, {chosen}))
    BY <1>3 DEF CommitSwitch
  <2>2. h.job.node # Loop /\ h.job.mode = "run"
    BY <1>3, ForeachAssumption DEF CommitSwitch
  <2>3. CASE h.job.node = Body
    BY <2>1, <2>3, CommitBody
  <2>4. CASE h.job.node # Body
    BY <2>1, <2>2, <2>4, CommitPlain
  <2> QED
    BY <2>3, <2>4
<1>4. CASE CommitForeach
  BY <1>4, CommitFan
<1> QED
  BY <1>2, <1>3, <1>4

-----------------------------------------------------------------------------
(* The other steps *)

(***************************************************************************)
(* A step that enqueues and commits nothing keeps what the invariant says  *)
(* of the store, but for the counters.  A failed row is no commit.         *)
(***************************************************************************)
LEMMA QuietRest ==
  ASSUME IInv, items' = items, issued' = issued, Done' = Done,
         FannedOut' <=> FannedOut, Skipped' <=> Skipped,
         \A n \in Nodes, i \in 1..MaxItems : result'[<<n, i>>] # "skipped"
  PROVE  /\ OnceInv' /\ IterInv' /\ RejoinInv' /\ PlainInv'
         /\ Open' = Open /\ Left' = Left /\ (\A n : Waits(n)' = Waits(n))
         /\ \A j : Good(j)' <=> Good(j)
<1>1. Open' = Open /\ Left' = Left /\ \A n : Waits(n)' = Waits(n)
  BY DEF Open, Left, Waits
<1>2. OnceInv'
  BY DEF IInv, OnceInv
<1>3. IterInv'
  BY DEF IInv, IterInv
<1>4. RejoinInv'
  BY <1>1 DEF IInv, RejoinInv
<1>5. \A n : MayStart(n)' <=> MayStart(n)
  BY <1>1 DEF MayStart
<1>6. PlainInv'
  BY <1>5 DEF IInv, PlainInv
<1>7. \A j : Good(j)' <=> Good(j)
  BY <1>1 DEF Good, Id
<1> QED
  BY <1>1, <1>2, <1>3, <1>4, <1>6, <1>7

\* The same with the counters, when they do not change.
LEMMA QuietStep ==
  ASSUME IInv, items' = items, deps' = deps, issued' = issued, Done' = Done,
         FannedOut' <=> FannedOut, Skipped' <=> Skipped,
         \A n \in Nodes, i \in 1..MaxItems : result'[<<n, i>>] # "skipped"
  PROVE  /\ DepsInv' /\ OnceInv' /\ IterInv' /\ RejoinInv' /\ PlainInv'
         /\ Open' = Open
         /\ \A j : Good(j)' <=> Good(j)
<1>1. /\ OnceInv' /\ IterInv' /\ RejoinInv' /\ PlainInv'
      /\ Open' = Open /\ Left' = Left /\ (\A n : Waits(n)' = Waits(n))
      /\ \A j : Good(j)' <=> Good(j)
  BY QuietRest
<1>2. DepsInv'
  BY <1>1 DEF IInv, DepsInv
<1> QED
  BY <1>1, <1>2

\* The same when no result changes at all.
LEMMA SameStore ==
  ASSUME IInv, UNCHANGED <<items, deps, issued, result>>
  PROVE  /\ DepsInv' /\ OnceInv' /\ IterInv' /\ RejoinInv' /\ PlainInv'
         /\ Open' = Open
         /\ \A j : Good(j)' <=> Good(j)
<1>1. items' = items /\ deps' = deps /\ issued' = issued /\ result' = result
  OBVIOUS
<1>2. Done' = Done /\ (FannedOut' <=> FannedOut) /\ (Skipped' <=> Skipped)
  BY <1>1 DEF Done, FannedOut, Skipped
<1>3. \A n \in Nodes, i \in 1..MaxItems : result'[<<n, i>>] # "skipped"
  BY <1>1 DEF IInv, IterInv
<1> QED
  BY <1>1, <1>2, <1>3, QuietStep

\* The handler between two jobs.
LEMMA IdleType ==
  /\ IdleHandler \in [pc : Steps, job : Jobs, at : 1..(Len(Rejoins) + 1)]
  /\ IdleHandler.pc = "idle" /\ IdleHandler.at = 1
<1>1. NoJob \in Jobs
  BY Layout, ForeachAssumption DEF NoJob, NodeJob, Jobs
<1>2. 1 \in 1..(Len(Rejoins) + 1)
  BY Layout
<1> QED
  BY <1>1, <1>2 DEF IdleHandler, Steps

\* Claims, drops, retries and crashes move a job between queue and hand.
LEMMA MoveIInv ==
  ASSUME IInv, Claim \/ HandleDrop \/ Retry \/ Crash
  PROVE  IInv'
<1>1. /\ UNCHANGED <<items, deps, issued, result>>
      /\ status' = status /\ pending' = pending /\ got' = got
  BY DEF Claim, HandleDrop, Retry, Crash
<1>2. /\ DepsInv' /\ OnceInv' /\ IterInv' /\ RejoinInv' /\ PlainInv'
      /\ Open' = Open
      /\ \A j : Good(j)' <=> Good(j)
  BY <1>1, SameStore
<1>3. RejoinCollectsAll'
  BY <1>1 DEF IInv, RejoinCollectsAll
<1>4. BaseTypeOK /\ JobInv /\ PendingInv
  BY DEF IInv
<1>5. IdleHandler \in [pc : Steps, job : Jobs, at : 1..(Len(Rejoins) + 1)]
      /\ IdleHandler.pc = "idle" /\ IdleHandler.at = 1
  BY IdleType
<1>6. CASE Claim
  <2>1. PICK j \in queue :
          /\ queue' = queue \ {j}
          /\ h' = [IdleHandler EXCEPT !.pc = "status",
                     !.job = [j EXCEPT !.tries = IF @ < MaxAttempts THEN @ + 1 ELSE @]]
    BY <1>6 DEF Claim
  <2>2. PICK k : k = [j EXCEPT !.tries = IF @ < MaxAttempts THEN @ + 1 ELSE @]
    OBVIOUS
  <2>3. j \in Jobs /\ Good(j)
    BY <1>4 DEF BaseTypeOK, JobInv
  <2>4. k \in Jobs /\ k.node = j.node /\ k.iter = j.iter /\ k.form = j.form /\ k.mode = j.mode
    <3>1. j.tries \in 0..MaxAttempts /\ MaxAttempts \in Nat
      BY <2>3, ForeachAssumption DEF Jobs
    <3>2. PICK t : t = IF j.tries < MaxAttempts THEN j.tries + 1 ELSE j.tries
      OBVIOUS
    <3>3. t \in 0..MaxAttempts
      BY <3>1, <3>2
    <3>4. k = [j EXCEPT !.tries = t]
      BY <2>2, <3>2
    <3> QED
      BY <2>3, <3>3, <3>4 DEF Jobs
  <2>5. Good(k) /\ Id(k) = Id(j)
    BY <2>3, <2>4 DEF Good, Id
  <2>6. h' = [IdleHandler EXCEPT !.pc = "status", !.job = k]
    BY <2>1, <2>2
  <2>7. /\ h'.pc = "status" /\ h'.job = k /\ h'.at = 1
        /\ h' \in [pc : Steps, job : Jobs, at : 1..(Len(Rejoins) + 1)]
    BY <1>5, <2>4, <2>6 DEF Steps
  <2>8. queue' \in SUBSET queue /\ j \notin queue' /\ crashes' = crashes /\ lost' = lost
    BY <1>6, <2>1 DEF Claim
  <2>9. BaseTypeOK'
    BY <1>1, <1>4, <2>7, <2>8 DEF BaseTypeOK
  <2>10. JobInv'
    <3>1. \A l \in queue' : Good(l)' /\ Id(l) # Id(j)
      BY <1>2, <1>4, <2>8 DEF JobInv
    <3>2. \A l, m \in queue' : Id(l) = Id(m) => l = m
      BY <1>4, <2>8 DEF JobInv
    <3>3. Good(k)'
      BY <1>2, <2>5
    <3>4. Good(h.job)'
      BY <2>7, <3>3 DEF Good, Id
    <3>5. \A l \in queue' : Id(l) # Id(h.job)'
      BY <2>5, <2>7, <3>1 DEF Id
    <3> QED
      BY <3>1, <3>2, <3>4, <3>5 DEF JobInv
  <2>11. PendingInv'
    BY <1>1, <1>2, <1>4, <2>7 DEF PendingInv
  <2>12. HandlerInv'
    BY <2>7 DEF HandlerInv
  <2> QED
    BY <1>2, <1>3, <2>9, <2>10, <2>11, <2>12 DEF IInv
<1>7. CASE HandleDrop \/ Retry \/ Crash
  <2>1. h' = IdleHandler
    BY <1>7 DEF HandleDrop, Retry, Crash, Return
  <2>2. queue' = queue \/ (InHand /\ queue' = queue \cup {h.job})
    BY <1>7 DEF HandleDrop, Retry, Crash, Return, InHand
  <2>3. h'.pc = "idle" /\ h' \in [pc : Steps, job : Jobs, at : 1..(Len(Rejoins) + 1)]
    BY <1>5, <2>1
  <2>4. crashes' \in 0..MaxCrashes /\ lost' \in Nat
    <3>1. crashes \in 0..MaxCrashes /\ lost \in Nat /\ MaxCrashes \in Nat
      BY <1>4, ForeachAssumption DEF BaseTypeOK
    <3>2. /\ crashes' = crashes \/ (crashes < MaxCrashes /\ crashes' = crashes + 1)
          /\ lost' = lost \/ lost' = lost + 1
      BY <1>7 DEF HandleDrop, Retry, Crash
    <3> QED
      BY <3>1, <3>2
  <2>5. queue' \in SUBSET Jobs
    BY <1>4, <2>2 DEF BaseTypeOK
  <2>6. BaseTypeOK'
    BY <1>1, <1>4, <2>3, <2>4, <2>5 DEF BaseTypeOK
  <2>7. \A j \in queue' : Good(j)'
    BY <1>2, <1>4, <2>2 DEF JobInv
  <2>8. \A j, k \in queue' : Id(j) = Id(k) => j = k
    BY <1>4, <2>2 DEF JobInv
  <2>9. ~InHand'
    BY <2>3 DEF InHand
  <2>10. JobInv'
    BY <2>7, <2>8, <2>9 DEF JobInv
  <2>11. PendingInv'
    BY <1>1, <1>2, <1>4, <2>3 DEF PendingInv
  <2>12. HandlerInv'
    BY <2>3 DEF HandlerInv
  <2> QED
    BY <1>2, <1>3, <2>6, <2>10, <2>11, <2>12 DEF IInv
<1> QED
  BY <1>6, <1>7

\* The job in hand is the same, or there is none any more.
LEMMA KeepJob ==
  ASSUME JobInv, queue' = queue, \A j : Good(j)' <=> Good(j),
         InHand' => InHand /\ h'.job = h.job
  PROVE  JobInv'
<1>1. \A j \in queue' : Good(j)'
  BY DEF JobInv
<1>2. \A j, k \in queue' : Id(j) = Id(k) => j = k
  BY DEF JobInv
<1>3. ASSUME InHand' PROVE Good(h.job)' /\ \A j \in queue' : Id(j) # Id(h.job)'
  <2>1. PICK k : k = h.job
    OBVIOUS
  <2>2. Good(k)' /\ h'.job = k
    BY <1>3, <2>1 DEF JobInv
  <2>3. Good(h.job)'
    BY <2>2 DEF Good, Id
  <2>4. \A j \in queue' : Id(j) # Id(h.job)'
    BY <1>3, <2>1, <2>2 DEF JobInv, Id
  <2> QED
    BY <2>3, <2>4
<1> QED
  BY <1>1, <1>2, <1>3 DEF JobInv

\* What Goto does to the handler.
LEMMA GotoFacts ==
  ASSUME BaseTypeOK, NEW from, NEW to \in Steps, Goto(from, to)
  PROVE  /\ h.pc = from /\ h'.pc = to /\ h'.job = h.job /\ h'.at = h.at
         /\ h' \in [pc : Steps, job : Jobs, at : 1..(Len(Rejoins) + 1)]
BY DEF Goto, BaseTypeOK

\* A step that only moves the handler.
LEMMA LocalIInv ==
  ASSUME IInv, HandleStatus \/ RunForeach \/ RejoinsSet
  PROVE  IInv'
<1>1. /\ UNCHANGED <<items, deps, issued, result>>
      /\ status' = status /\ pending' = pending /\ got' = got /\ queue' = queue
      /\ crashes' = crashes /\ lost' = lost
  BY DEF HandleStatus, RunForeach, RejoinsSet
<1>2. /\ DepsInv' /\ OnceInv' /\ IterInv' /\ RejoinInv' /\ PlainInv'
      /\ Open' = Open
      /\ \A j : Good(j)' <=> Good(j)
  BY <1>1, SameStore
<1>3. RejoinCollectsAll'
  BY <1>1 DEF IInv, RejoinCollectsAll
<1>4. BaseTypeOK /\ JobInv /\ PendingInv /\ HandlerInv
  BY DEF IInv
<1>5. PICK from \in {"status", "run", "setDeps"}, to \in {"run", "commit", "setDeps"} :
        Goto(from, to)
  BY DEF HandleStatus, RunForeach, RejoinsSet
<1>6. /\ h.pc = from /\ h'.pc = to /\ h'.job = h.job /\ h'.at = h.at
      /\ h' \in [pc : Steps, job : Jobs, at : 1..(Len(Rejoins) + 1)]
  <2>1. to \in Steps
    BY DEF Steps
  <2> QED
    BY <1>4, <1>5, <2>1, GotoFacts
<1>7. BaseTypeOK'
  BY <1>1, <1>4, <1>6 DEF BaseTypeOK
<1>8. JobInv'
  <2>1. InHand' => InHand /\ h'.job = h.job
    BY <1>6 DEF InHand
  <2> QED
    BY <1>1, <1>2, <1>4, <2>1, KeepJob
<1>9. PendingInv'
  BY <1>1, <1>2, <1>4, <1>6 DEF PendingInv
<1>10. items' = items /\ deps' = deps /\ got' = got
  BY <1>1
<1>11. CASE HandleStatus
  <2>1. (h.job.mode = "skip" /\ h'.pc = "commit") \/ (h.job.mode # "skip" /\ h'.pc = "run")
    BY <1>11, <1>4 DEF HandleStatus, Goto, BaseTypeOK
  <2>2. h.job.mode \in {"run", "skip"}
    BY <1>4 DEF BaseTypeOK, Jobs
  <2>3. h'.at = 1
    BY <1>4, <1>6, <1>11 DEF HandlerInv, HandleStatus, Goto
  <2>4. HandlerInv'
    <3>1. h'.job.mode \in {"run", "skip"} /\ (h'.pc = "commit" => h'.job.mode = "skip")
          /\ (h'.pc = "run" => h'.job.mode = "run") /\ h'.pc \in {"run", "commit"}
      BY <1>6, <2>1, <2>2
    <3> QED
      BY <2>3, <3>1 DEF HandlerInv
  <2> QED
    BY <1>2, <1>3, <1>7, <1>8, <1>9, <2>4 DEF IInv
<1>12. CASE RunForeach
  <2>1. h.pc = "run" /\ h'.pc = "setDeps" /\ h.job.node = Loop
    BY <1>4, <1>12 DEF RunForeach, Goto, BaseTypeOK
  <2>2. h.at = 1
    \* The handler starts at the first rejoin.
    BY <1>4, <2>1 DEF HandlerInv
  <2>3. \A k \in DOMAIN Rejoins : ~(k < h'.at)
    BY <1>6, <2>2, Layout
  <2>4. HandlerInv'
    BY <1>4, <1>6, <2>1, <2>2, <2>3 DEF HandlerInv
  <2> QED
    BY <1>2, <1>3, <1>7, <1>8, <1>9, <2>4 DEF IInv
<1>13. CASE RejoinsSet
  <2>1. h.pc = "setDeps" /\ h'.pc = "commit" /\ h.at > Len(Rejoins)
    BY <1>4, <1>13 DEF RejoinsSet, Goto, BaseTypeOK
  <2>2. h.job.node = Loop /\ \A k \in DOMAIN Rejoins : k < h.at => deps[Rejoins[k]] = items
    BY <1>4, <2>1 DEF HandlerInv
  <2>3. \A n \in Nodes : IsRejoin(n) => deps[n] = items
    <3> SUFFICES ASSUME NEW n \in Nodes, IsRejoin(n) PROVE deps[n] = items
      OBVIOUS
    <3>1. PICK k \in DOMAIN Rejoins : Rejoins[k] = n
      BY DEF IsRejoin, Elems
    <3>2. k < h.at
      <4>1. k \in 1..Len(Rejoins) /\ Len(Rejoins) \in Nat
        BY Layout
      <4>2. h.at \in 1..(Len(Rejoins) + 1)
        BY <1>4 DEF BaseTypeOK
      <4> QED
        BY <2>1, <4>1, <4>2
    <3> QED
      BY <2>2, <3>1, <3>2
  <2>4. \A n \in Nodes : IsRejoin(n) => deps'[n] = items'
    BY <1>10, <2>3
  <2>5. h'.job.node = Loop
    BY <1>6, <2>2
  <2>6. HandlerInv'
    BY <2>1, <2>4, <2>5, Layout DEF HandlerInv
  <2> QED
    BY <1>2, <1>3, <1>7, <1>8, <1>9, <2>6 DEF IInv
<1> QED
  BY <1>11, <1>12, <1>13

\* A rejoin that may run finds the result of every iteration (assembleForeachInput).
LEMMA AllCollected ==
  ASSUME IInv, NEW n \in Nodes, IsRejoin(n), issued[<<n, 0>>] = 1, ~Skipped
  PROVE  Collected = [i \in 1..items |-> "ok"]
<1>1. Left = {}
  BY DEF IInv, RejoinInv
<1>2. items \in 0..MaxItems /\ MaxItems \in Nat
  BY ForeachAssumption DEF IInv, BaseTypeOK
<1>3. ASSUME NEW i \in 1..items PROVE result[<<Body, i>>] = "ok"
  <2>1. i \in 1..MaxItems
    BY <1>2
  <2>2. result[<<Body, i>>] # "skipped"
    BY <2>1, Layout DEF IInv, IterInv
  <2>3. <<Body, i>> \in Done
    BY <1>1 DEF Left
  <2> QED
    BY <2>2, <2>3 DEF Done
<1> QED
  BY <1>3 DEF Collected

LEMMA RunNodeIInv ==
  ASSUME IInv, RunNode
  PROVE  IInv'
<1>1. /\ UNCHANGED <<items, deps, issued, result>>
      /\ status' = status /\ pending' = pending /\ queue' = queue
      /\ crashes' = crashes /\ lost' = lost
      /\ Goto("run", "commit") /\ h.job.node # Loop
      /\ got' = IF IsRejoin(h.job.node) THEN [got EXCEPT ![h.job.node] = Collected] ELSE got
  BY DEF RunNode
<1>2. /\ DepsInv' /\ OnceInv' /\ IterInv' /\ RejoinInv' /\ PlainInv'
      /\ Open' = Open
      /\ \A j : Good(j)' <=> Good(j)
  BY <1>1, SameStore
<1>3. BaseTypeOK /\ JobInv /\ PendingInv /\ HandlerInv /\ RejoinCollectsAll
  BY DEF IInv
<1>4. /\ h.pc = "run" /\ h'.pc = "commit" /\ h'.job = h.job /\ h'.at = h.at
      /\ h' \in [pc : Steps, job : Jobs, at : 1..(Len(Rejoins) + 1)]
  <2>1. "commit" \in Steps
    BY DEF Steps
  <2> QED
    BY <1>1, <1>3, <2>1, GotoFacts
<1>5. /\ h.job.node \in Nodes /\ Good(h.job) /\ Id(h.job) \in Open
      /\ h.job.node # Body => h.job.iter = 0
  BY <1>4, HandFacts DEF InHand
<1>6. PICK n : n = h.job.node
  OBVIOUS
<1>7. ASSUME IsRejoin(n) PROVE <<n, 0>> \in Open
  <2>1. n # Body
    BY <1>7, Layout
  <2> QED
    BY <1>5, <1>6, <2>1 DEF Id
<1>8. got' \in [Nodes -> Seq(Results)]
  <2>1. items \in 0..MaxItems /\ MaxItems \in Nat /\ result \in [Ids -> Results]
    BY <1>3, ForeachAssumption DEF BaseTypeOK
  <2>2. \A i \in 1..items : <<Body, i>> \in Ids
    BY <2>1, Layout DEF Ids
  <2>3. Collected \in [1..items -> Results]
    BY <2>1, <2>2 DEF Collected
  <2>4. Collected \in Seq(Results)
    BY <2>1, <2>3
  <2>5. got \in [Nodes -> Seq(Results)]
    BY <1>3 DEF BaseTypeOK
  <2> QED
    BY <1>1, <1>5, <2>4, <2>5
<1>9. BaseTypeOK'
  BY <1>1, <1>3, <1>4, <1>8 DEF BaseTypeOK
<1>10. JobInv'
  <2>1. InHand' => InHand /\ h'.job = h.job
    BY <1>4 DEF InHand
  <2> QED
    BY <1>1, <1>2, <1>3, <2>1, KeepJob
<1>11. PendingInv'
  BY <1>1, <1>2, <1>3, <1>4 DEF PendingInv
<1>12. items' = items /\ result' = result
  BY <1>1
<1>13. RejoinCollectsAll'
  <2> SUFFICES ASSUME NEW m \in Nodes, IsRejoin(m), result[<<m, 0>>] = "ok"
               PROVE  got'[m] = [i \in 1..items |-> "ok"]
    BY <1>12 DEF RejoinCollectsAll
  <2>1. m # n
    <3>1. <<m, 0>> \notin Open
      BY DEF Open, Done
    <3> QED
      BY <1>7, <3>1
  <2>2. got'[m] = got[m]
    BY <1>1, <1>3, <1>6, <2>1 DEF BaseTypeOK
  <2> QED
    BY <1>3, <2>2 DEF RejoinCollectsAll
<1>14. ASSUME IsRejoin(n), h.job.mode = "run" PROVE got'[n] = [i \in 1..items |-> "ok"]
  <2>1. issued[<<n, 0>>] = 1 /\ ~Skipped
    BY <1>5, <1>6, <1>7, <1>14 DEF Open, Good
  <2>2. Collected = [i \in 1..items |-> "ok"]
    BY <1>5, <1>6, <1>14, <2>1, AllCollected
  <2> QED
    BY <1>1, <1>3, <1>5, <1>6, <1>14, <2>2 DEF BaseTypeOK
<1>15. HandlerInv'
  BY <1>1, <1>4, <1>6, <1>12, <1>14 DEF HandlerInv
<1> QED
  BY <1>2, <1>9, <1>10, <1>11, <1>13, <1>15 DEF IInv

\* A failed row replaces no commit's: the id in hand is open.
LEMMA RunFailsIInv ==
  ASSUME IInv, RunFails
  PROVE  IInv'
<1>1. /\ items' = items /\ deps' = deps /\ issued' = issued
      /\ status' = status /\ pending' = pending /\ queue' = queue /\ got' = got
      /\ crashes' = crashes /\ lost' = lost
      /\ Goto("run", "failed")
      /\ result' = [result EXCEPT ![ResultId(h.job.node, h.job.iter)] = "failed"]
  BY DEF RunFails
<1>2. BaseTypeOK /\ JobInv /\ PendingInv /\ HandlerInv /\ RejoinCollectsAll /\ IterInv
  BY DEF IInv
<1>3. /\ h.pc = "run" /\ h'.pc = "failed" /\ h'.job = h.job /\ h'.at = h.at
      /\ h' \in [pc : Steps, job : Jobs, at : 1..(Len(Rejoins) + 1)]
  <2>1. "failed" \in Steps
    BY DEF Steps
  <2> QED
    BY <1>1, <1>2, <2>1, GotoFacts
<1>4. PICK id : id = Id(h.job)
  OBVIOUS
<1>5. id \in Ids /\ id \notin Done
  <2>1. Id(h.job) \in Open
    BY <1>3, HandFacts DEF InHand
  <2> QED
    BY <1>4, <2>1 DEF Open
<1>6. /\ result' = [result EXCEPT ![id] = "failed"]
      /\ result \in [Ids -> Results]
      /\ result[id] \notin {"ok", "skipped"}
  BY <1>1, <1>2, <1>4, <1>5 DEF ResultId, Id, BaseTypeOK, Done
<1>7. /\ result' \in [Ids -> Results] /\ result'[id] = "failed"
      /\ \A x \in Ids : x # id => result'[x] = result[x]
  BY <1>5, <1>6 DEF Results
<1>8. \A x \in Ids : \A r \in {"ok", "skipped"} : result'[x] = r <=> result[x] = r
  BY <1>6, <1>7
<1>9. \A n \in Nodes, i \in 0..MaxItems : <<n, i>> \in Ids
  BY DEF Ids
<1>10. 0 \in 0..MaxItems /\ 1..MaxItems \subseteq 0..MaxItems
  BY ForeachAssumption
<1>11. Done' = Done
  BY <1>8 DEF Done
<1>12. (FannedOut' <=> FannedOut) /\ (Skipped' <=> Skipped)
  BY <1>8, <1>9, <1>10, Layout DEF FannedOut, Skipped
<1>13. \A n \in Nodes, i \in 1..MaxItems : result'[<<n, i>>] # "skipped"
  BY <1>2, <1>8, <1>9, <1>10 DEF IterInv
<1>14. /\ DepsInv' /\ OnceInv' /\ IterInv' /\ RejoinInv' /\ PlainInv'
       /\ Open' = Open
       /\ \A j : Good(j)' <=> Good(j)
  BY <1>1, <1>11, <1>12, <1>13, QuietStep
<1>15. BaseTypeOK'
  BY <1>1, <1>2, <1>3, <1>7 DEF BaseTypeOK
<1>16. JobInv'
  <2>1. InHand' => InHand /\ h'.job = h.job
    BY <1>3 DEF InHand
  <2> QED
    BY <1>1, <1>2, <1>14, <2>1, KeepJob
<1>17. PendingInv'
  BY <1>1, <1>2, <1>3, <1>14 DEF PendingInv
<1>18. HandlerInv'
  BY <1>3 DEF HandlerInv
<1>19. RejoinCollectsAll'
  BY <1>1, <1>2, <1>8, <1>9, <1>10 DEF RejoinCollectsAll
<1> QED
  BY <1>14, <1>15, <1>16, <1>17, <1>18, <1>19 DEF IInv

\* Failing for good, and the completion check.
LEMMA EndIInv ==
  ASSUME IInv, DeadLetter \/ SetFailed \/ ReadPending \/ SetCompleted
  PROVE  IInv'
<1>1. /\ UNCHANGED <<items, deps, issued, result>>
      /\ pending' = pending /\ got' = got /\ queue' = queue /\ crashes' = crashes
  BY DEF DeadLetter, SetFailed, ReadPending, SetCompleted
<1>2. /\ DepsInv' /\ OnceInv' /\ IterInv' /\ RejoinInv' /\ PlainInv'
      /\ Open' = Open
      /\ \A j : Good(j)' <=> Good(j)
  BY <1>1, SameStore
<1>3. RejoinCollectsAll'
  BY <1>1 DEF IInv, RejoinCollectsAll
<1>4. BaseTypeOK /\ JobInv /\ PendingInv
  BY DEF IInv
<1>5. /\ h' \in [pc : Steps, job : Jobs, at : 1..(Len(Rejoins) + 1)]
      /\ h'.pc \in {"setFailed", "idle", "setCompleted"}
      /\ h'.pc = "setCompleted" => pending = 0
  <2>1. \/ h' = IdleHandler
        \/ Goto("failed", "setFailed")
        \/ Goto("readPending", "setCompleted") /\ pending = 0
    BY DEF DeadLetter, SetFailed, ReadPending, SetCompleted, Return
  <2>2. IdleHandler \in [pc : Steps, job : Jobs, at : 1..(Len(Rejoins) + 1)]
        /\ IdleHandler.pc = "idle"
    BY IdleType
  <2>3. "setFailed" \in Steps /\ "setCompleted" \in Steps
    BY DEF Steps
  <2> QED
    BY <1>4, <2>1, <2>2, <2>3, GotoFacts
<1>6. lost' \in Nat
  <2>1. lost' = lost \/ lost' = lost + 1
    BY DEF DeadLetter, SetFailed, ReadPending, SetCompleted
  <2> QED
    BY <1>4, <2>1 DEF BaseTypeOK
<1>7. /\ status' \in {status, "failed", "completed"}
      /\ status' = status \/ status' = "failed" \/ (status' = "completed" /\ pending = 0)
  <2>1. status' = status \/ status' = "failed" \/ (status' = "completed" /\ h.pc = "setCompleted")
    BY DEF DeadLetter, SetFailed, ReadPending, SetCompleted, Return
  <2> QED
    BY <1>4, <2>1 DEF PendingInv
<1>8. BaseTypeOK'
  BY <1>1, <1>4, <1>5, <1>6, <1>7 DEF BaseTypeOK
<1>9. JobInv'
  <2>1. ~InHand'
    BY <1>5 DEF InHand
  <2> QED
    BY <1>1, <1>2, <1>4, <2>1, KeepJob
<1>10. PendingInv'
  BY <1>1, <1>2, <1>4, <1>5, <1>7 DEF PendingInv
<1>11. HandlerInv'
  BY <1>5 DEF HandlerInv
<1> QED
  BY <1>2, <1>3, <1>8, <1>9, <1>10, <1>11 DEF IInv

\* SetRunDepsRemaining happens before the fan-out, when a rejoin's counter may
\* be the static one or the foreach's.
LEMMA SetDepsIInv ==
  ASSUME IInv, SetRunDepsRemaining
  PROVE  IInv'
<1>1. /\ items' = items /\ issued' = issued /\ result' = result
      /\ status' = status /\ pending' = pending /\ queue' = queue /\ got' = got
      /\ crashes' = crashes /\ lost' = lost
      /\ h.pc = "setDeps" /\ h.at <= Len(Rejoins) /\ h' = [h EXCEPT !.at = @ + 1]
      /\ deps' = [deps EXCEPT ![Rejoins[h.at]] = items]
  BY DEF SetRunDepsRemaining, Iterations
<1>2. Done' = Done /\ (FannedOut' <=> FannedOut) /\ (Skipped' <=> Skipped)
  BY <1>1 DEF Done, FannedOut, Skipped
<1>3. \A n \in Nodes, i \in 1..MaxItems : result'[<<n, i>>] # "skipped"
  BY <1>1 DEF IInv, IterInv
<1>4. /\ OnceInv' /\ IterInv' /\ RejoinInv' /\ PlainInv'
      /\ Open' = Open /\ Left' = Left /\ (\A n : Waits(n)' = Waits(n))
      /\ \A j : Good(j)' <=> Good(j)
  BY <1>1, <1>2, <1>3, QuietRest
<1>5. BaseTypeOK /\ JobInv /\ PendingInv /\ HandlerInv /\ DepsInv
  BY DEF IInv
<1>6. RejoinCollectsAll'
  BY <1>1 DEF IInv, RejoinCollectsAll
<1>7. PICK a : a = h.at
  OBVIOUS
<1>8. a \in 1..Len(Rejoins) /\ Len(Rejoins) \in Nat /\ DOMAIN Rejoins = 1..Len(Rejoins)
  <2>1. h.at \in 1..(Len(Rejoins) + 1) /\ Len(Rejoins) \in Nat
    BY <1>5, Layout DEF BaseTypeOK
  <2> QED
    BY <1>1, <1>7, <2>1, Layout
<1>9. h'.pc = h.pc /\ h'.job = h.job /\ h'.at = a + 1
      /\ h' \in [pc : Steps, job : Jobs, at : 1..(Len(Rejoins) + 1)]
  <2>1. a + 1 \in 1..(Len(Rejoins) + 1)
    BY <1>8
  <2>2. h' = [h EXCEPT !.at = a + 1]
    BY <1>1, <1>7
  <2> QED
    BY <1>5, <2>1, <2>2 DEF BaseTypeOK
<1>10. PICK r : r = Rejoins[a]
  OBVIOUS
<1>11. r \in Nodes /\ IsRejoin(r)
  BY <1>8, <1>10, Layout DEF IsRejoin, Elems
<1>12. /\ deps' \in [Nodes -> Int] /\ deps'[r] = items
       /\ \A n \in Nodes : n # r => deps'[n] = deps[n]
  <2>1. items \in Int /\ deps \in [Nodes -> Int]
    BY <1>5 DEF BaseTypeOK
  <2>2. deps' = [deps EXCEPT ![r] = items]
    BY <1>1, <1>7, <1>10
  <2> QED
    BY <1>11, <2>1, <2>2
<1>13. ~FannedOut
  <2>1. Id(h.job) \in Open /\ h.job.node = Loop /\ (h.job.node # Body => h.job.iter = 0)
    BY <1>1, <1>5, HandFacts DEF InHand, HandlerInv
  <2>2. <<Loop, 0>> \in Open
    BY <2>1, Layout DEF Id
  <2> QED
    BY <2>2 DEF Open, Done, FannedOut
<1>14. DepsInv'
  <2> SUFFICES ASSUME NEW n \in Nodes
               PROVE  IF ~IsRejoin(n) THEN deps'[n] = Cardinality(Waits(n)')
                      ELSE deps'[n] \in {1, items'}
    BY <1>2, <1>13 DEF DepsInv
  <2>1. CASE IsRejoin(n)
    <3>1. deps[n] \in {1, items}
      BY <1>5, <1>13, <2>1 DEF DepsInv
    <3> QED
      BY <1>1, <1>12, <2>1, <3>1
  <2>2. CASE ~IsRejoin(n)
    <3>1. deps[n] = Cardinality(Waits(n)) /\ n # r
      BY <1>5, <1>11, <2>2 DEF DepsInv
    <3>2. deps'[n] = Cardinality(Waits(n)')
      BY <1>4, <1>12, <3>1
    <3> QED
      BY <2>2, <3>2
  <2> QED
    BY <2>1, <2>2
<1>15. BaseTypeOK'
  BY <1>1, <1>5, <1>9, <1>12 DEF BaseTypeOK
<1>16. JobInv'
  <2>1. InHand' => InHand /\ h'.job = h.job
    BY <1>9 DEF InHand
  <2> QED
    BY <1>1, <1>4, <1>5, <2>1, KeepJob
<1>17. PendingInv'
  BY <1>1, <1>4, <1>5, <1>9 DEF PendingInv
<1>18. HandlerInv'
  <2>1. h.job.node = Loop /\ h.job.mode = "run"
        /\ \A k \in DOMAIN Rejoins : k < a => deps[Rejoins[k]] = items
    BY <1>1, <1>5, <1>7 DEF HandlerInv
  <2>2. ASSUME NEW k \in DOMAIN Rejoins, k < a + 1 PROVE deps'[Rejoins[k]] = items
    <3>1. Rejoins[k] \in Nodes
      BY Layout
    <3>2. CASE k = a
      BY <1>10, <1>12, <3>2
    <3>3. CASE k # a
      <4>1. k < a
        BY <1>8, <2>2, <3>3
      <4> QED
        BY <1>12, <2>1, <3>1, <4>1
    <3> QED
      BY <3>2, <3>3
  <2> QED
    BY <1>1, <1>9, <2>1, <2>2 DEF HandlerInv
<1> QED
  BY <1>4, <1>6, <1>14, <1>15, <1>16, <1>17, <1>18 DEF IInv

-----------------------------------------------------------------------------
(* The invariant *)

\* StartRun enqueues the head, and the static counters count all dependencies.
LEMMA InitIInv ==
  ASSUME LoopAlone, Init
  PROVE  IInv
<1>1. /\ items \in 0..MaxItems /\ status = "running" /\ pending = 1
      /\ deps = [n \in Nodes |-> Cardinality(Preds[n])]
      /\ result = [id \in Ids |-> "none"]
      /\ queue = {HeadJob} /\ h = IdleHandler /\ crashes = 0
      /\ issued = [id \in Ids |-> IF id = <<HeadNode, 0>> THEN 1 ELSE 0]
      /\ lost = 0 /\ got = [n \in Nodes |-> <<>>]
  BY DEF Init, HeadNode
<1>2. /\ \A n \in Nodes, i \in 0..MaxItems : <<n, i>> \in Ids
      /\ MaxItems \in Nat /\ 0 \in 0..MaxItems /\ 0 \in 0..MaxAttempts
      /\ 1..MaxItems \subseteq 0..MaxItems
      /\ 0 \in 0..MaxCrashes /\ HeadNode \in Nodes
  <2>1. \A n \in Nodes, i \in 0..MaxItems : <<n, i>> \in Ids
    BY Zenon DEF Ids
  <2>2. MaxItems \in Nat /\ MaxAttempts \in Nat /\ MaxCrashes \in Nat
    BY ForeachAssumption
  <2>3. HeadNode \in Nodes
    BY Layout
  <2>4. 0 \in 0..MaxItems /\ 0 \in 0..MaxAttempts /\ 0 \in 0..MaxCrashes
        /\ 1..MaxItems \subseteq 0..MaxItems
    BY <2>2
  <2> QED
    BY <2>1, <2>2, <2>3, <2>4
<1>3. Done = {} /\ ~FannedOut /\ ~Skipped
  BY <1>1, <1>2, Layout DEF Done, FannedOut, Skipped
<1>4. Open = {<<HeadNode, 0>>}
  BY <1>1, <1>2, <1>3 DEF Open
<1>5. \A n \in Nodes : Waits(n) = Preds[n]
  BY <1>3 DEF Waits
<1>6. h.pc = "idle" /\ h \in [pc : Steps, job : Jobs, at : 1..(Len(Rejoins) + 1)]
  BY <1>1, IdleType
<1>7. HeadJob = [node |-> HeadNode, iter |-> 0, form |-> "full", mode |-> "run", tries |-> 0]
  BY DEF HeadJob, NodeJob, HeadNode
<1>8. HeadJob \in Jobs
  BY <1>2, <1>7 DEF Jobs
<1>9. BaseTypeOK
  <2>1. deps \in [Nodes -> Int]
    <3>1. \A n \in Nodes : Preds[n] \in SUBSET Nodes
      BY ForeachAssumption
    <3>2. \A n \in Nodes : Cardinality(Preds[n]) \in Int
      BY <3>1, FiniteSets
    <3> QED
      BY <1>1, <3>2
  <2>2. result \in [Ids -> Results]
    BY <1>1 DEF Results
  <2>3. issued \in [Ids -> Nat] /\ got \in [Nodes -> Seq(Results)]
    BY <1>1
  <2> QED
    BY <1>1, <1>2, <1>6, <1>8, <2>1, <2>2, <2>3 DEF BaseTypeOK
<1>10. JobInv
  <2>1. Id(HeadJob) \in Open /\ HeadJob.form = "full" /\ HeadJob.iter = 0 /\ HeadJob.node = HeadNode
    BY <1>4, <1>7 DEF Id
  <2>2. Good(HeadJob)
    BY <2>1, <1>3 DEF Good
  <2> QED
    BY <1>1, <1>6, <2>2 DEF JobInv, InHand
<1>11. DepsInv
  <2> SUFFICES ASSUME NEW n \in Nodes
               PROVE  IF ~IsRejoin(n) THEN deps[n] = Cardinality(Waits(n))
                      ELSE deps[n] \in {1, items}
    BY <1>3 DEF DepsInv
  <2>1. deps[n] = Cardinality(Preds[n])
    BY <1>1
  <2>2. CASE ~IsRejoin(n)
    BY <1>5, <2>1, <2>2
  <2>3. CASE IsRejoin(n)
    <3>1. Preds[n] = {Body}
      BY <2>3, Layout DEF LoopAlone
    <3>2. Cardinality({Body}) = 1
      BY FS_Singleton
    <3> QED
      BY <2>1, <2>3, <3>1, <3>2
  <2> QED
    BY <2>2, <2>3
<1>12. OnceInv
  BY <1>1, <1>3 DEF OnceInv
<1>13. IterInv
  <2>1. issued[<<Body, 0>>] = 0
    BY <1>1, <1>2, Layout
  <2>2. ASSUME NEW n \in Nodes, NEW i \in 1..MaxItems
        PROVE  issued[<<n, i>>] = 0 /\ result[<<n, i>>] = "none"
    <3>1. <<n, i>> \in Ids /\ i # 0
      BY <1>2
    <3> QED
      BY <1>1, <3>1
  <2> QED
    BY <1>3, <2>1, <2>2 DEF IterInv
<1>14. RejoinInv
  <2>1. ASSUME NEW n \in Nodes, IsRejoin(n) PROVE issued[<<n, 0>>] = 0
    BY <1>1, <1>2, <2>1, Layout
  <2> QED
    BY <1>3, <2>1 DEF RejoinInv
<1>15. PlainInv
  <2>1. \A n \in Nodes : MayStart(n) <=> n = HeadNode
    BY <1>5 DEF MayStart
  <2>2. \A n \in Nodes : issued[<<n, 0>>] = 1 <=> n = HeadNode
    BY <1>1, <1>2
  <2> QED
    BY <2>1, <2>2 DEF PlainInv
<1>16. PendingInv
  <2>1. Cardinality(Open) = 1
    BY <1>4, FS_Singleton
  <2> QED
    BY <1>1, <1>6, <2>1 DEF PendingInv
<1>17. HandlerInv
  BY <1>6 DEF HandlerInv
<1>18. RejoinCollectsAll
  BY <1>1, <1>2 DEF RejoinCollectsAll
<1> QED
  BY <1>9, <1>10, <1>11, <1>12, <1>13, <1>14, <1>15, <1>16, <1>17, <1>18 DEF IInv

\* A step that changes nothing.
LEMMA StutterIInv ==
  ASSUME IInv, UNCHANGED vars
  PROVE  IInv'
<1>1. /\ UNCHANGED <<items, deps, issued, result>>
      /\ status' = status /\ pending' = pending /\ got' = got /\ queue' = queue
      /\ crashes' = crashes /\ lost' = lost /\ h' = h
  BY DEF vars
<1>2. /\ DepsInv' /\ OnceInv' /\ IterInv' /\ RejoinInv' /\ PlainInv'
      /\ Open' = Open
      /\ \A j : Good(j)' <=> Good(j)
  BY <1>1, SameStore
<1>3. BaseTypeOK /\ JobInv /\ PendingInv /\ HandlerInv /\ RejoinCollectsAll
  BY DEF IInv
<1>4. BaseTypeOK'
  BY <1>1, <1>3 DEF BaseTypeOK
<1>5. JobInv'
  <2>1. InHand' => InHand /\ h'.job = h.job
    BY <1>1 DEF InHand
  <2> QED
    BY <1>1, <1>2, <1>3, <2>1, KeepJob
<1>6. PendingInv'
  BY <1>1, <1>2, <1>3 DEF PendingInv
<1>7. items' = items /\ deps' = deps /\ result' = result
  BY <1>1
<1>8. HandlerInv'
  BY <1>1, <1>3, <1>7 DEF HandlerInv
<1>9. RejoinCollectsAll'
  BY <1>1, <1>3, <1>7 DEF RejoinCollectsAll
<1> QED
  BY <1>2, <1>4, <1>5, <1>6, <1>8, <1>9 DEF IInv

LEMMA NextIInv ==
  ASSUME LoopAlone, IInv, Next
  PROVE  IInv'
<1>1. CASE Claim \/ HandleDrop \/ Retry \/ Crash
  BY <1>1, MoveIInv
<1>2. CASE HandleStatus \/ RunForeach \/ RejoinsSet
  BY <1>2, LocalIInv
<1>3. CASE RunNode
  BY <1>3, RunNodeIInv
<1>4. CASE RunFails
  BY <1>4, RunFailsIInv
<1>5. CASE DeadLetter \/ SetFailed \/ ReadPending \/ SetCompleted
  BY <1>5, EndIInv
<1>6. CASE SetRunDepsRemaining
  BY <1>6, SetDepsIInv
<1>7. CASE CommitNode \/ CommitSwitch \/ CommitForeach
  BY <1>7, CommitIInv
<1> QED
  BY <1>1, <1>2, <1>3, <1>4, <1>5, <1>6, <1>7 DEF Next

(***************************************************************************)
(* The counting invariant holds throughout a run, if nothing but the body  *)
(* depends on the foreach and the rejoins on nothing but the body.         *)
(***************************************************************************)
THEOREM ForeachInvariance ==
  ASSUME LoopAlone
  PROVE  Spec => []IInv
<1>1. Init => IInv
  BY InitIInv
<1>2. IInv /\ [Next]_vars => IInv'
  BY NextIInv, StutterIInv
<1> QED
  BY <1>1, <1>2, PTL DEF Spec

\* The types (ForeachTypeOK), with the counters never negative: a decrement
\* follows what it counts.
THEOREM ForeachTypes ==
  ASSUME LoopAlone
  PROVE  Spec => []ForeachTypeOK
<1>1. IInv => ForeachTypeOK
  <2> SUFFICES ASSUME IInv PROVE ForeachTypeOK
    OBVIOUS
  <2>1. BaseTypeOK /\ PendingInv /\ DepsInv
    BY DEF IInv
  <2>2. pending \in Nat
    <3>1. Open \in SUBSET Ids
      BY DEF Open
    <3>2. Cardinality(Open) \in Nat
      BY <3>1, FiniteSets
    <3> QED
      BY <2>1, <3>2 DEF PendingInv
  <2>3. ASSUME NEW n \in Nodes PROVE deps[n] \in Nat
    <3>1. items \in Nat
      BY <2>1 DEF BaseTypeOK
    <3>2. Cardinality(Waits(n)) \in Nat
      <4>1. Waits(n) \in SUBSET Nodes
        BY ForeachAssumption DEF Waits
      <4> QED
        BY <4>1, FiniteSets
    <3>3. Cardinality(Left) \in Nat
      <4>1. Left \in SUBSET (1..items)
        BY DEF Left
      <4> QED
        BY <3>1, <4>1, FiniteSets
    <3> QED
      BY <2>1, <3>1, <3>2, <3>3 DEF DepsInv
  <2>4. deps \in [Nodes -> Nat]
    BY <2>1, <2>3 DEF BaseTypeOK
  <2> QED
    BY <2>1, <2>2, <2>4 DEF BaseTypeOK, ForeachTypeOK
<1> QED
  BY <1>1, ForeachInvariance, PTL

\* Nothing is enqueued twice (IterationsOnce), whatever crashes and is retried.
THEOREM ForeachOnce ==
  ASSUME LoopAlone
  PROVE  Spec => []IterationsOnce
<1>1. IInv => IterationsOnce
  BY DEF IInv, OnceInv, IterationsOnce
<1> QED
  BY <1>1, ForeachInvariance, PTL

\* A rejoin that ran had the result of every iteration (RejoinCollectsAll).
THEOREM ForeachCollects ==
  ASSUME LoopAlone
  PROVE  Spec => []RejoinCollectsAll
<1>1. IInv => RejoinCollectsAll
  BY DEF IInv
<1> QED
  BY <1>1, ForeachInvariance, PTL

-----------------------------------------------------------------------------
(* A completed run *)

\* A node beyond the rejoins has dependencies, all of them rejoins or beyond
\* the rejoins.
LEMMA BeyondDown ==
  ASSUME NEW n \in Beyond
  PROVE  n \in Nodes /\ Preds[n] # {} /\ \A m \in Preds[n] : IsRejoin(m) \/ m \in Beyond
<1>1. PICK S \in SUBSET Nodes :
        /\ n \in S
        /\ \A x \in S : Preds[x] # {} /\ \A m \in Preds[x] : IsRejoin(m) \/ m \in S
  BY DEF Beyond
<1>2. S \subseteq Beyond
  BY <1>1 DEF Beyond
<1> QED
  BY <1>1, <1>2

\* The foreach is not beyond its own rejoins: the first node that is depends on
\* a rejoin, so it comes after the body and the foreach.
LEMMA LoopNotBeyond == Loop \notin Beyond
<1> SUFFICES ASSUME Loop \in Beyond PROVE FALSE
  OBVIOUS
<1> DEFINE T == {i \in 1..Len(RunOrder) : RunOrder[i] \in Beyond}
<1>1. PICK l \in 1..Len(RunOrder) : RunOrder[l] = Loop
  BY OrderFacts, Layout
<1>2. T \in SUBSET Nat /\ l \in T
  BY <1>1, OrderFacts
<1>3. PICK p \in T : \A q \in T : p <= q
  BY <1>2, LeastNumber
<1>4. /\ p \in 1..Len(RunOrder) /\ RunOrder[p] \in Beyond
      /\ Preds[RunOrder[p]] # {}
      /\ \A m \in Preds[RunOrder[p]] : IsRejoin(m) \/ m \in Beyond
  BY <1>3, BeyondDown
<1>5. PICK m : m \in Preds[RunOrder[p]]
  BY <1>4
<1>6. m \in Nodes
  BY <1>4, <1>5, OrderFacts, ForeachAssumption
<1>7. PICK q \in 1..Len(RunOrder) : RunOrder[q] = m
  BY <1>6, OrderFacts
<1>8. q < p
  BY <1>4, <1>5, <1>7, Earlier
<1>9. p \in Nat /\ q \in Nat /\ l \in Nat
  BY <1>1, <1>4, <1>7, OrderFacts
<1>10. m \notin Beyond
  <2>1. ASSUME m \in Beyond PROVE FALSE
    <3>1. q \in T
      BY <1>7, <2>1
    <3>2. p <= q
      BY <1>3, <3>1
    <3> QED
      BY <1>8, <1>9, <3>2
  <2> QED
    BY <2>1
<1>11. Body \in Preds[m]
  BY <1>4, <1>5, <1>10, Layout
<1>12. PICK b \in 1..Len(RunOrder) : RunOrder[b] = Body
  BY OrderFacts, Layout
<1>13. b < q
  BY <1>7, <1>11, <1>12, Earlier
<1>14. l < b
  BY <1>1, <1>12, ForeachAssumption, Earlier
<1>15. p <= l
  BY <1>2, <1>3
<1>16. b \in Nat
  BY <1>12, OrderFacts
<1> QED
  BY <1>8, <1>9, <1>13, <1>14, <1>15, <1>16

(***************************************************************************)
(* With nothing open, everything that should have run has committed.  The  *)
(* first node in the run order that has not would have been enqueued by    *)
(* the last commit among its dependencies.                                 *)
(***************************************************************************)
LEMMA NothingOpen ==
  ASSUME LoopAlone, SingleRoot, NoBypass, IInv, Open = {}, items > 0 \/ Skipped
  PROVE  \A n \in Nodes \ {Body} : n \in Beyond \/ <<n, 0>> \in Done
<1> DEFINE T == {i \in 1..Len(RunOrder) :
                   /\ RunOrder[i] # Body /\ RunOrder[i] \notin Beyond
                   /\ <<RunOrder[i], 0>> \notin Done}
<1> SUFFICES ASSUME NEW x \in Nodes \ {Body}, x \notin Beyond, <<x, 0>> \notin Done
             PROVE  FALSE
  OBVIOUS
<1>1. T \in SUBSET Nat /\ T # {}
  <2>1. PICK l \in 1..Len(RunOrder) : RunOrder[l] = x
    BY OrderFacts
  <2>2. l \in T
    BY <2>1
  <2>3. T \subseteq 1..Len(RunOrder)
    OBVIOUS
  <2> HIDE DEF T
  <2> QED
    BY <2>2, <2>3, OrderFacts
<1>2. PICK p \in T : \A q \in T : p <= q
  BY <1>1, LeastNumber
<1>3. PICK n : n = RunOrder[p]
  OBVIOUS
<1>4. /\ p \in 1..Len(RunOrder) /\ n \in Nodes \ {Body} /\ n \notin Beyond
      /\ <<n, 0>> \notin Done
  BY <1>2, <1>3, OrderFacts
<1>5. ASSUME NEW q \in 1..Len(RunOrder), q < p, RunOrder[q] # Body, RunOrder[q] \notin Beyond
      PROVE  <<RunOrder[q], 0>> \in Done
  <2>1. q \in Nat /\ p \in Nat
    BY <1>4, OrderFacts
  <2>2. q \notin T
    BY <1>2, <1>5, <2>1
  <2> QED
    BY <1>5, <2>2
<1>6. ASSUME NEW m \in Preds[n], m # Body, m \notin Beyond PROVE <<m, 0>> \in Done
  <2>1. m \in Nodes
    BY <1>4, ForeachAssumption
  <2>2. PICK q \in 1..Len(RunOrder) : RunOrder[q] = m
    BY <2>1, OrderFacts
  <2>3. q < p
    BY <1>3, <1>4, <2>2, Earlier
  <2> QED
    BY <1>5, <1>6, <2>2, <2>3
<1>7. \A id \in Ids : issued[id] = 1 => id \in Done
  BY DEF Open
<1> HIDE DEF T
<1>8. /\ items \in 0..MaxItems /\ MaxItems \in Nat /\ 0 \in 0..MaxItems
      /\ \A m \in Nodes, i \in 0..MaxItems : <<m, i>> \in Ids
  <2>1. items \in 0..MaxItems
    BY DEF IInv, BaseTypeOK
  <2>2. MaxItems \in Nat /\ 0 \in 0..MaxItems
    BY ForeachAssumption
  <2>3. \A m \in Nodes, i \in 0..MaxItems : <<m, i>> \in Ids
    BY Zenon DEF Ids
  <2> QED
    BY <2>1, <2>2, <2>3
<1>9. issued[<<n, 0>>] # 1
  BY <1>4, <1>7, <1>8
<1>10. CASE n = HeadNode
  <2>1. MayStart(n) /\ ~IsRejoin(n) /\ \A m \in Preds[n] : ~IsRejoin(m)
    BY <1>10, Layout DEF MayStart
  <2> QED
    BY <1>4, <1>9, <2>1 DEF IInv, PlainInv
<1>11. CASE IsRejoin(n)
  <2>1. PICK l \in 1..Len(RunOrder), b \in 1..Len(RunOrder) :
          RunOrder[l] = Loop /\ RunOrder[b] = Body
    BY OrderFacts, Layout
  <2>2. b < p
    <3>1. Body \in Preds[n]
      BY <1>11, Layout
    <3> QED
      BY <1>3, <1>4, <2>1, <3>1, Earlier
  <2>3. l < b
    BY <2>1, ForeachAssumption, Earlier
  <2>4. l < p
    <3>1. l \in Nat /\ b \in Nat /\ p \in Nat
      BY <1>4, <2>1, OrderFacts
    <3> QED
      BY <2>2, <2>3, <3>1
  <2>5. <<Loop, 0>> \in Done
    BY <1>5, <2>1, <2>4, Layout, LoopNotBeyond
  <2>6. Skipped \/ (FannedOut /\ items > 0)
    BY <2>5 DEF Done, Skipped, FannedOut
  <2>7. ASSUME FannedOut PROVE Left = {}
    <3>1. ASSUME NEW i \in 1..items PROVE <<Body, i>> \in Done
      <4>1. i \in 1..MaxItems /\ i <= items /\ <<Body, i>> \in Ids
        BY <1>8, Layout
      <4>2. issued[<<Body, i>>] = 1
        BY <2>7, <4>1, Layout DEF IInv, IterInv
      <4> QED
        BY <1>7, <4>1, <4>2
    <3> QED
      BY <3>1 DEF Left
  <2> QED
    BY <1>4, <1>9, <1>11, <2>6, <2>7 DEF IInv, RejoinInv
<1>12. CASE n # HeadNode /\ ~IsRejoin(n)
  <2>1. Preds[n] # {}
    BY <1>4, <1>12 DEF SingleRoot, HeadNode
  <2>2. ASSUME NEW m \in Preds[n]
        PROVE  m # Body /\ m # Loop /\ ~IsRejoin(m) /\ m \notin Beyond
    <3>1. m # Body
      BY <1>4, <1>12, Layout
    <3>2. m # Loop
      BY <1>4 DEF LoopAlone
    <3>3. ~IsRejoin(m) /\ m \notin Beyond
      BY <1>4 DEF NoBypass
    <3> QED
      BY <3>1, <3>2, <3>3
  <2>3. Waits(n) = {}
    BY <1>6, <2>2 DEF Waits
  <2>4. MayStart(n)
    BY <2>1, <2>3 DEF MayStart
  <2>5. \A m \in Preds[n] : ~IsRejoin(m)
    BY <2>2
  <2> QED
    BY <1>4, <1>9, <1>12, <2>4, <2>5 DEF IInv, PlainInv
<1> QED
  BY <1>10, <1>11, <1>12

(***************************************************************************)
(* A completed run has run or skipped every node up to the rejoins, and    *)
(* the body for every element (CompletedRanAll), if the head is the only   *)
(* root and no node joins a rejoin with a way around it.                   *)
(***************************************************************************)
THEOREM ForeachCompletes ==
  ASSUME LoopAlone, SingleRoot, NoBypass
  PROVE  Spec => []CompletedRanAll
<1>1. IInv => CompletedRanAll
  <2> SUFFICES ASSUME IInv, status = "completed", items > 0 \/ Skipped
               PROVE  /\ \A n \in Nodes \ {Body} :
                           n \in Beyond \/ result[<<n, 0>>] \in {"ok", "skipped"}
                      /\ Skipped \/ \A i \in 1..items : result[<<Body, i>>] = "ok"
    BY DEF CompletedRanAll
  <2>1. Open = {}
    <3>1. Cardinality(Open) = 0
      BY DEF IInv, PendingInv
    <3>2. Open \in SUBSET Ids
      BY DEF Open
    <3>3. IsFiniteSet(Open)
      BY <3>2, FiniteSets
    <3> QED
      BY <3>1, <3>3, FS_EmptySet
  <2>2. \A n \in Nodes \ {Body} : n \in Beyond \/ <<n, 0>> \in Done
    BY <2>1, NothingOpen
  <2>3. \A n \in Nodes \ {Body} : n \in Beyond \/ result[<<n, 0>>] \in {"ok", "skipped"}
    BY <2>2 DEF Done
  <2>4. ASSUME ~Skipped, NEW i \in 1..items PROVE result[<<Body, i>>] = "ok"
    <3>1. FannedOut
      <4>1. <<Loop, 0>> \in Done
        BY <2>2, Layout, LoopNotBeyond
      <4> QED
        BY <2>4, <4>1 DEF Done, Skipped, FannedOut
    <3>2. i \in 1..MaxItems /\ i <= items /\ <<Body, i>> \in Ids
      <4>1. items \in 0..MaxItems /\ MaxItems \in Nat
        BY ForeachAssumption DEF IInv, BaseTypeOK
      <4>2. i \in 1..MaxItems /\ i <= items /\ i \in 0..MaxItems
        BY <4>1
      <4> QED
        BY <4>2, Layout DEF Ids
    <3>3. issued[<<Body, i>>] = 1 /\ result[<<Body, i>>] # "skipped"
      BY <3>1, <3>2, Layout DEF IInv, IterInv
    <3>4. <<Body, i>> \in Done
      BY <2>1, <3>2, <3>3 DEF Open
    <3> QED
      BY <3>3, <3>4 DEF Done
  <2> QED
    BY <2>3, <2>4
<1> QED
  BY <1>1, ForeachInvariance, PTL
=============================================================================
