----------------------------- MODULE DagProofs ------------------------------
(***************************************************************************)
(* Proofs about Dag: for every workflow, of any size and whatever its      *)
(* names and dependencies, ResolveDAG reports a cycle exactly when there   *)
(* is one, an accepted workflow has a run order, and the head job that     *)
(* FromWafer builds carries all that can be reached from it.               *)
(*                                                                         *)
(* The argument is Kahn's: a node's indegree is the number of its          *)
(* dependencies not yet passed, and the nodes in order or in the work list *)
(* are exactly those whose indegree is zero.                               *)
(***************************************************************************)
EXTENDS Dag, FiniteSetTheorems, NaturalsInduction, TLAPS

-----------------------------------------------------------------------------
(* The inductive invariant *)

\* The nodes taken from the work list, and the ones still on it.
Taken == {order[p] : p \in 1..Len(order)}

OnQueue == {queue[p] : p \in 1..Len(queue)}

\* The loop over depends_on has seen node j.
Linked(j) == phase \notin {"names", "edges"} \/ (phase = "edges" /\ j < i)

\* The taken nodes whose edge to j, if any, is gone.
Passed(j) == IF phase = "adj" /\ i <= j THEN Taken \ {order[Len(order)]} ELSE Taken

\* The names j still waits for.
Left(j) == {d \in deps[j] : indexByName[d] \notin Passed(j)}

\* The loop that fills the work list has seen node j, and has queued it.
Seen(j) == phase \notin {"names", "edges", "first"} \/ (phase = "first" /\ j < i)

\* The types of DagTypeOK, without the bounds that follow from the rest.
BaseTypeOK ==
  /\ name \in [Index -> Names \cup {NoName}]
  /\ dependsOn \in [Index -> SUBSET Names]
  /\ phase \in Phases
  /\ i \in Index
  /\ indexByName \in [Ids -> Index \cup {0}]
  /\ deps \in [Index -> SUBSET Names]
  /\ indegree \in [Index -> Int]
  /\ queue \in Seq(Index)
  /\ order \in Seq(Index)
  /\ issues \in SUBSET {"duplicate_node_name", "unknown_node_reference", "circular_dependency"}
  /\ carried \in [Index -> SUBSET Index]
  /\ head \in Index \cup {0}

\* A name stands for a node that has it, so two names never stand for one.
NameInv == \A d \in Ids : indexByName[d] # 0 => name[indexByName[d]] = d

\* Only known names are dependencies, and an unknown one is an issue.
LinkInv ==
  \A j \in Index :
    /\ deps[j] = IF Linked(j) THEN Known(j) ELSE {}
    /\ Linked(j) /\ Known(j) # dependsOn[j] => "unknown_node_reference" \in issues

\* indegree counts the edges that are left.
CountInv == \A j \in Index : indegree[j] = Cardinality(Left(j))

\* order and the work list hold the nodes without an edge left, once each.
LineInv ==
  /\ \A j \in Index : j \in Taken \cup OnQueue <=> Seen(j) /\ indegree[j] = 0
  /\ \A p, q \in 1..Len(order) : order[p] = order[q] => p = q
  /\ \A p, q \in 1..Len(queue) : queue[p] = queue[q] => p = q
  /\ Taken \cap OnQueue = {}

\* order is a run order of the nodes in it.
OrderInv ==
  /\ \A p \in 1..Len(order) : Edges(order[p]) \subseteq {order[q] : q \in 1..(p - 1)}
  /\ phase \in {"names", "edges", "first"} => order = <<>>
  /\ phase = "adj" => order # <<>>
  /\ phase = "kahn" => i = 1

\* What ResolveDAG has found when it returns.
FoundInv ==
  /\ phase \in {"names", "edges", "first", "kahn", "adj"} =>
       "circular_dependency" \notin issues
  /\ phase \in {"build", "head", "accepted"} => issues = {} /\ Taken = Index
  /\ phase \in {"build", "head", "accepted", "rejected"} =>
       ("circular_dependency" \in issues <=> \E S \in SUBSET Index : Stuck(S))

\* The loop that builds the Downstreams has been at position p.
Built(p) == phase \in {"head", "accepted"} \/ (phase = "build" /\ Size + 1 - i < p)

\* A job that is built carries all that can be reached from it.
BuildInv ==
  /\ DistinctIds => \A p \in Index : Built(p) => carried[p] = Reachable(p)
  /\ phase = "accepted" => head \in Index

DagInv ==
  /\ BaseTypeOK /\ NameInv /\ LinkInv /\ CountInv /\ LineInv /\ OrderInv
  /\ FoundInv /\ BuildInv

-----------------------------------------------------------------------------
(* Lemmas *)

\* A set of names is finite, and its size is at most the number of names.
LEMMA NamesFinite ==
  ASSUME NEW X \in SUBSET Names
  PROVE  IsFiniteSet(X) /\ Cardinality(X) \in 0..Cardinality(Names)
<1>1. IsFiniteSet(Names)
  BY DagInputAssumption
<1>2. IsFiniteSet(X) /\ Cardinality(X) <= Cardinality(Names)
  BY <1>1, FS_Subset
<1>3. Cardinality(X) \in Nat /\ Cardinality(Names) \in Nat
  BY <1>1, <1>2, FS_CardinalityType
<1> QED
  BY <1>2, <1>3

\* A nonempty set of numbers has a least one.
LEMMA LeastPosition ==
  ASSUME NEW T \in SUBSET Nat, T # {}
  PROVE  \E p \in T : \A q \in T : p <= q
<1> DEFINE R == OpToRel(<, Nat)
<1>1. IsWellFoundedOn(R, Nat)
  BY NatLessThanWellFounded, Zenon
<1>2. \A p, q \in Nat : <<q, p>> \in R <=> q < p
  BY DEF OpToRel
<1> HIDE DEF R
<1>3. PICK p \in T : \A q \in T : ~(<<q, p>> \in R)
  BY <1>1, WFMin
<1>4. SUFFICES ASSUME NEW q \in T PROVE p <= q
  BY <1>3
<1>5. p \in Nat /\ q \in Nat
  BY <1>3
<1>6. ~(q < p)
  BY <1>2, <1>3, <1>5
<1> QED
  BY <1>5, <1>6

\* Positions in the list are numbers, and the list is not empty.
LEMMA IndexType == Size \in Nat /\ Size >= 1 /\ Index \subseteq Nat /\ 1 \in Index
BY DagInputAssumption DEF Index

(***************************************************************************)
(* order and the work list together are no longer than the list of nodes,  *)
(* because no node is in them twice.                                       *)
(***************************************************************************)
LEMMA LineBound ==
  ASSUME BaseTypeOK, LineInv
  PROVE  Len(order) + Len(queue) <= Size
<1> DEFINE n == Len(order)
           m == Len(queue)
           f == [p \in 1..(n + m) |-> IF p <= n THEN order[p] ELSE queue[p - n]]
<1>1. n \in Nat /\ m \in Nat /\ order \in Seq(Index) /\ queue \in Seq(Index)
  BY DEF BaseTypeOK
<1>2. ASSUME NEW p \in 1..(n + m) PROVE f[p] \in Index
  <2>1. CASE p <= n
    BY <1>1, <2>1
  <2>2. CASE ~(p <= n)
    BY <1>1, <2>2
  <2> QED
    BY <2>1, <2>2
<1>3. ASSUME NEW p \in 1..(n + m), NEW q \in 1..(n + m), f[p] = f[q] PROVE p = q
  <2>1. CASE p <= n /\ q <= n
    <3>1. order[p] = order[q] /\ p \in 1..n /\ q \in 1..n
      BY <1>1, <1>3, <2>1
    <3> QED
      BY <3>1 DEF LineInv
  <2>2. CASE ~(p <= n) /\ ~(q <= n)
    <3>1. queue[p - n] = queue[q - n] /\ p - n \in 1..m /\ q - n \in 1..m
      BY <1>1, <1>3, <2>2
    <3>2. p - n = q - n
      BY <3>1 DEF LineInv
    <3> QED
      BY <1>1, <3>2
  <2>3. CASE p <= n /\ ~(q <= n)
    <3>1. order[p] = queue[q - n] /\ p \in 1..n /\ q - n \in 1..m
      BY <1>1, <1>3, <2>3
    <3>2. order[p] \in Taken /\ queue[q - n] \in OnQueue
      BY <3>1 DEF Taken, OnQueue
    <3> QED
      BY <3>1, <3>2 DEF LineInv
  <2>4. CASE ~(p <= n) /\ q <= n
    <3>1. order[q] = queue[p - n] /\ q \in 1..n /\ p - n \in 1..m
      BY <1>1, <1>3, <2>4
    <3>2. order[q] \in Taken /\ queue[p - n] \in OnQueue
      BY <3>1 DEF Taken, OnQueue
    <3> QED
      BY <3>1, <3>2 DEF LineInv
  <2> QED
    BY <2>1, <2>2, <2>3, <2>4
<1>4. f \in Injection(1..(n + m), Index)
  <2>1. f \in [1..(n + m) -> Index]
    BY <1>2
  <2> HIDE DEF f
  <2> QED
    BY <1>3, <2>1 DEF Injection, IsInjective
<1> HIDE DEF f
<1>5. IsFiniteSet(Index) /\ Cardinality(Index) = Size
  BY IndexType, FS_Interval DEF Index
<1>6. Cardinality(1..(n + m)) <= Size
  BY <1>4, <1>5, FS_Injection
<1>7. Cardinality(1..(n + m)) = n + m
  BY <1>1, FS_Interval
<1> QED
  BY <1>6, <1>7

(***************************************************************************)
(* The test ResolveDAG makes: order is as long as the list of nodes        *)
(* exactly when every node was taken.                                      *)
(***************************************************************************)
LEMMA AllTaken ==
  ASSUME BaseTypeOK, LineInv
  PROVE  Len(order) = Size <=> Taken = Index
<1>1. order \in [1..Len(order) -> Index] /\ Len(order) \in Nat
  BY DEF BaseTypeOK
<1>2. order \in Injection(1..Len(order), Index)
  BY <1>1 DEF LineInv, Injection, IsInjective
<1>3. IsFiniteSet(Index) /\ Cardinality(Index) = Size
  BY IndexType, FS_Interval DEF Index
<1>4. Cardinality(1..Len(order)) = Len(order)
  <2>1. \A k \in Nat : Cardinality(1..k) = k
    BY FS_Interval
  <2> QED
    BY <1>1, <2>1
<1>5. Len(order) = Size <=> order \in Surjection(1..Len(order), Index)
  <2>1. Cardinality(1..Len(order)) = Cardinality(Index)
          <=> order \in Surjection(1..Len(order), Index)
    BY <1>2, <1>3, FS_Injection, Zenon
  <2> QED
    BY <1>3, <1>4, <2>1
<1>6. order \in Surjection(1..Len(order), Index) <=> Taken = Index
  BY <1>1 DEF Surjection, Taken
<1> QED
  BY <1>5, <1>6

(***************************************************************************)
(* At the end of Kahn's loop the nodes that were not taken are stuck, and  *)
(* if every node was taken no set is stuck: its first member in run order  *)
(* would need an earlier one.                                              *)
(***************************************************************************)
LEMMA LeftOversAreStuck ==
  ASSUME BaseTypeOK, LinkInv, CountInv, LineInv, phase = "kahn", queue = <<>>,
         Taken # Index
  PROVE  \E S \in SUBSET Index : Stuck(S)
<1> DEFINE S == Index \ Taken
<1>1. Taken \subseteq Index
  BY DEF BaseTypeOK, Taken
<1>2. S # {}
  BY <1>1
<1>3. ASSUME NEW j \in S PROVE Edges(j) \cap S # {}
  <2>1. j \in Index /\ j \notin Taken /\ OnQueue = {}
    BY DEF OnQueue
  <2>2. indegree[j] # 0
    BY <2>1 DEF LineInv, Seen
  <2>3. Left(j) # {}
    <3>1. indegree[j] = Cardinality(Left(j))
      BY <2>1 DEF CountInv
    <3> QED
      BY <2>2, <3>1, FS_EmptySet
  <2>4. PICK d \in deps[j] : indexByName[d] \notin Taken
    BY <2>3 DEF Left, Passed
  <2>5. deps[j] = Known(j)
    BY <2>1 DEF LinkInv, Linked
  <2>6. d \in Names /\ indexByName[d] # 0
    BY <2>1, <2>4, <2>5 DEF Known, BaseTypeOK
  <2>7. indexByName[d] \in Index
    BY <2>6 DEF BaseTypeOK, Ids
  <2> QED
    BY <2>4, <2>7 DEF Edges
<1> QED
  BY <1>2, <1>3 DEF Stuck

LEMMA RunOrderIsNotStuck ==
  ASSUME BaseTypeOK, OrderInv, Taken = Index, NEW S \in SUBSET Index, Stuck(S)
  PROVE  FALSE
<1> DEFINE T == {p \in 1..Len(order) : order[p] \in S}
<1>1. T # {}
  <2>1. PICK j \in S : j \in Index
    BY DEF Stuck
  <2>2. PICK p \in 1..Len(order) : order[p] = j
    BY <2>1 DEF Taken
  <2> QED
    BY <2>1, <2>2
<1>2. T \in SUBSET Nat
  OBVIOUS
<1>3. PICK p \in T : \A q \in T : p <= q
  BY <1>1, <1>2, LeastPosition
<1>4. PICK k \in Edges(order[p]) : k \in S
  BY <1>3 DEF Stuck
<1>5. PICK q \in 1..(p - 1) : order[q] = k
  BY <1>3, <1>4 DEF OrderInv
<1>6. q \in T /\ q < p
  <2>1. Len(order) \in Nat /\ p \in 1..Len(order)
    BY <1>3 DEF BaseTypeOK
  <2> QED
    BY <1>4, <1>5, <2>1
<1> QED
  BY <1>2, <1>3, <1>6

-----------------------------------------------------------------------------
(* The loops of ResolveDAG *)

\* The invariant of ResolveDAG's loops.
ResolveInv ==
  BaseTypeOK /\ NameInv /\ LinkInv /\ CountInv /\ LineInv /\ OrderInv

\* Advance goes through the positions.
LEMMA AdvanceStep ==
  ASSUME NEW to \in Phases, Advance(to), BaseTypeOK
  PROVE  /\ i' \in Index
         /\ phase' \in Phases
         /\ \/ phase' = phase /\ i' = i + 1 /\ i # Size
            \/ phase' = to /\ i' = 1 /\ i = Size
<1>1. i \in 1..Size /\ phase \in Phases /\ Size \in Nat /\ 1 \in 1..Size
  BY IndexType DEF BaseTypeOK, Index
<1>2. CASE i = Size
  BY <1>1, <1>2 DEF Advance, Index
<1>3. CASE i # Size
  <2>1. phase' = phase /\ i' = i + 1
    BY <1>3 DEF Advance
  <2> QED
    BY <1>1, <1>3, <2>1 DEF Index
<1> QED
  BY <1>2, <1>3

LEMMA NamesResolve ==
  ASSUME ResolveInv, RegisterName
  PROVE  ResolveInv'
<1> USE DEF ResolveInv
<1>1. /\ phase = "names"
      /\ Advance("edges")
  BY DEF RegisterName
<1>2. /\ i' \in Index /\ phase' \in Phases
      /\ phase' = "names" \/ (phase' = "edges" /\ i' = 1)
  BY <1>1, AdvanceStep DEF Phases
<1>3. /\ name' = name /\ dependsOn' = dependsOn /\ deps' = deps /\ indegree' = indegree
      /\ queue' = queue /\ order' = order /\ carried' = carried /\ head' = head
  BY DEF RegisterName, input
<1>4. issues' \in SUBSET {"duplicate_node_name", "unknown_node_reference", "circular_dependency"}
  BY DEF RegisterName, BaseTypeOK
<1>5. nodeID(i) \in Ids
  BY DEF nodeID, Ids, BaseTypeOK
<1>6. indexByName' \in [Ids -> Index \cup {0}]
  BY <1>5 DEF RegisterName, BaseTypeOK
<1>7. BaseTypeOK'
  BY <1>2, <1>3, <1>4, <1>6 DEF BaseTypeOK
<1>8. NameInv'
  <2>1. SUFFICES ASSUME NEW d \in Ids, indexByName'[d] # 0
                 PROVE  name[indexByName'[d]] = d
    BY <1>3 DEF NameInv
  <2>2. CASE indexByName'[d] = indexByName[d]
    BY <2>1, <2>2 DEF NameInv
  <2>3. CASE indexByName'[d] # indexByName[d]
    <3>1. /\ name[i] # NoName
          /\ indexByName' = [indexByName EXCEPT ![nodeID(i)] = i]
      BY <2>3 DEF RegisterName
    <3>2. d = nodeID(i) /\ indexByName'[d] = i
      BY <1>5, <2>3, <3>1 DEF BaseTypeOK
    <3> QED
      BY <3>1, <3>2 DEF nodeID
  <2> QED
    BY <2>2, <2>3
<1>9. \A j \in Index : deps[j] = {}
  BY <1>1 DEF LinkInv, Linked
<1>10. LinkInv'
  <2>1. SUFFICES ASSUME NEW j \in Index PROVE ~Linked(j)'
    BY <1>3, <1>9 DEF LinkInv
  <2>2. ~(j < 1)
    BY DEF Index
  <2> QED
    BY <1>2, <2>2 DEF Linked
<1>11. CountInv'
  <2>1. SUFFICES ASSUME NEW j \in Index PROVE Left(j)' = Left(j)
    BY <1>3 DEF CountInv
  <2> QED
    BY <1>3, <1>9 DEF Left
<1>12. \A j \in Index : Seen(j) = FALSE /\ Seen(j)' = FALSE
  BY <1>1, <1>2 DEF Seen
<1>13. LineInv'
  BY <1>3, <1>12 DEF LineInv, Taken, OnQueue
<1>14. order = <<>>
  BY <1>1 DEF OrderInv
<1>15. OrderInv'
  BY <1>2, <1>3, <1>14 DEF OrderInv
<1> QED
  BY <1>7, <1>8, <1>10, <1>11, <1>13, <1>15

LEMMA LinksResolve ==
  ASSUME ResolveInv, AddDependencies
  PROVE  ResolveInv'
<1> USE DEF ResolveInv
<1>1. phase = "edges" /\ Advance("first")
  BY DEF AddDependencies
<1>2. /\ i' \in Index /\ phase' \in Phases
      /\ \/ phase' = "edges" /\ i' = i + 1 /\ i # Size
         \/ phase' = "first" /\ i' = 1 /\ i = Size
  BY <1>1, AdvanceStep DEF Phases
<1>3. /\ name' = name /\ dependsOn' = dependsOn /\ indexByName' = indexByName
      /\ queue' = queue /\ order' = order /\ carried' = carried /\ head' = head
  BY DEF AddDependencies, input
<1>4. i \in Index /\ Known(i) \in SUBSET Names
  BY DEF BaseTypeOK, Known
<1>5. /\ deps' = [deps EXCEPT ![i] = Known(i)]
      /\ indegree' = [indegree EXCEPT ![i] = Cardinality(Known(i))]
      /\ issues' = issues \cup UnknownIssue(i)
  BY DEF AddDependencies
<1>6. BaseTypeOK'
  <2>1. Cardinality(Known(i)) \in Int
    BY <1>4, NamesFinite
  <2>2. deps' \in [Index -> SUBSET Names] /\ indegree' \in [Index -> Int]
    BY <1>4, <1>5, <2>1 DEF BaseTypeOK
  <2>3. issues' \in SUBSET {"duplicate_node_name", "unknown_node_reference", "circular_dependency"}
    BY <1>5 DEF UnknownIssue, BaseTypeOK
  <2> QED
    BY <1>2, <1>3, <2>2, <2>3 DEF BaseTypeOK
<1>7. NameInv'
  BY <1>3 DEF NameInv
<1>8. \A j \in Index : Linked(j)' <=> (Linked(j) \/ j = i)
  <2>1. CASE phase' = "edges"
    BY <1>1, <1>2, <1>4, <2>1, IndexType DEF Linked, Index
  <2>2. CASE phase' = "first"
    BY <1>1, <1>2, <1>4, <2>2, IndexType DEF Linked, Index
  <2> QED
    BY <1>2, <2>1, <2>2
<1>9. \A j \in Index : Known(j)' = Known(j)
  BY <1>3 DEF Known
<1>10. LinkInv'
  <2>1. SUFFICES ASSUME NEW j \in Index
                 PROVE  /\ deps'[j] = IF Linked(j)' THEN Known(j) ELSE {}
                        /\ Linked(j)' /\ Known(j) # dependsOn[j]
                             => "unknown_node_reference" \in issues'
    BY <1>3, <1>9 DEF LinkInv
  <2>2. CASE j = i
    BY <1>4, <1>5, <1>8, <2>2 DEF UnknownIssue, BaseTypeOK
  <2>3. CASE j # i
    <3>1. deps'[j] = deps[j]
      BY <1>4, <1>5, <2>3 DEF BaseTypeOK
    <3> QED
      BY <1>5, <1>8, <2>3, <3>1 DEF LinkInv
  <2> QED
    BY <2>2, <2>3
<1>11. order = <<>>
  BY <1>1 DEF OrderInv
<1>12. Taken = {} /\ Taken' = {}
  BY <1>3, <1>11 DEF Taken
<1>13. CountInv'
  <2>1. SUFFICES ASSUME NEW j \in Index PROVE indegree'[j] = Cardinality(Left(j)')
    BY DEF CountInv
  <2>2. Left(j) = deps[j] /\ Left(j)' = deps'[j]
    BY <1>12 DEF Left, Passed
  <2>3. CASE j = i
    BY <1>4, <1>5, <2>2, <2>3 DEF BaseTypeOK
  <2>4. CASE j # i
    <3>1. deps'[j] = deps[j] /\ indegree'[j] = indegree[j]
      BY <1>4, <1>5, <2>4 DEF BaseTypeOK
    <3> QED
      BY <2>2, <3>1 DEF CountInv
  <2> QED
    BY <2>3, <2>4
<1>14. \A j \in Index : Seen(j) = FALSE /\ Seen(j)' = FALSE
  BY <1>1, <1>2, IndexType DEF Seen, Index
<1>15. LineInv'
  <2>1. Taken' = Taken /\ OnQueue' = OnQueue
    BY <1>3 DEF Taken, OnQueue
  <2>2. \A j \in Index : j \notin Taken \cup OnQueue
    BY <1>14 DEF LineInv
  <2> QED
    BY <1>3, <1>14, <2>1, <2>2 DEF LineInv
<1>16. OrderInv'
  BY <1>2, <1>3, <1>11 DEF OrderInv
<1> QED
  BY <1>6, <1>7, <1>10, <1>13, <1>15, <1>16

\* Appending a node that is not on the work list.
LEMMA AppendQueue ==
  ASSUME NEW s \in Seq(Index), NEW j \in Index, NEW t, t = Append(s, j)
  PROVE  /\ t \in Seq(Index)
         /\ {t[p] : p \in 1..Len(t)} = {s[p] : p \in 1..Len(s)} \cup {j}
         /\ (\A p, q \in 1..Len(s) : s[p] = s[q] => p = q)
              /\ j \notin {s[p] : p \in 1..Len(s)}
              => (\A p, q \in 1..Len(t) : t[p] = t[q] => p = q)
<1>1. /\ t \in Seq(Index) /\ Len(s) \in Nat /\ Len(t) = Len(s) + 1
      /\ t[Len(s) + 1] = j
      /\ \A p \in 1..Len(s) : t[p] = s[p]
  OBVIOUS
<1>2. \A p \in 1..Len(t) : p \in 1..Len(s) \/ p = Len(s) + 1
  BY <1>1
<1>3. Len(s) + 1 \in 1..Len(t) /\ 1..Len(s) \subseteq 1..Len(t)
  BY <1>1
<1>4. {t[p] : p \in 1..Len(t)} = {s[p] : p \in 1..Len(s)} \cup {j}
  BY <1>1, <1>2, <1>3
<1>5. ASSUME \A p, q \in 1..Len(s) : s[p] = s[q] => p = q,
             j \notin {s[p] : p \in 1..Len(s)},
             NEW p \in 1..Len(t), NEW q \in 1..Len(t), t[p] = t[q]
      PROVE  p = q
  BY <1>1, <1>2, <1>5
<1> QED
  BY <1>1, <1>4, <1>5

LEMMA FirstResolve ==
  ASSUME ResolveInv, QueueFirst
  PROVE  ResolveInv'
<1> USE DEF ResolveInv
<1>1. phase = "first" /\ Advance("kahn")
  BY DEF QueueFirst
<1>2. /\ i' \in Index /\ phase' \in Phases
      /\ \/ phase' = "first" /\ i' = i + 1 /\ i # Size
         \/ phase' = "kahn" /\ i' = 1 /\ i = Size
  BY <1>1, AdvanceStep DEF Phases
<1>3. /\ name' = name /\ dependsOn' = dependsOn /\ indexByName' = indexByName
      /\ deps' = deps /\ indegree' = indegree /\ order' = order /\ issues' = issues
      /\ carried' = carried /\ head' = head
  BY DEF QueueFirst, input
<1>4. i \in Index /\ queue \in Seq(Index)
  BY DEF BaseTypeOK
<1>5. order = <<>> /\ Taken = {} /\ Taken' = {}
  BY <1>1, <1>3 DEF OrderInv, Taken
<1>6. \A j \in Index : Seen(j)' <=> (Seen(j) \/ j = i)
  <2>1. CASE phase' = "first"
    BY <1>1, <1>2, <1>4, <2>1, IndexType DEF Seen, Index
  <2>2. CASE phase' = "kahn"
    BY <1>1, <1>2, <1>4, <2>2, IndexType DEF Seen, Index
  <2> QED
    BY <1>2, <2>1, <2>2
<1>7. ~Seen(i)
  BY <1>1, <1>4, IndexType DEF Seen, Index
<1>8. i \notin OnQueue
  BY <1>4, <1>7 DEF LineInv
<1>9. /\ queue' \in Seq(Index)
      /\ OnQueue' = IF indegree[i] = 0 THEN OnQueue \cup {i} ELSE OnQueue
      /\ \A p, q \in 1..Len(queue') : queue'[p] = queue'[q] => p = q
  <2>1. CASE indegree[i] = 0
    <3>1. queue' = Append(queue, i)
      BY <2>1 DEF QueueFirst
    <3> QED
      BY <1>4, <1>8, <2>1, <3>1, AppendQueue DEF LineInv, OnQueue
  <2>2. CASE indegree[i] # 0
    <3>1. queue' = queue
      BY <2>2 DEF QueueFirst
    <3> QED
      BY <1>4, <2>2, <3>1 DEF LineInv, OnQueue
  <2> QED
    BY <2>1, <2>2
<1>10. BaseTypeOK'
  BY <1>2, <1>3, <1>9 DEF BaseTypeOK
<1>11. NameInv'
  BY <1>3 DEF NameInv
<1>12. LinkInv'
  <2>1. \A j \in Index : Linked(j)' /\ Linked(j)
    BY <1>1, <1>2 DEF Linked
  <2>2. \A j \in Index : Known(j)' = Known(j)
    BY <1>3 DEF Known
  <2> QED
    BY <1>3, <2>1, <2>2 DEF LinkInv
<1>13. CountInv'
  <2>1. \A j \in Index : Left(j)' = Left(j)
    BY <1>3, <1>5 DEF Left, Passed
  <2> QED
    BY <1>3, <2>1 DEF CountInv
<1>14. LineInv'
  <2>1. \A j \in Index : j \in OnQueue <=> Seen(j) /\ indegree[j] = 0
    BY <1>5 DEF LineInv
  <2>2. \A j \in Index : j \in OnQueue' <=> Seen(j)' /\ indegree[j] = 0
    BY <1>6, <1>9, <2>1
  <2> QED
    BY <1>3, <1>5, <1>9, <2>2 DEF LineInv
<1>15. OrderInv'
  BY <1>2, <1>3, <1>5 DEF OrderInv
<1> QED
  BY <1>10, <1>11, <1>12, <1>13, <1>14, <1>15

LEMMA TakeResolve ==
  ASSUME ResolveInv, TakeNode
  PROVE  ResolveInv'
<1> USE DEF ResolveInv
<1> DEFINE n == Head(queue)
<1>1. /\ phase = "kahn" /\ queue # <<>> /\ queue' = Tail(queue)
      /\ order' = Append(order, n) /\ phase' = "adj"
  BY DEF TakeNode
<1>2. /\ name' = name /\ dependsOn' = dependsOn /\ indexByName' = indexByName
      /\ deps' = deps /\ indegree' = indegree /\ i' = i /\ issues' = issues
      /\ carried' = carried /\ head' = head
  BY DEF TakeNode, input
<1>3. order \in Seq(Index) /\ queue \in Seq(Index) /\ i = 1
  BY <1>1 DEF BaseTypeOK, OrderInv
<1>4. /\ Len(queue) \in Nat /\ Len(queue) >= 1 /\ n = queue[1] /\ n \in Index
      /\ queue' \in Seq(Index) /\ Len(queue') = Len(queue) - 1
      /\ \A p \in 1..Len(queue') : queue'[p] = queue[p + 1]
  BY <1>1, <1>3
<1> HIDE DEF n
<1>5. n \in OnQueue /\ n \notin Taken
  BY <1>4 DEF LineInv, OnQueue
<1>6. /\ order' \in Seq(Index)
      /\ Taken' = Taken \cup {n}
      /\ \A p, q \in 1..Len(order') : order'[p] = order'[q] => p = q
  BY <1>1, <1>3, <1>4, <1>5, AppendQueue DEF Taken, LineInv
<1>7. /\ Len(order) \in Nat /\ Len(order') = Len(order) + 1 /\ order'[Len(order')] = n
      /\ \A p \in 1..Len(order) : order'[p] = order[p]
  BY <1>1, <1>3, <1>4
<1>8. OnQueue' = OnQueue \ {n}
  <2>1. ASSUME NEW p \in 1..Len(queue') PROVE queue'[p] \in OnQueue \ {n}
    <3>1. queue'[p] = queue[p + 1] /\ p + 1 \in 1..Len(queue) /\ 1 \in 1..Len(queue)
            /\ p + 1 # 1
      BY <1>4
    <3> QED
      BY <1>4, <3>1 DEF LineInv, OnQueue
  <2>2. ASSUME NEW p \in 1..Len(queue), queue[p] # n PROVE queue[p] \in OnQueue'
    <3>1. p - 1 \in 1..Len(queue') /\ queue'[p - 1] = queue[p]
      BY <1>4, <2>2
    <3> QED
      BY <3>1 DEF OnQueue
  <2> QED
    BY <2>1, <2>2 DEF OnQueue
<1>9. BaseTypeOK'
  BY <1>1, <1>2, <1>4, <1>6 DEF BaseTypeOK, Phases
<1>10. NameInv'
  BY <1>2 DEF NameInv
<1>11. LinkInv'
  <2>1. \A j \in Index : Linked(j)' /\ Linked(j)
    BY <1>1 DEF Linked
  <2>2. \A j \in Index : Known(j)' = Known(j)
    BY <1>2 DEF Known
  <2> QED
    BY <1>2, <2>1, <2>2 DEF LinkInv
<1>12. CountInv'
  <2>1. ASSUME NEW j \in Index PROVE Left(j)' = Left(j)
    <3>1. Passed(j) = Taken
      BY <1>1 DEF Passed
    <3>2. Passed(j)' = Taken' \ {n}
      BY <1>1, <1>2, <1>3, <1>7 DEF Passed, Index
    <3>3. Passed(j)' = Passed(j)
      BY <1>5, <1>6, <3>1, <3>2
    <3> QED
      BY <1>2, <3>3 DEF Left
  <2> QED
    BY <1>2, <2>1 DEF CountInv
<1>13. LineInv'
  <2>1. \A j \in Index : Seen(j) /\ Seen(j)'
    BY <1>1 DEF Seen
  <2>2. Taken' \cup OnQueue' = Taken \cup OnQueue /\ Taken' \cap OnQueue' = {}
    BY <1>5, <1>6, <1>8 DEF LineInv
  <2>3. \A j \in Index : j \in Taken' \cup OnQueue' <=> Seen(j)' /\ indegree'[j] = 0
    BY <1>2, <2>1, <2>2 DEF LineInv
  <2>4. ASSUME NEW p \in 1..Len(queue'), NEW q \in 1..Len(queue'), queue'[p] = queue'[q]
        PROVE  p = q
    <3>1. p + 1 \in 1..Len(queue) /\ q + 1 \in 1..Len(queue) /\ queue[p + 1] = queue[q + 1]
      BY <1>4, <2>4
    <3>2. p + 1 = q + 1
      BY <3>1 DEF LineInv
    <3> QED
      BY <3>2
  <2> QED
    BY <1>6, <2>2, <2>3, <2>4 DEF LineInv
<1>14. OrderInv'
  <2>1. \A j : Edges(j)' = Edges(j)
    BY <1>2 DEF Edges
  <2>2. Edges(n) \subseteq Taken
    <3>1. Cardinality(Left(n)) = 0
      BY <1>4, <1>5 DEF LineInv, CountInv
    <3>2. Left(n) \in SUBSET Names
      BY <1>4 DEF Left, BaseTypeOK
    <3>3. Left(n) = {}
      BY <3>1, <3>2, NamesFinite, FS_EmptySet
    <3> QED
      BY <1>1, <3>3 DEF Left, Passed, Edges
  <2>3. ASSUME NEW p \in 1..Len(order')
        PROVE  Edges(order'[p]) \subseteq {order'[q] : q \in 1..(p - 1)}
    <3>1. CASE p = Len(order')
      <4>1. Taken = {order'[q] : q \in 1..(p - 1)}
        BY <1>7, <3>1 DEF Taken
      <4> QED
        BY <1>7, <2>2, <3>1, <4>1
    <3>2. CASE p # Len(order')
      <4>1. p \in 1..Len(order) /\ order'[p] = order[p]
        BY <1>7, <3>2
      <4>2. Edges(order[p]) \subseteq {order[q] : q \in 1..(p - 1)}
        BY <4>1 DEF OrderInv
      <4>3. {order[q] : q \in 1..(p - 1)} = {order'[q] : q \in 1..(p - 1)}
        BY <1>7, <4>1
      <4> QED
        BY <4>1, <4>2, <4>3
    <3> QED
      BY <3>1, <3>2
  <2>4. order' # <<>>
    BY <1>6, <1>7
  <2> QED
    BY <1>1, <2>1, <2>3, <2>4 DEF OrderInv
<1> QED
  BY <1>9, <1>10, <1>11, <1>12, <1>13, <1>14

\* order stays a run order as long as it and the edges stay.
LEMMA OrderKept ==
  ASSUME OrderInv, order' = order, indexByName' = indexByName, deps' = deps
  PROVE  (\A p \in 1..Len(order) : Edges(order[p]) \subseteq {order[q] : q \in 1..(p - 1)})'
<1>1. SUFFICES ASSUME NEW p \in 1..Len(order)
               PROVE  Edges(order[p])' \subseteq {order'[q] : q \in 1..(p - 1)}
  OBVIOUS
<1>2. Edges(order[p])' = Edges(order[p])
  BY DEF Edges
<1>3. {order'[q] : q \in 1..(p - 1)} = {order[q] : q \in 1..(p - 1)}
  OBVIOUS
<1> QED
  BY <1>2, <1>3 DEF OrderInv

LEMMA FreeResolve ==
  ASSUME ResolveInv, FreeDependent
  PROVE  ResolveInv'
<1> USE DEF ResolveInv
<1> DEFINE n == order[Len(order)]
<1>1. phase = "adj" /\ Advance("kahn")
  BY DEF FreeDependent
<1>2. /\ i' \in Index /\ phase' \in Phases
      /\ \/ phase' = "adj" /\ i' = i + 1 /\ i # Size
         \/ phase' = "kahn" /\ i' = 1 /\ i = Size
  BY <1>1, AdvanceStep DEF Phases
<1>3. /\ name' = name /\ dependsOn' = dependsOn /\ indexByName' = indexByName
      /\ deps' = deps /\ order' = order /\ issues' = issues
      /\ carried' = carried /\ head' = head
  BY DEF FreeDependent, input
<1>4. i \in Index /\ queue \in Seq(Index) /\ order \in Seq(Index) /\ order # <<>>
  BY <1>1 DEF BaseTypeOK, OrderInv
<1>5. n \in Taken /\ n \in Index
  BY <1>4 DEF Taken
<1>6. Taken' = Taken
  BY <1>3 DEF Taken
<1>7. PICK k \in Index : k = i
  BY <1>4
<1>8. /\ Passed(k) = Taken \ {n} /\ Passed(k)' = Taken
      /\ \A j \in Index \ {k} : Passed(j)' = Passed(j)
  <2>1. Passed(k) = Taken \ {n}
    BY <1>1, <1>7 DEF Passed, Index
  <2>2. CASE phase' = "adj"
    BY <1>1, <1>2, <1>3, <1>6, <1>7, <2>1, <2>2 DEF Passed, Index
  <2>3. CASE phase' = "kahn"
    BY <1>1, <1>2, <1>3, <1>6, <1>7, <2>1, <2>3 DEF Passed, Index
  <2> QED
    BY <1>2, <2>1, <2>2, <2>3
<1>9. \A j \in Index \ {k} : Left(j)' = Left(j)
  BY <1>3, <1>8 DEF Left
<1>10. Left(k) \in SUBSET Names /\ indegree[k] = Cardinality(Left(k))
  BY <1>4 DEF Left, CountInv, BaseTypeOK
<1>11. IsFiniteSet(Left(k)) /\ indegree[k] \in Nat
  BY <1>10, NamesFinite
<1>12. ASSUME InAdj(k)
       PROVE  Cardinality(Left(k)') = indegree[k] - 1 /\ indegree[k] # 0
  <2>1. PICK d \in deps[k] : indexByName[d] = n
    BY <1>12 DEF InAdj, Edges
  <2>2. d \in Left(k)
    BY <1>8, <2>1 DEF Left
  <2>3. ASSUME NEW e \in deps[k], indexByName[e] = n PROVE e = d
    <3>1. e \in Ids /\ d \in Ids /\ n # 0
      BY <1>4, <1>5, <2>1 DEF BaseTypeOK, Ids, Index
    <3> QED
      BY <2>1, <2>3, <3>1 DEF NameInv
  <2>4. Left(k)' = {e \in deps[k] : indexByName[e] \notin Taken}
    BY <1>3, <1>8 DEF Left
  <2>5. Left(k) = {e \in deps[k] : indexByName[e] \notin Taken \ {n}}
    BY <1>8 DEF Left
  <2>6. Left(k)' = Left(k) \ {d}
    BY <1>5, <2>1, <2>3, <2>4, <2>5
  <2>7. Cardinality(Left(k) \ {d}) = Cardinality(Left(k)) - 1
    BY <1>11, <2>2, FS_RemoveElement
  <2>8. Left(k) # {}
    BY <2>2
  <2> QED
    BY <1>10, <1>11, <2>6, <2>7, <2>8, FS_EmptySet
<1>13. ASSUME ~InAdj(k) PROVE Left(k)' = Left(k)
  <2>1. \A d \in deps[k] : indexByName[d] # n
    BY <1>13 DEF InAdj, Edges
  <2> QED
    BY <1>3, <1>8, <2>1 DEF Left
<1>14. /\ InAdj(k) => indegree' = [indegree EXCEPT ![k] = indegree[k] - 1]
       /\ ~InAdj(k) => indegree' = indegree
  BY <1>7 DEF FreeDependent
<1>15. indegree' \in [Index -> Int]
  BY <1>4, <1>11, <1>14 DEF BaseTypeOK
<1>16. CountInv'
  <2>1. SUFFICES ASSUME NEW j \in Index PROVE indegree'[j] = Cardinality(Left(j)')
    BY DEF CountInv
  <2>2. CASE j # k
    <3>1. indegree'[j] = indegree[j]
      BY <1>4, <1>14, <2>2 DEF BaseTypeOK
    <3> QED
      BY <1>9, <2>2, <3>1 DEF CountInv
  <2>3. CASE j = k /\ InAdj(k)
    BY <1>4, <1>12, <1>14, <2>3 DEF BaseTypeOK
  <2>4. CASE j = k /\ ~InAdj(k)
    BY <1>10, <1>13, <1>14, <2>4
  <2> QED
    BY <2>2, <2>3, <2>4
<1>17. ASSUME InAdj(k) PROVE k \notin Taken \cup OnQueue
  BY <1>4, <1>12, <1>17 DEF LineInv
<1>18. /\ queue' \in Seq(Index)
       /\ OnQueue' = IF InAdj(k) /\ indegree[k] = 1 THEN OnQueue \cup {k} ELSE OnQueue
       /\ \A p, q \in 1..Len(queue') : queue'[p] = queue'[q] => p = q
  <2>1. Freed(k) <=> indegree[k] = 1
    BY <1>11 DEF Freed
  <2>2. CASE InAdj(k) /\ indegree[k] = 1
    <3>1. queue' = Append(queue, k)
      BY <1>7, <2>1, <2>2 DEF FreeDependent
    <3>2. k \notin OnQueue
      BY <1>17, <2>2
    <3> QED
      BY <1>4, <2>2, <3>1, <3>2, AppendQueue DEF LineInv, OnQueue
  <2>3. CASE ~(InAdj(k) /\ indegree[k] = 1)
    <3>1. queue' = queue
      BY <1>7, <2>1, <2>3 DEF FreeDependent
    <3> QED
      BY <1>4, <2>3, <3>1 DEF LineInv, OnQueue
  <2> QED
    BY <2>2, <2>3
<1>19. BaseTypeOK'
  BY <1>2, <1>3, <1>15, <1>18 DEF BaseTypeOK
<1>20. NameInv'
  BY <1>3 DEF NameInv
<1>21. LinkInv'
  <2>1. \A j \in Index : Linked(j)' /\ Linked(j)
    BY <1>1, <1>2 DEF Linked
  <2>2. \A j \in Index : Known(j)' = Known(j)
    BY <1>3 DEF Known
  <2> QED
    BY <1>3, <2>1, <2>2 DEF LinkInv
<1>22. LineInv'
  <2>1. \A j \in Index : Seen(j) /\ Seen(j)'
    BY <1>1, <1>2 DEF Seen
  <2>2. ASSUME NEW j \in Index PROVE j \in Taken \cup OnQueue' <=> indegree'[j] = 0
    <3>1. CASE j # k
      <4>1. indegree'[j] = indegree[j]
        BY <1>4, <1>14, <3>1 DEF BaseTypeOK
      <4> QED
        BY <1>18, <2>1, <3>1, <4>1 DEF LineInv
    <3>2. CASE j = k /\ InAdj(k)
      <4>1. indegree'[j] = indegree[k] - 1
        BY <1>4, <1>14, <3>2 DEF BaseTypeOK
      <4> QED
        BY <1>11, <1>17, <1>18, <3>2, <4>1
    <3>3. CASE j = k /\ ~InAdj(k)
      BY <1>14, <1>18, <2>1, <3>3 DEF LineInv
    <3> QED
      BY <3>1, <3>2, <3>3
  <2>3. Taken \cap OnQueue' = {}
    BY <1>17, <1>18 DEF LineInv
  <2>4. \A j \in Index : j \in Taken' \cup OnQueue' <=> Seen(j)' /\ indegree'[j] = 0
    BY <1>6, <2>1, <2>2
  <2> QED
    BY <1>3, <1>6, <1>18, <2>3, <2>4 DEF LineInv
<1>23. OrderInv'
  BY <1>2, <1>3, <1>4, OrderKept DEF OrderInv
<1> QED
  BY <1>16, <1>19, <1>20, <1>21, <1>22, <1>23

(***************************************************************************)
(* From the end of the loops on, FromWafer changes nothing that they left. *)
(***************************************************************************)
LEMMA ResolveFrame ==
  ASSUME ResolveInv, BaseTypeOK',
         phase \in {"kahn", "build", "head", "accepted", "rejected"},
         phase' \in {"kahn", "build", "head", "accepted", "rejected"},
         phase' = "kahn" => phase = "kahn" /\ i' = i,
         issues \subseteq issues',
         UNCHANGED <<input, indexByName, deps, indegree, queue, order>>
  PROVE  ResolveInv'
<1> USE DEF ResolveInv
<1>1. /\ name' = name /\ dependsOn' = dependsOn /\ indexByName' = indexByName
      /\ deps' = deps /\ indegree' = indegree /\ queue' = queue /\ order' = order
  BY DEF input
<1>2. NameInv'
  BY <1>1 DEF NameInv
<1>3. LinkInv'
  <2>1. \A j \in Index : Linked(j)' /\ Linked(j)
    BY DEF Linked
  <2>2. \A j \in Index : Known(j)' = Known(j)
    BY <1>1 DEF Known
  <2> QED
    BY <1>1, <2>1, <2>2 DEF LinkInv
<1>4. Taken' = Taken /\ OnQueue' = OnQueue
  BY <1>1 DEF Taken, OnQueue
<1>5. CountInv'
  <2>1. \A j \in Index : Left(j)' = Left(j)
    BY <1>1, <1>4 DEF Left, Passed
  <2> QED
    BY <1>1, <2>1 DEF CountInv
<1>6. LineInv'
  <2>1. \A j \in Index : Seen(j)' /\ Seen(j)
    BY DEF Seen
  <2> QED
    BY <1>1, <1>4, <2>1 DEF LineInv
<1>7. OrderInv'
  BY <1>1, OrderKept DEF OrderInv
<1> QED
  BY <1>2, <1>3, <1>5, <1>6, <1>7

-----------------------------------------------------------------------------
(* The jobs of FromWafer *)

(***************************************************************************)
(* idxByName finds the job of a dependency: when ids are distinct, the one *)
(* at the position of the node that the name stands for.                   *)
(***************************************************************************)
LEMMA DependentJobsAre ==
  ASSUME ResolveInv, FoundInv, phase = "build", DistinctIds, NEW p \in Index
  PROVE  DependentJobs(p) = {q \in Index : order[p] \in Edges(order[q])}
<1> USE DEF ResolveInv
<1>1. Taken = Index /\ Len(order) = Size /\ order \in Seq(Index)
  BY AllTaken DEF FoundInv, BaseTypeOK
<1>2. \A q \in Index : order[q] \in Index
  BY <1>1 DEF Index
<1>3. \A q, r \in Index : order[q] = order[r] => q = r
  BY <1>1 DEF LineInv, Index
<1>4. \A j \in Index : \E q \in Index : order[q] = j
  BY <1>1 DEF Taken, Index
<1>5. ASSUME NEW q \in Index PROVE IdxByName(nodeID(order[q])) = q
  <2>1. {r \in Index : nodeID(order[r]) = nodeID(order[q])} = {q}
    BY <1>2, <1>3 DEF DistinctIds
  <2>2. q <= q
    BY DEF Index
  <2> QED
    BY <2>1, <2>2 DEF IdxByName
<1>6. ASSUME NEW q \in Index, NEW d \in deps[order[q]]
      PROVE  IdxByName(d) = p <=> indexByName[d] = order[p]
  <2>1. deps[order[q]] = Known(order[q])
    BY <1>2 DEF LinkInv, Linked
  <2>2. d \in Ids /\ indexByName[d] # 0 /\ indexByName[d] \in Index
    BY <1>2, <1>6, <2>1 DEF Known, BaseTypeOK, Ids
  <2>3. PICK r \in Index : order[r] = indexByName[d]
    BY <1>4, <2>2
  <2>4. nodeID(order[r]) = d
    <3>1. name[order[r]] = d
      BY <2>2, <2>3 DEF NameInv
    <3>2. d # NoName
      BY <1>2, <1>6, DagInputAssumption DEF BaseTypeOK
    <3> QED
      BY <3>1, <3>2 DEF nodeID
  <2>5. IdxByName(d) = r
    BY <1>5, <2>4
  <2> QED
    BY <1>3, <2>3, <2>5
<1>7. ASSUME NEW q \in Index
      PROVE  (\E d \in deps[order[q]] : IdxByName(d) = p) <=> order[p] \in Edges(order[q])
  BY <1>6 DEF Edges
<1>8. {r \in Index : \E d \in deps[order[r]] : IdxByName(d) = p}
        = {q \in Index : order[p] \in Edges(order[q])}
  BY <1>7
<1> QED
  BY <1>5, <1>8 DEF DependentJobs

\* A set that has the dependents of p and the dependents of its members.
Closed(p, S) ==
  \A r \in Index : (Edges(order[r]) \cap ({order[p]} \cup {order[s] : s \in S}) # {})
                      => r \in S

(***************************************************************************)
(* What can be reached from a job is its dependents and what can be        *)
(* reached from them.                                                      *)
(***************************************************************************)
LEMMA ReachableStep ==
  ASSUME NEW p \in Index, NEW D, D = {q \in Index : order[p] \in Edges(order[q])}
  PROVE  Reachable(p) = UNION {{q} \cup Reachable(q) : q \in D}
<1> DEFINE T == UNION {{q} \cup Reachable(q) : q \in D}
<1>1. \A k : Reachable(k) = {q \in Index : \A S \in SUBSET Index : Closed(k, S) => q \in S}
  BY DEF Reachable, Closed
<1>2. ASSUME NEW k, NEW S \in SUBSET Index
      PROVE  Closed(k, S) <=>
               \A r \in Index : (order[k] \in Edges(order[r])
                                  \/ \E s \in S : order[s] \in Edges(order[r])) => r \in S
  BY DEF Closed
<1>3. T \in SUBSET Index
  BY <1>1
<1>4. ASSUME NEW q \in D, NEW S \in SUBSET Index, Closed(p, S) PROVE q \in S /\ Closed(q, S)
  <2>1. q \in S
    BY <1>2, <1>4
  <2> QED
    BY <1>2, <1>4, <2>1
<1>5. T \subseteq Reachable(p)
  <2>1. ASSUME NEW q \in D PROVE q \in Reachable(p) /\ Reachable(q) \subseteq Reachable(p)
    BY <1>1, <1>4
  <2> QED
    BY <2>1
<1>6. ASSUME NEW k \in Index, NEW r \in Index, order[k] \in Edges(order[r])
      PROVE  r \in Reachable(k)
  BY <1>1, <1>2, <1>6
<1>7. ASSUME NEW k \in Index, NEW s \in Reachable(k), NEW r \in Index,
             order[s] \in Edges(order[r])
      PROVE  r \in Reachable(k)
  BY <1>1, <1>2, <1>7
<1>8. Closed(p, T)
  <2>1. ASSUME NEW r \in Index, order[p] \in Edges(order[r]) PROVE r \in T
    BY <2>1
  <2>2. ASSUME NEW r \in Index, NEW s \in T, order[s] \in Edges(order[r]) PROVE r \in T
    <3>1. PICK q \in D : s = q \/ s \in Reachable(q)
      OBVIOUS
    <3>2. r \in Reachable(q)
      BY <1>6, <1>7, <2>2, <3>1
    <3> QED
      BY <3>2
  <2> HIDE DEF T
  <2> QED
    BY <1>2, <1>3, <2>1, <2>2
<1>9. Reachable(p) \subseteq T
  <2> HIDE DEF T
  <2> QED
    BY <1>1, <1>3, <1>8
<1> QED
  BY <1>5, <1>9

\* Edges, and what is reached and stuck through them, stay with the state they name.
LEMMA ReferenceKept ==
  ASSUME UNCHANGED <<input, indexByName, deps, order>>
  PROVE  /\ \A S : Stuck(S)' = Stuck(S)
         /\ \A p : Reachable(p)' = Reachable(p)
         /\ DistinctIds' = DistinctIds
         /\ Taken' = Taken
<1>1. \A j : Edges(j)' = Edges(j)
  BY DEF Edges
<1>2. \A S : Stuck(S)' = Stuck(S)
  BY DEF Stuck, Edges
<1>3. \A p : Reachable(p)' = Reachable(p)
  BY DEF Reachable, Edges
<1>4. DistinctIds' = DistinctIds
  BY DEF DistinctIds, nodeID, input
<1>5. Taken' = Taken
  BY DEF Taken
<1> QED
  BY <1>2, <1>3, <1>4, <1>5

-----------------------------------------------------------------------------
(* Every step *)

\* While ResolveDAG's loops run there is nothing built and no cycle reported.
LEMMA LoopsFound ==
  ASSUME FoundInv,
         phase \in {"names", "edges", "first", "kahn", "adj"},
         phase' \in {"names", "edges", "first", "kahn", "adj"},
         "circular_dependency" \in issues' => "circular_dependency" \in issues
  PROVE  FoundInv' /\ BuildInv'
BY DEF FoundInv, BuildInv, Built

LEMMA EndInv ==
  ASSUME DagInv, EndResolve
  PROVE  DagInv'
<1> USE DEF DagInv
<1>1. /\ phase = "kahn" /\ queue = <<>>
      /\ issues' = issues \cup (IF Len(order) # Size THEN {"circular_dependency"} ELSE {})
      /\ phase' = IF issues' = {} THEN "build" ELSE "rejected"
  BY DEF EndResolve
<1>2. UNCHANGED <<input, i, indexByName, deps, indegree, queue, order, carried, head>>
  BY DEF EndResolve
<1>3. BaseTypeOK'
  <2>1. issues' \in SUBSET {"duplicate_node_name", "unknown_node_reference", "circular_dependency"}
    BY <1>1 DEF BaseTypeOK
  <2>2. phase' \in Phases
    BY <1>1 DEF Phases
  <2> QED
    BY <1>2, <2>1, <2>2 DEF BaseTypeOK, input
<1>4. ResolveInv'
  BY <1>1, <1>2, <1>3, ResolveFrame DEF ResolveInv
<1>5. /\ Taken' = Taken
      /\ \A S : Stuck(S)' = Stuck(S)
  BY <1>2, ReferenceKept
<1>6. "circular_dependency" \notin issues
  BY <1>1 DEF FoundInv
<1>7. "circular_dependency" \in issues' <=> Taken # Index
  BY <1>1, <1>6, AllTaken
<1>8. Taken # Index <=> \E S \in SUBSET Index : Stuck(S)
  BY <1>1, LeftOversAreStuck, RunOrderIsNotStuck
<1>9. FoundInv'
  <2>1. phase' = "build" => issues' = {} /\ Taken' = Index
    BY <1>1, <1>5, <1>7
  <2>2. "circular_dependency" \in issues' <=> \E S \in SUBSET Index : Stuck(S)'
    BY <1>5, <1>7, <1>8
  <2> QED
    BY <1>1, <2>1, <2>2 DEF FoundInv
<1>10. BuildInv'
  <2>1. ASSUME NEW p \in Index PROVE ~Built(p)'
    <3>1. i = 1 /\ i' = 1
      BY <1>1, <1>2 DEF OrderInv
    <3> QED
      BY <1>1, <3>1, IndexType DEF Built, Index
  <2> QED
    BY <1>1, <2>1 DEF BuildInv
<1> QED
  BY <1>4, <1>9, <1>10 DEF ResolveInv

LEMMA UnsupportedInv ==
  ASSUME DagInv, UnsupportedNode
  PROVE  DagInv'
<1> USE DEF DagInv
<1>1. phase = "build" /\ phase' = "rejected"
  BY DEF UnsupportedNode
<1>2. UNCHANGED <<input, i, indexByName, deps, indegree, queue, order, issues, carried, head>>
  BY DEF UnsupportedNode
<1>3. BaseTypeOK'
  BY <1>1, <1>2 DEF BaseTypeOK, input, Phases
<1>4. ResolveInv'
  BY <1>1, <1>2, <1>3, ResolveFrame DEF ResolveInv
<1>5. \A S : Stuck(S)' = Stuck(S)
  BY <1>2, ReferenceKept
<1>6. FoundInv'
  BY <1>1, <1>2, <1>5 DEF FoundInv
<1>7. BuildInv'
  BY <1>1 DEF BuildInv, Built
<1> QED
  BY <1>4, <1>6, <1>7 DEF ResolveInv

LEMMA DownstreamInv ==
  ASSUME DagInv, BuildDownstream
  PROVE  DagInv'
<1> USE DEF DagInv
<1>1. phase = "build" /\ Advance("head")
  BY DEF BuildDownstream
<1>2. /\ i' \in Index /\ phase' \in Phases
      /\ \/ phase' = "build" /\ i' = i + 1 /\ i # Size
         \/ phase' = "head" /\ i' = 1 /\ i = Size
  BY <1>1, AdvanceStep DEF Phases
<1>3. UNCHANGED <<input, indexByName, deps, indegree, queue, order, issues, head>>
  BY DEF BuildDownstream
<1>4. PICK k \in Index : k = Size + 1 - i
  BY IndexType DEF BaseTypeOK, Index
<1>5. carried' = [carried EXCEPT ![k] = UNION {{q} \cup carried[q] : q \in DependentJobs(k)}]
  BY <1>4 DEF BuildDownstream, BuildFromEnd
<1>6. Taken = Index /\ Len(order) = Size /\ order \in Seq(Index)
  BY <1>1, AllTaken DEF FoundInv, BaseTypeOK
<1>7. \A q \in Index : order[q] \in Index
  BY <1>6 DEF Index
<1>8. DependentJobs(k) \subseteq Index
  <2>1. ASSUME NEW r \in Index PROVE IdxByName(nodeID(order[r])) \in Index
    <3> DEFINE at == {q \in Index : nodeID(order[q]) = nodeID(order[r])}
               up == {Size - q : q \in at}
    <3>1. r \in at /\ at \subseteq Index
      OBVIOUS
    <3>2. up \in SUBSET Nat /\ up # {}
      BY <3>1, IndexType DEF Index
    <3>3. PICK u \in up : \A v \in up : u <= v
      BY <3>2, LeastPosition
    <3>4. PICK q \in at : u = Size - q
      BY <3>3
    <3>5. ASSUME NEW v \in at PROVE v <= q
      <4>1. Size - q <= Size - v
        BY <3>3, <3>4
      <4>2. q \in Nat /\ v \in Nat /\ Size \in Nat
        BY <3>1, IndexType
      <4> QED
        BY <4>1, <4>2
    <3>6. \E w \in at : \A v \in at : v <= w
      BY <3>4, <3>5
    <3>7. (CHOOSE w \in at : \A v \in at : v <= w) \in at
      <4> HIDE DEF at
      <4> QED
        BY <3>6
    <3> QED
      BY <3>1, <3>7 DEF IdxByName
  <2> QED
    BY <2>1 DEF DependentJobs
<1>9. carried' \in [Index -> SUBSET Index]
  <2>1. UNION {{q} \cup carried[q] : q \in DependentJobs(k)} \in SUBSET Index
    BY <1>8 DEF BaseTypeOK
  <2> QED
    BY <1>5, <2>1 DEF BaseTypeOK
<1>10. BaseTypeOK'
  BY <1>2, <1>3, <1>9 DEF BaseTypeOK, input
<1>11. ResolveInv'
  BY <1>1, <1>2, <1>3, <1>10, ResolveFrame DEF ResolveInv
<1>12. /\ Taken' = Taken /\ DistinctIds' = DistinctIds
       /\ \A S : Stuck(S)' = Stuck(S)
       /\ \A p : Reachable(p)' = Reachable(p)
  BY <1>3, ReferenceKept
<1>13. FoundInv'
  BY <1>1, <1>2, <1>3, <1>12 DEF FoundInv
<1>14. ASSUME NEW p \in Index PROVE Built(p)' <=> (Built(p) \/ p = k)
  <2>1. CASE phase' = "build"
    BY <1>1, <1>2, <1>4, <2>1, IndexType DEF Built, Index, BaseTypeOK
  <2>2. CASE phase' = "head"
    BY <1>1, <1>2, <1>4, <2>2, IndexType DEF Built, Index, BaseTypeOK
  <2> QED
    BY <1>2, <2>1, <2>2
<1>15. ASSUME DistinctIds PROVE carried'[k] = Reachable(k)
  <2>1. DependentJobs(k) = {q \in Index : order[k] \in Edges(order[q])}
    BY <1>1, <1>15, DependentJobsAre DEF ResolveInv
  <2>2. ASSUME NEW q \in DependentJobs(k) PROVE carried[q] = Reachable(q)
    <3>1. q \in Index /\ order[k] \in Edges(order[q])
      BY <2>1
    <3>2. PICK r \in 1..(q - 1) : order[k] = order[r]
      BY <1>6, <3>1 DEF OrderInv, Index
    <3>3. r = k
      BY <1>6, <3>1, <3>2 DEF LineInv, Index
    <3>4. k < q
      BY <3>1, <3>2, <3>3 DEF Index
    <3>5. Built(q)
      BY <1>1, <1>4, <3>4 DEF Built
    <3> QED
      BY <1>15, <3>1, <3>5 DEF BuildInv
  <2>3. {{q} \cup carried[q] : q \in DependentJobs(k)}
          = {{q} \cup Reachable(q) : q \in DependentJobs(k)}
    BY <2>2
  <2>4. Reachable(k) = UNION {{q} \cup Reachable(q) : q \in DependentJobs(k)}
    BY <2>1, ReachableStep
  <2>5. carried'[k] = UNION {{q} \cup carried[q] : q \in DependentJobs(k)}
    BY <1>5 DEF BaseTypeOK
  <2> QED
    BY <2>3, <2>4, <2>5
<1>16. BuildInv'
  <2>1. ASSUME DistinctIds, NEW p \in Index, Built(p)' PROVE carried'[p] = Reachable(p)
    <3>1. CASE p = k
      BY <1>15, <2>1, <3>1
    <3>2. CASE p # k
      <4>1. Built(p) /\ carried'[p] = carried[p]
        BY <1>5, <1>14, <2>1, <3>2 DEF BaseTypeOK
      <4> QED
        BY <2>1, <4>1 DEF BuildInv
    <3> QED
      BY <3>1, <3>2
  <2> QED
    BY <1>2, <1>12, <2>1 DEF BuildInv
<1> QED
  BY <1>11, <1>13, <1>16 DEF ResolveInv

\* The first job of the run order has no dependency, so there is a head.
LEMMA HeadInv ==
  ASSUME DagInv, PickHead
  PROVE  DagInv'
<1> USE DEF DagInv
<1>1. phase = "head" /\ phase' = "accepted"
  BY DEF PickHead
<1>2. UNCHANGED <<input, i, indexByName, deps, indegree, queue, order, issues, carried>>
  BY DEF PickHead
<1>3. Taken = Index /\ Len(order) = Size /\ order \in Seq(Index)
  BY <1>1, AllTaken DEF FoundInv, BaseTypeOK
<1>4. deps[order[1]] = {}
  <2>1. Edges(order[1]) \subseteq {order[q] : q \in 1..(1 - 1)}
    BY <1>3, IndexType DEF OrderInv
  <2>2. 1..(1 - 1) = {}
    OBVIOUS
  <2>3. Edges(order[1]) = {}
    BY <2>1, <2>2
  <2> QED
    BY <2>3 DEF Edges
<1>5. \A q \in 1..(1 - 1) : deps[order[q]] # {}
  OBVIOUS
<1>6. \E p \in Index : deps[order[p]] = {} /\ \A q \in 1..(p - 1) : deps[order[q]] # {}
  BY <1>4, <1>5, IndexType
<1>7. head' \in Index
  BY <1>6 DEF PickHead
<1>8. BaseTypeOK'
  BY <1>1, <1>2, <1>7 DEF BaseTypeOK, input, Phases
<1>9. ResolveInv'
  BY <1>1, <1>2, <1>8, ResolveFrame DEF ResolveInv
<1>10. /\ Taken' = Taken /\ DistinctIds' = DistinctIds
       /\ \A S : Stuck(S)' = Stuck(S)
       /\ \A p : Reachable(p)' = Reachable(p)
  BY <1>2, ReferenceKept
<1>11. FoundInv'
  BY <1>1, <1>2, <1>10 DEF FoundInv
<1>12. \A p \in Index : Built(p)' /\ Built(p)
  BY <1>1 DEF Built
<1>13. BuildInv'
  BY <1>2, <1>7, <1>10, <1>12 DEF BuildInv
<1> QED
  BY <1>9, <1>11, <1>13 DEF ResolveInv

LEMMA DagInitInv ==
  ASSUME DagInit
  PROVE  DagInv
<1>1. BaseTypeOK
  <2>1. <<>> \in Seq(Index) /\ Size \in Nat /\ 1 \in Index
    BY IndexType
  <2> QED
    BY <2>1 DEF DagInit, BaseTypeOK, Phases
<1>2. order = <<>> /\ queue = <<>> /\ phase = "names" /\ i = 1 /\ issues = {}
  BY DEF DagInit
<1>3. Taken = {} /\ OnQueue = {}
  BY <1>2 DEF Taken, OnQueue
<1>4. NameInv
  BY DEF DagInit, NameInv
<1>5. LinkInv
  BY <1>2 DEF DagInit, LinkInv, Linked
<1>6. CountInv
  <2>1. \A j \in Index : Left(j) = {} /\ indegree[j] = 0
    BY DEF DagInit, Left
  <2> QED
    BY <2>1, FS_EmptySet DEF CountInv
<1>7. LineInv
  BY <1>2, <1>3 DEF LineInv, Seen
<1>8. OrderInv
  BY <1>2 DEF OrderInv
<1>9. FoundInv
  BY <1>2 DEF FoundInv
<1>10. BuildInv
  BY <1>2 DEF BuildInv, Built
<1> QED
  BY <1>1, <1>4, <1>5, <1>6, <1>7, <1>8, <1>9, <1>10 DEF DagInv

LEMMA DagStutter ==
  ASSUME DagInv, UNCHANGED dagVars
  PROVE  DagInv'
<1>1. UNCHANGED <<input, indexByName, deps, order>>
  BY DEF dagVars
<1>2. /\ name' = name /\ dependsOn' = dependsOn /\ phase' = phase /\ i' = i
      /\ indexByName' = indexByName /\ deps' = deps /\ indegree' = indegree
      /\ queue' = queue /\ order' = order /\ issues' = issues
      /\ carried' = carried /\ head' = head
  BY DEF dagVars, input
<1>3. /\ Taken' = Taken /\ DistinctIds' = DistinctIds
      /\ \A S : Stuck(S)' = Stuck(S)
      /\ \A p : Reachable(p)' = Reachable(p)
  BY <1>1, ReferenceKept
<1>4. OnQueue' = OnQueue
  BY <1>2 DEF OnQueue
<1>5. BaseTypeOK'
  BY <1>2 DEF DagInv, BaseTypeOK
<1>6. NameInv'
  BY <1>2 DEF DagInv, NameInv
<1>7. LinkInv'
  <2>1. \A j : Linked(j)' = Linked(j) /\ Known(j)' = Known(j)
    BY <1>2 DEF Linked, Known
  <2> QED
    BY <1>2, <2>1 DEF DagInv, LinkInv
<1>8. CountInv'
  <2>1. \A j : Left(j)' = Left(j)
    BY <1>2, <1>3 DEF Left, Passed
  <2> QED
    BY <1>2, <2>1 DEF DagInv, CountInv
<1>9. LineInv'
  <2>1. \A j : Seen(j)' = Seen(j)
    BY <1>2 DEF Seen
  <2> QED
    BY <1>2, <1>3, <1>4, <2>1 DEF DagInv, LineInv
<1>10. OrderInv'
  BY <1>2, OrderKept DEF DagInv, OrderInv
<1>11. FoundInv'
  BY <1>2, <1>3 DEF DagInv, FoundInv
<1>12. BuildInv'
  <2>1. \A p : Built(p)' = Built(p)
    BY <1>2 DEF Built
  <2> QED
    BY <1>2, <1>3, <2>1 DEF DagInv, BuildInv
<1> QED
  BY <1>5, <1>6, <1>7, <1>8, <1>9, <1>10, <1>11, <1>12 DEF DagInv

(***************************************************************************)
(* The invariant of ResolveDAG and FromWafer: indegree counts the edges    *)
(* that are left, order and the work list hold the nodes without one, and  *)
(* the jobs built so far carry all that is reached from them.              *)
(***************************************************************************)
THEOREM DagInvariance == DagSpec => []DagInv
<1>1. DagInit => DagInv
  BY DagInitInv
<1>2. DagInv /\ [DagNext]_dagVars => DagInv'
  <2>1. SUFFICES ASSUME DagInv, [DagNext]_dagVars PROVE DagInv'
    OBVIOUS
  <2>2. ResolveInv /\ FoundInv
    BY <2>1 DEF DagInv, ResolveInv
  <2>3. CASE RegisterName
    <3>1. ResolveInv'
      BY <2>2, <2>3, NamesResolve
    <3>2. /\ phase = "names" /\ phase' \in {"names", "edges"}
          /\ "circular_dependency" \in issues' => "circular_dependency" \in issues
      BY <2>3 DEF RegisterName, Advance
    <3> QED
      BY <2>2, <3>1, <3>2, LoopsFound DEF DagInv, ResolveInv
  <2>4. CASE AddDependencies
    <3>1. ResolveInv'
      BY <2>2, <2>4, LinksResolve
    <3>2. /\ phase = "edges" /\ phase' \in {"edges", "first"}
          /\ "circular_dependency" \in issues' => "circular_dependency" \in issues
      BY <2>4 DEF AddDependencies, UnknownIssue, Advance
    <3> QED
      BY <2>2, <3>1, <3>2, LoopsFound DEF DagInv, ResolveInv
  <2>5. CASE QueueFirst
    <3>1. ResolveInv'
      BY <2>2, <2>5, FirstResolve
    <3>2. phase = "first" /\ phase' \in {"first", "kahn"} /\ issues' = issues
      BY <2>5 DEF QueueFirst, Advance
    <3> QED
      BY <2>2, <3>1, <3>2, LoopsFound DEF DagInv, ResolveInv
  <2>6. CASE TakeNode
    <3>1. ResolveInv'
      BY <2>2, <2>6, TakeResolve
    <3>2. phase = "kahn" /\ phase' = "adj" /\ issues' = issues
      BY <2>6 DEF TakeNode
    <3> QED
      BY <2>2, <3>1, <3>2, LoopsFound DEF DagInv, ResolveInv
  <2>7. CASE FreeDependent
    <3>1. ResolveInv'
      BY <2>2, <2>7, FreeResolve
    <3>2. phase = "adj" /\ phase' \in {"adj", "kahn"} /\ issues' = issues
      BY <2>7 DEF FreeDependent, Advance
    <3> QED
      BY <2>2, <3>1, <3>2, LoopsFound DEF DagInv, ResolveInv
  <2>8. CASE EndResolve
    BY <2>1, <2>8, EndInv
  <2>9. CASE UnsupportedNode
    BY <2>1, <2>9, UnsupportedInv
  <2>10. CASE BuildDownstream
    BY <2>1, <2>10, DownstreamInv
  <2>11. CASE PickHead
    BY <2>1, <2>11, HeadInv
  <2>12. CASE Returned \/ UNCHANGED dagVars
    BY <2>1, <2>12, DagStutter DEF Returned
  <2> QED
    BY <2>1, <2>3, <2>4, <2>5, <2>6, <2>7, <2>8, <2>9, <2>10, <2>11, <2>12 DEF DagNext
<1> QED
  BY <1>1, <1>2, PTL DEF DagSpec

(***************************************************************************)
(* Every variable of ResolveDAG and FromWafer has its type; order and the  *)
(* work list never outgrow the list of nodes and indegree never leaves     *)
(* 0 .. the number of names.                                               *)
(***************************************************************************)
THEOREM DagTypeCorrectness == DagSpec => []DagTypeOK
<1>1. DagInv => DagTypeOK
  <2>1. SUFFICES ASSUME DagInv PROVE DagTypeOK
    OBVIOUS
  <2>2. Len(order) + Len(queue) <= Size
    BY <2>1, LineBound DEF DagInv
  <2>3. indegree \in [Index -> 0..Cardinality(Names)]
    <3>1. \A j \in Index : Left(j) \in SUBSET Names
      BY <2>1 DEF DagInv, BaseTypeOK, Left
    <3>2. \A j \in Index : indegree[j] \in 0..Cardinality(Names)
      BY <2>1, <3>1, NamesFinite DEF DagInv, CountInv
    <3> QED
      BY <2>1, <3>2 DEF DagInv, BaseTypeOK
  <2> QED
    BY <2>1, <2>2, <2>3 DEF DagInv, BaseTypeOK, DagTypeOK
<1> QED
  BY <1>1, DagInvariance, PTL

(***************************************************************************)
(* ResolveDAG accepts a workflow only with a run order: every node once,   *)
(* after all it depends on, and with all of its depends_on.                *)
(***************************************************************************)
THEOREM AcceptedHaveRunOrder == DagSpec => []AcceptedIsRunOrder
<1>1. DagInv => AcceptedIsRunOrder
  <2>1. SUFFICES ASSUME DagInv, phase \in {"build", "head", "accepted"}
                 PROVE  /\ Len(order) = Size
                        /\ \A p, q \in Index : order[p] = order[q] => p = q
                        /\ \A p \in Index : deps[order[p]] = dependsOn[order[p]]
                        /\ \A p \in Index :
                             Edges(order[p]) \subseteq {order[q] : q \in 1..(p - 1)}
    BY DEF AcceptedIsRunOrder
  <2>2. Taken = Index /\ issues = {}
    BY <2>1 DEF DagInv, FoundInv
  <2>3. Len(order) = Size /\ order \in Seq(Index)
    BY <2>1, <2>2, AllTaken DEF DagInv, BaseTypeOK
  <2>4. \A p, q \in Index : order[p] = order[q] => p = q
    BY <2>1, <2>3 DEF DagInv, LineInv, Index
  <2>5. ASSUME NEW p \in Index PROVE deps[order[p]] = dependsOn[order[p]]
    <3>1. order[p] \in Index
      BY <2>3 DEF Index
    <3> QED
      BY <2>1, <2>2, <3>1 DEF DagInv, LinkInv, Linked
  <2>6. \A p \in Index : Edges(order[p]) \subseteq {order[q] : q \in 1..(p - 1)}
    BY <2>1, <2>3 DEF DagInv, OrderInv, Index
  <2> QED
    BY <2>3, <2>4, <2>5, <2>6
<1> QED
  BY <1>1, DagInvariance, PTL

(***************************************************************************)
(* ResolveDAG reports circular_dependency for a workflow exactly when some *)
(* nodes of it wait for each other.                                        *)
(***************************************************************************)
THEOREM CyclesAreReported == DagSpec => []CycleReportedExactly
<1>1. DagInv => CycleReportedExactly
  BY DEF DagInv, FoundInv, CycleReportedExactly
<1> QED
  BY <1>1, DagInvariance, PTL

(***************************************************************************)
(* The head job FromWafer returns carries every node that can be reached   *)
(* from it, when no two nodes have the same id.                            *)
(***************************************************************************)
THEOREM HeadIsComplete == DagSpec => []HeadCarriesReachable
<1>1. DagInv => HeadCarriesReachable
  BY DEF DagInv, BuildInv, Built, HeadCarriesReachable
<1> QED
  BY <1>1, DagInvariance, PTL
=============================================================================
