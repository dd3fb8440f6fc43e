-------------------------------- MODULE Dag ---------------------------------
(***************************************************************************)
(* From a parsed workflow to the head job of a run: wafer.ResolveDAG       *)
(* (names, dependencies, Kahn's loop) and the part of runner.FromWafer     *)
(* that copies every node's job into the jobs it depends on.               *)
(*                                                                         *)
(* One action is one iteration of a loop.  Nodes are positions in the      *)
(* workflow's list.  A depends_on list is the set of its names, because    *)
(* the code skips repeats.  Foreach nodes are left out.                    *)
(***************************************************************************)
EXTENDS Naturals, Sequences, FiniteSets

CONSTANTS
  Size,       \* the number of nodes in the list
  Names,      \* the names a node may have
  NoName,     \* an unnamed node
  PositionId  \* PositionId[j]: the decimal position, an unnamed node's id

(***************************************************************************)
(* The validator refuses an empty list.  Nothing stops a name from being a *)
(* number, so a PositionId may be a name.                                  *)
(***************************************************************************)
ASSUME DagInputAssumption ==
  /\ Size \in Nat \ {0}
  /\ IsFiniteSet(Names) /\ NoName \notin Names
  /\ \A j, k \in 1..Size : j # k => PositionId[j] # PositionId[k]

Index == 1..Size

Ids == Names \cup {PositionId[j] : j \in Index}

VARIABLES
  name,        \* the workflow: each node's name
  dependsOn,   \* the workflow: each node's depends_on
  phase,       \* the loop that runs
  i,           \* its position
  indexByName, \* the node of a name, 0 for none
  deps,        \* the known names of depends_on
  indegree,
  queue,       \* Kahn's work list
  order,       \* the run order so far
  issues,
  carried,     \* per job: the nodes in its Downstream, at any depth
  head         \* the head's position in the run order

input == <<name, dependsOn>>
dagVars == <<input, phase, i, indexByName, deps, indegree, queue, order,
             issues, carried, head>>

Phases == {"names", "edges", "first", "kahn", "adj", "build", "head",
           "accepted", "rejected"}

DagTypeOK ==
  /\ phase \in Phases
  /\ i \in Index
  /\ indexByName \in [Ids -> Index \cup {0}]
  /\ deps \in [Index -> SUBSET Names]
  /\ indegree \in [Index -> 0..Cardinality(Names)]
  /\ queue \in Seq(Index)
  /\ order \in Seq(Index)
  /\ Len(order) + Len(queue) <= Size
  /\ issues \subseteq {"duplicate_node_name", "unknown_node_reference", "circular_dependency"}
  /\ carried \in [Index -> SUBSET Index]
  /\ head \in Index \cup {0}

DagInit ==
  /\ name \in [Index -> Names \cup {NoName}]
  /\ dependsOn \in [Index -> SUBSET Names]
  /\ phase = "names"
  /\ i = 1
  /\ indexByName = [d \in Ids |-> 0]
  /\ deps = [j \in Index |-> {}]
  /\ indegree = [j \in Index |-> 0]
  /\ queue = <<>>
  /\ order = <<>>
  /\ issues = {}
  /\ carried = [p \in Index |-> {}]
  /\ head = 0

nodeID(j) == IF name[j] # NoName THEN name[j] ELSE PositionId[j]

\* The next iteration of a loop over the list, or the loop that follows it.
Advance(to) == IF i = Size THEN phase' = to /\ i' = 1 ELSE UNCHANGED phase /\ i' = i + 1

-----------------------------------------------------------------------------
(* ResolveDAG *)

\* The first node of a name wins; an unnamed node cannot be referred to.
RegisterName ==
  LET id == nodeID(i)
      dup == indexByName[id] # 0 IN
  /\ phase = "names"
  /\ indexByName' = IF dup \/ name[i] = NoName THEN indexByName
                    ELSE [indexByName EXCEPT ![id] = i]
  /\ issues' = issues \cup (IF dup THEN {"duplicate_node_name"} ELSE {})
  /\ Advance("edges")
  /\ UNCHANGED <<input, deps, indegree, queue, order, carried, head>>

Known(j) == {d \in dependsOn[j] : indexByName[d] # 0}

\* Mutant: an unknown name is dropped silently.
NoIssue(j) == {}

UnknownIssue(j) == IF Known(j) # dependsOn[j] THEN {"unknown_node_reference"} ELSE {}

\* An unknown name is reported and makes no edge.
AddDependencies ==
  /\ phase = "edges"
  /\ deps' = [deps EXCEPT ![i] = Known(i)]
  /\ indegree' = [indegree EXCEPT ![i] = Cardinality(Known(i))]
  /\ issues' = issues \cup UnknownIssue(i)
  /\ Advance("first")
  /\ UNCHANGED <<input, indexByName, queue, order, carried, head>>

\* The work list starts with the nodes that have no edge.
QueueFirst ==
  /\ phase = "first"
  /\ queue' = IF indegree[i] = 0 THEN Append(queue, i) ELSE queue
  /\ Advance("kahn")
  /\ UNCHANGED <<input, indexByName, deps, indegree, order, issues, carried, head>>

\* The nodes a node depends on.
Edges(j) == {indexByName[d] : d \in deps[j]}

TakeNode ==
  /\ phase = "kahn"
  /\ queue # <<>>
  /\ queue' = Tail(queue)
  /\ order' = Append(order, Head(queue))
  /\ phase' = "adj"
  /\ UNCHANGED <<input, i, indexByName, deps, indegree, issues, carried, head>>

\* adj of the node just taken, which is in list order: those that depend on it.
InAdj(j) == order[Len(order)] \in Edges(j)

\* Mutant: a node is queued with one edge still to go.
FreedTooEarly(j) == indegree[j] - 1 <= 1

\* This edge is the node's last.
Freed(j) == indegree[j] - 1 = 0

\* Mutant: a node is passed and its edge stays.
FreeKeepsEdges ==
  /\ phase = "adj"
  /\ queue' = IF InAdj(i) /\ Freed(i) THEN Append(queue, i) ELSE queue
  /\ Advance("kahn")
  /\ UNCHANGED <<input, indexByName, deps, indegree, order, issues, carried, head>>

FreeDependent ==
  /\ phase = "adj"
  /\ indegree' = IF InAdj(i) THEN [indegree EXCEPT ![i] = @ - 1] ELSE indegree
  /\ queue' = IF InAdj(i) /\ Freed(i) THEN Append(queue, i) ELSE queue
  /\ Advance("kahn")
  /\ UNCHANGED <<input, indexByName, deps, order, issues, carried, head>>

\* Nodes left over form a cycle.  FromWafer refuses a workflow with any issue.
EndResolve ==
  /\ phase = "kahn"
  /\ queue = <<>>
  /\ issues' = issues \cup (IF Len(order) # Size THEN {"circular_dependency"} ELSE {})
  /\ phase' = IF issues' = {} THEN "build" ELSE "rejected"
  /\ UNCHANGED <<input, i, indexByName, deps, indegree, queue, order, carried, head>>

-----------------------------------------------------------------------------
(* FromWafer: jobs by their position in the run order *)

\* idxByName, a map from ids: the last node of an id wins.
IdxByName(id) ==
  LET at == {p \in Index : nodeID(order[p]) = id} IN
  CHOOSE p \in at : \A q \in at : q <= p

DependentJobs(p) ==
  {IdxByName(nodeID(order[q])) :
     q \in {r \in Index : \E d \in deps[order[r]] : IdxByName(d) = p}}

\* commandFor finds no handler for a node's type.
UnsupportedNode ==
  /\ phase = "build"
  /\ i = 1
  /\ phase' = "rejected"
  /\ UNCHANGED <<input, i, indexByName, deps, indegree, queue, order, issues, carried, head>>

\* Mutant: the jobs are copied in run order.
BuildPosition == i

\* The i-th iteration is at the i-th job from the end.
BuildFromEnd == Size + 1 - i

\* A job's dependents are copied into its Downstream as they are now.
BuildDownstream ==
  LET p == BuildFromEnd IN
  /\ phase = "build"
  /\ carried' = [carried EXCEPT ![p] =
                   UNION {{q} \cup carried[q] : q \in DependentJobs(p)}]
  /\ Advance("head")
  /\ UNCHANGED <<input, indexByName, deps, indegree, queue, order, issues, head>>

\* The head is the first job with no dependency.
PickHead ==
  /\ phase = "head"
  /\ head' = CHOOSE p \in Index :
               deps[order[p]] = {} /\ \A q \in 1..(p - 1) : deps[order[q]] # {}
  /\ phase' = "accepted"
  /\ UNCHANGED <<input, i, indexByName, deps, indegree, queue, order, issues, carried>>

\* ResolveDAG and FromWafer return.
Returned == phase \in {"accepted", "rejected"} /\ UNCHANGED dagVars

DagNext ==
  \/ RegisterName \/ AddDependencies \/ QueueFirst
  \/ TakeNode \/ FreeDependent \/ EndResolve
  \/ UnsupportedNode \/ BuildDownstream \/ PickHead
  \/ Returned

DagSpec == DagInit /\ [][DagNext]_dagVars

-----------------------------------------------------------------------------
(* What makes the resolved workflow correct *)

\* The reference: a set of nodes in which everybody waits for a member.
Stuck(S) == S # {} /\ \A j \in S : Edges(j) \cap S # {}

(***************************************************************************)
(* The run order of an accepted workflow has every node once, after all    *)
(* it depends on, and no dependency was lost on the way: deps holds all of *)
(* depends_on (ResolveDAG, "returning the nodes in run order").            *)
(***************************************************************************)
AcceptedIsRunOrder ==
  phase \in {"build", "head", "accepted"} =>
    /\ Len(order) = Size
    /\ \A p, q \in Index : order[p] = order[q] => p = q
    /\ \A p \in Index : deps[order[p]] = dependsOn[order[p]]
    /\ \A p \in Index : Edges(order[p]) \subseteq {order[q] : q \in 1..(p - 1)}

(***************************************************************************)
(* circular_dependency is reported exactly for a workflow with a cycle, so *)
(* an accepted workflow is acyclic in the sense the runs rely on           *)
(* (DagAssumption of RunStore).                                            *)
(***************************************************************************)
CycleReportedExactly ==
  phase \in {"build", "accepted", "rejected"} =>
    ("circular_dependency" \in issues <=> \E S \in SUBSET Index : Stuck(S))

\* The reference: what every set closed under "depends on a member" and
\* holding the dependents of p has.
Reachable(p) ==
  {q \in Index :
     \A S \in SUBSET Index :
       (\A r \in Index : (Edges(order[r]) \cap ({order[p]} \cup {order[s] : s \in S}) # {})
                            => r \in S)
         => q \in S}

DistinctIds == \A j, k \in Index : nodeID(j) = nodeID(k) => j = k

(***************************************************************************)
(* The head job, which is all a run starts from, carries every node that   *)
(* can be reached from it: no copy is taken before it is complete (the     *)
(* stale copies FromWafer's comment is about).  Node ids are distinct.     *)
(***************************************************************************)
HeadCarriesReachable ==
  phase = "accepted" /\ DistinctIds => carried[head] = Reachable(head)
=============================================================================
