------------------------------- MODULE Tarjan -------------------------------
(***************************************************************************)
(* The search for cycles of threads that write to one another's shared     *)
(* queues: compute_strongly_connected_components and dfs in                *)
(* src/src/include/shared/tarjan_graph.h, and the table mimo->mgc that     *)
(* report_shq_writers makes of the result and the deadlock recovery of     *)
(* module Dispatch works from (its constant Sccs).  A variant of Tarjan's  *)
(* algorithm in which lowlink is also the preorder number and a node whose *)
(* component is complete gets lowlink num_nodes.                           *)
(***************************************************************************)
EXTENDS Naturals, Sequences, FiniteSets, SequencesExt

CONSTANT num_nodes      \* the number of threads

ASSUME NodeCount == num_nodes \in Nat \ {0}

Nodes == 0 .. num_nodes - 1

VARIABLES
    digraph,    \* digraph[v]: the threads whose queues v writes to
    lowlink, preCount, visited,
    nodeStack,  \* tg->stack, the top first
    scc_list,   \* the components, the last one found first
    root,       \* the next v of compute_strongly_connected_components
    calls,      \* the calls of dfs: [v, its edges left, min], the innermost first
    index1,     \* how many components report_shq_writers has looked at
    mgc,        \* those with more than one thread
    thread_in_cycle

dfsVars == <<lowlink, preCount, visited, nodeStack, scc_list, calls>>
cycleVars == <<index1, mgc, thread_in_cycle>>
vars == <<digraph, dfsVars, root, cycleVars>>

(* report_shq_writers appends the targets of a thread in ascending order;  *)
(* no thread writes to its own shared queue.                               *)
Ascending(S) == {s \in [1 .. Cardinality(S) -> S] : \A i, j \in DOMAIN s : i < j => s[i] < s[j]}
EdgeLists == UNION {Ascending(S) : S \in SUBSET Nodes}

Init ==
    /\ digraph \in {g \in [Nodes -> EdgeLists] : \A v \in Nodes : v \notin Range(g[v])}
    /\ lowlink = [v \in Nodes |-> 0]
    /\ preCount = 0
    /\ visited = {}
    /\ nodeStack = <<>> /\ scc_list = <<>>
    /\ root = 0
    /\ calls = <<>>
    /\ index1 = 0 /\ mgc = <<>> /\ thread_in_cycle = {}

Least(a, b) == IF a < b THEN a ELSE b

(* dfs(tg, v), up to its loop. *)
Visit(v, callers) ==
    /\ lowlink' = [lowlink EXCEPT ![v] = preCount]
    /\ preCount' = preCount + 1
    /\ visited' = visited \cup {v}
    /\ nodeStack' = <<v>> \o nodeStack
    /\ calls' = <<[v |-> v, edges |-> digraph[v], min |-> preCount]>> \o callers
    /\ UNCHANGED scc_list

-----------------------------------------------------------------------------
(* compute_strongly_connected_components: the next node. *)
StartDfs ==
    /\ calls = <<>> /\ root < num_nodes /\ root \notin visited
    /\ Visit(root, <<>>)
    /\ UNCHANGED <<digraph, root, cycleVars>>

NextRoot ==
    /\ calls = <<>> /\ root < num_nodes /\ root \in visited
    /\ root' = root + 1
    /\ UNCHANGED <<digraph, dfsVars, cycleVars>>

(* The loop over the edges of v: a call for a node not yet visited; the    *)
(* edge stays, its lowlink is read when the call returns.                  *)
CallDfs ==
    /\ calls # <<>> /\ Head(calls).edges # <<>>
    /\ Head(Head(calls).edges) \notin visited
    /\ Visit(Head(Head(calls).edges), calls)
    /\ UNCHANGED <<digraph, root, cycleVars>>

NextEdge ==
    /\ calls # <<>> /\ Head(calls).edges # <<>>
    /\ LET call == Head(calls)
           w == Head(call.edges)
       IN  /\ w \in visited
           /\ calls' = <<[v |-> call.v, edges |-> Tail(call.edges), min |-> Least(call.min, lowlink[w])]>>
                         \o Tail(calls)
    /\ UNCHANGED <<digraph, lowlink, preCount, visited, nodeStack, scc_list, root,
                   cycleVars>>

(* v can get back to a node below it on the stack. *)
ReturnLow ==
    /\ calls # <<>> /\ Head(calls).edges = <<>>
    /\ Head(calls).min < lowlink[Head(calls).v]
    /\ lowlink' = [lowlink EXCEPT ![Head(calls).v] = Head(calls).min]
    /\ calls' = Tail(calls)
    /\ UNCHANGED <<digraph, preCount, visited, nodeStack, scc_list, root, cycleVars>>

(* v is the first node of its component: all nodes down to v leave the     *)
(* stack.                                                                  *)

Above(v) == SubSeq(nodeStack, 1, CHOOSE i \in DOMAIN nodeStack : nodeStack[i] = v)

(* A plausible error: a node keeps its lowlink when its component is done. *)
CompleteLowlinkKept(v) == lowlink
CompleteLowlink(v) == [w \in Nodes |-> IF w \in Range(Above(v)) THEN num_nodes ELSE lowlink[w]]

ReturnComponent ==
    /\ calls # <<>> /\ Head(calls).edges = <<>>
    /\ LET v == Head(calls).v
       IN  /\ Head(calls).min >= lowlink[v]
           /\ scc_list' = <<Above(v)>> \o scc_list
           /\ nodeStack' = SubSeq(nodeStack, Len(Above(v)) + 1, Len(nodeStack))
           /\ lowlink' = CompleteLowlink(v)
    /\ calls' = Tail(calls)
    /\ UNCHANGED <<digraph, preCount, visited, root, cycleVars>>

SearchDone == calls = <<>> /\ root = num_nodes

(* A plausible error: each cycle replaces the marks of the one before. *)
MarkOnly(list) == Range(list)
Mark(list) == thread_in_cycle \cup Range(list)

(* report_shq_writers, for the next component: a cycle if it has more than *)
(* one thread.                                                             *)
BuildMgc ==
    /\ SearchDone /\ index1 < Len(scc_list)
    /\ LET list == scc_list[index1 + 1]
       IN  IF Len(list) > 1
           THEN mgc' = Append(mgc, list) /\ thread_in_cycle' = Mark(list)
           ELSE UNCHANGED <<mgc, thread_in_cycle>>
    /\ index1' = index1 + 1
    /\ UNCHANGED <<digraph, dfsVars, root>>

Built == SearchDone /\ index1 = Len(scc_list)

Next ==
    \/ StartDfs \/ NextRoot \/ CallDfs \/ NextEdge \/ ReturnLow \/ ReturnComponent \/ BuildMgc
    \/ (Built /\ UNCHANGED vars)

Spec == Init /\ [][Next]_vars

-----------------------------------------------------------------------------
TypeOK ==
    /\ lowlink \in [Nodes -> 0 .. num_nodes]
    /\ preCount = Cardinality(visited) /\ visited \subseteq Nodes
    /\ IsInjective(nodeStack) /\ Range(nodeStack) \subseteq visited
    /\ \A i \in DOMAIN calls : calls[i].v \in Range(nodeStack)

(* A thread reaches those that lie in every set that it lies in and that   *)
(* no edge leaves; its component are those that each other reach.          *)
Closed(S) == \A v \in S : Range(digraph[v]) \subseteq S
Reachable(v) == {w \in Nodes : \A S \in SUBSET Nodes : v \in S /\ Closed(S) => w \in S}
Component(v) == {w \in Reachable(v) : v \in Reachable(w)}

(* The components found so far are strongly connected components, whole    *)
(* and once each: a thread outside a cycle is never taken for one in it,   *)
(* and a deadlock is looked for among exactly the threads that can wait    *)
(* for one another in a circle.                                            *)
ComponentsExact ==
    /\ \A i \in DOMAIN scc_list : \A j \in DOMAIN scc_list[i] :
            Range(scc_list[i]) = Component(scc_list[i][j])
    /\ \A i \in DOMAIN scc_list : IsInjective(scc_list[i])
    /\ \A i, j \in DOMAIN scc_list : i # j => Range(scc_list[i]) \cap Range(scc_list[j]) = {}
    /\ SearchDone => UNION {Range(scc_list[i]) : i \in DOMAIN scc_list} = Nodes

(* The cycles of mgc, among which a deadlock is looked for, are those of   *)
(* the graph (the assumption SccsAreTheCycles of module Dispatch), and a   *)
(* thread is marked as part of one if and only if the jobs it writes can   *)
(* make it wait for itself.                                                *)
InCycleExact ==
    Built => /\ {Range(mgc[i]) : i \in DOMAIN mgc} =
                    {c \in {Component(v) : v \in Nodes} : Cardinality(c) > 1}
             /\ thread_in_cycle = {v \in Nodes : Cardinality(Component(v)) > 1}
=============================================================================
