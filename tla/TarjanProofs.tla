---------------------------- MODULE TarjanProofs ----------------------------
(***************************************************************************)
(* Proofs about module Tarjan, for any number of threads and any graph:    *)
(* the components that the search finds, and the cycles that are made of   *)
(* them, are those of the graph.                                           *)
(*                                                                         *)
(* Reachability is by closed sets, so no proof needs an induction over     *)
(* paths: what a node reaches is shown edge by edge (ReachableFacts), and  *)
(* that it reaches no more by a set that no edge leaves                    *)
(* (ReachableInClosed).  A call of dfs that ends with its own number keeps *)
(* above its node, on the stack, nodes that all reach it (Reaches) and     *)
(* none with an edge to a node below it: that edge would have given the    *)
(* node, or the minimum of the call, a lower number (EdgesLow, MinKnows).  *)
(* A call that ends with a lower number got it from a node that reaches    *)
(* the call before it (LowReaches), so its node may stay on the stack.     *)
(***************************************************************************)
EXTENDS Tarjan, FiniteSetTheorems, SequenceTheorems, Integers, TLAPS

-----------------------------------------------------------------------------
(* The calls of dfs, the outermost first, and the height of a node on the  *)
(* stack: neither changes while further calls are made and return.         *)
Depth == Len(calls)
Call(k) == calls[Depth + 1 - k]
Node(k) == Call(k).v
OnStack == Range(nodeStack)
Height(s, x) == Len(s) + 1 - (CHOOSE i \in DOMAIN s : s[i] = x)
Level(x) == Height(nodeStack, x)
DownTo(s, v) == {x \in Range(s) : Height(s, v) <= Height(s, x)}
Done == visited \ OnStack
Edges(x) == Range(digraph[x])

(* The nodes that were visited in call k and in calls that have returned to it. *)
Under(k) == {x \in OnStack : /\ Level(Node(k)) <= Level(x)
                             /\ k < Depth => Level(x) < Level(Node(k + 1))}
Frames == [v : Nodes, edges : Seq(Nodes), min : Nat]

Types ==
    /\ digraph \in [Nodes -> Seq(Nodes)] /\ lowlink \in [Nodes -> Nat]
    /\ visited \subseteq Nodes /\ preCount = Cardinality(visited)
    /\ nodeStack \in Seq(Nodes) /\ IsInjective(nodeStack) /\ OnStack \subseteq visited
    /\ calls \in Seq(Frames) /\ root \in 0 .. num_nodes
    /\ scc_list \in Seq(Seq(Nodes)) /\ mgc \in Seq(Seq(Nodes)) /\ index1 \in 0 .. Len(scc_list)

(* A call is made for the first edge left; the edges that are done lead to *)
(* nodes visited; nothing leads out of the components that are done.       *)
Walk ==
    /\ \A k \in 1 .. Depth : Node(k) \in OnStack /\ Range(Call(k).edges) \subseteq Edges(Node(k))
    /\ \A k, m \in 1 .. Depth : k < m => Level(Node(k)) < Level(Node(m))
    /\ \A x \in OnStack : Depth > 0 /\ Level(Node(1)) <= Level(x)
    /\ \A k \in 1 .. Depth - 1 : Call(k).edges # <<>> /\ Head(Call(k).edges) = Node(k + 1)
    /\ \A x \in visited : \A y \in Edges(x) :
           y \in visited \/ \E k \in 1 .. Depth : x = Node(k) /\ y \in Range(Call(k).edges)
    /\ \A x \in Done : Edges(x) \subseteq Done
    /\ \A v \in Nodes : v < root => v \in visited

(* The numbers: lower for the nodes below a call's on the stack.           *)
Numbers ==
    /\ \A x \in OnStack : lowlink[x] < preCount
    /\ \A x \in Done : lowlink[x] = num_nodes
    /\ \A k \in 1 .. Depth : \A y \in OnStack : Level(y) < Level(Node(k)) => lowlink[y] < lowlink[Node(k)]

(* A node reaches what is above it on the stack, and the node of the call  *)
(* it was visited in.                                                      *)
Reaches ==
    /\ \A x, y \in OnStack : Level(x) <= Level(y) => y \in Reachable(x)
    /\ \A k \in 1 .. Depth : \A x \in Under(k) : Node(k) \in Reachable(x)

(* Who has a lower number than call k reaches the call before k.           *)
LowReaches ==
    /\ \A k \in 1 .. Depth : \A x \in OnStack :
           Level(Node(k)) <= Level(x) /\ lowlink[x] < lowlink[Node(k)] => k > 1 /\ Node(k - 1) \in Reachable(x)
    /\ \A k, m \in 1 .. Depth :
           k <= m /\ Call(m).min < lowlink[Node(k)] => k > 1 /\ Node(k - 1) \in Reachable(Node(m))

(* Who has an edge to a node below call k has a lower number than it. *)
EdgesLow ==
    /\ \A k \in 1 .. Depth : \A x, y \in OnStack :
           /\ Level(Node(k)) <= Level(x) /\ Level(y) < Level(Node(k)) /\ y \in Edges(x)
           /\ \A m \in 1 .. Depth : x # Node(m)
           => lowlink[x] < lowlink[Node(k)]
    /\ \A k, m \in 1 .. Depth : \A y \in OnStack :
           /\ k <= m /\ Level(y) < Level(Node(k))
           /\ y \in Edges(Node(m)) \ Range(Call(m).edges)
           => Call(m).min < lowlink[Node(k)]

(* The minimum of a call takes in those of the calls that have returned to *)
(* it, but for the one that has just returned.                             *)
MinKnows ==
    \A k \in 1 .. Depth : \A x \in Under(k) \ {Node(k)} :
        \/ Call(k).min <= lowlink[x]
        \/ /\ k = Depth /\ Call(k).edges # <<>> /\ Head(Call(k).edges) \in visited
           /\ lowlink[Head(Call(k).edges)] <= lowlink[x]

Components ==
    /\ \A i \in DOMAIN scc_list :
           /\ IsInjective(scc_list[i]) /\ scc_list[i] # <<>>
           /\ \A x \in Range(scc_list[i]) : Range(scc_list[i]) = Component(x)
    /\ \A i, j \in DOMAIN scc_list : i # j => Range(scc_list[i]) \cap Range(scc_list[j]) = {}
    /\ Done = UNION {Range(scc_list[i]) : i \in DOMAIN scc_list}

Cycles ==
    /\ index1 > 0 => SearchDone
    /\ \A c : c \in Range(mgc) <=> \E i \in 1 .. index1 : c = scc_list[i] /\ Len(c) > 1
    /\ \A x : x \in thread_in_cycle <=> \E c \in Range(mgc) : x \in Range(c)

DfsInv == Types /\ Walk /\ Numbers /\ Reaches /\ LowReaches /\ EdgesLow /\ MinKnows /\ Components
SearchInv == DfsInv /\ Cycles

-----------------------------------------------------------------------------
(* Reachability.                                                           *)
LEMMA ReachableFacts ==
    ASSUME digraph \in [Nodes -> Seq(Nodes)]
    PROVE  /\ \A v \in Nodes : v \in Reachable(v)
           /\ \A v, w \in Nodes : w \in Edges(v) => w \in Reachable(v)
           /\ \A u, v, w \in Nodes : v \in Reachable(u) /\ w \in Reachable(v) => w \in Reachable(u)
<1>1. \A v \in Nodes : v \in Reachable(v)
    BY DEF Reachable
<1>2. ASSUME NEW v \in Nodes, NEW w \in Nodes, w \in Edges(v)
      PROVE  w \in Reachable(v)
    BY <1>2 DEF Reachable, Closed, Edges
<1>3. ASSUME NEW u \in Nodes, NEW v \in Nodes, NEW w \in Nodes, v \in Reachable(u), w \in Reachable(v)
      PROVE  w \in Reachable(u)
    BY <1>3 DEF Reachable
<1> QED BY <1>1, <1>2, <1>3

(* What no edge leaves, nobody in it gets out of. *)
LEMMA ReachableInClosed ==
    ASSUME NEW S \in SUBSET Nodes, \A x \in S : Edges(x) \subseteq S, NEW v \in S, NEW w \in Reachable(v)
    PROVE  w \in S
BY DEF Reachable, Closed, Edges

LEMMA ReachableSame ==
    ASSUME digraph' = digraph
    PROVE  /\ \A v : Reachable(v)' = Reachable(v)
           /\ \A v : Component(v)' = Component(v)
           /\ \A v : Edges(v)' = Edges(v)
<1>1. \A v : Reachable(v)' = Reachable(v)
    BY DEF Reachable, Closed
<1> QED BY <1>1 DEF Component, Edges

LEMMA CountFacts ==
    ASSUME NEW S \in SUBSET Nodes
    PROVE  /\ Cardinality(S) \in Nat /\ Cardinality(S) <= num_nodes
           /\ \A w \in Nodes \ S : Cardinality(S \cup {w}) = Cardinality(S) + 1 /\ Cardinality(S) < num_nodes
<1>1. IsFiniteSet(Nodes) /\ Cardinality(Nodes) = num_nodes
    <2>1. 0 \in Int /\ num_nodes - 1 \in Int /\ num_nodes \in Nat \ {0}
        BY NodeCount
    <2> QED BY <2>1, FS_Interval DEF Nodes
<1>2. ASSUME NEW T \in SUBSET Nodes
      PROVE  IsFiniteSet(T) /\ Cardinality(T) \in Nat /\ Cardinality(T) <= num_nodes
    BY <1>1, FS_Subset, FS_CardinalityType
<1>3. ASSUME NEW w \in Nodes \ S
      PROVE  Cardinality(S \cup {w}) = Cardinality(S) + 1 /\ Cardinality(S) < num_nodes
    <2>1. Cardinality(S \cup {w}) = Cardinality(S) + 1
        BY <1>2, <1>3, FS_AddElement
    <2>2. S \cup {w} \in SUBSET Nodes
        BY <1>3
    <2> QED BY <1>2, <2>1, <2>2, NodeCount
<1> QED BY <1>2, <1>3

-----------------------------------------------------------------------------
(* The stack and the calls.                                                *)
LEMMA HeightFacts ==
    ASSUME NEW s \in Seq(Nodes), IsInjective(s)
    PROVE  /\ Len(s) \in Nat
           /\ \A i \in 1 .. Len(s) : s[i] \in Range(s) /\ Height(s, s[i]) = Len(s) + 1 - i
           /\ \A x \in Range(s) : /\ x \in Nodes /\ Height(s, x) \in 1 .. Len(s)
                                  /\ x = s[Len(s) + 1 - Height(s, x)]
           /\ \A x, y \in Range(s) : Height(s, x) = Height(s, y) => x = y
<1>1. Len(s) \in Nat /\ DOMAIN s = 1 .. Len(s)
    OBVIOUS
<1>2. ASSUME NEW i \in 1 .. Len(s)
      PROVE  s[i] \in Range(s) /\ Height(s, s[i]) = Len(s) + 1 - i
    <2>1. \A j \in DOMAIN s : s[j] = s[i] => j = i
        BY <1>1 DEF IsInjective
    <2>2. (CHOOSE j \in DOMAIN s : s[j] = s[i]) = i
        BY <1>1, <2>1
    <2> QED BY <1>1, <2>2 DEF Height, Range
<1>3. ASSUME NEW x \in Range(s)
      PROVE  x \in Nodes /\ Height(s, x) \in 1 .. Len(s) /\ x = s[Len(s) + 1 - Height(s, x)]
    <2>1. PICK i \in 1 .. Len(s) : x = s[i]
        BY <1>1 DEF Range
    <2>2. Height(s, x) = Len(s) + 1 - i
        BY <1>2, <2>1
    <2>3. Len(s) + 1 - Height(s, x) = i
        BY <1>1, <2>2
    <2> QED BY <1>1, <2>1, <2>2, <2>3
<1>4. ASSUME NEW x \in Range(s), NEW y \in Range(s), Height(s, x) = Height(s, y)
      PROVE  x = y
    BY <1>3, <1>4
<1> QED BY <1>1, <1>2, <1>3, <1>4

LEMMA RangeFacts ==
    ASSUME NEW S, NEW s \in Seq(S)
    PROVE  /\ \A x : x \in Range(s) <=> \E i \in 1 .. Len(s) : x = s[i]
           /\ Len(s) \in Nat
           /\ IsInjective(s) <=> \A i, j \in 1 .. Len(s) : s[i] = s[j] => i = j
<1>1. DOMAIN s = 1 .. Len(s) /\ Len(s) \in Nat
    OBVIOUS
<1> QED BY <1>1 DEF Range, IsInjective

(* A node w pushed on the stack s gives r. *)
LEMMA Pushed ==
    ASSUME NEW s \in Seq(Nodes), IsInjective(s), NEW w \in Nodes \ Range(s),
           NEW r \in Seq(Nodes), Len(r) = Len(s) + 1, r[1] = w, \A i \in 1 .. Len(s) : r[i + 1] = s[i]
    PROVE  /\ IsInjective(r) /\ Range(r) = Range(s) \cup {w}
           /\ \A x \in Range(s) : Height(r, x) = Height(s, x) /\ Height(s, x) < Height(r, w)
<1> Len(s) \in Nat
    OBVIOUS
<1>1. /\ \A x : x \in Range(s) <=> \E i \in 1 .. Len(s) : x = s[i]
      /\ \A i, j \in 1 .. Len(s) : s[i] = s[j] => i = j
    BY RangeFacts
<1>2. \A i \in 1 .. Len(r) : i = 1 \/ (i - 1 \in 1 .. Len(s) /\ r[i] = s[i - 1])
    <2> TAKE i \in 1 .. Len(r)
    <2>1. i = 1 \/ (i - 1 \in 1 .. Len(s) /\ (i - 1) + 1 = i)
        OBVIOUS
    <2> QED BY <2>1
<1>3. IsInjective(r)
    <2>1. ASSUME NEW i \in 1 .. Len(r), NEW j \in 1 .. Len(r), r[i] = r[j]
          PROVE  i = j
        <3>1. CASE i = 1 \/ j = 1
            BY <1>1, <1>2, <2>1, <3>1
        <3>2. CASE i # 1 /\ j # 1
            <4>1. i - 1 \in 1 .. Len(s) /\ j - 1 \in 1 .. Len(s) /\ s[i - 1] = s[j - 1]
                BY <1>2, <2>1, <3>2
            <4>2. i - 1 = j - 1
                BY <4>1, <1>1
            <4> QED BY <4>2
        <3> QED BY <3>1, <3>2
    <2> QED BY <2>1, RangeFacts
<1>4. \A x : x \in Range(r) <=> \E i \in 1 .. Len(r) : x = r[i]
    BY RangeFacts
<1>5. Range(r) = Range(s) \cup {w}
    <2>1. \A x \in Range(r) : x \in Range(s) \cup {w}
        BY <1>1, <1>2, <1>4
    <2>2. w \in Range(r)
        <3>1. 1 \in 1 .. Len(r)
            OBVIOUS
        <3> QED BY <1>4, <3>1
    <2>3. \A x \in Range(s) : x \in Range(r)
        <3> TAKE x \in Range(s)
        <3>1. PICK i \in 1 .. Len(s) : x = s[i]
            BY <1>1
        <3>2. i + 1 \in 1 .. Len(r) /\ x = r[i + 1]
            BY <3>1
        <3> QED BY <1>4, <3>2
    <2> QED BY <2>1, <2>2, <2>3
<1>6. \A i \in 1 .. Len(r) : Height(r, r[i]) = Len(r) + 1 - i
    BY <1>3, HeightFacts
<1>7. \A i \in 1 .. Len(s) : Height(s, s[i]) = Len(s) + 1 - i
    BY HeightFacts
<1>8. ASSUME NEW x \in Range(s)
      PROVE  Height(r, x) = Height(s, x) /\ Height(s, x) < Height(r, w)
    <2>1. PICK i \in 1 .. Len(s) : x = s[i]
        BY <1>1
    <2>2. i + 1 \in 1 .. Len(r) /\ 1 \in 1 .. Len(r) /\ x = r[i + 1]
        BY <2>1
    <2>3. Height(s, x) = Len(s) + 1 - i
        BY <1>7, <2>1
    <2>4. Height(r, x) = Len(r) + 1 - (i + 1)
        BY <1>6, <2>2
    <2>5. Height(r, w) = Len(r) + 1 - 1
        BY <1>6, <2>2
    <2> QED BY <2>3, <2>4, <2>5
<1> QED BY <1>3, <1>5, <1>8

(* The first k elements of a sequence, and the rest of it. *)
SplitAt(s, k, a, r) ==
    /\ s \in Seq(Nodes) /\ IsInjective(s) /\ k \in 1 .. Len(s)
    /\ a \in Seq(Nodes) /\ Len(a) = k /\ \A i \in 1 .. k : a[i] = s[i]
    /\ r \in Seq(Nodes) /\ Len(r) = Len(s) - k /\ \A i \in 1 .. Len(s) - k : r[i] = s[i + k]

LEMMA Popped ==
    ASSUME NEW s, NEW k, NEW a, NEW r, SplitAt(s, k, a, r)
    PROVE  /\ IsInjective(a) /\ Range(a) = DownTo(s, s[k])
           /\ IsInjective(r) /\ Range(r) = Range(s) \ DownTo(s, s[k])
           /\ \A x \in Range(r) : Height(r, x) = Height(s, x)
<1> /\ s \in Seq(Nodes) /\ IsInjective(s) /\ Len(s) \in Nat /\ k \in 1 .. Len(s)
    /\ a \in Seq(Nodes) /\ Len(a) = k /\ \A i \in 1 .. k : a[i] = s[i]
    /\ r \in Seq(Nodes) /\ Len(r) = Len(s) - k /\ \A i \in 1 .. Len(s) - k : r[i] = s[i + k]
    BY DEF SplitAt
<1>1. /\ \A x : x \in Range(s) <=> \E i \in 1 .. Len(s) : x = s[i]
      /\ \A i, j \in 1 .. Len(s) : s[i] = s[j] => i = j
    BY RangeFacts
<1>2. /\ \A x : x \in Range(a) <=> \E i \in 1 .. k : x = a[i]
      /\ \A x : x \in Range(r) <=> \E i \in 1 .. Len(s) - k : x = r[i]
    <2>1. \A x : x \in Range(a) <=> \E i \in 1 .. Len(a) : x = a[i]
        BY RangeFacts
    <2>2. \A x : x \in Range(r) <=> \E i \in 1 .. Len(r) : x = r[i]
        BY RangeFacts
    <2> QED BY <2>1, <2>2
<1>3. \A i \in 1 .. Len(s) - k : i + k \in 1 .. Len(s)
    OBVIOUS
<1>4. IsInjective(a)
    <2>1. \A i, j \in 1 .. Len(a) : a[i] = a[j] => i = j
        BY <1>1
    <2> QED BY <2>1, RangeFacts
<1>5. IsInjective(r)
    <2>1. ASSUME NEW i \in 1 .. Len(r), NEW j \in 1 .. Len(r), r[i] = r[j]
          PROVE  i = j
        <3>1. i + k = j + k
            BY <1>1, <1>3, <2>1
        <3> QED BY <3>1
    <2> QED BY <2>1, RangeFacts
<1>6. \A i \in 1 .. Len(s) : Height(s, s[i]) = Len(s) + 1 - i
    BY HeightFacts
<1>7. \A i \in 1 .. Len(r) : Height(r, r[i]) = Len(r) + 1 - i
    BY <1>5, HeightFacts
<1>8. ASSUME NEW x \in Range(s)
      PROVE  /\ x \in Range(a) <=> Height(s, s[k]) <= Height(s, x)
             /\ x \in Range(r) <=> Height(s, x) < Height(s, s[k])
             /\ x \in Range(r) => Height(r, x) = Height(s, x)
    <2>1. PICK i \in 1 .. Len(s) : x = s[i]
        BY <1>1
    <2>2. Height(s, x) = Len(s) + 1 - i /\ Height(s, s[k]) = Len(s) + 1 - k
        BY <1>6, <2>1
    <2>3. x \in Range(a) <=> i <= k
        <3>1. i <= k => i \in 1 .. k /\ a[i] = x
            BY <2>1
        <3>2. \A j \in 1 .. k : j \in 1 .. Len(s) /\ a[j] = s[j] /\ (a[j] = x => j = i)
            BY <1>1, <2>1
        <3> QED BY <1>2, <3>1, <3>2
    <2>4. i > k => i - k \in 1 .. Len(s) - k /\ r[i - k] = x
        <3>1. i > k => i - k \in 1 .. Len(s) - k /\ (i - k) + k = i
            OBVIOUS
        <3> QED BY <2>1, <3>1
    <2>5. \A j \in 1 .. Len(s) - k : r[j] = x => j + k = i
        <3> TAKE j \in 1 .. Len(s) - k
        <3>1. j + k \in 1 .. Len(s) /\ r[j] = s[j + k]
            BY <1>3
        <3> QED BY <1>1, <2>1, <3>1
    <2>6. x \in Range(r) <=> i > k
        <3>1. \A j \in 1 .. Len(s) - k : r[j] = x => i > k
            BY <2>5
        <3> QED BY <1>2, <2>4, <3>1
    <2>7. i > k => Height(r, x) = Len(r) + 1 - (i - k)
        BY <1>7, <2>4
    <2> QED BY <2>2, <2>3, <2>6, <2>7
<1>9. \A x \in Range(a) : x \in Range(s)
    BY <1>1, <1>2
<1>10. \A x \in Range(r) : x \in Range(s)
    BY <1>1, <1>2, <1>3
<1>11. Range(a) = DownTo(s, s[k])
    BY <1>8, <1>9 DEF DownTo
<1>12. Range(r) = Range(s) \ DownTo(s, s[k])
    <2>1. Len(s) + 1 - k \in Int /\ \A i \in 1 .. Len(s) : Len(s) + 1 - i \in Int
        OBVIOUS
    <2>2. \A x \in Range(s) : Height(s, x) \in Int
        BY <1>1, <1>6, <2>1
    <2>3. s[k] \in Range(s)
        BY <1>1
    <2> QED BY <1>8, <1>10, <2>2, <2>3 DEF DownTo
<1> QED BY <1>4, <1>5, <1>8, <1>10, <1>11, <1>12

LEMMA Entered ==
    ASSUME calls \in Seq(Frames), NEW c \in Frames, calls' = <<c>> \o calls
    PROVE  /\ calls' \in Seq(Frames) /\ Depth \in Nat /\ Depth' = Depth + 1
           /\ \A k \in 1 .. Depth : Call(k)' = Call(k) /\ Node(k)' = Node(k)
           /\ \A k : k = Depth + 1 => Call(k)' = c /\ Node(k)' = c.v
<1>1. /\ calls' \in Seq(Frames) /\ Len(calls) \in Nat /\ Len(calls') = Len(calls) + 1 /\ calls'[1] = c
      /\ \A i \in 1 .. Len(calls) : calls'[i + 1] = calls[i]
    OBVIOUS
<1>2. \A k \in 1 .. Len(calls) : /\ Len(calls) + 1 - k \in 1 .. Len(calls)
                                 /\ Len(calls') + 1 - k = (Len(calls) + 1 - k) + 1
    BY <1>1
<1>3. \A k \in 1 .. Len(calls) : calls'[Len(calls') + 1 - k] = calls[Len(calls) + 1 - k]
    BY <1>1, <1>2
<1>4. Len(calls') + 1 - (Len(calls) + 1) = 1
    BY <1>1
<1>5. \A k : k = Depth + 1 => Call(k)' = c
    BY <1>1, <1>4 DEF Call, Depth
<1>6. \A k \in 1 .. Depth : Call(k)' = Call(k)
    BY <1>3 DEF Call, Depth
<1> QED BY <1>1, <1>5, <1>6 DEF Node, Depth

LEMMA Topmost ==
    ASSUME calls \in Seq(Frames)
    PROVE  /\ Depth \in Nat /\ (Depth > 0 <=> calls # <<>>)
           /\ calls # <<>> => Depth \in 1 .. Depth /\ Head(calls) = Call(Depth)
           /\ \A k \in 1 .. Depth : /\ Call(k) \in Frames /\ Call(k).v = Node(k) /\ Node(k) \in Nodes
                                    /\ Call(k).edges \in Seq(Nodes) /\ Call(k).min \in Nat
<1>1. Len(calls) \in Nat /\ (Len(calls) > 0 <=> calls # <<>>)
    OBVIOUS
<1>2. calls # <<>> => Head(calls) = calls[1] /\ Len(calls) + 1 - Len(calls) = 1
    BY <1>1
<1>3. \A k \in 1 .. Len(calls) : Len(calls) + 1 - k \in 1 .. Len(calls)
    BY <1>1
<1>4. \A k \in 1 .. Len(calls) : calls[Len(calls) + 1 - k] \in Frames
    BY <1>3
<1>5. \A k \in 1 .. Depth : Call(k) \in Frames
    BY <1>4 DEF Call, Depth
<1> QED BY <1>1, <1>2, <1>5 DEF Call, Depth, Node, Frames

LEMMA Replaced ==
    ASSUME calls \in Seq(Frames), calls # <<>>, NEW c \in Frames, calls' = <<c>> \o Tail(calls)
    PROVE  /\ calls' \in Seq(Frames) /\ Depth' = Depth
           /\ \A k \in 1 .. Depth - 1 : Call(k)' = Call(k) /\ Node(k)' = Node(k)
           /\ \A k : k = Depth => Call(k)' = c /\ Node(k)' = c.v
<1>1. /\ calls' \in Seq(Frames) /\ Len(calls) \in Nat /\ Len(calls) > 0 /\ Len(calls') = Len(calls) /\ calls'[1] = c
      /\ \A i \in 2 .. Len(calls) : calls'[i] = calls[i]
    OBVIOUS
<1>2. ASSUME NEW k \in 1 .. Len(calls) - 1
      PROVE  calls'[Len(calls') + 1 - k] = calls[Len(calls) + 1 - k]
    <2>1. Len(calls) + 1 - k \in 2 .. Len(calls)
        BY <1>1
    <2> QED BY <1>1, <2>1
<1>3. Len(calls') + 1 - Len(calls) = 1
    BY <1>1
<1> QED BY <1>1, <1>2, <1>3 DEF Call, Node, Depth

LEMMA Returned ==
    ASSUME calls \in Seq(Frames), calls # <<>>, calls' = Tail(calls)
    PROVE  /\ calls' \in Seq(Frames) /\ Depth' = Depth - 1
           /\ \A k \in 1 .. Depth - 1 : Call(k)' = Call(k) /\ Node(k)' = Node(k)
<1>1. /\ calls' \in Seq(Frames) /\ Len(calls) \in Nat /\ Len(calls) > 0 /\ Len(calls') = Len(calls) - 1
      /\ \A i \in 1 .. Len(calls) - 1 : calls'[i] = calls[i + 1]
    OBVIOUS
<1>2. ASSUME NEW k \in 1 .. Len(calls) - 1
      PROVE  calls'[Len(calls') + 1 - k] = calls[Len(calls) + 1 - k]
    <2>1. /\ Len(calls') + 1 - k \in 1 .. Len(calls) - 1
          /\ (Len(calls') + 1 - k) + 1 = Len(calls) + 1 - k
        BY <1>1
    <2> QED BY <1>1, <2>1
<1> QED BY <1>1, <1>2 DEF Call, Node, Depth

-----------------------------------------------------------------------------
(* A call of dfs.                                                          *)
LEMMA StackLevels ==
    ASSUME Types
    PROVE  /\ \A x \in OnStack : x \in Nodes /\ x \in visited /\ Level(x) \in Nat
           /\ \A x, y \in OnStack : Level(x) = Level(y) => x = y
<1>1. nodeStack \in Seq(Nodes) /\ IsInjective(nodeStack) /\ OnStack \subseteq visited /\ OnStack = Range(nodeStack)
    BY DEF Types, OnStack
<1>2. /\ Len(nodeStack) \in Nat
      /\ \A x \in Range(nodeStack) : x \in Nodes /\ Height(nodeStack, x) \in 1 .. Len(nodeStack)
      /\ \A x, y \in Range(nodeStack) : Height(nodeStack, x) = Height(nodeStack, y) => x = y
    BY <1>1, HeightFacts
<1> QED BY <1>1, <1>2 DEF Level

LEMMA VisitFacts ==
    ASSUME DfsInv, NEW w \in Nodes \ visited, Visit(w, calls), digraph' = digraph,
           calls # <<>> => Head(calls).edges # <<>> /\ w = Head(Head(calls).edges)
    PROVE  /\ Depth \in Nat /\ Depth' = Depth + 1 /\ calls' \in Seq(Frames)
           /\ \A k \in 1 .. Depth : Call(k)' = Call(k) /\ Node(k)' = Node(k) /\ Under(k)' = Under(k)
           /\ \A k : k = Depth + 1 => /\ Node(k)' = w /\ Under(k)' = {w}
                                      /\ Call(k)' = [v |-> w, edges |-> digraph[w], min |-> preCount]
           /\ calls # <<>> => /\ Depth \in 1 .. Depth /\ Call(Depth).edges # <<>>
                              /\ Head(Call(Depth).edges) = w /\ w \in Edges(Node(Depth))
           /\ nodeStack' \in Seq(Nodes) /\ IsInjective(nodeStack')
           /\ OnStack' = OnStack \cup {w} /\ visited' = visited \cup {w} /\ Done' = Done
           /\ \A x \in OnStack : Level(x)' = Level(x) /\ Level(x) < Level(w)'
           /\ Level(w)' \in Nat
           /\ preCount \in Nat /\ preCount' = preCount + 1 /\ preCount < num_nodes
           /\ preCount' = Cardinality(visited')
           /\ lowlink' \in [Nodes -> Nat] /\ lowlink'[w] = preCount
           /\ \A x \in Nodes : x # w => lowlink'[x] = lowlink[x]
<1> USE DEF DfsInv
<1> DEFINE c == [v |-> w, edges |-> digraph[w], min |-> preCount]
<1>1. w \in Nodes /\ w \notin visited /\ w \notin OnStack
    BY DEF Types
<1>2. preCount \in Nat /\ preCount < num_nodes /\ preCount + 1 = Cardinality(visited \cup {w})
    BY CountFacts DEF Types
<1>3. c \in Frames
    BY <1>2 DEF Types, Frames
<1>4. /\ calls' = <<c>> \o calls /\ nodeStack' = <<w>> \o nodeStack /\ visited' = visited \cup {w}
      /\ preCount' = preCount + 1 /\ lowlink' = [lowlink EXCEPT ![w] = preCount]
    BY DEF Visit
<1>5. /\ Depth \in Nat /\ Depth' = Depth + 1 /\ calls' \in Seq(Frames)
      /\ \A k \in 1 .. Depth : Call(k)' = Call(k) /\ Node(k)' = Node(k)
      /\ \A k : k = Depth + 1 => Call(k)' = c /\ Node(k)' = c.v
    BY <1>3, <1>4, Entered DEF Types
<1>6. /\ nodeStack' \in Seq(Nodes) /\ IsInjective(nodeStack') /\ OnStack' = OnStack \cup {w}
      /\ \A x \in OnStack : Level(x)' = Level(x) /\ Level(x) < Level(w)'
    <2>1. /\ nodeStack \in Seq(Nodes) /\ IsInjective(nodeStack) /\ w \in Nodes \ Range(nodeStack)
        BY <1>1 DEF Types, OnStack
    <2>2. /\ nodeStack' \in Seq(Nodes) /\ Len(nodeStack') = Len(nodeStack) + 1 /\ nodeStack'[1] = w
          /\ \A i \in 1 .. Len(nodeStack) : nodeStack'[i + 1] = nodeStack[i]
        BY <1>4, <2>1
    <2>3. /\ IsInjective(nodeStack') /\ Range(nodeStack') = Range(nodeStack) \cup {w}
          /\ \A x \in Range(nodeStack) : /\ Height(nodeStack', x) = Height(nodeStack, x)
                                         /\ Height(nodeStack, x) < Height(nodeStack', w)
        BY <2>1, <2>2, Pushed
    <2> QED BY <2>2, <2>3 DEF OnStack, Level
<1>7. Done' = Done
    BY <1>1, <1>4, <1>6 DEF Done
<1>8. /\ lowlink' \in [Nodes -> Nat] /\ lowlink'[w] = preCount
      /\ \A x \in Nodes : x # w => lowlink'[x] = lowlink[x]
    BY <1>1, <1>2, <1>4 DEF Types
<1>9. calls # <<>> => /\ Depth \in 1 .. Depth /\ Call(Depth).edges # <<>>
                      /\ Head(Call(Depth).edges) = w /\ w \in Edges(Node(Depth))
    <2> HAVE calls # <<>>
    <2>1. /\ Depth \in 1 .. Depth /\ Head(calls) = Call(Depth) /\ Call(Depth).edges \in Seq(Nodes)
        BY Topmost DEF Types
    <2>2. /\ Call(Depth).edges # <<>> /\ Head(Call(Depth).edges) = w
        BY <2>1
    <2>3. w \in Range(Call(Depth).edges)
        <3>1. 1 \in 1 .. Len(Call(Depth).edges) /\ w = Call(Depth).edges[1]
            BY <2>1, <2>2
        <3> QED BY <2>1, <3>1, RangeFacts
    <2> QED BY <2>1, <2>2, <2>3 DEF Walk
<1>10. \A x \in OnStack : Level(x) \in Nat
    BY StackLevels
<1>11. Level(w)' \in Nat
    <2>1. /\ Len(nodeStack') \in Nat
          /\ \A x \in Range(nodeStack') : Height(nodeStack', x) \in 1 .. Len(nodeStack')
        BY <1>6, HeightFacts
    <2>2. w \in Range(nodeStack')
        BY <1>6 DEF OnStack
    <2> QED BY <2>1, <2>2 DEF Level
<1>12. \A k \in 1 .. Depth : Under(k)' = Under(k)
    <2> TAKE k \in 1 .. Depth
    <2>1. Node(k) \in OnStack /\ (k < Depth => Node(k + 1) \in OnStack)
        BY <1>5 DEF Walk
    <2>2. Node(k)' = Node(k) /\ Level(Node(k))' = Level(Node(k))
        BY <1>5, <1>6, <2>1
    <2>3. k < Depth => Level(Node(k + 1))' = Level(Node(k + 1))
        <3> HAVE k < Depth
        <3>1. k + 1 \in 1 .. Depth
            BY <1>5
        <3>2. Node(k + 1)' = Node(k + 1)
            BY <1>5, <3>1
        <3> QED BY <1>6, <2>1, <3>2
    <2>4. k = Depth => Level(Node(k + 1))' = Level(w)'
        BY <1>5
    <2>5. Depth \in Nat /\ Depth' = Depth + 1 /\ k \in 1 .. Depth
        BY <1>5
    <2>6. \A x : x \in Under(k) <=> /\ x \in OnStack /\ Level(Node(k)) <= Level(x)
                                    /\ k < Depth => Level(x) < Level(Node(k + 1))
        BY DEF Under
    <2>7. \A x : x \in Under(k)' <=> /\ x \in OnStack' /\ Level(Node(k))' <= Level(x)'
                                     /\ k < Depth' => Level(x)' < Level(Node(k + 1))'
        BY DEF Under
    <2>8. \A x : x \in Under(k)' <=> x \in OnStack' /\ Level(Node(k)) <= Level(x)' /\ Level(x)' < Level(Node(k + 1))'
        BY <2>2, <2>5, <2>7
    <2>9. ASSUME NEW x \in OnStack
          PROVE  x \in Under(k)' <=> x \in Under(k)
        <3>1. Level(x)' = Level(x) /\ Level(x) < Level(w)' /\ x \in OnStack'
            BY <1>6
        <3>2. CASE k = Depth
            BY <2>4, <2>5, <2>6, <2>8, <3>1, <3>2
        <3>3. CASE k < Depth
            BY <2>3, <2>5, <2>6, <2>8, <3>1, <3>3
        <3> QED BY <2>5, <3>2, <3>3
    <2>10. w \notin Under(k)'
        <3>1. k < Depth => Level(Node(k + 1)) < Level(w)' /\ Level(Node(k + 1)) \in Nat
            BY <1>6, <1>10, <2>1
        <3>2. k < Depth => ~(Level(w)' < Level(Node(k + 1))')
            BY <1>6, <1>11, <2>3, <3>1
        <3>3. k = Depth => ~(Level(w)' < Level(Node(k + 1))')
            BY <1>11, <2>4
        <3> QED BY <2>5, <2>8, <3>2, <3>3
    <2>11. \A x : x \in Under(k)' <=> x \in Under(k)
        BY <1>6, <2>6, <2>7, <2>9, <2>10
    <2> QED BY <2>11
<1>13. \A k : k = Depth + 1 => Under(k)' = {w}
    <2> TAKE k
    <2> HAVE k = Depth + 1
    <2>1. Node(k)' = w /\ ~(k < Depth') /\ k \in Nat
        BY <1>5
    <2>2. \A x : x \in Under(k)' <=> /\ x \in OnStack' /\ Level(Node(k))' <= Level(x)'
                                     /\ k < Depth' => Level(x)' < Level(Node(k + 1))'
        BY DEF Under
    <2>3. \A x : x \in Under(k)' <=> x \in OnStack' /\ Level(w)' <= Level(x)'
        BY <2>1, <2>2
    <2>4. \A x \in OnStack : ~(Level(w)' <= Level(x)')
        BY <1>6, <1>10, <1>11
    <2>5. Level(w)' <= Level(w)' /\ w \in OnStack'
        BY <1>6, <1>11
    <2> QED BY <1>6, <2>3, <2>4, <2>5
<1> QED BY <1>2, <1>4, <1>5, <1>6, <1>7, <1>8, <1>9, <1>11, <1>12, <1>13

LEMMA VisitKeeps ==
    ASSUME DfsInv, NEW w \in Nodes \ visited, Visit(w, calls), UNCHANGED <<digraph, root, cycleVars>>,
           calls # <<>> => Head(calls).edges # <<>> /\ w = Head(Head(calls).edges)
    PROVE  DfsInv'
<1> DfsInv /\ digraph' = digraph /\ root' = root /\ UNCHANGED cycleVars /\ scc_list' = scc_list
    BY DEF Visit
<1> USE DEF DfsInv
<1>1. /\ Depth \in Nat /\ Depth' = Depth + 1 /\ calls' \in Seq(Frames)
      /\ \A k \in 1 .. Depth : Call(k)' = Call(k) /\ Node(k)' = Node(k) /\ Under(k)' = Under(k)
      /\ \A k : k = Depth + 1 => /\ Node(k)' = w /\ Under(k)' = {w}
                                 /\ Call(k)' = [v |-> w, edges |-> digraph[w], min |-> preCount]
    BY VisitFacts
<1>2. calls # <<>> => /\ Depth \in 1 .. Depth /\ Call(Depth).edges # <<>>
                      /\ Head(Call(Depth).edges) = w /\ w \in Edges(Node(Depth))
    BY VisitFacts
<1>3. /\ nodeStack' \in Seq(Nodes) /\ IsInjective(nodeStack')
      /\ OnStack' = OnStack \cup {w} /\ visited' = visited \cup {w} /\ Done' = Done
      /\ \A x \in OnStack : Level(x)' = Level(x) /\ Level(x) < Level(w)'
    BY VisitFacts
<1>4. /\ preCount \in Nat /\ preCount' = preCount + 1 /\ preCount < num_nodes
      /\ preCount' = Cardinality(visited')
      /\ lowlink' \in [Nodes -> Nat] /\ lowlink'[w] = preCount
      /\ \A x \in Nodes : x # w => lowlink'[x] = lowlink[x]
    BY VisitFacts
<1>5. /\ \A v : Reachable(v)' = Reachable(v) /\ Component(v)' = Component(v) /\ Edges(v)' = Edges(v)
    BY ReachableSame
<1>6. /\ \A x \in OnStack : x \in Nodes /\ x \in visited /\ Level(x) \in Nat /\ x # w
      /\ \A x \in visited : x \in Nodes /\ x # w
    BY StackLevels DEF Types
<1>7. \A k \in 1 .. Depth' : k \in 1 .. Depth \/ k = Depth + 1
    BY <1>1
<1>8. Depth > 0 <=> calls # <<>>
    BY Topmost DEF Types
<1>9. /\ \A x \in OnStack : lowlink'[x] = lowlink[x]
      /\ \A x \in Done : lowlink'[x] = lowlink[x]
      /\ \A k \in 1 .. Depth : Node(k) \in OnStack /\ Level(Node(k))' = Level(Node(k))
    BY <1>1, <1>3, <1>4, <1>6 DEF Done, Walk
<1>10. Level(w)' \in Nat /\ \A x \in OnStack : ~(Level(w)' <= Level(x))
    BY VisitFacts, <1>3, <1>6
<1>11. Types'
    BY <1>1, <1>3, <1>4 DEF Types, cycleVars
<1>12. Walk'
    <2>1. ASSUME NEW k \in 1 .. Depth'
          PROVE  Node(k)' \in OnStack' /\ Range(Call(k).edges)' \subseteq Edges(Node(k))'
        <3>1. CASE k \in 1 .. Depth
            <4>1. Node(k) \in OnStack /\ Range(Call(k).edges) \subseteq Edges(Node(k))
                BY <3>1 DEF Walk
            <4> QED BY <1>1, <1>3, <3>1, <4>1 DEF Edges
        <3>2. CASE k = Depth + 1
            BY <1>1, <1>3, <3>2 DEF Edges
        <3> QED BY <1>7, <3>1, <3>2
    <2>2. ASSUME NEW k \in 1 .. Depth', NEW m \in 1 .. Depth', k < m
          PROVE  Level(Node(k))' < Level(Node(m))'
        <3>1. k \in 1 .. Depth
            BY <1>1, <2>2
        <3>2. CASE m \in 1 .. Depth
            <4>1. Level(Node(k)) < Level(Node(m))
                BY <2>2, <3>1, <3>2 DEF Walk
            <4> QED BY <1>9, <3>1, <3>2, <4>1
        <3>3. CASE m = Depth + 1
            <4>1. Level(Node(m))' = Level(w)'
                BY <1>1, <3>3
            <4>2. Level(Node(k)) < Level(w)'
                BY <1>3, <1>9, <3>1
            <4> QED BY <1>9, <3>1, <4>1, <4>2
        <3> QED BY <1>7, <3>2, <3>3
    <2>3. ASSUME NEW x \in OnStack'
          PROVE  Depth' > 0 /\ Level(Node(1))' <= Level(x)'
        <3>1. CASE Depth = 0
            <4>1. OnStack = {} /\ Node(1)' = w
                BY <1>1, <3>1 DEF Walk
            <4> QED BY <1>1, <1>3, <1>10, <3>1, <4>1
        <3>2. CASE Depth > 0
            <4>1. 1 \in 1 .. Depth /\ Level(Node(1))' = Level(Node(1)) /\ Node(1) \in OnStack
                BY <1>1, <1>9, <3>2
            <4>2. CASE x \in OnStack
                BY <1>1, <1>3, <4>1, <4>2 DEF Walk
            <4>3. CASE x = w
                BY <1>1, <1>3, <1>6, <1>10, <4>1, <4>3
            <4> QED BY <1>3, <4>2, <4>3
        <3> QED BY <1>1, <3>1, <3>2
    <2>4. ASSUME NEW k \in 1 .. Depth' - 1
          PROVE  Call(k).edges' # <<>> /\ Head(Call(k).edges)' = Node(k + 1)'
        <3>1. k \in 1 .. Depth /\ k + 1 \in 1 .. Depth'
            BY <1>1
        <3>2. CASE k = Depth
            BY <1>1, <1>2, <1>8, <3>1, <3>2
        <3>3. CASE k # Depth
            <4>1. k \in 1 .. Depth - 1 /\ k + 1 \in 1 .. Depth
                BY <1>1, <3>1, <3>3
            <4> QED BY <1>1, <3>1, <4>1 DEF Walk
        <3> QED BY <3>2, <3>3
    <2>5. ASSUME NEW x \in visited', NEW y \in Edges(x)'
          PROVE  y \in visited' \/ \E k \in 1 .. Depth' : x = Node(k)' /\ y \in Range(Call(k).edges)'
        <3>1. y \in Edges(x)
            BY <1>5
        <3>2. CASE x \in visited
            <4>1. CASE y \in visited
                BY <1>3, <4>1
            <4>2. CASE \E k \in 1 .. Depth : x = Node(k) /\ y \in Range(Call(k).edges)
                <5>1. PICK k \in 1 .. Depth : x = Node(k) /\ y \in Range(Call(k).edges)
                    BY <4>2
                <5>2. k \in 1 .. Depth' /\ x = Node(k)' /\ y \in Range(Call(k).edges)'
                    BY <1>1, <5>1
                <5> QED BY <5>2
            <4> QED BY <3>1, <3>2, <4>1, <4>2 DEF Walk
        <3>3. CASE x = w
            <4>1. PICK k : k = Depth + 1
                OBVIOUS
            <4>2. k \in 1 .. Depth' /\ x = Node(k)' /\ Call(k).edges' = digraph[w]
                BY <1>1, <3>3, <4>1
            <4>3. y \in Range(Call(k).edges)'
                BY <3>1, <3>3, <4>2 DEF Edges
            <4> QED BY <4>2, <4>3
        <3> QED BY <1>3, <3>2, <3>3
    <2>6. \A x \in Done' : Edges(x)' \subseteq Done'
        BY <1>3, <1>5 DEF Walk
    <2>7. \A v \in Nodes : v < root' => v \in visited'
        BY <1>3 DEF Walk
    <2> QED BY <2>1, <2>2, <2>3, <2>4, <2>5, <2>6, <2>7 DEF Walk
<1>13. Numbers'
    <2>1. \A x \in OnStack' : lowlink'[x] < preCount'
        <3>1. \A x \in OnStack : lowlink[x] < preCount /\ lowlink[x] \in Nat
            BY <1>6 DEF Numbers, Types
        <3> QED BY <1>3, <1>4, <1>9, <3>1
    <2>2. \A x \in Done' : lowlink'[x] = num_nodes
        BY <1>3, <1>9 DEF Numbers
    <2>3. ASSUME NEW k \in 1 .. Depth', NEW y \in OnStack', Level(y)' < Level(Node(k))'
          PROVE  lowlink'[y] < lowlink'[Node(k)']
        <3>1. CASE k \in 1 .. Depth
            <4>1. y \in OnStack
                BY <1>3, <1>6, <1>9, <1>10, <2>3, <3>1
            <4>2. lowlink[y] < lowlink[Node(k)]
                BY <1>3, <1>9, <2>3, <3>1, <4>1 DEF Numbers
            <4> QED BY <1>1, <1>9, <3>1, <4>1, <4>2
        <3>2. CASE k = Depth + 1
            <4>1. Node(k)' = w
                BY <1>1, <3>2
            <4>2. y \in OnStack
                BY <1>3, <1>10, <2>3, <4>1
            <4>3. lowlink[y] < preCount
                BY <4>2 DEF Numbers
            <4> QED BY <1>4, <1>9, <4>1, <4>2, <4>3
        <3> QED BY <1>7, <3>1, <3>2
    <2> QED BY <2>1, <2>2, <2>3 DEF Numbers
<1>14. Reaches'
    <2>1. \A x \in OnStack : w \in Reachable(x)
        <3> TAKE x \in OnStack
        <3>1. calls # <<>>
            BY <1>8 DEF Walk
        <3>2. Depth \in 1 .. Depth /\ w \in Edges(Node(Depth)) /\ Node(Depth) \in OnStack
            BY <1>2, <1>9, <3>1
        <3>3. Node(Depth) \in Reachable(x)
            <4>1. CASE Level(x) <= Level(Node(Depth))
                BY <3>2, <4>1 DEF Reaches
            <4>2. CASE Level(Node(Depth)) <= Level(x)
                <5>1. x \in Under(Depth)
                    BY <1>1, <4>2 DEF Under
                <5> QED BY <3>2, <5>1 DEF Reaches
            <4> QED BY <1>6, <3>2, <4>1, <4>2
        <3>4. /\ w \in Reachable(Node(Depth)) /\ Node(Depth) \in Nodes /\ x \in Nodes
            BY <1>6, <3>2, ReachableFacts DEF Types
        <3> QED BY <3>3, <3>4, ReachableFacts DEF Types
    <2>2. w \in Reachable(w)
        BY ReachableFacts DEF Types
    <2>3. ASSUME NEW x \in OnStack', NEW y \in OnStack', Level(x)' <= Level(y)'
          PROVE  y \in Reachable(x)'
        <3>1. CASE y = w
            BY <1>3, <1>5, <2>1, <2>2, <3>1
        <3>2. CASE y # w
            <4>1. x \in OnStack /\ y \in OnStack
                BY <1>3, <1>10, <2>3, <3>2
            <4> QED BY <1>3, <1>5, <2>3, <4>1 DEF Reaches
        <3> QED BY <3>1, <3>2
    <2>4. ASSUME NEW k \in 1 .. Depth', NEW x \in Under(k)'
          PROVE  Node(k)' \in Reachable(x)'
        <3>1. CASE k \in 1 .. Depth
            <4>1. x \in Under(k)
                BY <1>1, <3>1
            <4>2. Node(k) \in Reachable(x)
                BY <3>1, <4>1 DEF Reaches
            <4> QED BY <1>1, <1>5, <3>1, <4>2
        <3>2. CASE k = Depth + 1
            BY <1>1, <1>5, <2>2, <2>4, <3>2
        <3> QED BY <1>7, <3>1, <3>2
    <2> QED BY <2>3, <2>4 DEF Reaches
<1>15. LowReaches'
    <2>1. \A k \in 1 .. Depth : lowlink'[Node(k)'] = lowlink[Node(k)] /\ lowlink[Node(k)] < preCount /\ lowlink[Node(k)] \in Nat
        BY <1>1, <1>6, <1>9 DEF Numbers, Types
    <2>2. \A k \in 1 .. Depth : k > 1 => Node(k - 1)' = Node(k - 1)
        <3> TAKE k \in 1 .. Depth
        <3>1. k > 1 => k - 1 \in 1 .. Depth
            BY <1>1
        <3> QED BY <1>1, <3>1
    <2>3. ASSUME NEW k \in 1 .. Depth', NEW x \in OnStack', Level(Node(k))' <= Level(x)',
                 lowlink'[x] < lowlink'[Node(k)']
          PROVE  k > 1 /\ Node(k - 1)' \in Reachable(x)'
        <3>1. CASE k \in 1 .. Depth
            <4>1. x \in OnStack
                BY <1>3, <1>4, <2>1, <2>3, <3>1
            <4>2. k > 1 /\ Node(k - 1) \in Reachable(x)
                BY <1>3, <1>9, <2>1, <2>3, <3>1, <4>1 DEF LowReaches
            <4> QED BY <1>5, <2>2, <3>1, <4>2
        <3>2. CASE k = Depth + 1
            <4>1. Node(k)' = w
                BY <1>1, <3>2
            <4>2. x = w
                BY <1>3, <1>10, <2>3, <4>1
            <4> QED BY <1>4, <2>3, <4>1, <4>2
        <3> QED BY <1>7, <3>1, <3>2
    <2>4. ASSUME NEW k \in 1 .. Depth', NEW m \in 1 .. Depth', k <= m, Call(m).min' < lowlink'[Node(k)']
          PROVE  k > 1 /\ Node(k - 1)' \in Reachable(Node(m))'
        <3>1. CASE m \in 1 .. Depth
            <4>1. k \in 1 .. Depth
                BY <1>1, <2>4, <3>1
            <4>2. k > 1 /\ Node(k - 1) \in Reachable(Node(m))
                BY <1>1, <2>1, <2>4, <3>1, <4>1 DEF LowReaches
            <4> QED BY <1>1, <1>5, <2>2, <3>1, <4>1, <4>2
        <3>2. CASE m = Depth + 1
            <4>1. Call(m).min' = preCount
                BY <1>1, <3>2
            <4>2. CASE k \in 1 .. Depth
                BY <1>4, <2>1, <2>4, <4>1, <4>2
            <4>3. CASE k = Depth + 1
                <5>1. lowlink'[Node(k)'] = preCount
                    BY <1>1, <1>4, <4>3
                <5> QED BY <1>4, <2>4, <4>1, <5>1
            <4> QED BY <1>7, <4>2, <4>3
        <3> QED BY <1>7, <3>1, <3>2
    <2> QED BY <2>3, <2>4 DEF LowReaches
<1>16. EdgesLow'
    <2>1. \A k \in 1 .. Depth : lowlink'[Node(k)'] = lowlink[Node(k)]
        BY <1>1, <1>9
    <2>2. ASSUME NEW k \in 1 .. Depth', NEW x \in OnStack', NEW y \in OnStack',
                 Level(Node(k))' <= Level(x)', Level(y)' < Level(Node(k))', y \in Edges(x)',
                 \A m \in 1 .. Depth' : x # Node(m)'
          PROVE  lowlink'[x] < lowlink'[Node(k)']
        <3>1. x # w
            <4>1. PICK m : m = Depth + 1
                OBVIOUS
            <4>2. m \in 1 .. Depth' /\ Node(m)' = w
                BY <1>1, <4>1
            <4> QED BY <2>2, <4>2
        <3>2. x \in OnStack /\ \A m \in 1 .. Depth : x # Node(m)
            BY <1>1, <1>3, <2>2, <3>1
        <3>3. k \in 1 .. Depth
            <4>1. k = Depth + 1 => Node(k)' = w
                BY <1>1
            <4> QED BY <1>3, <1>7, <1>10, <2>2, <3>2, <4>1
        <3>4. y \in OnStack
            BY <1>3, <1>6, <1>9, <1>10, <2>2, <3>3
        <3>5. y \in Edges(x) /\ Level(Node(k)) <= Level(x) /\ Level(y) < Level(Node(k))
            BY <1>3, <1>5, <1>9, <2>2, <3>2, <3>3, <3>4
        <3>6. lowlink[x] < lowlink[Node(k)]
            BY <3>2, <3>3, <3>4, <3>5 DEF EdgesLow
        <3> QED BY <1>9, <2>1, <3>2, <3>3, <3>6
    <2>3. ASSUME NEW k \in 1 .. Depth', NEW m \in 1 .. Depth', NEW y \in OnStack',
                 k <= m, Level(y)' < Level(Node(k))', y \in Edges(Node(m))' \ Range(Call(m).edges)'
          PROVE  Call(m).min' < lowlink'[Node(k)']
        <3>1. m # Depth + 1
            <4>1. m = Depth + 1 => Edges(Node(m))' = Range(Call(m).edges)'
                BY <1>1 DEF Edges
            <4> QED BY <2>3, <4>1
        <3>2. m \in 1 .. Depth /\ k \in 1 .. Depth
            BY <1>1, <2>3, <3>1
        <3>3. y \in OnStack
            BY <1>3, <1>6, <1>9, <1>10, <2>3, <3>2
        <3>4. Level(y) < Level(Node(k)) /\ y \in Edges(Node(m)) \ Range(Call(m).edges)
            BY <1>1, <1>3, <1>5, <1>9, <2>3, <3>2, <3>3
        <3>5. Call(m).min < lowlink[Node(k)]
            BY <2>3, <3>2, <3>3, <3>4 DEF EdgesLow
        <3> QED BY <1>1, <2>1, <3>2, <3>5
    <2> QED BY <2>2, <2>3 DEF EdgesLow
<1>17. MinKnows'
    <2> SUFFICES ASSUME NEW k \in 1 .. Depth', NEW x \in Under(k)' \ {Node(k)'}
                 PROVE  Call(k).min' <= lowlink'[x]
        BY DEF MinKnows
    <2>1. k \in 1 .. Depth /\ x \in Under(k) \ {Node(k)} /\ x \in OnStack
        BY <1>1, <1>7 DEF Under
    <2>2. k = Depth => Head(Call(k).edges) \notin visited
        BY <1>1, <1>2, <1>8, <2>1
    <2>3. Call(k).min <= lowlink[x]
        BY <2>1, <2>2 DEF MinKnows
    <2> QED BY <1>1, <1>9, <2>1, <2>3
<1>18. Components'
    BY <1>3, <1>5 DEF Components
<1> QED BY <1>11, <1>12, <1>13, <1>14, <1>15, <1>16, <1>17, <1>18

-----------------------------------------------------------------------------
(* The next edge of the innermost call, to a node visited before.          *)
LEMMA TailRange ==
    ASSUME NEW e \in Seq(Nodes), NEW r \in Seq(Nodes), Len(e) > 0, Len(r) = Len(e) - 1,
           \A i \in 1 .. Len(r) : r[i] = e[i + 1]
    PROVE  Range(r) \subseteq Range(e) /\ Range(e) \ Range(r) \subseteq {e[1]} /\ e[1] \in Range(e)
<1> Len(e) \in Nat /\ Len(r) \in Nat
    OBVIOUS
<1>1. /\ \A x : x \in Range(e) <=> \E i \in 1 .. Len(e) : x = e[i]
      /\ \A x : x \in Range(r) <=> \E i \in 1 .. Len(r) : x = r[i]
    BY RangeFacts
<1>2. \A i \in 1 .. Len(r) : i + 1 \in 1 .. Len(e)
    OBVIOUS
<1>3. \A i \in 1 .. Len(e) : i = 1 \/ (i - 1 \in 1 .. Len(r) /\ e[i] = r[i - 1])
    <2> TAKE i \in 1 .. Len(e)
    <2>1. i = 1 \/ (i - 1 \in 1 .. Len(r) /\ (i - 1) + 1 = i)
        OBVIOUS
    <2> QED BY <2>1
<1>4. \A x \in Range(r) : x \in Range(e)
    BY <1>1, <1>2
<1>5. \A x \in Range(e) : x = e[1] \/ x \in Range(r)
    BY <1>1, <1>3
<1>6. e[1] \in Range(e)
    <2>1. 1 \in 1 .. Len(e)
        OBVIOUS
    <2> QED BY <1>1, <2>1
<1> QED BY <1>4, <1>5, <1>6

LEMMA EdgeFacts ==
    ASSUME DfsInv, NextEdge
    PROVE  \E w \in visited :
           /\ Depth \in Nat /\ Depth \in 1 .. Depth /\ Depth' = Depth /\ calls' \in Seq(Frames)
           /\ \A k \in 1 .. Depth : Node(k)' = Node(k) /\ Under(k)' = Under(k)
           /\ \A k \in 1 .. Depth - 1 : Call(k)' = Call(k)
           /\ w \in Edges(Node(Depth)) /\ Call(Depth).edges # <<>> /\ Head(Call(Depth).edges) = w
           /\ Call(Depth).min' \in Nat /\ Call(Depth).min' <= lowlink[w] /\ Call(Depth).min' <= Call(Depth).min
           /\ Call(Depth).min' \in {lowlink[w], Call(Depth).min}
           /\ Range(Call(Depth).edges)' \subseteq Range(Call(Depth).edges)
           /\ Range(Call(Depth).edges) \ Range(Call(Depth).edges)' \subseteq {w}
<1> USE DEF DfsInv
<1>1. PICK w : /\ calls # <<>> /\ Head(calls).edges # <<>> /\ w = Head(Head(calls).edges) /\ w \in visited
               /\ calls' = <<[v |-> Head(calls).v, edges |-> Tail(Head(calls).edges),
                               min |-> Least(Head(calls).min, lowlink[w])]>> \o Tail(calls)
    BY DEF NextEdge
<1>2. /\ Depth \in Nat /\ Depth \in 1 .. Depth /\ Head(calls) = Call(Depth)
      /\ \A k \in 1 .. Depth : /\ Call(k) \in Frames /\ Call(k).v = Node(k) /\ Node(k) \in Nodes
                               /\ Call(k).edges \in Seq(Nodes) /\ Call(k).min \in Nat
    BY <1>1, Topmost DEF Types
<1>3. PICK c : c = [v |-> Node(Depth), edges |-> Tail(Call(Depth).edges), min |-> Least(Call(Depth).min, lowlink[w])]
    OBVIOUS
<1>4. PICK e : e = Call(Depth).edges
    OBVIOUS
<1>5. /\ e \in Seq(Nodes) /\ e # <<>> /\ w = Head(e) /\ w \in Nodes /\ lowlink[w] \in Nat
    BY <1>1, <1>2, <1>4 DEF Types
<1>6. PICK r : r = Tail(e)
    OBVIOUS
<1>7. /\ r \in Seq(Nodes) /\ Len(r) = Len(e) - 1 /\ Len(e) \in Nat \ {0}
      /\ e[1] = w /\ \A i \in 1 .. Len(r) : r[i] = e[i + 1]
    BY <1>5, <1>6
<1>8. Range(r) \subseteq Range(e) /\ Range(e) \ Range(r) \subseteq {w} /\ w \in Range(e)
    BY <1>5, <1>7, TailRange
<1>9. c \in Frames /\ c.v = Node(Depth) /\ c.edges = r /\ c.min = Least(Call(Depth).min, lowlink[w])
    <2>1. Call(Depth).min \in Nat /\ lowlink[w] \in Nat /\ Node(Depth) \in Nodes
        BY <1>2, <1>5
    <2>2. Least(Call(Depth).min, lowlink[w]) \in Nat
        BY <2>1 DEF Least
    <2> QED BY <1>3, <1>4, <1>6, <1>7, <2>1, <2>2 DEF Frames
<1>10. c = [v |-> Head(calls).v, edges |-> Tail(Head(calls).edges), min |-> Least(Head(calls).min, lowlink[w])]
    BY <1>2, <1>3
<1>11. /\ calls' \in Seq(Frames) /\ Depth' = Depth
       /\ \A k \in 1 .. Depth - 1 : Call(k)' = Call(k) /\ Node(k)' = Node(k)
       /\ \A k : k = Depth => Call(k)' = c /\ Node(k)' = c.v
    BY <1>1, <1>9, <1>10, Replaced DEF Types
<1>12. Call(Depth)' = c
    BY <1>11
<1>13. \A k \in 1 .. Depth : Node(k)' = Node(k)
    BY <1>2, <1>9, <1>11
<1>14. /\ Call(Depth).min' \in Nat /\ Call(Depth).min' <= lowlink[w] /\ Call(Depth).min' <= Call(Depth).min
       /\ Call(Depth).min' \in {lowlink[w], Call(Depth).min}
    <2>1. Call(Depth).min \in Nat /\ lowlink[w] \in Nat
        BY <1>2, <1>5
    <2> QED BY <1>9, <1>12, <2>1 DEF Least
<1>15. w \in Edges(Node(Depth))
    BY <1>2, <1>4, <1>8 DEF Walk
<1>16. nodeStack' = nodeStack
    BY DEF NextEdge
<1>17. \A k \in 1 .. Depth : Under(k)' = Under(k)
    <2> TAKE k \in 1 .. Depth
    <2>1. k < Depth => k + 1 \in 1 .. Depth
        BY <1>2
    <2>2. k < Depth => Node(k + 1)' = Node(k + 1)
        BY <1>13, <2>1
    <2>3. /\ \A x : x \in Under(k) <=> /\ x \in OnStack /\ Level(Node(k)) <= Level(x)
                                       /\ k < Depth => Level(x) < Level(Node(k + 1))
          /\ \A x : x \in Under(k)' <=> /\ x \in OnStack' /\ Level(Node(k))' <= Level(x)'
                                        /\ k < Depth' => Level(x)' < Level(Node(k + 1))'
        BY DEF Under
    <2>4. \A x : x \in Under(k)' <=> x \in Under(k)
        BY <1>11, <1>13, <1>16, <2>2, <2>3 DEF OnStack, Level
    <2> QED BY <2>4
<1> QED BY <1>1, <1>2, <1>4, <1>5, <1>8, <1>9, <1>11, <1>12, <1>13, <1>14, <1>15, <1>17

LEMMA EdgeKeeps ==
    ASSUME DfsInv, NextEdge
    PROVE  DfsInv'
<1> /\ DfsInv /\ UNCHANGED <<digraph, lowlink, preCount, visited, nodeStack, scc_list, root, mgc, thread_in_cycle, index1>>
    BY DEF NextEdge, cycleVars
<1> USE DEF DfsInv
<1>1. PICK w \in visited :
          /\ Depth \in Nat /\ Depth \in 1 .. Depth /\ Depth' = Depth /\ calls' \in Seq(Frames)
          /\ \A k \in 1 .. Depth : Node(k)' = Node(k) /\ Under(k)' = Under(k)
          /\ \A k \in 1 .. Depth - 1 : Call(k)' = Call(k)
          /\ w \in Edges(Node(Depth)) /\ Call(Depth).edges # <<>> /\ Head(Call(Depth).edges) = w
          /\ Call(Depth).min' \in Nat /\ Call(Depth).min' <= lowlink[w] /\ Call(Depth).min' <= Call(Depth).min
          /\ Call(Depth).min' \in {lowlink[w], Call(Depth).min}
          /\ Range(Call(Depth).edges)' \subseteq Range(Call(Depth).edges)
          /\ Range(Call(Depth).edges) \ Range(Call(Depth).edges)' \subseteq {w}
    BY EdgeFacts
<1>2. /\ OnStack' = OnStack /\ Done' = Done
      /\ \A x : Level(x)' = Level(x)
      /\ \A v : Reachable(v)' = Reachable(v) /\ Component(v)' = Component(v) /\ Edges(v)' = Edges(v)
    BY ReachableSame DEF OnStack, Done, Level
<1>3. /\ \A x \in OnStack : x \in Nodes /\ x \in visited /\ Level(x) \in Nat /\ lowlink[x] \in Nat
      /\ \A x \in visited : x \in Nodes /\ lowlink[x] \in Nat
    BY StackLevels DEF Types
<1>4. \A k \in 1 .. Depth : /\ Node(k) \in OnStack /\ Call(k).min \in Nat
                            /\ (k \in 1 .. Depth - 1 \/ k = Depth)
    <2>1. \A k \in 1 .. Depth : Node(k) \in OnStack
        BY DEF Walk
    <2>2. \A k \in 1 .. Depth : Call(k).min \in Nat
        BY Topmost DEF Types
    <2> QED BY <1>1, <2>1, <2>2
<1>5. \A k \in 1 .. Depth : Range(Call(k).edges)' \subseteq Range(Call(k).edges)
    BY <1>1, <1>4
<1>6. Types'
    BY <1>1 DEF Types, OnStack
<1>7. Walk'
    <2>1. \A k \in 1 .. Depth : Node(k) \in OnStack /\ Range(Call(k).edges)' \subseteq Edges(Node(k))
        BY <1>5 DEF Walk
    <2>2. \A k \in 1 .. Depth - 1 : Call(k).edges' # <<>> /\ Head(Call(k).edges)' = Node(k + 1)'
        <3> TAKE k \in 1 .. Depth - 1
        <3>1. k \in 1 .. Depth /\ k + 1 \in 1 .. Depth
            BY <1>1
        <3> QED BY <1>1, <3>1 DEF Walk
    <2>3. ASSUME NEW x \in visited, NEW y \in Edges(x)
          PROVE  y \in visited \/ \E k \in 1 .. Depth : x = Node(k) /\ y \in Range(Call(k).edges)'
        <3>1. CASE \E k \in 1 .. Depth : x = Node(k) /\ y \in Range(Call(k).edges)
            <4>1. PICK k \in 1 .. Depth : x = Node(k) /\ y \in Range(Call(k).edges)
                BY <3>1
            <4>2. y = w \/ y \in Range(Call(k).edges)'
                BY <1>1, <1>4, <4>1
            <4> QED BY <4>1, <4>2
        <3> QED BY <3>1 DEF Walk
    <2> QED BY <1>1, <1>2, <2>1, <2>2, <2>3 DEF Walk
<1>8. Numbers'
    BY <1>1, <1>2 DEF Numbers
<1>9. Reaches'
    BY <1>1, <1>2 DEF Reaches
<1>10. LowReaches'
    <2>1. \A k \in 1 .. Depth : k > 1 => Node(k - 1)' = Node(k - 1) /\ k - 1 \in 1 .. Depth
        <3> TAKE k \in 1 .. Depth
        <3>1. k > 1 => k - 1 \in 1 .. Depth
            BY <1>1
        <3> QED BY <1>1, <3>1
    <2>2. ASSUME NEW k \in 1 .. Depth, NEW x \in OnStack, Level(Node(k)) <= Level(x), lowlink[x] < lowlink[Node(k)]
          PROVE  k > 1 /\ Node(k - 1)' \in Reachable(x)
        BY <2>1, <2>2 DEF LowReaches
    <2>3. ASSUME NEW k \in 1 .. Depth, NEW m \in 1 .. Depth, k <= m, Call(m).min' < lowlink[Node(k)]
          PROVE  k > 1 /\ Node(k - 1)' \in Reachable(Node(m))
        <3>1. CASE Call(m).min < lowlink[Node(k)]
            BY <2>1, <2>3, <3>1 DEF LowReaches
        <3>2. CASE ~(Call(m).min < lowlink[Node(k)])
            <4>1. m = Depth /\ lowlink[w] < lowlink[Node(k)]
                BY <1>1, <1>4, <2>3, <3>2
            <4>2. w \in OnStack
                <5>1. lowlink[Node(k)] < preCount /\ lowlink[Node(k)] \in Nat /\ preCount \in Nat /\ preCount <= num_nodes
                    BY <1>3, <1>4, CountFacts DEF Numbers, Types
                <5>2. w \notin OnStack => lowlink[w] = num_nodes
                    BY DEF Numbers, Done
                <5> QED BY <4>1, <5>1, <5>2, NodeCount
            <4>3. k > 1 /\ Node(k - 1) \in Reachable(w)
                <5>1. CASE Level(Node(k)) <= Level(w)
                    BY <4>1, <4>2, <5>1 DEF LowReaches
                <5>2. CASE Level(w) < Level(Node(k))
                    <6>1. k # 1
                        <7>1. Level(Node(1)) <= Level(w) /\ 1 \in 1 .. Depth
                            BY <1>1, <4>2 DEF Walk
                        <7> QED BY <1>3, <1>4, <4>2, <5>2, <7>1
                    <6>2. k > 1 /\ k - 1 \in 1 .. Depth /\ (k - 1) + 1 = k /\ k - 1 < Depth
                        BY <1>1, <6>1
                    <6>3. CASE Level(w) <= Level(Node(k - 1))
                        BY <1>4, <4>2, <6>2, <6>3 DEF Reaches
                    <6>4. CASE Level(Node(k - 1)) <= Level(w)
                        <7>1. w \in Under(k - 1)
                            BY <4>2, <5>2, <6>2, <6>4 DEF Under
                        <7> QED BY <6>2, <7>1 DEF Reaches
                    <6> QED BY <1>3, <1>4, <4>2, <6>2, <6>3, <6>4
                <5> QED BY <1>3, <1>4, <4>2, <5>1, <5>2
            <4>4. w \in Reachable(Node(m)) /\ w \in Nodes /\ Node(m) \in Nodes /\ Node(k - 1) \in Nodes
                BY <1>1, <1>3, <1>4, <2>1, <4>1, <4>3, ReachableFacts DEF Types
            <4> QED BY <2>1, <4>3, <4>4, ReachableFacts DEF Types
        <3> QED BY <3>1, <3>2
    <2> QED BY <1>1, <1>2, <2>2, <2>3 DEF LowReaches
<1>11. EdgesLow'
    <2>1. ASSUME NEW k \in 1 .. Depth, NEW m \in 1 .. Depth, NEW y \in OnStack,
                 k <= m, Level(y) < Level(Node(k)), y \in Edges(Node(m)) \ Range(Call(m).edges)'
          PROVE  Call(m).min' < lowlink[Node(k)]
        <3>1. Call(m).min' \in Nat /\ Call(m).min' <= Call(m).min /\ Call(m).min \in Nat
            BY <1>1, <1>4
        <3>2. CASE y \notin Range(Call(m).edges)
            <4>1. Call(m).min < lowlink[Node(k)]
                BY <2>1, <3>2 DEF EdgesLow
            <4> QED BY <1>3, <1>4, <3>1, <4>1
        <3>3. CASE y \in Range(Call(m).edges)
            <4>1. m = Depth /\ y = w
                BY <1>1, <1>4, <2>1, <3>3
            <4>2. Call(m).min' <= lowlink[y] /\ lowlink[y] < lowlink[Node(k)]
                BY <1>1, <2>1, <4>1 DEF Numbers
            <4> QED BY <1>3, <1>4, <3>1, <4>2
        <3> QED BY <3>2, <3>3
    <2>2. ASSUME NEW k \in 1 .. Depth, NEW x \in OnStack, NEW y \in OnStack,
                 Level(Node(k)) <= Level(x), Level(y) < Level(Node(k)), y \in Edges(x),
                 \A m \in 1 .. Depth : x # Node(m)
          PROVE  lowlink[x] < lowlink[Node(k)]
        BY <2>2 DEF EdgesLow
    <2> QED BY <1>1, <1>2, <2>1, <2>2 DEF EdgesLow
<1>12. MinKnows'
    <2> SUFFICES ASSUME NEW k \in 1 .. Depth, NEW x \in Under(k) \ {Node(k)}
                 PROVE  Call(k).min' <= lowlink[x]
        BY <1>1 DEF MinKnows
    <2>1. x \in OnStack /\ lowlink[x] \in Nat
        BY <1>3 DEF Under
    <2>2. CASE k = Depth
        <3>1. Call(k).min <= lowlink[x] \/ lowlink[w] <= lowlink[x]
            BY <1>1, <2>2 DEF MinKnows
        <3> QED BY <1>1, <1>3, <1>4, <2>1, <2>2, <3>1
    <2>3. CASE k # Depth
        BY <1>1, <1>4, <2>3 DEF MinKnows
    <2> QED BY <2>2, <2>3
<1>13. Components'
    BY <1>2 DEF Components
<1> QED BY <1>6, <1>7, <1>8, <1>9, <1>10, <1>11, <1>12, <1>13

-----------------------------------------------------------------------------
(* A call returns: what is true of it either way.                          *)
LEMMA ReturnFacts ==
    ASSUME DfsInv, calls # <<>>, Head(calls).edges = <<>>, calls' = Tail(calls)
    PROVE  /\ Depth \in Nat /\ Depth \in 1 .. Depth /\ Depth' = Depth - 1 /\ calls' \in Seq(Frames)
           /\ Head(calls) = Call(Depth) /\ Head(calls).v = Node(Depth)
           /\ Call(Depth).edges = <<>> /\ Range(Call(Depth).edges) = {}
           /\ \A k \in 1 .. Depth - 1 : Call(k)' = Call(k) /\ Node(k)' = Node(k) /\ k \in 1 .. Depth
           /\ \A k \in 1 .. Depth : /\ Node(k) \in OnStack /\ Call(k).min \in Nat
                                    /\ (k \in 1 .. Depth - 1 \/ k = Depth)
           /\ \A k \in 1 .. Depth - 1 : Level(Node(k)) < Level(Node(Depth)) /\ Node(k) # Node(Depth)
<1> USE DEF DfsInv
<1>1. /\ Depth \in Nat /\ Depth \in 1 .. Depth /\ Head(calls) = Call(Depth)
      /\ \A k \in 1 .. Depth : Call(k).v = Node(k) /\ Call(k).min \in Nat
    BY Topmost DEF Types
<1>2. /\ calls' \in Seq(Frames) /\ Depth' = Depth - 1
      /\ \A k \in 1 .. Depth - 1 : Call(k)' = Call(k) /\ Node(k)' = Node(k)
    BY Returned DEF Types
<1>3. \A k \in 1 .. Depth : Node(k) \in OnStack
    BY DEF Walk
<1>4. Range(Call(Depth).edges) = {}
    BY <1>1 DEF Range
<1>5. \A k \in 1 .. Depth - 1 : Level(Node(k)) < Level(Node(Depth)) /\ Node(k) # Node(Depth)
    <2> TAKE k \in 1 .. Depth - 1
    <2>1. k \in 1 .. Depth /\ k < Depth
        BY <1>1
    <2>2. Level(Node(k)) < Level(Node(Depth))
        BY <1>1, <2>1 DEF Walk
    <2>3. Level(Node(k)) \in Nat
        BY <1>3, <2>1, StackLevels
    <2> QED BY <2>2, <2>3
<1>6. \A k \in 1 .. Depth : k \in 1 .. Depth - 1 \/ k = Depth
    BY <1>1
<1>7. \A k \in 1 .. Depth - 1 : k \in 1 .. Depth
    BY <1>1
<1> QED BY <1>1, <1>2, <1>3, <1>4, <1>5, <1>6, <1>7

(* With a lower number: the node stays on the stack. *)
LEMMA LowFacts ==
    ASSUME DfsInv, ReturnLow
    PROVE  /\ Depth - 1 \in 1 .. Depth - 1 /\ Node(Depth - 1) \in Reachable(Node(Depth))
           /\ lowlink' \in [Nodes -> Nat] /\ lowlink'[Node(Depth)] = Call(Depth).min
           /\ \A x \in Nodes : x # Node(Depth) => lowlink'[x] = lowlink[x]
           /\ \A x \in Nodes : lowlink'[x] <= lowlink[x]
           /\ \A k \in 1 .. Depth - 1 : \A x \in Under(k)' :
                  \/ x \in Under(k) /\ x # Node(Depth)
                  \/ k = Depth - 1 /\ x \in Under(Depth)
<1> USE DEF DfsInv
<1>1. /\ calls # <<>> /\ Head(calls).edges = <<>> /\ calls' = Tail(calls)
      /\ Head(calls).min < lowlink[Head(calls).v] /\ nodeStack' = nodeStack
      /\ lowlink' = [lowlink EXCEPT ![Head(calls).v] = Head(calls).min]
    BY DEF ReturnLow
<1>2. /\ Depth \in Nat /\ Depth \in 1 .. Depth /\ Depth' = Depth - 1
      /\ Head(calls) = Call(Depth) /\ Head(calls).v = Node(Depth)
      /\ \A k \in 1 .. Depth - 1 : Call(k)' = Call(k) /\ Node(k)' = Node(k) /\ k \in 1 .. Depth
      /\ \A k \in 1 .. Depth : Node(k) \in OnStack /\ Call(k).min \in Nat
      /\ \A k \in 1 .. Depth - 1 : Level(Node(k)) < Level(Node(Depth)) /\ Node(k) # Node(Depth)
    BY <1>1, ReturnFacts
<1>3. Depth > 1 /\ Node(Depth - 1) \in Reachable(Node(Depth))
    BY <1>1, <1>2 DEF LowReaches
<1>4. Node(Depth) \in Nodes /\ \A x \in Nodes : lowlink[x] \in Nat
    BY <1>2, StackLevels DEF Types
<1>5. /\ lowlink' \in [Nodes -> Nat] /\ lowlink'[Node(Depth)] = Call(Depth).min
      /\ \A x \in Nodes : x # Node(Depth) => lowlink'[x] = lowlink[x]
    BY <1>1, <1>2, <1>4 DEF Types
<1>6. \A x \in Nodes : lowlink'[x] <= lowlink[x]
    BY <1>1, <1>2, <1>4, <1>5
<1>7. /\ OnStack' = OnStack /\ \A x : Level(x)' = Level(x)
    BY <1>1 DEF OnStack, Level
<1>8. ASSUME NEW k \in 1 .. Depth - 1, NEW x \in Under(k)'
      PROVE  \/ x \in Under(k) /\ x # Node(Depth)
             \/ k = Depth - 1 /\ x \in Under(Depth)
    <2>1. /\ x \in OnStack /\ Level(Node(k)) <= Level(x)
          /\ k < Depth - 1 => Level(x) < Level(Node(k + 1))'
        BY <1>2, <1>7, <1>8 DEF Under
    <2>2. Level(x) \in Nat /\ Level(Node(Depth)) \in Nat
        BY <1>2, <2>1, StackLevels
    <2>3. CASE k < Depth - 1
        <3>1. k + 1 \in 1 .. Depth - 1 /\ k < Depth
            BY <1>2, <2>3
        <3>2. Level(x) < Level(Node(k + 1)) /\ Level(Node(k + 1)) < Level(Node(Depth)) /\ Level(Node(k + 1)) \in Nat
            BY <1>2, <1>7, <2>1, <2>3, <3>1, StackLevels
        <3>3. x # Node(Depth)
            BY <2>2, <3>2
        <3> QED BY <2>1, <3>1, <3>2, <3>3 DEF Under
    <2>4. CASE k = Depth - 1
        <3>1. k + 1 = Depth /\ k < Depth
            BY <1>2, <2>4
        <3>2. CASE Level(x) < Level(Node(Depth))
            <4>1. x # Node(Depth)
                BY <2>2, <3>2
            <4> QED BY <2>1, <3>1, <3>2, <4>1 DEF Under
        <3>3. CASE Level(Node(Depth)) <= Level(x)
            BY <1>2, <2>1, <2>4, <3>3 DEF Under
        <3> QED BY <2>2, <3>2, <3>3
    <2> QED BY <1>2, <2>3, <2>4
<1> QED BY <1>2, <1>3, <1>5, <1>6, <1>8

LEMMA LowKeeps ==
    ASSUME DfsInv, ReturnLow
    PROVE  DfsInv'
<1> /\ DfsInv /\ UNCHANGED <<digraph, preCount, visited, nodeStack, scc_list, root, mgc, thread_in_cycle, index1>>
    BY DEF ReturnLow, cycleVars
<1> USE DEF DfsInv
<1> DEFINE v == Node(Depth)
           min == Call(Depth).min
<1>1. /\ Depth \in Nat /\ Depth \in 1 .. Depth /\ Depth' = Depth - 1 /\ calls' \in Seq(Frames)
      /\ Range(Call(Depth).edges) = {} /\ Call(Depth).edges = <<>>
      /\ \A k \in 1 .. Depth - 1 : Call(k)' = Call(k) /\ Node(k)' = Node(k) /\ k \in 1 .. Depth
      /\ \A k \in 1 .. Depth : /\ Node(k) \in OnStack /\ Call(k).min \in Nat
                               /\ (k \in 1 .. Depth - 1 \/ k = Depth)
      /\ \A k \in 1 .. Depth - 1 : Level(Node(k)) < Level(v) /\ Node(k) # v
    BY ReturnFacts DEF ReturnLow
<1>2. /\ Depth - 1 \in 1 .. Depth - 1 /\ Node(Depth - 1) \in Reachable(v)
      /\ lowlink' \in [Nodes -> Nat] /\ lowlink'[v] = min
      /\ \A x \in Nodes : x # v => lowlink'[x] = lowlink[x]
      /\ \A x \in Nodes : lowlink'[x] <= lowlink[x]
    BY LowFacts
<1>3. \A k \in 1 .. Depth - 1 : \A x \in Under(k)' :
          \/ x \in Under(k) /\ x # v
          \/ k = Depth - 1 /\ x \in Under(Depth)
    BY LowFacts
<1>4. /\ OnStack' = OnStack /\ Done' = Done
      /\ \A x : Level(x)' = Level(x)
      /\ \A x : Reachable(x)' = Reachable(x) /\ Component(x)' = Component(x) /\ Edges(x)' = Edges(x)
    BY ReachableSame DEF OnStack, Done, Level
<1>5. /\ \A x \in OnStack : x \in Nodes /\ x \in visited /\ Level(x) \in Nat
      /\ \A x \in Nodes : lowlink[x] \in Nat /\ lowlink'[x] \in Nat
      /\ \A x \in Done : x \in Nodes /\ x # v
    BY <1>1, <1>2, StackLevels DEF Types, Done
<1>6. \A k \in 1 .. Depth - 1 : lowlink'[Node(k)] = lowlink[Node(k)] /\ Node(k) \in OnStack /\ Node(k) \in Nodes
    BY <1>1, <1>2, <1>5
<1> HIDE DEF v, min
<1>7. Types'
    BY <1>1, <1>2 DEF Types, OnStack
<1>8. Walk'
    <2>1. \A k \in 1 .. Depth - 1 : Node(k) \in OnStack /\ Range(Call(k).edges) \subseteq Edges(Node(k))
        BY <1>1 DEF Walk
    <2>2. \A k, m \in 1 .. Depth - 1 : k < m => Level(Node(k)) < Level(Node(m))
        BY <1>1 DEF Walk
    <2>3. \A x \in OnStack : Depth - 1 > 0 /\ 1 \in 1 .. Depth - 1 /\ Level(Node(1)) <= Level(x)
        BY <1>1, <1>2 DEF Walk
    <2>4. \A k \in 1 .. (Depth - 1) - 1 : /\ k \in 1 .. Depth - 1 /\ k + 1 \in 1 .. Depth - 1
                                          /\ Call(k).edges # <<>> /\ Head(Call(k).edges) = Node(k + 1)
        <3> TAKE k \in 1 .. (Depth - 1) - 1
        <3>1. k \in 1 .. Depth - 1 /\ k + 1 \in 1 .. Depth - 1
            BY <1>1
        <3> QED BY <3>1 DEF Walk
    <2>5. ASSUME NEW x \in visited, NEW y \in Edges(x), y \notin visited
          PROVE  \E k \in 1 .. Depth - 1 : x = Node(k) /\ y \in Range(Call(k).edges)
        <3>1. PICK k \in 1 .. Depth : x = Node(k) /\ y \in Range(Call(k).edges)
            BY <2>5 DEF Walk
        <3>2. k # Depth
            BY <1>1, <3>1
        <3> QED BY <1>1, <3>1, <3>2
    <2>6. (\A x \in Done : Edges(x) \subseteq Done) /\ \A x \in Nodes : x < root => x \in visited
        BY DEF Walk
    <2>7. \A k \in 1 .. Depth - 1 : Range(Call(k).edges)' = Range(Call(k).edges)
        BY <1>1
    <2>8. \A k \in 1 .. (Depth - 1) - 1 : Call(k).edges' # <<>> /\ Head(Call(k).edges)' = Node(k + 1)'
        BY <1>1, <2>4
    <2>9. \A x \in OnStack : Depth' > 0 /\ Level(Node(1))' <= Level(x)
        BY <1>1, <1>4, <2>3
    <2>10. \A x \in visited : \A y \in Edges(x) :
               y \in visited \/ \E k \in 1 .. Depth' : x = Node(k)' /\ y \in Range(Call(k).edges)'
        BY <1>1, <2>5, <2>7
    <2> QED BY <1>1, <1>4, <2>1, <2>2, <2>6, <2>7, <2>8, <2>9, <2>10 DEF Walk
<1>9. Numbers'
    <2>1. \A x \in OnStack : lowlink'[x] < preCount
        <3>1. preCount \in Nat
            BY CountFacts DEF Types
        <3>2. \A x \in OnStack : lowlink[x] < preCount
            BY DEF Numbers
        <3> QED BY <1>2, <1>5, <3>1, <3>2
    <2>2. \A x \in Done : lowlink'[x] = num_nodes
        BY <1>2, <1>5 DEF Numbers
    <2>3. ASSUME NEW k \in 1 .. Depth - 1, NEW y \in OnStack, Level(y) < Level(Node(k))
          PROVE  lowlink'[y] < lowlink[Node(k)]
        <3>1. lowlink[y] < lowlink[Node(k)]
            BY <1>1, <2>3 DEF Numbers
        <3> QED BY <1>2, <1>5, <1>6, <3>1
    <2> QED BY <1>1, <1>4, <1>6, <2>1, <2>2, <2>3 DEF Numbers
<1>10. Reaches'
    <2>1. ASSUME NEW k \in 1 .. Depth - 1, NEW x \in Under(k)'
          PROVE  Node(k) \in Reachable(x)
        <3>1. CASE x \in Under(k)
            BY <1>1, <3>1 DEF Reaches
        <3>2. CASE k = Depth - 1 /\ x \in Under(Depth)
            <4>1. v \in Reachable(x)
                BY <1>1, <3>2 DEF Reaches, v
            <4>2. x \in Nodes /\ v \in Nodes /\ Node(k) \in Nodes
                BY <1>1, <1>5, <1>6, <3>2 DEF Under, v
            <4> QED BY <1>2, <3>2, <4>1, <4>2, ReachableFacts DEF Types
        <3> QED BY <1>3, <3>1, <3>2
    <2> QED BY <1>1, <1>4, <2>1 DEF Reaches
<1>11. LowReaches'
    <2>1. \A k \in 1 .. Depth - 1 : k > 1 => Node(k - 1)' = Node(k - 1)
        <3> TAKE k \in 1 .. Depth - 1
        <3>1. k > 1 => k - 1 \in 1 .. Depth - 1
            BY <1>1
        <3> QED BY <1>1, <3>1
    <2>2. ASSUME NEW k \in 1 .. Depth - 1, NEW x \in OnStack, Level(Node(k)) <= Level(x),
                 lowlink'[x] < lowlink[Node(k)]
          PROVE  k > 1 /\ Node(k - 1) \in Reachable(x)
        <3>1. CASE x = v
            <4>1. k <= Depth /\ k \in 1 .. Depth /\ Call(Depth).min < lowlink[Node(k)]
                BY <1>1, <1>2, <2>2, <3>1 DEF min
            <4> QED BY <1>1, <3>1, <4>1 DEF LowReaches, v
        <3>2. CASE x # v
            <4>1. lowlink[x] < lowlink[Node(k)]
                BY <1>2, <1>5, <2>2, <3>2
            <4> QED BY <1>1, <2>2, <4>1 DEF LowReaches
        <3> QED BY <3>1, <3>2
    <2>3. ASSUME NEW k \in 1 .. Depth - 1, NEW m \in 1 .. Depth - 1, k <= m, Call(m).min < lowlink[Node(k)]
          PROVE  k > 1 /\ Node(k - 1) \in Reachable(Node(m))
        BY <1>1, <2>3 DEF LowReaches
    <2> QED BY <1>1, <1>4, <1>6, <2>1, <2>2, <2>3 DEF LowReaches
<1>12. EdgesLow'
    <2>1. ASSUME NEW k \in 1 .. Depth - 1, NEW x \in OnStack, NEW y \in OnStack,
                 Level(Node(k)) <= Level(x), Level(y) < Level(Node(k)), y \in Edges(x),
                 \A m \in 1 .. Depth - 1 : x # Node(m)
          PROVE  lowlink'[x] < lowlink[Node(k)]
        <3>1. CASE x = v
            <4>1. k <= Depth /\ k \in 1 .. Depth /\ y \in Edges(Node(Depth)) \ Range(Call(Depth).edges)
                BY <1>1, <2>1, <3>1 DEF v
            <4>2. Call(Depth).min < lowlink[Node(k)]
                BY <1>1, <2>1, <4>1 DEF EdgesLow
            <4> QED BY <1>2, <3>1, <4>2 DEF min
        <3>2. CASE x # v
            <4>1. \A m \in 1 .. Depth : x # Node(m)
                BY <1>1, <2>1, <3>2 DEF v
            <4>2. lowlink[x] < lowlink[Node(k)]
                BY <1>1, <2>1, <4>1 DEF EdgesLow
            <4> QED BY <1>2, <1>5, <3>2, <4>2
        <3> QED BY <3>1, <3>2
    <2>2. ASSUME NEW k \in 1 .. Depth - 1, NEW m \in 1 .. Depth - 1, NEW y \in OnStack,
                 k <= m, Level(y) < Level(Node(k)), y \in Edges(Node(m)) \ Range(Call(m).edges)
          PROVE  Call(m).min < lowlink[Node(k)]
        BY <1>1, <2>2 DEF EdgesLow
    <2>3. ASSUME NEW k \in 1 .. Depth', NEW x \in OnStack', NEW y \in OnStack',
                 Level(Node(k))' <= Level(x)', Level(y)' < Level(Node(k))', y \in Edges(x)',
                 \A m \in 1 .. Depth' : x # Node(m)'
          PROVE  lowlink'[x] < lowlink'[Node(k)']
        <3>1. k \in 1 .. Depth - 1 /\ \A m \in 1 .. Depth - 1 : x # Node(m)
            BY <1>1, <2>3
        <3> QED BY <1>1, <1>4, <1>6, <2>1, <2>3, <3>1
    <2> QED BY <1>1, <1>4, <1>6, <2>2, <2>3 DEF EdgesLow
<1>13. MinKnows'
    <2> SUFFICES ASSUME NEW k \in 1 .. Depth - 1, NEW x \in Under(k)' \ {Node(k)}
                 PROVE  \/ Call(k).min <= lowlink'[x]
                        \/ /\ k = Depth - 1 /\ Call(k).edges # <<>> /\ Head(Call(k).edges) \in visited
                           /\ lowlink'[Head(Call(k).edges)] <= lowlink'[x]
        BY <1>1 DEF MinKnows
    <2>1. CASE x \in Under(k) /\ x # v
        <3>1. k \in 1 .. Depth /\ k # Depth
            BY <1>1
        <3>2. Call(k).min <= lowlink[x]
            BY <2>1, <3>1 DEF MinKnows
        <3> QED BY <1>2, <1>5, <2>1, <3>2 DEF Under
    <2>2. CASE k = Depth - 1 /\ x \in Under(Depth)
        <3>1. Call(k).edges # <<>> /\ Head(Call(k).edges) = v /\ v \in visited /\ x \in Nodes
            <4>1. k + 1 = Depth /\ k \in 1 .. Depth - 1
                BY <1>1, <2>2
            <4> QED BY <1>1, <1>5, <2>2, <4>1 DEF Walk, Under, v
        <3>2. CASE x = v
            <4>1. lowlink'[v] <= lowlink'[v]
                BY <1>5, <3>1, <3>2
            <4> QED BY <2>2, <3>1, <3>2, <4>1
        <3>3. CASE x # v
            <4>1. min <= lowlink[x]
                BY <1>1, <2>2, <3>3 DEF MinKnows, v, min
            <4> QED BY <1>2, <2>2, <3>1, <3>3, <4>1
        <3> QED BY <3>2, <3>3
    <2> QED BY <1>3, <2>1, <2>2
<1>14. Components'
    BY <1>4 DEF Components
<1> QED BY <1>7, <1>8, <1>9, <1>10, <1>11, <1>12, <1>13, <1>14

-----------------------------------------------------------------------------
(* Without one: the nodes down to it leave the stack.                      *)
LEMMA CompleteFacts ==
    ASSUME DfsInv, ReturnComponent, NEW A, A = {x \in OnStack : Level(Node(Depth)) <= Level(x)},
           NEW a, a = Above(Node(Depth))
    PROVE  /\ a \in Seq(Nodes) /\ IsInjective(a) /\ a # <<>> /\ Range(a) = A
           /\ scc_list' = <<a>> \o scc_list
           /\ nodeStack' \in Seq(Nodes) /\ IsInjective(nodeStack')
           /\ OnStack' = OnStack \ A /\ Done' = Done \cup A /\ A \subseteq OnStack
           /\ \A x \in OnStack' : Level(x)' = Level(x) /\ Level(x) < Level(Node(Depth))
           /\ lowlink' \in [Nodes -> Nat] /\ \A x \in A : lowlink'[x] = num_nodes
           /\ \A x \in Nodes \ A : lowlink'[x] = lowlink[x]
<1> USE DEF DfsInv
<1> DEFINE v == Node(Depth)
<1>1. /\ calls # <<>> /\ Head(calls).edges = <<>> /\ calls' = Tail(calls) /\ visited' = visited
      /\ scc_list' = <<Above(Head(calls).v)>> \o scc_list
      /\ nodeStack' = SubSeq(nodeStack, Len(Above(Head(calls).v)) + 1, Len(nodeStack))
      /\ lowlink' = CompleteLowlink(Head(calls).v)
    BY DEF ReturnComponent
<1>2. Head(calls).v = v /\ v \in OnStack
    <2>1. Depth \in 1 .. Depth /\ Head(calls).v = Node(Depth) /\ \A k \in 1 .. Depth : Node(k) \in OnStack
        BY <1>1, ReturnFacts
    <2> QED BY <2>1
<1> HIDE DEF v
<1>3. nodeStack \in Seq(Nodes) /\ IsInjective(nodeStack) /\ Len(nodeStack) \in Nat /\ v \in Range(nodeStack)
    BY <1>2 DEF Types, OnStack
<1>4. PICK k \in 1 .. Len(nodeStack) : v = nodeStack[k] /\ a = SubSeq(nodeStack, 1, k)
    <2>1. DOMAIN nodeStack = 1 .. Len(nodeStack) /\ \E i \in DOMAIN nodeStack : nodeStack[i] = v
        BY <1>3 DEF Range
    <2> QED BY <2>1 DEF Above, v
<1>5. a \in Seq(Nodes) /\ Len(a) = k /\ \A i \in 1 .. k : a[i] = nodeStack[i]
    <2>1. 1 \in Int /\ k \in Int /\ \A i \in 1 .. k : nodeStack[i] \in Nodes
        BY <1>3
    <2>2. /\ SubSeq(nodeStack, 1, k) \in Seq(Nodes)
          /\ Len(SubSeq(nodeStack, 1, k)) = IF 1 <= k THEN k - 1 + 1 ELSE 0
          /\ \A i \in 1 .. k - 1 + 1 : SubSeq(nodeStack, 1, k)[i] = nodeStack[1 + i - 1]
        BY <2>1, SubSeqProperties
    <2>3. k - 1 + 1 = k /\ 1 <= k /\ \A i \in 1 .. k : 1 + i - 1 = i
        OBVIOUS
    <2> QED BY <1>4, <2>2, <2>3
<1>6. /\ nodeStack' \in Seq(Nodes) /\ Len(nodeStack') = Len(nodeStack) - k
      /\ \A i \in 1 .. Len(nodeStack) - k : nodeStack'[i] = nodeStack[i + k]
    <2> DEFINE n == Len(nodeStack)
    <2>1. nodeStack' = SubSeq(nodeStack, k + 1, n)
        BY <1>1, <1>2, <1>5 DEF v
    <2>2. n \in Nat /\ k + 1 \in Int /\ n \in Int /\ \A i \in k + 1 .. n : nodeStack[i] \in Nodes
        BY <1>3
    <2>3. /\ SubSeq(nodeStack, k + 1, n) \in Seq(Nodes)
          /\ Len(SubSeq(nodeStack, k + 1, n)) = IF k + 1 <= n THEN n - (k + 1) + 1 ELSE 0
          /\ \A i \in 1 .. n - (k + 1) + 1 : SubSeq(nodeStack, k + 1, n)[i] = nodeStack[(k + 1) + i - 1]
        BY <2>2, SubSeqProperties
    <2> HIDE DEF n
    <2>4. /\ n - (k + 1) + 1 = n - k /\ (IF k + 1 <= n THEN n - (k + 1) + 1 ELSE 0) = n - k
          /\ \A i \in 1 .. n - k : (k + 1) + i - 1 = i + k
        BY <1>4, <2>2 DEF n
    <2> QED BY <2>1, <2>3, <2>4 DEF n
<1>7. /\ IsInjective(a) /\ Range(a) = {x \in OnStack : Level(v) <= Level(x)}
      /\ IsInjective(nodeStack') /\ OnStack' = OnStack \ Range(a)
      /\ \A x \in OnStack' : Level(x)' = Level(x)
    <2>1. /\ IsInjective(a) /\ Range(a) = DownTo(nodeStack, v)
          /\ IsInjective(nodeStack') /\ Range(nodeStack') = Range(nodeStack) \ DownTo(nodeStack, v)
          /\ \A x \in Range(nodeStack') : Height(nodeStack', x) = Height(nodeStack, x)
        <3> DEFINE s == nodeStack
                   r == nodeStack'
        <3>1. SplitAt(s, k, a, r)
            BY <1>3, <1>4, <1>5, <1>6 DEF SplitAt
        <3> HIDE DEF s, r
        <3>2. /\ IsInjective(a) /\ Range(a) = DownTo(s, s[k])
              /\ IsInjective(r) /\ Range(r) = Range(s) \ DownTo(s, s[k])
              /\ \A x \in Range(r) : Height(r, x) = Height(s, x)
            BY <3>1, Popped
        <3> QED BY <1>4, <3>2 DEF s, r
    <2> QED BY <2>1 DEF OnStack, Level, DownTo
<1>8. Range(a) = A /\ A \subseteq OnStack
    BY <1>7 DEF v
<1>9. OnStack' = OnStack \ A /\ \A x \in OnStack' : Level(x) < Level(v)
    <2>1. \A x \in OnStack : Level(x) \in Nat
        BY StackLevels
    <2> QED BY <1>2, <1>7, <1>8, <2>1
<1>10. Done' = Done \cup A
    <2>1. OnStack \subseteq visited
        BY DEF Types
    <2> QED BY <1>1, <1>8, <1>9, <2>1 DEF Done
<1>11. lowlink' = [x \in Nodes |-> IF x \in A THEN num_nodes ELSE lowlink[x]]
    BY <1>1, <1>2, <1>8 DEF CompleteLowlink, v
<1>12. /\ lowlink' \in [Nodes -> Nat] /\ \A x \in A : lowlink'[x] = num_nodes
       /\ \A x \in Nodes \ A : lowlink'[x] = lowlink[x]
    <2>1. lowlink \in [Nodes -> Nat] /\ num_nodes \in Nat /\ A \subseteq Nodes
        BY <1>8, StackLevels, NodeCount DEF Types
    <2> QED BY <1>11, <2>1
<1>13. a # <<>>
    BY <1>4, <1>5
<1>14. scc_list' = <<a>> \o scc_list
    BY <1>1, <1>2 DEF v
<1> QED BY <1>5, <1>6, <1>7, <1>8, <1>9, <1>10, <1>12, <1>13, <1>14 DEF v

(* They are a component: no edge leads from them to what stays on the stack. *)
LEMMA CompleteComponent ==
    ASSUME DfsInv, ReturnComponent, NEW A, A = {x \in OnStack : Level(Node(Depth)) <= Level(x)}
    PROVE  /\ \A x \in A : Edges(x) \subseteq Done \cup A
           /\ \A x \in A : Component(x) = A
<1> USE DEF DfsInv
<1> DEFINE v == Node(Depth)
<1>1. /\ Depth \in Nat /\ Depth \in 1 .. Depth /\ Call(Depth).edges = <<>> /\ Range(Call(Depth).edges) = {}
      /\ \A k \in 1 .. Depth : Node(k) \in OnStack /\ Call(k).min \in Nat /\ (k \in 1 .. Depth - 1 \/ k = Depth)
      /\ \A k \in 1 .. Depth - 1 : Level(Node(k)) < Level(v)
    BY ReturnFacts DEF ReturnComponent
<1>2. lowlink[v] <= Call(Depth).min
    <2>1. Head(calls) = Call(Depth) /\ Head(calls).v = v /\ Head(calls).min >= lowlink[Head(calls).v]
        BY ReturnFacts DEF ReturnComponent
    <2>2. lowlink[v] \in Nat
        BY <1>1, StackLevels DEF Types
    <2> QED BY <1>1, <2>1, <2>2
<1>3. \A x \in OnStack : x \in Nodes /\ x \in visited /\ Level(x) \in Nat /\ lowlink[x] \in Nat
    BY StackLevels DEF Types
<1>4. v \in OnStack /\ v \in A /\ \A x : x \in A <=> x \in Under(Depth)
    BY <1>1, <1>3 DEF Under
<1>5. \A x \in A : x \in OnStack /\ Level(v) <= Level(x) /\ \A k \in 1 .. Depth : x = Node(k) => k = Depth
    BY <1>1, <1>3
<1>6. ASSUME NEW x \in A, NEW y \in Edges(x)
      PROVE  y \in Done \cup A
    <2>1. y \in visited
        BY <1>1, <1>3, <1>5, <1>6 DEF Walk
    <2>2. ASSUME y \in OnStack, Level(y) < Level(v)
          PROVE  FALSE
        <3>1. CASE x = v
            <4>1. y \in Edges(Node(Depth)) \ Range(Call(Depth).edges) /\ Depth <= Depth
                BY <1>1, <1>6, <3>1
            <4>2. Call(Depth).min < lowlink[v]
                BY <1>1, <2>2, <4>1 DEF EdgesLow
            <4> QED BY <1>1, <1>2, <1>3, <1>4, <4>2
        <3>2. CASE x # v
            <4>1. \A m \in 1 .. Depth : x # Node(m)
                BY <1>5, <3>2
            <4>2. lowlink[x] < lowlink[v]
                BY <1>1, <1>5, <1>6, <2>2, <4>1 DEF EdgesLow
            <4>3. Call(Depth).min <= lowlink[x]
                BY <1>1, <1>4, <3>2 DEF MinKnows
            <4> QED BY <1>1, <1>2, <1>3, <1>4, <1>5, <4>2, <4>3
        <3> QED BY <3>1, <3>2
    <2>3. y \in OnStack => y \in A
        BY <1>3, <1>4, <2>2
    <2> QED BY <2>1, <2>3 DEF Done
<1>7. ASSUME NEW x \in A, NEW y \in A
      PROVE  y \in Reachable(x)
    <2>1. v \in Reachable(x)
        BY <1>1, <1>4 DEF Reaches
    <2>2. y \in Reachable(v)
        BY <1>4, <1>5 DEF Reaches
    <2>3. x \in Nodes /\ y \in Nodes /\ v \in Nodes
        BY <1>3, <1>4, <1>5
    <2> QED BY <2>1, <2>2, <2>3, ReachableFacts DEF Types
<1>8. ASSUME NEW x \in A, NEW y \in Component(x)
      PROVE  y \in A
    <2>1. y \in Reachable(x) /\ x \in Reachable(y) /\ y \in Nodes
        BY DEF Component, Reachable
    <2>2. (Done \cup A) \in SUBSET Nodes /\ Done \in SUBSET Nodes
        BY <1>3, <1>5 DEF Types, Done
    <2>3. (\A z \in Done \cup A : Edges(z) \subseteq Done \cup A) /\ \A z \in Done : Edges(z) \subseteq Done
        BY <1>6 DEF Walk
    <2>4. y \in Done \cup A
        BY <2>1, <2>2, <2>3, ReachableInClosed
    <2>5. y \in Done => x \in Done
        BY <2>1, <2>2, <2>3, ReachableInClosed
    <2>6. x \notin Done
        BY <1>5 DEF Done
    <2> QED BY <2>4, <2>5, <2>6
<1>9. \A x \in A : Component(x) = A
    BY <1>7, <1>8 DEF Component
<1> QED BY <1>6, <1>9

LEMMA CompleteKeeps ==
    ASSUME DfsInv, ReturnComponent
    PROVE  DfsInv'
<1> /\ DfsInv /\ UNCHANGED <<digraph, preCount, visited, root, mgc, thread_in_cycle, index1>>
    BY DEF ReturnComponent, cycleVars
<1> USE DEF DfsInv
<1> DEFINE v == Node(Depth)
           A == {x \in OnStack : Level(Node(Depth)) <= Level(x)}
           a == Above(Node(Depth))
<1>1. /\ Depth \in Nat /\ Depth \in 1 .. Depth /\ Depth' = Depth - 1 /\ calls' \in Seq(Frames)
      /\ Range(Call(Depth).edges) = {} /\ Call(Depth).edges = <<>>
      /\ \A k \in 1 .. Depth - 1 : Call(k)' = Call(k) /\ Node(k)' = Node(k) /\ k \in 1 .. Depth
      /\ \A k \in 1 .. Depth : /\ Node(k) \in OnStack /\ Call(k).min \in Nat
                               /\ (k \in 1 .. Depth - 1 \/ k = Depth)
      /\ \A k \in 1 .. Depth - 1 : Level(Node(k)) < Level(v) /\ Node(k) # v
    BY ReturnFacts DEF ReturnComponent
<1>2. /\ a \in Seq(Nodes) /\ IsInjective(a) /\ a # <<>> /\ Range(a) = A
      /\ scc_list' = <<a>> \o scc_list
    BY CompleteFacts
<1>3. /\ nodeStack' \in Seq(Nodes) /\ IsInjective(nodeStack')
      /\ OnStack' = OnStack \ A /\ Done' = Done \cup A /\ A \subseteq OnStack
      /\ \A x \in OnStack' : Level(x)' = Level(x) /\ Level(x) < Level(v)
      /\ lowlink' \in [Nodes -> Nat] /\ \A x \in A : lowlink'[x] = num_nodes
      /\ \A x \in Nodes \ A : lowlink'[x] = lowlink[x]
    BY CompleteFacts
<1>4. /\ \A x \in A : Edges(x) \subseteq Done \cup A
      /\ \A x \in A : Component(x) = A
    BY CompleteComponent
<1>5. \A x : Reachable(x)' = Reachable(x) /\ Component(x)' = Component(x) /\ Edges(x)' = Edges(x)
    BY ReachableSame
<1>6. /\ \A x \in OnStack : x \in Nodes /\ x \in visited /\ Level(x) \in Nat
      /\ \A x \in OnStack' : x \in OnStack /\ x \in Nodes /\ lowlink'[x] = lowlink[x] /\ x # v
      /\ \A x \in Done : x \in Nodes /\ lowlink'[x] = lowlink[x]
    <2>1. \A x \in OnStack : x \in Nodes /\ x \in visited /\ Level(x) \in Nat
        BY StackLevels
    <2>2. v \in A
        BY <1>1, <2>1
    <2>3. \A x \in Done : x \in Nodes /\ x \notin A
        BY <1>3 DEF Types, Done
    <2>4. \A x \in OnStack' : x \in OnStack /\ x \notin A
        BY <1>3
    <2>5. \A x \in Nodes : x \notin A => lowlink'[x] = lowlink[x]
        BY <1>3
    <2> HIDE DEF A, v
    <2> QED BY <2>1, <2>2, <2>3, <2>4, <2>5
<1>7. \A k \in 1 .. Depth - 1 : /\ Node(k) \in OnStack' /\ Level(Node(k))' = Level(Node(k))
                                /\ lowlink'[Node(k)] = lowlink[Node(k)]
    <2> TAKE k \in 1 .. Depth - 1
    <2>1. Node(k) \in OnStack /\ Level(Node(k)) < Level(v) /\ v \in OnStack
        BY <1>1
    <2>2. Node(k) \notin A
        BY <1>6, <2>1
    <2>3. Node(k) \in OnStack'
        BY <1>3, <2>1, <2>2
    <2> QED BY <1>1, <1>3, <1>6, <2>3
<1>8. \A k \in 1 .. Depth - 1 : \A x \in Under(k)' : x \in Under(k) /\ x \in OnStack'
    <2> TAKE k \in 1 .. Depth - 1
    <2> TAKE x \in Under(k)'
    <2>1. /\ x \in OnStack' /\ Level(Node(k))' <= Level(x)'
          /\ k < Depth' => Level(x)' < Level(Node(k + 1))'
        BY DEF Under
    <2>2. x \in OnStack /\ Level(x)' = Level(x) /\ Level(Node(k)) <= Level(x) /\ Level(x) < Level(v)
        BY <1>1, <1>3, <1>6, <1>7, <2>1
    <2>3. CASE k = Depth - 1
        <3>1. k + 1 = Depth
            BY <1>1, <2>3
        <3> QED BY <2>1, <2>2, <3>1 DEF Under
    <2>4. CASE k # Depth - 1
        <3>1. k + 1 \in 1 .. Depth - 1 /\ k < Depth'
            BY <1>1, <2>4
        <3>2. Level(x) < Level(Node(k + 1))
            BY <1>1, <1>7, <2>1, <2>2, <3>1
        <3> QED BY <2>1, <2>2, <3>2 DEF Under
    <2> QED BY <2>3, <2>4
<1> HIDE DEF v, A, a
<1>9. Types'
    <2>1. <<a>> \o scc_list \in Seq(Seq(Nodes)) /\ Len(<<a>> \o scc_list) = Len(scc_list) + 1 /\ Len(scc_list) \in Nat
        BY <1>2 DEF Types
    <2>2. index1 \in 0 .. Len(scc_list')
        <3>1. index1 \in 0 .. Len(scc_list)
            BY DEF Types
        <3> QED BY <1>2, <2>1, <3>1
    <2>3. OnStack' \subseteq visited
        BY <1>6
    <2> QED BY <1>1, <1>2, <1>3, <2>1, <2>2, <2>3 DEF Types
<1>10. Walk'
    <2>1. \A k \in 1 .. Depth - 1 : Range(Call(k).edges) \subseteq Edges(Node(k))
        BY <1>1 DEF Walk
    <2>2. \A k, m \in 1 .. Depth - 1 : k < m => Level(Node(k)) < Level(Node(m))
        BY <1>1 DEF Walk
    <2>3. ASSUME NEW x \in OnStack'
          PROVE  Depth - 1 > 0 /\ 1 \in 1 .. Depth - 1 /\ Level(Node(1)) <= Level(x)
        <3>1. Level(Node(1)) <= Level(x) /\ Level(x) < Level(v) /\ Level(x) \in Nat
            BY <1>3, <1>6 DEF Walk
        <3>2. Depth # 1
            <4> SUFFICES ASSUME Depth = 1
                         PROVE  FALSE
                OBVIOUS
            <4>1. Level(v) <= Level(x) /\ Level(v) \in Nat
                BY <1>1, <1>6, <3>1 DEF v
            <4> QED BY <3>1, <4>1
        <3> QED BY <1>1, <3>1, <3>2
    <2>4. \A k \in 1 .. (Depth - 1) - 1 : /\ k \in 1 .. Depth - 1 /\ k + 1 \in 1 .. Depth - 1
                                          /\ Call(k).edges # <<>> /\ Head(Call(k).edges) = Node(k + 1)
        <3> TAKE k \in 1 .. (Depth - 1) - 1
        <3>1. k \in 1 .. Depth - 1 /\ k + 1 \in 1 .. Depth - 1
            BY <1>1
        <3> QED BY <3>1 DEF Walk
    <2>5. ASSUME NEW x \in visited, NEW y \in Edges(x), y \notin visited
          PROVE  \E k \in 1 .. Depth - 1 : x = Node(k) /\ y \in Range(Call(k).edges)
        <3>1. PICK k \in 1 .. Depth : x = Node(k) /\ y \in Range(Call(k).edges)
            BY <2>5 DEF Walk
        <3>2. k # Depth
            BY <1>1, <3>1
        <3> QED BY <1>1, <3>1, <3>2
    <2>6. (\A x \in Done' : Edges(x) \subseteq Done') /\ \A x \in Nodes : x < root => x \in visited
        BY <1>3, <1>4 DEF Walk
    <2>7. \A k \in 1 .. Depth - 1 : Range(Call(k).edges)' = Range(Call(k).edges)
        BY <1>1
    <2>8. \A k \in 1 .. (Depth - 1) - 1 : Call(k).edges' # <<>> /\ Head(Call(k).edges)' = Node(k + 1)'
        BY <1>1, <2>4
    <2>9. \A x \in OnStack' : Depth' > 0 /\ Level(Node(1))' <= Level(x)'
        BY <1>1, <1>3, <1>7, <2>3
    <2>10. \A x \in visited : \A y \in Edges(x) :
               y \in visited \/ \E k \in 1 .. Depth' : x = Node(k)' /\ y \in Range(Call(k).edges)'
        BY <1>1, <2>5, <2>7
    <2> QED BY <1>1, <1>5, <1>7, <2>1, <2>2, <2>6, <2>7, <2>8, <2>9, <2>10 DEF Walk
<1>11. Numbers'
    <2>1. \A x \in OnStack' : lowlink'[x] < preCount
        BY <1>6 DEF Numbers
    <2>2. \A x \in Done' : lowlink'[x] = num_nodes
        BY <1>3, <1>6 DEF Numbers
    <2>3. \A k \in 1 .. Depth - 1 : \A y \in OnStack' :
              Level(y) < Level(Node(k)) => lowlink'[y] < lowlink'[Node(k)]
        BY <1>1, <1>6, <1>7 DEF Numbers
    <2> QED BY <1>1, <1>3, <1>7, <2>1, <2>2, <2>3 DEF Numbers
<1>12. Reaches'
    <2>1. \A x, y \in OnStack' : Level(x) <= Level(y) => y \in Reachable(x)
        BY <1>6 DEF Reaches
    <2>2. \A k \in 1 .. Depth - 1 : \A x \in Under(k)' : Node(k) \in Reachable(x)
        BY <1>1, <1>8 DEF Reaches
    <2> QED BY <1>1, <1>3, <1>5, <2>1, <2>2 DEF Reaches
<1>13. LowReaches'
    <2>1. \A k \in 1 .. Depth - 1 : k > 1 => Node(k - 1)' = Node(k - 1)
        <3> TAKE k \in 1 .. Depth - 1
        <3>1. k > 1 => k - 1 \in 1 .. Depth - 1
            BY <1>1
        <3> QED BY <1>1, <3>1
    <2>2. \A k \in 1 .. Depth - 1 : \A x \in OnStack' :
              Level(Node(k)) <= Level(x) /\ lowlink[x] < lowlink[Node(k)] => k > 1 /\ Node(k - 1) \in Reachable(x)
        BY <1>1, <1>6 DEF LowReaches
    <2>3. \A k, m \in 1 .. Depth - 1 :
              k <= m /\ Call(m).min < lowlink[Node(k)] => k > 1 /\ Node(k - 1) \in Reachable(Node(m))
        BY <1>1 DEF LowReaches
    <2>4. ASSUME NEW k \in 1 .. Depth', NEW x \in OnStack',
                 Level(Node(k))' <= Level(x)', lowlink'[x] < lowlink'[Node(k)']
          PROVE  k > 1 /\ Node(k - 1)' \in Reachable(x)'
        <3>1. k \in 1 .. Depth - 1
            BY <1>1
        <3>2. Level(Node(k)) <= Level(x) /\ lowlink[x] < lowlink[Node(k)]
            BY <1>1, <1>3, <1>6, <1>7, <2>4, <3>1
        <3> QED BY <1>5, <2>1, <2>2, <3>1, <3>2
    <2>5. ASSUME NEW k \in 1 .. Depth', NEW m \in 1 .. Depth', k <= m, Call(m).min' < lowlink'[Node(k)']
          PROVE  k > 1 /\ Node(k - 1)' \in Reachable(Node(m))'
        <3>1. k \in 1 .. Depth - 1 /\ m \in 1 .. Depth - 1
            BY <1>1
        <3>2. Call(m).min < lowlink[Node(k)] /\ Node(m)' = Node(m)
            BY <1>1, <1>7, <2>5, <3>1
        <3> QED BY <1>5, <2>1, <2>3, <2>5, <3>1, <3>2
    <2> QED BY <2>4, <2>5 DEF LowReaches
<1>14. EdgesLow'
    <2>1. ASSUME NEW k \in 1 .. Depth - 1, NEW x \in OnStack', NEW y \in OnStack',
                 Level(Node(k)) <= Level(x), Level(y) < Level(Node(k)), y \in Edges(x),
                 \A m \in 1 .. Depth - 1 : x # Node(m)
          PROVE  lowlink[x] < lowlink[Node(k)]
        <3>1. \A m \in 1 .. Depth : x # Node(m)
            BY <1>1, <1>6, <2>1 DEF v
        <3> QED BY <1>1, <1>6, <2>1, <3>1 DEF EdgesLow
    <2>2. ASSUME NEW k \in 1 .. Depth - 1, NEW m \in 1 .. Depth - 1, NEW y \in OnStack',
                 k <= m, Level(y) < Level(Node(k)), y \in Edges(Node(m)) \ Range(Call(m).edges)
          PROVE  Call(m).min < lowlink[Node(k)]
        BY <1>1, <1>6, <2>2 DEF EdgesLow
    <2>3. ASSUME NEW k \in 1 .. Depth', NEW x \in OnStack', NEW y \in OnStack',
                 Level(Node(k))' <= Level(x)', Level(y)' < Level(Node(k))', y \in Edges(x)',
                 \A m \in 1 .. Depth' : x # Node(m)'
          PROVE  lowlink'[x] < lowlink'[Node(k)']
        <3>1. k \in 1 .. Depth - 1 /\ \A m \in 1 .. Depth - 1 : x # Node(m)
            BY <1>1, <2>3
        <3>2. Level(Node(k)) <= Level(x) /\ Level(y) < Level(Node(k)) /\ y \in Edges(x)
            BY <1>1, <1>3, <1>5, <1>7, <2>3, <3>1
        <3>3. lowlink[x] < lowlink[Node(k)]
            BY <2>1, <3>1, <3>2
        <3> QED BY <1>1, <1>6, <1>7, <3>1, <3>3
    <2>4. ASSUME NEW k \in 1 .. Depth', NEW m \in 1 .. Depth', NEW y \in OnStack',
                 k <= m, Level(y)' < Level(Node(k))', y \in Edges(Node(m))' \ Range(Call(m).edges)'
          PROVE  Call(m).min' < lowlink'[Node(k)']
        <3>1. k \in 1 .. Depth - 1 /\ m \in 1 .. Depth - 1
            BY <1>1
        <3>2. Call(m)' = Call(m) /\ Edges(Node(m))' = Edges(Node(m))
            BY <1>1, <1>5, <3>1
        <3>3. Level(y) < Level(Node(k)) /\ y \in Edges(Node(m)) \ Range(Call(m).edges)
            BY <1>3, <1>7, <2>4, <3>1, <3>2
        <3> QED BY <1>1, <1>7, <2>2, <2>4, <3>1, <3>2, <3>3
    <2> QED BY <2>3, <2>4 DEF EdgesLow
<1>15. MinKnows'
    <2> SUFFICES ASSUME NEW k \in 1 .. Depth - 1, NEW x \in Under(k)' \ {Node(k)}
                 PROVE  Call(k).min <= lowlink'[x]
        BY <1>1 DEF MinKnows
    <2>1. k \in 1 .. Depth /\ k # Depth
        BY <1>1
    <2>2. x \in Under(k) /\ lowlink'[x] = lowlink[x]
        BY <1>6, <1>8
    <2> QED BY <2>1, <2>2 DEF MinKnows
<1>16. Components'
    <2> DEFINE s == scc_list
               r == scc_list'
    <2>1. /\ Len(s) \in Nat /\ DOMAIN s = 1 .. Len(s) /\ DOMAIN r = 1 .. Len(s) + 1 /\ r[1] = a
          /\ \A i \in 1 .. Len(s) : r[i + 1] = s[i]
        <3>1. s \in Seq(Seq(Nodes)) /\ a \in Seq(Nodes) /\ r = <<a>> \o s
            BY <1>2 DEF Types
        <3> HIDE DEF s, r
        <3> QED BY <3>1
    <2>2. \A i \in DOMAIN r : i = 1 \/ (i - 1 \in DOMAIN s /\ r[i] = s[i - 1])
        <3> TAKE i \in DOMAIN r
        <3>1. i = 1 \/ (i - 1 \in 1 .. Len(s) /\ (i - 1) + 1 = i)
            BY <2>1
        <3> QED BY <2>1, <3>1
    <2>3. \A i \in DOMAIN s : i + 1 \in DOMAIN r /\ r[i + 1] = s[i]
        BY <2>1
    <2>4. \A i \in DOMAIN s : Range(s[i]) \cap A = {}
        <3>1. \A i \in DOMAIN s : Range(s[i]) \subseteq Done
            BY DEF Components
        <3>2. Done \cap A = {}
            BY <1>3 DEF Done
        <3> QED BY <3>1, <3>2
    <2>5. /\ \A i \in DOMAIN s : /\ IsInjective(s[i]) /\ s[i] # <<>>
                                 /\ \A x \in Range(s[i]) : Range(s[i]) = Component(x)
          /\ \A i, j \in DOMAIN s : i # j => Range(s[i]) \cap Range(s[j]) = {}
          /\ Done = UNION {Range(s[i]) : i \in DOMAIN s}
        BY DEF Components
    <2> HIDE DEF s, r
    <2>6. \A i \in DOMAIN r : /\ IsInjective(r[i]) /\ r[i] # <<>>
                              /\ \A x \in Range(r[i]) : Range(r[i]) = Component(x)
        BY <1>2, <1>4, <2>1, <2>2, <2>5
    <2>7. ASSUME NEW i \in DOMAIN r, NEW j \in DOMAIN r, i # j
          PROVE  Range(r[i]) \cap Range(r[j]) = {}
        <3>1. CASE i = 1 \/ j = 1
            BY <1>2, <2>1, <2>2, <2>4, <2>7, <3>1
        <3>2. CASE i # 1 /\ j # 1
            <4>1. i - 1 # j - 1
                BY <2>1, <2>7
            <4> QED BY <2>2, <2>5, <3>2, <4>1
        <3> QED BY <3>1, <3>2
    <2>8. Done' = UNION {Range(r[i]) : i \in DOMAIN r}
        <3>1. \A i \in DOMAIN r : Range(r[i]) \subseteq Done'
            <4>1. Range(r[1]) = A /\ \A i \in DOMAIN s : Range(s[i]) \subseteq Done
                BY <1>2, <2>1, <2>5
            <4> QED BY <1>3, <2>2, <4>1
        <3>2. A \subseteq UNION {Range(r[i]) : i \in DOMAIN r}
            <4>1. 1 \in DOMAIN r
                BY <2>1
            <4> QED BY <1>2, <2>1, <4>1
        <3>3. Done \subseteq UNION {Range(r[i]) : i \in DOMAIN r}
            BY <2>3, <2>5
        <3> QED BY <1>3, <3>1, <3>2, <3>3
    <2>9. Done' = UNION {Range(scc_list'[i]) : i \in DOMAIN scc_list'}
        BY <2>8 DEF r
    <2> QED BY <1>5, <2>6, <2>7, <2>9 DEF Components, r
<1> QED BY <1>9, <1>10, <1>11, <1>12, <1>13, <1>14, <1>15, <1>16

-----------------------------------------------------------------------------
(* The other steps leave the search alone.                                 *)
LEMMA SearchKept ==
    ASSUME DfsInv, UNCHANGED <<digraph, dfsVars>>,
           \A v \in Nodes : v < root' => v \in visited, root' \in 0 .. num_nodes,
           mgc' \in Seq(Seq(Nodes)), index1' \in 0 .. Len(scc_list)
    PROVE  DfsInv'
<1> UNCHANGED <<digraph, lowlink, preCount, visited, nodeStack, scc_list, calls>>
    BY DEF dfsVars
<1> USE DEF DfsInv
<1>1. /\ Depth' = Depth /\ OnStack' = OnStack /\ Done' = Done
      /\ \A k : Call(k)' = Call(k) /\ Node(k)' = Node(k)
      /\ \A x : Level(x)' = Level(x)
    BY DEF Depth, Call, Node, OnStack, Level, Done
<1>2. \A x : Reachable(x)' = Reachable(x) /\ Component(x)' = Component(x) /\ Edges(x)' = Edges(x)
    BY ReachableSame
<1>3. \A k : Under(k)' = Under(k)
    BY <1>1 DEF Under
<1>4. Types'
    BY <1>1 DEF Types
<1>5. Walk'
    <2>1. \A k : Call(k).edges' = Call(k).edges
        BY <1>1
    <2>2. /\ \A k \in 1 .. Depth : Node(k)' \in OnStack /\ Range(Call(k).edges)' \subseteq Edges(Node(k))'
          /\ \A x \in OnStack : Depth > 0 /\ Level(Node(1))' <= Level(x)
          /\ \A k \in 1 .. Depth - 1 : Call(k).edges' # <<>> /\ Head(Call(k).edges)' = Node(k + 1)'
        BY <1>1, <1>2, <2>1 DEF Walk
    <2>3. \A k, m \in 1 .. Depth : k < m => Level(Node(k))' < Level(Node(m))'
        BY <1>1 DEF Walk
    <2>4. \A x \in visited : \A y \in Edges(x) :
              y \in visited \/ \E k \in 1 .. Depth : x = Node(k)' /\ y \in Range(Call(k).edges)'
        BY <1>1, <2>1 DEF Walk
    <2>5. \A x \in Done : Edges(x) \subseteq Done
        BY DEF Walk
    <2> QED BY <1>1, <1>2, <2>2, <2>3, <2>4, <2>5 DEF Walk
<1>6. Numbers'
    BY <1>1 DEF Numbers
<1>7. Reaches'
    BY <1>1, <1>2, <1>3 DEF Reaches
<1>8. LowReaches'
    BY <1>1, <1>2 DEF LowReaches
<1>9. EdgesLow'
    BY <1>1, <1>2 DEF EdgesLow
<1>10. MinKnows'
    BY <1>1, <1>3 DEF MinKnows
<1>11. Components'
    BY <1>1, <1>2 DEF Components
<1> QED BY <1>4, <1>5, <1>6, <1>7, <1>8, <1>9, <1>10, <1>11

(* When no call is left, the stack is empty. *)
LEMMA AtRest ==
    ASSUME DfsInv, calls = <<>>
    PROVE  /\ Depth = 0 /\ OnStack = {} /\ Done = visited
           /\ root = num_nodes => visited = Nodes
<1>1. Depth = 0
    BY DEF Depth
<1>2. OnStack = {}
    BY <1>1 DEF DfsInv, Walk
<1>3. root = num_nodes => visited = Nodes
    <2> HAVE root = num_nodes
    <2>1. \A v \in Nodes : v < root
        BY NodeCount DEF Nodes
    <2> QED BY <2>1 DEF DfsInv, Walk, Types
<1> QED BY <1>1, <1>2, <1>3 DEF Done

-----------------------------------------------------------------------------
LEMMA SearchStarts == Init => SearchInv
<1> SUFFICES ASSUME Init
             PROVE  SearchInv
    OBVIOUS
<1>1. /\ digraph \in [Nodes -> EdgeLists] /\ lowlink = [v \in Nodes |-> 0] /\ preCount = 0 /\ visited = {}
      /\ nodeStack = <<>> /\ scc_list = <<>> /\ root = 0 /\ calls = <<>>
      /\ index1 = 0 /\ mgc = <<>> /\ thread_in_cycle = {}
    BY DEF Init
<1>2. EdgeLists \subseteq Seq(Nodes)
    <2> SUFFICES ASSUME NEW S \in SUBSET Nodes, NEW s \in Ascending(S)
                 PROVE  s \in Seq(Nodes)
        BY DEF EdgeLists
    <2>1. Cardinality(S) \in Nat
        BY CountFacts
    <2>2. s \in [1 .. Cardinality(S) -> Nodes]
        BY DEF Ascending
    <2> QED BY <2>1, <2>2
<1>3. Depth = 0 /\ OnStack = {} /\ Done = {} /\ Range(scc_list) = {} /\ Range(mgc) = {} /\ DOMAIN scc_list = {}
    BY <1>1 DEF Depth, OnStack, Done, Range
<1>4. Types
    <2>1. digraph \in [Nodes -> Seq(Nodes)]
        BY <1>1, <1>2
    <2>2. lowlink \in [Nodes -> Nat] /\ Cardinality({}) = 0 /\ root \in 0 .. num_nodes
        BY <1>1, NodeCount, FS_EmptySet
    <2>3. IsInjective(nodeStack)
        BY <1>1 DEF IsInjective
    <2>4. /\ nodeStack \in Seq(Nodes) /\ calls \in Seq(Frames) /\ scc_list \in Seq(Seq(Nodes))
          /\ mgc \in Seq(Seq(Nodes)) /\ index1 \in 0 .. Len(scc_list)
        BY <1>1
    <2> QED BY <1>1, <1>3, <2>1, <2>2, <2>3, <2>4 DEF Types
<1>5. Walk
    <2>1. \A v \in Nodes : ~(v < root)
        BY <1>1, NodeCount DEF Nodes
    <2> QED BY <1>1, <1>3, <2>1 DEF Walk
<1>6. Numbers /\ Reaches /\ LowReaches /\ EdgesLow /\ MinKnows
    BY <1>3 DEF Numbers, Reaches, LowReaches, EdgesLow, MinKnows
<1>7. Components
    BY <1>3 DEF Components
<1>8. Cycles
    BY <1>1, <1>3 DEF Cycles
<1> QED BY <1>4, <1>5, <1>6, <1>7, <1>8 DEF SearchInv, DfsInv

(* The components looked at so far give the cycles so far. *)
LEMMA BuildKeeps ==
    ASSUME SearchInv, BuildMgc
    PROVE  SearchInv'
<1> DEFINE list == scc_list[index1 + 1]
<1>1. /\ SearchDone /\ index1 < Len(scc_list) /\ index1' = index1 + 1
      /\ UNCHANGED <<digraph, dfsVars, root>>
    BY DEF BuildMgc
<1>2. \/ Len(list) > 1 /\ mgc' = Append(mgc, list) /\ thread_in_cycle' = thread_in_cycle \cup Range(list)
      \/ ~(Len(list) > 1) /\ mgc' = mgc /\ thread_in_cycle' = thread_in_cycle
    BY DEF BuildMgc, Mark
<1>3. /\ scc_list \in Seq(Seq(Nodes)) /\ mgc \in Seq(Seq(Nodes)) /\ index1 \in Nat /\ index1' \in 0 .. Len(scc_list)
      /\ list \in Seq(Nodes) /\ index1 + 1 \in 1 .. Len(scc_list)
    <2>1. scc_list \in Seq(Seq(Nodes)) /\ mgc \in Seq(Seq(Nodes)) /\ index1 \in 0 .. Len(scc_list)
        BY DEF SearchInv, DfsInv, Types
    <2>2. Len(scc_list) \in Nat
        BY <2>1
    <2>3. index1 \in Nat /\ index1 + 1 \in 1 .. Len(scc_list) /\ index1 + 1 \in 0 .. Len(scc_list)
        BY <1>1, <2>1, <2>2
    <2> QED BY <1>1, <2>1, <2>3
<1>4. scc_list' = scc_list /\ SearchDone'
    BY <1>1 DEF SearchDone, dfsVars
<1> HIDE DEF list
<1>5. mgc' \in Seq(Seq(Nodes)) /\ \A c : c \in Range(mgc') <=> c \in Range(mgc) \/ (Len(list) > 1 /\ c = list)
    <2>1. CASE mgc' = mgc /\ ~(Len(list) > 1)
        BY <1>3, <2>1
    <2>2. CASE mgc' = Append(mgc, list) /\ Len(list) > 1
        <3>1. /\ mgc' \in Seq(Seq(Nodes)) /\ Len(mgc') = Len(mgc) + 1 /\ mgc'[Len(mgc) + 1] = list
              /\ \A i \in 1 .. Len(mgc) : mgc'[i] = mgc[i]
              /\ Len(mgc) \in Nat
            BY <1>3, <2>2, AppendProperties
        <3>2. /\ \A c : c \in Range(mgc) <=> \E i \in 1 .. Len(mgc) : c = mgc[i]
              /\ \A c : c \in Range(mgc') <=> \E i \in 1 .. Len(mgc') : c = mgc'[i]
            <4>1. \A c : c \in Range(mgc) <=> \E i \in 1 .. Len(mgc) : c = mgc[i]
                BY <1>3, RangeFacts
            <4>2. \A c : c \in Range(mgc') <=> \E i \in 1 .. Len(mgc') : c = mgc'[i]
                BY <3>1, RangeFacts
            <4> QED BY <4>1, <4>2
        <3>3. \A i \in 1 .. Len(mgc') : i \in 1 .. Len(mgc) \/ i = Len(mgc) + 1
            BY <3>1
        <3>4. Len(mgc) + 1 \in 1 .. Len(mgc') /\ \A i \in 1 .. Len(mgc) : i \in 1 .. Len(mgc')
            BY <3>1
        <3>5. ASSUME NEW c
              PROVE  c \in Range(mgc') <=> c \in Range(mgc) \/ c = list
            <4>1. ASSUME c \in Range(mgc')
                  PROVE  c \in Range(mgc) \/ c = list
                BY <3>1, <3>2, <3>3, <4>1
            <4>2. ASSUME c \in Range(mgc)
                  PROVE  c \in Range(mgc')
                BY <3>1, <3>2, <3>4, <4>2
            <4>3. ASSUME c = list
                  PROVE  c \in Range(mgc')
                BY <3>1, <3>2, <3>4, <4>3
            <4> QED BY <4>1, <4>2, <4>3
        <3> QED BY <2>2, <3>1, <3>5
    <2> QED BY <1>2, <2>1, <2>2
<1>6. DfsInv'
    <2>1. DfsInv /\ root' = root /\ root \in 0 .. num_nodes /\ \A v \in Nodes : v < root => v \in visited
        BY <1>1 DEF SearchInv, DfsInv, Walk, Types
    <2> QED BY <1>1, <1>3, <1>5, <2>1, SearchKept
<1>7. Cycles'
    <2>1. \A c : c \in Range(mgc) <=> \E i \in 1 .. index1 : c = scc_list[i] /\ Len(c) > 1
        BY DEF SearchInv, Cycles
    <2>2. \A x : x \in thread_in_cycle <=> \E c \in Range(mgc) : x \in Range(c)
        BY DEF SearchInv, Cycles
    <2>3. /\ \A i \in 1 .. index1 : i \in 1 .. index1 + 1
          /\ index1 + 1 \in 1 .. index1 + 1
          /\ \A i \in 1 .. index1 + 1 : i \in 1 .. index1 \/ i = index1 + 1
        BY <1>3
    <2>4. \A c : c \in Range(mgc') <=> \E i \in 1 .. index1 + 1 : c = scc_list[i] /\ Len(c) > 1
        <3> TAKE c
        <3>1. ASSUME c \in Range(mgc')
              PROVE  \E i \in 1 .. index1 + 1 : c = scc_list[i] /\ Len(c) > 1
            BY <1>5, <2>1, <2>3, <3>1 DEF list
        <3>2. ASSUME NEW i \in 1 .. index1 + 1, c = scc_list[i], Len(c) > 1
              PROVE  c \in Range(mgc')
            BY <1>5, <2>1, <2>3, <3>2 DEF list
        <3> QED BY <3>1, <3>2
    <2>5. \A x : x \in thread_in_cycle' <=> \E c \in Range(mgc') : x \in Range(c)
        BY <1>2, <1>5, <2>2
    <2> QED BY <1>1, <1>4, <2>4, <2>5 DEF Cycles
<1> QED BY <1>6, <1>7 DEF SearchInv

LEMMA SearchSteps == SearchInv /\ [Next]_vars => SearchInv'
<1> SUFFICES ASSUME SearchInv, [Next]_vars
             PROVE  SearchInv'
    OBVIOUS
<1> DfsInv /\ Cycles
    BY DEF SearchInv
<1>1. ASSUME ~SearchDone, UNCHANGED cycleVars
      PROVE  Cycles'
    <2>1. index1 = 0
        BY <1>1 DEF DfsInv, Types, Cycles
    <2>2. index1' = 0 /\ mgc' = mgc /\ thread_in_cycle' = thread_in_cycle /\ 1 .. index1 = {} /\ 1 .. index1' = {}
        BY <1>1, <2>1 DEF cycleVars
    <2> QED BY <2>1, <2>2 DEF Cycles
<1>2. calls # <<>> => ~SearchDone
    BY DEF SearchDone
<1>3. CASE StartDfs
    <2>1. /\ calls = <<>> /\ root < num_nodes /\ root \notin visited /\ Visit(root, calls)
          /\ UNCHANGED <<digraph, root, cycleVars>>
        BY <1>3 DEF StartDfs
    <2>2. root \in Nodes \ visited /\ ~SearchDone
        BY <2>1, NodeCount DEF Nodes, SearchDone, DfsInv, Types
    <2>3. DfsInv'
        BY <2>1, <2>2, VisitKeeps
    <2> QED BY <1>1, <2>1, <2>2, <2>3 DEF SearchInv
<1>4. CASE NextRoot
    <2>1. /\ calls = <<>> /\ root < num_nodes /\ root \in visited /\ root' = root + 1
          /\ UNCHANGED <<digraph, dfsVars, cycleVars>>
        BY <1>4 DEF NextRoot
    <2>2. ~SearchDone /\ root \in 0 .. num_nodes /\ root' \in 0 .. num_nodes
        BY <2>1, NodeCount DEF SearchDone, DfsInv, Types
    <2>3. \A v \in Nodes : v < root' => v < root \/ v = root
        BY <2>1, <2>2, NodeCount DEF Nodes
    <2>4. \A v \in Nodes : v < root' => v \in visited
        BY <2>1, <2>3 DEF DfsInv, Walk
    <2>5. mgc' \in Seq(Seq(Nodes)) /\ index1' \in 0 .. Len(scc_list)
        BY <2>1 DEF cycleVars, DfsInv, Types
    <2>6. DfsInv'
        BY <2>1, <2>2, <2>4, <2>5, SearchKept
    <2> QED BY <1>1, <2>1, <2>2, <2>6 DEF SearchInv
<1>5. CASE CallDfs
    <2> DEFINE w == Head(Head(calls).edges)
    <2>1. /\ calls # <<>> /\ Head(calls).edges # <<>> /\ w \notin visited /\ Visit(w, calls)
          /\ UNCHANGED <<digraph, root, cycleVars>>
        BY <1>5 DEF CallDfs
    <2>2. w \in Nodes
        <3>1. Depth \in 1 .. Depth /\ Head(calls) = Call(Depth) /\ Call(Depth).edges \in Seq(Nodes)
            BY <2>1, Topmost DEF DfsInv, Types
        <3> QED BY <2>1, <3>1
    <2>3. DfsInv'
        BY <2>1, <2>2, VisitKeeps
    <2> QED BY <1>1, <1>2, <2>1, <2>3 DEF SearchInv
<1>6. CASE NextEdge
    <2>1. calls # <<>> /\ UNCHANGED cycleVars
        BY <1>6 DEF NextEdge
    <2> QED BY <1>1, <1>2, <1>6, <2>1, EdgeKeeps DEF SearchInv
<1>7. CASE ReturnLow
    <2>1. calls # <<>> /\ UNCHANGED cycleVars
        BY <1>7 DEF ReturnLow
    <2> QED BY <1>1, <1>2, <1>7, <2>1, LowKeeps DEF SearchInv
<1>8. CASE ReturnComponent
    <2>1. calls # <<>> /\ UNCHANGED cycleVars
        BY <1>8 DEF ReturnComponent
    <2> QED BY <1>1, <1>2, <1>8, <2>1, CompleteKeeps DEF SearchInv
<1>9. CASE BuildMgc
    BY <1>9, BuildKeeps
<1>10. CASE UNCHANGED vars
    <2>1. UNCHANGED <<digraph, dfsVars, root, cycleVars>>
        BY <1>10 DEF vars
    <2>2. /\ \A v \in Nodes : v < root' => v \in visited
          /\ root' \in 0 .. num_nodes /\ mgc' \in Seq(Seq(Nodes)) /\ index1' \in 0 .. Len(scc_list)
        BY <2>1 DEF cycleVars, DfsInv, Walk, Types
    <2>3. DfsInv'
        BY <2>1, <2>2, SearchKept
    <2>4. Cycles'
        <3>1. UNCHANGED <<index1, mgc, thread_in_cycle, scc_list>> /\ SearchDone' = SearchDone
            BY <2>1 DEF cycleVars, dfsVars, SearchDone
        <3> QED BY <3>1 DEF Cycles
    <2> QED BY <2>3, <2>4 DEF SearchInv
<1> QED BY <1>3, <1>4, <1>5, <1>6, <1>7, <1>8, <1>9, <1>10 DEF Next

THEOREM SearchIsSound == Spec => []SearchInv
<1> QED BY SearchStarts, SearchSteps, PTL DEF Spec

-----------------------------------------------------------------------------
(* No number is greater than num_nodes; the stack has no node twice and    *)
(* holds the node of every call.                                           *)
LowlinkBound == \A v \in Nodes : lowlink[v] <= num_nodes

THEOREM TypesAreKept == Spec => []TypeOK
<1>1. Init => LowlinkBound
    BY NodeCount DEF Init, LowlinkBound
<1>2. SearchInv /\ LowlinkBound /\ [Next]_vars => LowlinkBound'
    <2> SUFFICES ASSUME SearchInv, LowlinkBound, [Next]_vars, NEW x \in Nodes
                 PROVE  lowlink'[x] <= num_nodes
        BY DEF LowlinkBound
    <2>1. DfsInv /\ lowlink[x] <= num_nodes /\ lowlink[x] \in Nat /\ num_nodes \in Nat
        BY NodeCount DEF SearchInv, LowlinkBound, DfsInv, Types
    <2>2. ASSUME NEW w \in Nodes \ visited, Visit(w, calls)
          PROVE  lowlink'[x] <= num_nodes
        <3>1. preCount \in Nat /\ preCount < num_nodes
            BY <2>1, CountFacts DEF DfsInv, Types
        <3>2. lowlink'[x] = preCount \/ lowlink'[x] = lowlink[x]
            BY <2>1, <2>2 DEF Visit, DfsInv, Types
        <3> QED BY <2>1, <3>1, <3>2
    <2>3. CASE StartDfs
        <3>1. root \in Nodes \ visited /\ Visit(root, calls)
            BY <2>1, <2>3, NodeCount DEF StartDfs, Nodes, DfsInv, Types
        <3> QED BY <2>2, <3>1
    <2>4. CASE CallDfs
        <3> DEFINE w == Head(Head(calls).edges)
        <3>1. calls # <<>> /\ Head(calls).edges # <<>> /\ w \notin visited /\ Visit(w, calls)
            BY <2>4 DEF CallDfs
        <3>2. Depth \in 1 .. Depth /\ Head(calls) = Call(Depth) /\ Call(Depth).edges \in Seq(Nodes)
            BY <2>1, <3>1, Topmost DEF DfsInv, Types
        <3>3. w \in Nodes
            BY <3>1, <3>2
        <3> QED BY <2>2, <3>1, <3>3
    <2>5. CASE ReturnLow
        <3>1. lowlink'[x] <= lowlink[x] /\ lowlink'[x] \in Nat
            BY <2>1, <2>5, LowFacts
        <3> QED BY <2>1, <3>1
    <2>6. CASE ReturnComponent
        <3>1. lowlink'[x] = num_nodes \/ lowlink'[x] = lowlink[x]
            BY <2>6 DEF ReturnComponent, CompleteLowlink
        <3> QED BY <2>1, <3>1
    <2>7. CASE UNCHANGED lowlink
        BY <2>1, <2>7
    <2> QED BY <2>3, <2>4, <2>5, <2>6, <2>7 DEF Next, NextRoot, NextEdge, BuildMgc, vars, dfsVars
<1>3. SearchInv /\ LowlinkBound => TypeOK
    <2> SUFFICES ASSUME SearchInv, LowlinkBound
                 PROVE  TypeOK
        OBVIOUS
    <2>1. /\ DfsInv /\ calls \in Seq(Frames) /\ lowlink \in [Nodes -> Nat] /\ OnStack = Range(nodeStack)
          /\ preCount = Cardinality(visited) /\ visited \subseteq Nodes
          /\ IsInjective(nodeStack) /\ Range(nodeStack) \subseteq visited
        BY DEF SearchInv, DfsInv, Types, OnStack
    <2>2. lowlink \in [Nodes -> 0 .. num_nodes]
        <3>1. \A v \in Nodes : lowlink[v] \in 0 .. num_nodes
            BY <2>1, NodeCount DEF LowlinkBound
        <3> QED BY <2>1, <3>1
    <2>3. \A i \in DOMAIN calls : calls[i].v \in Range(nodeStack)
        <3> TAKE i \in DOMAIN calls
        <3>1. /\ Len(calls) + 1 - i \in 1 .. Len(calls) /\ Len(calls) + 1 - (Len(calls) + 1 - i) = i
            BY <2>1
        <3>2. Node(Len(calls) + 1 - i) = calls[i].v /\ Len(calls) + 1 - i \in 1 .. Depth
            BY <3>1 DEF Node, Call, Depth
        <3> QED BY <2>1, <3>2 DEF DfsInv, Walk
    <2> QED BY <2>1, <2>2, <2>3 DEF TypeOK
<1> QED BY <1>1, <1>2, <1>3, SearchIsSound, PTL DEF Spec

-----------------------------------------------------------------------------
(* Each list that the search leaves in scc_list is a strongly connected    *)
(* component of the graph of who writes to whom, once and without          *)
(* repetition, and at the end they are all there.                          *)
THEOREM ComponentsAreExact == Spec => []ComponentsExact
<1>1. SearchInv => ComponentsExact
    <2> SUFFICES ASSUME SearchInv
                 PROVE  ComponentsExact
        OBVIOUS
    <2> DfsInv
        BY DEF SearchInv
    <2>1. ASSUME NEW i \in DOMAIN scc_list, NEW j \in DOMAIN scc_list[i]
          PROVE  Range(scc_list[i]) = Component(scc_list[i][j])
        <3>1. scc_list[i][j] \in Range(scc_list[i])
            BY DEF Range
        <3> QED BY <3>1 DEF DfsInv, Components
    <2>2. /\ \A i \in DOMAIN scc_list : IsInjective(scc_list[i])
          /\ \A i, j \in DOMAIN scc_list : i # j => Range(scc_list[i]) \cap Range(scc_list[j]) = {}
          /\ Done = UNION {Range(scc_list[i]) : i \in DOMAIN scc_list}
        BY DEF DfsInv, Components
    <2>3. SearchDone => Done = Nodes
        BY AtRest DEF SearchDone
    <2> QED BY <2>1, <2>2, <2>3 DEF ComponentsExact
<1> QED BY <1>1, SearchIsSound, PTL

LEMMA LengthIsSize ==
    ASSUME NEW c \in Seq(Nodes), IsInjective(c)
    PROVE  Len(c) \in Nat /\ Cardinality(Range(c)) = Len(c)
<1>1. Len(c) \in Nat /\ DOMAIN c = 1 .. Len(c) /\ c \in [1 .. Len(c) -> Nodes]
    OBVIOUS
<1>2. c \in [1 .. Len(c) -> Range(c)]
    BY <1>1 DEF Range
<1>3. c \in Injection(1 .. Len(c), Range(c))
    BY <1>2 DEF Injection
<1>4. c \in Surjection(1 .. Len(c), Range(c))
    BY <1>1, <1>2 DEF Surjection, Range
<1>5. ExistsBijection(1 .. Len(c), Range(c))
    BY <1>3, <1>4 DEF ExistsBijection, Bijection
<1> QED BY <1>1, <1>5, FS_CountingElements

(* What report_shq_writers makes of them are the cycles of the graph, and  *)
(* a thread is marked if and only if it lies in one.                       *)
THEOREM CyclesAreExact == Spec => []InCycleExact
<1>1. SearchInv => InCycleExact
    <2> SUFFICES ASSUME SearchInv, Built
                 PROVE  /\ {Range(mgc[i]) : i \in DOMAIN mgc} =
                               {c \in {Component(v) : v \in Nodes} : Cardinality(c) > 1}
                        /\ thread_in_cycle = {v \in Nodes : Cardinality(Component(v)) > 1}
        BY DEF InCycleExact
    <2> DEFINE Big == {c \in {Component(v) : v \in Nodes} : Cardinality(c) > 1}
    <2>1. DfsInv /\ scc_list \in Seq(Seq(Nodes)) /\ mgc \in Seq(Seq(Nodes))
        BY DEF SearchInv, DfsInv, Types
    <2>2. DOMAIN scc_list = 1 .. index1
        BY <2>1 DEF Built
    <2>3. \A c : c \in Range(mgc) <=> \E i \in DOMAIN scc_list : c = scc_list[i] /\ Len(c) > 1
        BY <2>2 DEF SearchInv, Cycles
    <2>4. \A i \in DOMAIN scc_list :
              /\ Len(scc_list[i]) \in Nat /\ Cardinality(Range(scc_list[i])) = Len(scc_list[i])
              /\ Range(scc_list[i]) \subseteq Nodes
              /\ scc_list[i] # <<>> /\ \A x \in Range(scc_list[i]) : Range(scc_list[i]) = Component(x)
        <3> TAKE i \in DOMAIN scc_list
        <3>1. scc_list[i] \in Seq(Nodes) /\ IsInjective(scc_list[i])
            BY <2>1 DEF DfsInv, Components
        <3>2. Range(scc_list[i]) \subseteq Nodes
            BY <3>1, RangeFacts
        <3> QED BY <2>1, <3>1, <3>2, LengthIsSize DEF DfsInv, Components
    <2>5. \A x \in Nodes : \E i \in DOMAIN scc_list : x \in Range(scc_list[i])
        <3>1. Nodes = UNION {Range(scc_list[i]) : i \in DOMAIN scc_list}
            BY <2>1, AtRest DEF Built, SearchDone, DfsInv, Components
        <3> QED BY <3>1
    <2>6. ASSUME NEW c \in Range(mgc)
          PROVE  Range(c) \in Big /\ Range(c) \subseteq Nodes /\ \A x \in Range(c) : Range(c) = Component(x)
        <3>1. PICK i \in DOMAIN scc_list : c = scc_list[i] /\ Len(c) > 1
            BY <2>3
        <3>2. PICK x : x \in Range(c)
            <4>1. c \in Seq(Nodes) /\ 1 \in DOMAIN c
                BY <2>1, <3>1
            <4> QED BY <4>1 DEF Range
        <3>3. Range(c) = Component(x) /\ x \in Nodes /\ Cardinality(Range(c)) > 1
            BY <2>4, <3>1, <3>2
        <3> QED BY <2>4, <3>1, <3>3
    <2>7. ASSUME NEW x \in Nodes, Cardinality(Component(x)) > 1
          PROVE  \E c \in Range(mgc) : Range(c) = Component(x) /\ x \in Range(c)
        <3>1. PICK i \in DOMAIN scc_list : x \in Range(scc_list[i])
            BY <2>5
        <3>2. Range(scc_list[i]) = Component(x) /\ Len(scc_list[i]) > 1
            BY <2>4, <2>7, <3>1
        <3> QED BY <2>3, <3>1, <3>2
    <2>8. {Range(mgc[i]) : i \in DOMAIN mgc} = {Range(c) : c \in Range(mgc)}
        BY DEF Range
    <2>9. {Range(c) : c \in Range(mgc)} = Big
        BY <2>6, <2>7
    <2>10. thread_in_cycle = {v \in Nodes : Cardinality(Component(v)) > 1}
        <3>1. \A x : x \in thread_in_cycle <=> \E c \in Range(mgc) : x \in Range(c)
            BY DEF SearchInv, Cycles
        <3>2. \A c \in Range(mgc) : \A x \in Range(c) : x \in Nodes /\ Cardinality(Component(x)) > 1
            BY <2>6
        <3> QED BY <2>7, <3>1, <3>2
    <2> QED BY <2>8, <2>9, <2>10
<1> QED BY <1>1, SearchIsSound, PTL

=============================================================================
