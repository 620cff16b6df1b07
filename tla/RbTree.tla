------------------------------- MODULE RbTree -------------------------------
(* The red-black tree of include/rbtree.h, node by node: the sentinels Nil   *)
(* and Root, a list of free nodes, and pointers to the least, the greatest   *)
(* and the last inserted node.                                               *)
EXTENDS KidBase

RbNodes == 1..6
Nil == 0
Root == -1
None == -2                    \* NULL
AllNodes == {Root, Nil} \cup RbNodes

RBTreeCreate ==
    [left |-> [n \in AllNodes |-> Nil], right |-> [n \in AllNodes |-> Nil], parent |-> [n \in AllNodes |-> Nil],
     red |-> [n \in AllNodes |-> FALSE], key |-> [n \in AllNodes |-> 0], wsd |-> [n \in AllNodes |-> 0],
     min |-> None, max |-> None, lastins |-> None, free |-> [n \in RbNodes |-> n], num |-> 0, spins |-> FALSE]
Other(side) == IF side = "left" THEN "right" ELSE "left"
MaxRounds == 2 * Cardinality(RbNodes)

Side(t, x) == IF x = t.left[t.parent[x]] THEN "left" ELSE "right"
\* y takes the place of x below its parent.
Raised(t, x, y) == [t EXCEPT !.parent[y] = t.parent[x], ![Side(t, x)][t.parent[x]] = y]
Hung(t, x, side, y) == [t EXCEPT ![side][y] = x, !.parent[x] = y]

\* x goes down to its side l, and its child of the other side, y, takes its place.
\* A plausible error: the inner child keeps its old parent.
RotateHalf(t, x, l, y) == Hung(Raised([t EXCEPT ![Other(l)][x] = t[l][y]], x, y), x, l, y)

RotateAbout(t, x, l, y) ==
    LET inner == t[l][y]
        a == [t EXCEPT ![Other(l)][x] = inner]
    IN  Hung(Raised(IF inner # Nil THEN [a EXCEPT !.parent[inner] = x] ELSE a, x, y), x, l, y)
Rotate(t, x, l) == RotateAbout(t, x, l, t[Other(l)][x])
LeftRotate(t, x) == Rotate(t, x, "left")
RightRotate(t, x) == Rotate(t, x, "right")
Turn(t, x, l) == IF l = "left" THEN LeftRotate(t, x) ELSE RightRotate(t, x)

\* The place of a node z with its key: below the greatest node, or else from the
\* last inserted node up, while the keys there are on the same side, and down.
InsertPoint(t, z) ==
    LET k == t.key[z]
        last == t.lastins
        up(y) == /\ t.parent[y] # Root
                 /\ IF t.key[last] > k THEN t.key[t.parent[y]] >= k ELSE t.key[t.parent[y]] <= k
        top == IF t.key[last] = k THEN last ELSE While(up, LAMBDA y : t.parent[y], last, MaxRounds)
        down(y) == IF t.key[y] > k THEN t.left[y] ELSE t.right[y]
    IN  While(LAMBDA y : down(y) # Nil, down, top, MaxRounds)
TreeInsertHelp(t, z) ==
    LET a == [t EXCEPT !.left[z] = Nil, !.right[z] = Nil]
        y == InsertPoint(a, z)
    IN  IF a.key[a.max] <= a.key[z]
        THEN [a EXCEPT !.parent[z] = a.max, !.right[a.max] = z, !.max = z, !.lastins = z]
        ELSE [a EXCEPT !.parent[z] = y, !.lastins = z,
                       ![IF a.key[y] > a.key[z] THEN "left" ELSE "right"][y] = z]

\* One round of the loop that mends red nodes with red parents, from u.x up: l is the
\* side of the parent p below g, and the node x ends on the outer side of it.
Straightened(t, x, p, l) == IF x = t[Other(l)][p] THEN [t |-> Turn(t, p, l), x |-> p] ELSE [t |-> t, x |-> x]
Swung(t, x, p, g, l) ==
    [t |-> Turn([[t EXCEPT !.red[p] = FALSE] EXCEPT !.red[g] = TRUE], g, Other(l)), x |-> x]
SwungAt(u, l) == Swung(u.t, u.x, u.t.parent[u.x], u.t.parent[u.t.parent[u.x]], l)
Mended(t, x, p, g, l) ==
    LET y == t[Other(l)][g]
    IN  IF t.red[y] THEN [t |-> [[t EXCEPT !.red[p] = FALSE, !.red[y] = FALSE] EXCEPT !.red[g] = TRUE], x |-> g]
        ELSE SwungAt(Straightened(t, x, p, l), l)
InsertRound(u) ==
    LET p == u.t.parent[u.x]   IN  Mended(u.t, u.x, p, u.t.parent[p], Side(u.t, p))
Unbalanced(u) == u.t.red[u.t.parent[u.x]]
Balanced(u) == [u.t EXCEPT !.red[u.t.left[Root]] = FALSE, !.num = @ + 1, !.spins = Unbalanced(u)]
Rebalanced(t, z) ==
    Balanced(While(Unbalanced, InsertRound, [t |-> [t EXCEPT !.red[z] = TRUE], x |-> z], MaxRounds))

Alloc(t, key, wsd) == LET z == Last(t.free)
                      IN  [t EXCEPT !.free = Front(@), !.key[z] = key, !.wsd[z] = wsd]
Lowest(b, z, key) == IF b.min \in {None, Nil} \/ b.key[b.min] > key THEN [b EXCEPT !.min = z] ELSE b
FirstOf(a, z) == [a EXCEPT !.max = z, !.lastins = z, !.left[Root] = z, !.parent[z] = Root,
                           !.left[z] = Nil, !.right[z] = Nil]
RBTreeInsert_initial(t, key, wsd) ==
    LET z == Last(t.free)
        a == Alloc(t, key, wsd)
    IN  Rebalanced(Lowest(IF t.max # None THEN TreeInsertHelp(a, z) ELSE FirstOf(a, z), z, key), z)
\* The least node is never replaced here: a lesser key is not inserted.
Highest(b, z, key) == IF key > b.key[b.max] THEN [b EXCEPT !.max = z] ELSE b
RBTreeInsert(t, key, wsd) ==
    LET z == Last(t.free)   IN  Rebalanced(Highest(TreeInsertHelp(Alloc(t, key, wsd), z), z, key), z)

TreeSuccessor(t, x) ==
    LET up == While(LAMBDA u : u.x = t.right[u.y], LAMBDA u : [x |-> u.y, y |-> t.parent[u.y]],
                    [x |-> x, y |-> t.parent[x]], MaxRounds)
    IN  IF t.right[x] # Nil THEN While(LAMBDA y : t.left[y] # Nil, LAMBDA y : t.left[y], t.right[x], MaxRounds)
        ELSE IF up.y = Root THEN Nil ELSE up.y

\* One round of the loop after a black node left the place of x, on side l of p; w is
\* its sibling: first a red sibling is turned away, then a sibling whose child on the
\* far side is black.  root is the top of the tree when the loop begins, and ends it.
Lightened(t, w, p, l) == IF t.red[w] THEN Turn([t EXCEPT !.red[w] = FALSE, !.red[p] = TRUE], p, l) ELSE t
Outward(t, w, l) ==
    IF t.red[t[Other(l)][w]] THEN t
    ELSE Turn([t EXCEPT !.red[t[l][w]] = FALSE, !.red[w] = TRUE], w, Other(l))
Settled(t, q, l, w) ==
    Turn([[t EXCEPT !.red[w] = t.red[q]] EXCEPT !.red[q] = FALSE, !.red[t[Other(l)][w]] = FALSE], q, l)
SettledAt(t, q, l) == Settled(t, q, l, t[Other(l)][q])
SiblingRound(t, x, l, w, root) ==
    IF ~t.red[t.left[w]] /\ ~t.red[t.right[w]] THEN [t |-> [t EXCEPT !.red[w] = TRUE], x |-> t.parent[x]]
    ELSE [t |-> SettledAt(Outward(t, w, l), t.parent[x], l), x |-> root]
SiblingOf(t, x, l, root) == SiblingRound(t, x, l, t[Other(l)][t.parent[x]], root)
DeleteRound(u, root) ==
    LET p == u.t.parent[u.x]
        l == Side(u.t, u.x)
    IN  SiblingOf(Lightened(u.t, u.t[Other(l)][p], p, l), u.x, l, root)
Blackened(u) == [u.t EXCEPT !.red[u.x] = FALSE]
RBDeleteFixUp(t, x) ==
    LET root == t.left[Root]
    IN  Blackened(While(LAMBDA v : ~v.t.red[v.x] /\ v.x # root, LAMBDA v : DeleteRound(v, root),
                        [t |-> t, x |-> x], MaxRounds))

\* The successor takes the place of a node with two children.  Of the pointers to
\* nodes only that to the least one is kept up.
Spliced(t, y, x) ==
    LET p == t.parent[y]
        a == [t EXCEPT !.parent[x] = p]
        b == [a EXCEPT ![IF p = Root \/ y = t.left[p] THEN "left" ELSE "right"][p] = x]
    IN  IF t.red[y] THEN b ELSE RBDeleteFixUp(b, x)
Placed(t, z, y) ==
    LET d == [t EXCEPT !.left[y] = t.left[z], !.right[y] = t.right[z], !.parent[y] = t.parent[z], !.red[y] = t.red[z],
                       !.parent[t.left[z]] = y, !.parent[t.right[z]] = y]
    IN  [d EXCEPT ![Side(d, z)][d.parent[z]] = y]
Removed(t, z) ==
    [t EXCEPT !.num = @ - 1, !.free = Append(@, z), !.key[z] = 0, !.wsd[z] = 0, !.red[z] = FALSE,
              !.left[z] = None, !.right[z] = None, !.parent[z] = None]
DeleteBy(t, z, y) ==
    LET a == Spliced(t, y, IF t.left[y] = Nil THEN t.right[y] ELSE t.left[y])
    IN  Removed(IF y # z THEN Placed(a, z, y) ELSE a, z)
DeleteNext(t, z, next) ==
    DeleteBy([t EXCEPT !.min = IF z = @ THEN next ELSE @], z,
             IF t.left[z] = Nil \/ t.right[z] = Nil THEN z ELSE next)
RBDelete(t, z) == DeleteNext(t, z, TreeSuccessor(t, z))
RBGetMinimum(t) == t.min
-----------------------------------------------------------------------------
\* The nodes below n, in order, and the number of black nodes on the way to a
\* leaf, for a tree that is one; -1 when two ways differ.
InOrder(t) ==
    LET Below[n \in AllNodes, d \in 0..MaxRounds] ==
            IF n = Nil \/ d = 0 THEN <<>> ELSE Below[t.left[n], d - 1] \o <<n>> \o Below[t.right[n], d - 1]
    IN  Below[t.left[Root], MaxRounds]
BlackHeight(t) ==
    LET H[n \in AllNodes, d \in 0..MaxRounds] ==
            IF n = Nil \/ d = 0 THEN 0
            ELSE LET a == H[t.left[n], d - 1]
                 IN  IF a = -1 \/ a # H[t.right[n], d - 1] THEN -1 ELSE IF t.red[n] THEN a ELSE a + 1
    IN  H[t.left[Root], MaxRounds]

\* What the header promises of a tree: its nodes in the order of their keys, no red
\* node below another, as many black nodes on all ways down, and the least node.
RedBlack(t) ==
    LET list == InOrder(t)
        inner == ToSet(list)
    IN  /\ Len(list) = t.num /\ Cardinality(inner) = t.num /\ inner \cap ToSet(t.free) = {}
        /\ Cardinality(ToSet(t.free)) + t.num = Cardinality(RbNodes)
        /\ \A i \in 1..Len(list) - 1 : t.key[list[i]] <= t.key[list[i+1]]
        /\ \A n \in inner : t.red[n] => t.parent[n] = Root \/ ~t.red[t.parent[n]]
        /\ \A n \in inner : n \in {t.left[t.parent[n]], t.right[t.parent[n]]}
        /\ BlackHeight(t) # -1
        /\ list # <<>> => t.min = Head(list)
=============================================================================
