-------------------------- MODULE SubscribeProofs ---------------------------
(***************************************************************************)
(* Proofs about the walk of module Subscribe and the flush of module       *)
(* FlushGraph, for any kids, graphs and numbers of ports and threads.      *)
(***************************************************************************)
EXTENDS FlushGraph, WellFoundedInduction, TLAPS

EdgeLists == Seq(Kids \X Nat)
Calls == [kid : Kids \cup {NoKid}, edges : EdgeLists, next_level : Seq(Kids)]

(* Only a kid's own edges are ever walked. *)
StackOK ==
    /\ stack \in Seq(Calls)
    /\ \A n \in DOMAIN stack : stack[n].edges # <<>> => stack[n].kid \in Kids

WalkInv ==
    /\ graph \in Graphs
    /\ sources \in Seq(Kids)
    /\ StackOK
    /\ ext_subscribers \in [Kids -> EdgeLists]
    /\ local_subscribers \in [Kids -> EdgeLists]
    /\ DOMAIN shq_writers = ThreadIds(graph)
    /\ WritersCounted

(* An element in front of a list. *)
LEMMA RangeOfFront ==
    ASSUME NEW S, NEW e \in S, NEW list \in Seq(S)
    PROVE  /\ <<e>> \o list \in Seq(S)
           /\ Range(<<e>> \o list) = {e} \cup Range(list)
<1>1. <<e>> \o list \in Seq(S)
    OBVIOUS
<1>2. Len(<<e>> \o list) = Len(list) + 1
    OBVIOUS
<1>3. (<<e>> \o list)[1] = e /\ \A n \in 1 .. Len(list) : (<<e>> \o list)[n + 1] = list[n]
    OBVIOUS
<1>4. Range(<<e>> \o list) \subseteq {e} \cup Range(list)
    <2> SUFFICES ASSUME NEW n \in 1 .. Len(list) + 1
                 PROVE  (<<e>> \o list)[n] \in {e} \cup Range(list)
        BY <1>1, <1>2 DEF Range
    <2>1. CASE n = 1
        BY <2>1, <1>3
    <2>2. CASE n # 1
        <3>1. n - 1 \in 1 .. Len(list) /\ (n - 1) + 1 = n
            BY <2>2
        <3> QED BY <3>1, <1>3 DEF Range
    <2> QED BY <2>1, <2>2
<1>5. {e} \cup Range(list) \subseteq Range(<<e>> \o list)
    <2> DEFINE both == <<e>> \o list
    <2>1. 1 \in DOMAIN both /\ \A n \in 1 .. Len(list) : n + 1 \in DOMAIN both
        BY <1>1, <1>2
    <2>2. both[1] = e /\ \A n \in 1 .. Len(list) : both[n + 1] = list[n]
        BY <1>3
    <2> HIDE DEF both
    <2>3. e \in Range(both)
        BY <2>1, <2>2 DEF Range
    <2>4. \A n \in 1 .. Len(list) : list[n] \in Range(both)
        BY <2>1, <2>2 DEF Range
    <2>5. Range(list) = {list[n] : n \in 1 .. Len(list)}
        BY DEF Range
    <2> QED BY <2>3, <2>4, <2>5 DEF both
<1> QED BY <1>1, <1>4, <1>5

(* The call on top, and the stack below it. *)
LEMMA TopTyped ==
    ASSUME StackOK, stack # <<>>
    PROVE  /\ Top \in Calls /\ Tail(stack) \in Seq(Calls)
           /\ Top.edges # <<>> => Top.kid \in Kids
           /\ \A n \in DOMAIN Tail(stack) :
                 Tail(stack)[n].edges # <<>> => Tail(stack)[n].kid \in Kids
BY DEF StackOK, Top

(* A typed call may be put on a typed stack. *)
LEMMA Push ==
    ASSUME NEW c \in Calls, NEW below \in Seq(Calls),
           c.edges # <<>> => c.kid \in Kids,
           \A n \in DOMAIN below : below[n].edges # <<>> => below[n].kid \in Kids
    PROVE  /\ <<c>> \o below \in Seq(Calls)
           /\ \A n \in DOMAIN (<<c>> \o below) :
                (<<c>> \o below)[n].edges # <<>> => (<<c>> \o below)[n].kid \in Kids
<1>1. <<c>> \o below \in Seq(Calls) /\ Len(<<c>> \o below) = Len(below) + 1
    OBVIOUS
<1>2. (<<c>> \o below)[1] = c
    OBVIOUS
<1>3. \A n \in 2 .. Len(below) + 1 : n - 1 \in DOMAIN below /\ (<<c>> \o below)[n] = below[n - 1]
    OBVIOUS
<1>4. \A n \in DOMAIN (<<c>> \o below) : n = 1 \/ n \in 2 .. Len(below) + 1
    BY <1>1
<1> QED BY <1>1, <1>2, <1>3, <1>4

(* Two calls on a stack are one call on a stack with the other. *)
LEMMA PushTwo ==
    ASSUME NEW S, NEW c \in S, NEW d \in S, NEW below \in Seq(S)
    PROVE  <<c, d>> \o below = <<c>> \o (<<d>> \o below)
<1> DEFINE l == <<c, d>> \o below
           r == <<c>> \o (<<d>> \o below)
<1>1. l \in Seq(S) /\ r \in Seq(S) /\ Len(l) = Len(below) + 2 /\ Len(r) = Len(below) + 2
    OBVIOUS
<1>2. \A n \in 1 .. Len(below) + 2 : l[n] = r[n]
    <2> SUFFICES ASSUME NEW n \in 1 .. Len(below) + 2 PROVE l[n] = r[n]
        OBVIOUS
    <2>1. CASE n = 1
        BY <2>1
    <2>2. CASE n = 2
        BY <2>2
    <2>3. CASE n > 2
        <3>1. l[n] = below[n - 2]
            BY <2>3
        <3>2. r[n] = below[n - 2]
            BY <2>3
        <3> QED BY <3>1, <3>2
    <2> QED BY <2>1, <2>2, <2>3
<1> HIDE DEF l, r
<1>3. l = r
    BY <1>1, <1>2
<1> QED BY <1>3 DEF l, r

(* The graph of a run has the shape its assumption says. *)
LEMMA GraphShape ==
    ASSUME graph \in Graphs
    PROVE  graph.edges \in [Kids -> EdgeLists] /\ graph.sources \in Seq(Kids)
BY GraphConstants DEF EdgeLists

LEMMA InitWalkInv == Init => WalkInv
<1> SUFFICES ASSUME Init PROVE WalkInv
    OBVIOUS
<1>1. graph \in Graphs /\ sources \in Seq(Kids)
    BY GraphShape DEF Init
<1>2. StackOK
    <2>1. stack = <<[kid |-> NoKid, edges |-> <<>>, next_level |-> <<>>]>>
        BY DEF Init
    <2>2. [kid |-> NoKid, edges |-> <<>>, next_level |-> <<>>] \in Calls
        BY DEF Calls, EdgeLists
    <2> QED BY <2>1, <2>2 DEF StackOK
<1>3. ext_subscribers \in [Kids -> EdgeLists] /\ local_subscribers \in [Kids -> EdgeLists]
    BY DEF Init, EdgeLists
<1>4. DOMAIN shq_writers = ThreadIds(graph)
    BY DEF Init
<1>5. WritersCounted
    <2>1. \A k \in Kids : Range(ext_subscribers[k]) = {}
        BY DEF Init, Range
    <2> QED BY <2>1 DEF WritersCounted
<1> QED BY <1>1, <1>2, <1>3, <1>4, <1>5 DEF WalkInv

-----------------------------------------------------------------------------
(* The steps that leave the lists of subscribers alone. *)
LEMMA NextSourceWalkInv == WalkInv /\ NextSource => WalkInv'
<1> SUFFICES ASSUME WalkInv, NextSource PROVE WalkInv'
    OBVIOUS
<1>1. Head(sources) \in Kids /\ Tail(sources) \in Seq(Kids)
    BY DEF WalkInv, NextSource
<1>2. stack # <<>> /\ Top \in Calls
    <2>1. stack # <<>>
        <3>1. Len(stack) = 1
            BY DEF NextSource
        <3>2. Len(<<>>) = 0
            OBVIOUS
        <3> QED BY <3>1, <3>2
    <2> QED BY <2>1, TopTyped DEF WalkInv
<1>3. StackOK'
    <2> DEFINE c == [Top EXCEPT !.kid = Head(sources), !.edges = graph.edges[Head(sources)]]
    <2>1. c \in Calls /\ c.kid \in Kids
        BY <1>1, <1>2, GraphShape DEF WalkInv, Calls
    <2>2. stack' = <<c>>
        BY DEF NextSource
    <2> HIDE DEF c
    <2> QED BY <2>1, <2>2 DEF StackOK
<1> QED BY <1>1, <1>3 DEF WalkInv, NextSource, WritersCounted, ThreadIds, thread_id

LEMMA DescendWalkInv == WalkInv /\ Descend => WalkInv'
<1> SUFFICES ASSUME WalkInv, Descend PROVE WalkInv'
    OBVIOUS
<1>1. stack # <<>> /\ Top \in Calls /\ Top.next_level # <<>> /\ Top.edges = <<>>
    BY TopTyped DEF WalkInv, Descend, LevelDone
<1> DEFINE k == Head(Top.next_level)
           c == [kid |-> k, edges |-> graph.edges[k], next_level |-> <<>>]
           d == [Top EXCEPT !.next_level = Tail(@)]
<1>2. k \in Kids /\ c \in Calls /\ c.kid \in Kids
    <2>1. k \in Kids
        BY <1>1 DEF Calls
    <2>2. graph.edges[k] \in EdgeLists
        BY <2>1, GraphShape DEF WalkInv
    <2> QED BY <2>1, <2>2 DEF Calls
<1>3. d \in Calls /\ d.edges = <<>>
    BY <1>1 DEF Calls
<1>4. stack' = <<c, d>> \o Tail(stack)
    BY DEF Descend
<1>5. <<c, d>> \o Tail(stack) = <<c>> \o (<<d>> \o Tail(stack))
    <2>1. Tail(stack) \in Seq(Calls)
        BY <1>1, TopTyped DEF WalkInv
    <2> HIDE DEF c, d
    <2> QED BY <2>1, <1>2, <1>3, PushTwo
<1> HIDE DEF c, d
<1>6. StackOK'
    <2>1. /\ <<d>> \o Tail(stack) \in Seq(Calls)
          /\ \A n \in DOMAIN (<<d>> \o Tail(stack)) :
               (<<d>> \o Tail(stack))[n].edges # <<>> => (<<d>> \o Tail(stack))[n].kid \in Kids
        BY <1>1, <1>3, TopTyped, Push DEF WalkInv
    <2> DEFINE below == <<d>> \o Tail(stack)
    <2>2. below \in Seq(Calls) /\ \A n \in DOMAIN below : below[n].edges # <<>> => below[n].kid \in Kids
        BY <2>1
    <2> HIDE DEF below
    <2>3. /\ <<c>> \o below \in Seq(Calls)
          /\ \A n \in DOMAIN (<<c>> \o below) :
               (<<c>> \o below)[n].edges # <<>> => (<<c>> \o below)[n].kid \in Kids
        BY <2>2, <1>2, Push
    <2>4. stack' = <<c>> \o below
        BY <1>4, <1>5 DEF below
    <2> QED BY <2>3, <2>4 DEF StackOK
<1> QED BY <1>6 DEF WalkInv, Descend, WritersCounted, ThreadIds, thread_id

LEMMA ReturnWalkInv == WalkInv /\ Return => WalkInv'
<1> SUFFICES ASSUME WalkInv, Return PROVE WalkInv'
    OBVIOUS
<1>1. StackOK'
    BY TopTyped DEF WalkInv, Return, LevelDone, StackOK
<1> QED BY <1>1 DEF WalkInv, Return, WritersCounted, ThreadIds, thread_id

-----------------------------------------------------------------------------
(* The step that adds a subscriber adds the writer too, where it must. *)
LEMMA InitEdgeWalkInv == WalkInv /\ InitEdge => WalkInv'
<1> SUFFICES ASSUME WalkInv, InitEdge PROVE WalkInv'
    OBVIOUS
<1> DEFINE k == Top.kid
           e == Head(Top.edges)
           t == thread_id[e[1]]
<1>1. stack # <<>> /\ Top.edges # <<>> /\ Top \in Calls /\ k \in Kids
    BY TopTyped DEF WalkInv, InitEdge
<1>2. e \in Kids \X Nat /\ e[1] \in Kids /\ Tail(Top.edges) \in EdgeLists
    BY <1>1 DEF Calls, EdgeLists
<1>3. UNCHANGED <<graph, sources>>
    BY DEF InitEdge
<1>4. t \in ThreadIds(graph) /\ ThreadIds(graph)' = ThreadIds(graph)
    BY <1>2, <1>3 DEF ThreadIds, thread_id
<1>5. \A list \in EdgeLists : /\ AddUnique(list, e) \in EdgeLists
                              /\ Range(AddUnique(list, e)) \subseteq {e} \cup Range(list)
                              /\ ~(Known(e) \/ IsNewInput(e)) => AddUnique(list, e) = list
    <2> TAKE list \in EdgeLists
    <2>1. <<e>> \o list \in EdgeLists /\ Range(<<e>> \o list) = {e} \cup Range(list)
        BY <1>2, RangeOfFront DEF EdgeLists
    <2> HIDE DEF e
    <2> QED BY <2>1 DEF AddUnique
<1>6. shq_writers' = [shq_writers EXCEPT ![t] = @ \cup DataWriter(k, e) \cup FlushWriter(k, e[1])]
    BY DEF InitEdge
<1>7. /\ DOMAIN shq_writers' = ThreadIds(graph)'
      /\ \A u \in ThreadIds(graph) : shq_writers[u] \subseteq shq_writers'[u]
      /\ DataWriter(k, e) \subseteq shq_writers'[t]
    BY <1>6, <1>4 DEF WalkInv
<1>8. ext_subscribers' = IF IsLocal(k, e) THEN ext_subscribers
                         ELSE [ext_subscribers EXCEPT ![k] = AddUnique(@, e)]
    BY DEF InitEdge
<1>9. local_subscribers' = IF IsLocal(k, e) THEN [local_subscribers EXCEPT ![k] = AddUnique(@, e)]
                           ELSE local_subscribers
    BY DEF InitEdge
<1>10. /\ ext_subscribers' \in [Kids -> EdgeLists]
       /\ local_subscribers' \in [Kids -> EdgeLists]
    BY <1>1, <1>5, <1>8, <1>9 DEF WalkInv
<1>11. StackOK'
    <2> DEFINE c == [Top EXCEPT !.edges = Tail(@), !.next_level = @ \o NextLevel(e)]
    <2>1. NextLevel(e) \in Seq(Kids)
        BY <1>2 DEF NextLevel
    <2>2. c \in Calls /\ c.kid \in Kids
        <3>1. Top.next_level \o NextLevel(e) \in Seq(Kids)
            BY <1>1, <2>1 DEF Calls
        <3> QED BY <1>1, <1>2, <3>1 DEF Calls
    <2>3. stack' = <<c>> \o Tail(stack)
        BY DEF InitEdge
    <2> HIDE DEF c
    <2> QED BY <1>1, <2>2, <2>3, TopTyped, Push DEF WalkInv, StackOK
<1>12. WritersCounted'
    <2> SUFFICES ASSUME NEW j \in Kids, NEW s \in Range(ext_subscribers'[j])
                 PROVE  thread_id[j] \in shq_writers'[thread_id[s[1]]]
        BY <1>3 DEF WritersCounted, thread_id
    <2>1. CASE s \in Range(ext_subscribers[j])
        <3>1. thread_id[j] \in shq_writers[thread_id[s[1]]]
            BY <2>1 DEF WalkInv, WritersCounted
        <3>2. s[1] \in Kids
            BY <2>1 DEF WalkInv, EdgeLists, Range
        <3>3. thread_id[s[1]] \in ThreadIds(graph)
            BY <3>2 DEF ThreadIds, thread_id
        <3> QED BY <3>1, <3>3, <1>7
    <2>2. CASE s \notin Range(ext_subscribers[j])
        <3>1. j = k /\ ~IsLocal(k, e) /\ ext_subscribers'[j] = AddUnique(ext_subscribers[k], e)
            BY <2>2, <1>1, <1>8 DEF WalkInv
        <3>2. ext_subscribers[k] \in EdgeLists
            BY <1>1 DEF WalkInv
        <3>3. s = e /\ (Known(e) \/ IsNewInput(e))
            BY <2>2, <3>1, <3>2, <1>5
        <3>4. thread_id[k] \in DataWriter(k, e)
            BY <3>1, <3>3 DEF DataWriter
        <3> QED BY <3>1, <3>3, <3>4, <1>7
    <2> QED BY <2>1, <2>2
<1> QED BY <1>3, <1>7, <1>10, <1>11, <1>12 DEF WalkInv

LEMMA WalkInvIsInductive == WalkInv /\ [Next]_initVars => WalkInv'
<1> SUFFICES ASSUME WalkInv, [Next]_initVars PROVE WalkInv'
    OBVIOUS
<1>1. CASE UNCHANGED initVars
    BY <1>1 DEF WalkInv, initVars, StackOK, WritersCounted, ThreadIds, thread_id
<1>2. CASE InitStep
    BY <1>2, NextSourceWalkInv, InitEdgeWalkInv, DescendWalkInv, ReturnWalkInv DEF InitStep
<1> QED BY <1>1, <1>2 DEF Next

(* report_shq_writers may turn a queue with at most one registered writer  *)
(* into a single-writer ring: in every graph, each thread with a kid that  *)
(* has a subscriber on another thread is registered as a writer of that    *)
(* thread's queue, from the moment the subscriber is listed.               *)
THEOREM WritersAlwaysCounted == Spec => []WritersCounted
<1>1. WalkInv => WritersCounted
    BY DEF WalkInv
<1> QED BY <1>1, InitWalkInv, WalkInvIsInductive, PTL DEF Spec

-----------------------------------------------------------------------------
(* Which kids the walk gets to, and what it lists on its way.              *)

(* The calls of the walk, and the subscribers a kid has so far. *)
Frames == Range(stack)
Listed(k) == Range(local_subscribers[k]) \cup Range(ext_subscribers[k])

(* A kid the walk has come to, and one whose turn is still to come. *)
Seen(k) == k \in Range(graph.sources) \/ inputs[k] # {}
Waiting(k) == k \in Range(sources) \/ \E f \in Frames : k \in Range(f.next_level)

(* What is listed is right. *)
ListsRight ==
    \A k \in Kids :
        /\ Listed(k) # {} => k \in Reached
        /\ \A e \in Listed(k) : e \in Feeds(k) /\ e[2] \in inputs[e[1]]
        /\ \A e \in Range(local_subscribers[k]) : thread_id[e[1]] = thread_id[k]
        /\ \A e \in Range(ext_subscribers[k]) : thread_id[e[1]] # thread_id[k]
        /\ IsInjective(local_subscribers[k]) /\ IsInjective(ext_subscribers[k])

(* A port that is known is one that the kid accepts. *)
InputsRight ==
    /\ inputs \in [Kids -> SUBSET Nat]
    /\ \A k \in Kids : \A p \in inputs[k] : <<k, p>> \in Accepts

(* The walk does not leave the kids the data can get to. *)
FramesRight ==
    /\ Range(sources) \subseteq Range(graph.sources)
    /\ \A f \in Frames : /\ Range(f.next_level) \subseteq Reached
                         /\ f.edges # <<>> => /\ f.kid \in Reached
                                              /\ Range(f.edges) \subseteq Range(graph.edges[f.kid])

(* No kid and no edge is left out. *)
NoneForgotten ==
    /\ \A k \in Kids : Seen(k) /\ ~Waiting(k) =>
            \A e \in Feeds(k) :
                e \in Listed(k) \/ \E f \in Frames : f.kid = k /\ e \in Range(f.edges)
    /\ stack = <<>> => sources = <<>>

ListsInv == ListsRight /\ InputsRight /\ FramesRight /\ NoneForgotten

(* The first element of a list, and two lists in a row. *)
LEMMA RangeOfTail ==
    ASSUME NEW S, NEW list \in Seq(S), list # <<>>
    PROVE  /\ Head(list) \in S /\ Tail(list) \in Seq(S)
           /\ Range(list) = {Head(list)} \cup Range(Tail(list))
<1>1. Head(list) \in S /\ Tail(list) \in Seq(S)
    OBVIOUS
<1>2. list = <<Head(list)>> \o Tail(list)
    <2> DEFINE other == <<Head(list)>> \o Tail(list)
    <2>1. other \in Seq(S) /\ Len(other) = Len(list)
        BY <1>1
    <2>2. \A n \in 1 .. Len(list) : other[n] = list[n]
        <3> SUFFICES ASSUME NEW n \in 1 .. Len(list) PROVE other[n] = list[n]
            OBVIOUS
        <3>1. CASE n = 1
            BY <3>1
        <3>2. CASE n # 1
            BY <3>2
        <3> QED BY <3>1, <3>2
    <2> HIDE DEF other
    <2>3. list = other
        BY <2>1, <2>2
    <2> QED BY <2>3 DEF other
<1>3. Range(<<Head(list)>> \o Tail(list)) = {Head(list)} \cup Range(Tail(list))
    BY <1>1, RangeOfFront
<1> QED BY <1>1, <1>2, <1>3

LEMMA NotEmpty ==
    ASSUME NEW list, Len(list) # 0
    PROVE  list # <<>>
<1>1. Len(<<>>) = 0
    OBVIOUS
<1> QED BY <1>1

LEMMA RangeOfTwo ==
    ASSUME NEW S, NEW c \in S, NEW d \in S, NEW below \in Seq(S)
    PROVE  /\ Range(<<c, d>> \o below) = {c, d} \cup Range(below)
           /\ <<c, d>> \o below # <<>>
<1>0. PICK rest : rest = <<d>> \o below
    OBVIOUS
<1>1. <<c, d>> \o below = <<c>> \o rest
    BY <1>0, PushTwo
<1>2. rest \in Seq(S) /\ Range(rest) = {d} \cup Range(below)
    BY <1>0, RangeOfFront
<1>3. Range(<<c>> \o rest) = {c} \cup Range(rest)
    <2>1. c \in S /\ rest \in Seq(S)
        BY <1>2
    <2> QED BY <2>1, RangeOfFront, Zenon
<1>4. Len(<<c, d>> \o below) # 0
    OBVIOUS
<1>5. <<c, d>> \o below # <<>>
    BY <1>4, NotEmpty
<1> QED BY <1>1, <1>2, <1>3, <1>5

LEMMA RangeOfBack ==
    ASSUME NEW S, NEW list \in Seq(S), NEW e \in S
    PROVE  list \o <<e>> \in Seq(S) /\ Range(list \o <<e>>) = Range(list) \cup {e}
<1> PICK n \in Nat : n = Len(list)
    OBVIOUS
<1> PICK longer : longer = list \o <<e>>
    OBVIOUS
<1>1. longer \in Seq(S) /\ Len(longer) = n + 1 /\ longer[n + 1] = e
    OBVIOUS
<1>2. \A m \in 1 .. n : longer[m] = list[m]
    OBVIOUS
<1>3. \A m \in 1 .. n + 1 : m \in 1 .. n \/ m = n + 1
    OBVIOUS
<1>4. n + 1 \in 1 .. n + 1 /\ \A m \in 1 .. n : m \in 1 .. n + 1
    OBVIOUS
<1>d. DOMAIN longer = 1 .. n + 1 /\ DOMAIN list = 1 .. n
    BY <1>1
<1>5. Range(longer) = {longer[m] : m \in 1 .. n + 1} /\ Range(list) = {list[m] : m \in 1 .. n}
    BY <1>d DEF Range
<1>6. Range(longer) = Range(list) \cup {e}
    BY <1>1, <1>2, <1>3, <1>4, <1>5
<1> QED BY <1>1, <1>6

LEMMA FrontInjective ==
    ASSUME NEW S, NEW list \in Seq(S), NEW e \in S, IsInjective(list), e \notin Range(list)
    PROVE  IsInjective(<<e>> \o list)
<1> PICK n \in Nat : n = Len(list)
    OBVIOUS
<1> PICK longer : longer = <<e>> \o list
    OBVIOUS
<1>1. longer \in Seq(S) /\ Len(longer) = n + 1 /\ longer[1] = e
    OBVIOUS
<1>2. \A m \in 1 .. n : longer[m + 1] = list[m]
    OBVIOUS
<1>3. \A m \in 1 .. n + 1 : m = 1 \/ (m - 1 \in 1 .. n /\ (m - 1) + 1 = m)
    OBVIOUS
<1>d. DOMAIN list = 1 .. n
    OBVIOUS
<1>4. \A m \in 1 .. n + 1 : m # 1 => m - 1 \in 1 .. n /\ longer[m] = list[m - 1] /\ longer[m] # e
    <2> TAKE m \in 1 .. n + 1
    <2> HAVE m # 1
    <2>1. m - 1 \in 1 .. n /\ longer[(m - 1) + 1] = list[m - 1] /\ (m - 1) + 1 = m
        BY <1>2, <1>3
    <2>2. list[m - 1] \in Range(list)
        BY <2>1, <1>d DEF Range
    <2> QED BY <2>1, <2>2
<1>5. \A m, j \in 1 .. n : list[m] = list[j] => m = j
    BY <1>d DEF IsInjective
<1>6. ASSUME NEW m \in 1 .. n + 1, NEW j \in 1 .. n + 1, longer[m] = longer[j]
      PROVE  m = j
    <2>1. CASE m = 1 \/ j = 1
        BY <2>1, <1>1, <1>4, <1>6
    <2>2. CASE m # 1 /\ j # 1
        <3>1. m - 1 = j - 1
            BY <2>2, <1>4, <1>5, <1>6
        <3> QED BY <3>1
    <2> QED BY <2>1, <2>2
<1>7. IsInjective(longer)
    BY <1>1, <1>6 DEF IsInjective
<1> QED BY <1>7

(* What the data can get to is closed, and the least such set. *)
LEMMA ReachedFacts ==
    ASSUME graph \in Graphs
    PROVE  /\ Reached \subseteq Kids /\ Closed(Reached)
           /\ \A S \in SUBSET Kids : Closed(S) => Reached \subseteq S
           /\ \A k \in Kids : \A e \in Feeds(k) : e \in Kids \X Nat
<1>1. \A k \in Kids : Range(graph.edges[k]) \subseteq Kids \X Nat
    BY GraphShape DEF EdgeLists, Range
<1>2. \A k \in Kids : \A e \in Feeds(k) : e \in Kids \X Nat /\ e[1] \in Kids
    BY <1>1 DEF Feeds
<1>3. Range(graph.sources) \subseteq Kids
    BY GraphShape DEF Range
<1>4. /\ Reached \subseteq Kids
      /\ \A S \in SUBSET Kids : Closed(S) => Reached \subseteq S
      /\ \A k \in Kids : (\A S \in SUBSET Kids : Closed(S) => k \in S) => k \in Reached
    BY DEF Reached
<1>5. Range(graph.sources) \subseteq Reached
    BY <1>3, <1>4 DEF Closed
<1>6. \A k \in Reached : \A e \in Feeds(k) : e[1] \in Reached
    <2> SUFFICES ASSUME NEW k \in Reached, NEW e \in Feeds(k) PROVE e[1] \in Reached
        OBVIOUS
    <2>1. k \in Kids /\ e[1] \in Kids
        BY <1>2, <1>4
    <2>2. \A S \in SUBSET Kids : Closed(S) => k \in S /\ e[1] \in S
        <3> SUFFICES ASSUME NEW S \in SUBSET Kids, Closed(S) PROVE k \in S /\ e[1] \in S
            OBVIOUS
        <3>1. k \in S
            BY <1>4
        <3> QED BY <3>1 DEF Closed
    <2> QED BY <2>1, <2>2, <1>4
<1> QED BY <1>2, <1>4, <1>5, <1>6 DEF Closed

(* ... and stays what it is. *)
LEMMA GraphKept ==
    ASSUME graph' = graph
    PROVE  /\ Reached' = Reached /\ thread_id' = thread_id
           /\ \A k : Feeds(k)' = Feeds(k)
BY DEF Reached, Closed, Feeds, thread_id

LEMMA InitListsInv == Init => ListsInv
<1> SUFFICES ASSUME Init PROVE ListsInv
    OBVIOUS
<1>1. /\ graph \in Graphs /\ inputs = [k \in Kids |-> {}] /\ sources = graph.sources
      /\ local_subscribers = [k \in Kids |-> <<>>] /\ ext_subscribers = [k \in Kids |-> <<>>]
      /\ stack = <<[kid |-> NoKid, edges |-> <<>>, next_level |-> <<>>]>>
    BY DEF Init
<1>2. Range(<<>>) = {} /\ IsInjective(<<>>)
    BY DEF Range, IsInjective
<1>3. Frames = {[kid |-> NoKid, edges |-> <<>>, next_level |-> <<>>]} /\ stack # <<>>
    BY <1>1 DEF Frames, Range
<1>4. \A k \in Kids : Listed(k) = {}
    BY <1>1, <1>2 DEF Listed
<1>5. ListsRight
    <2>1. \A k \in Kids : local_subscribers[k] = <<>> /\ ext_subscribers[k] = <<>>
        BY <1>1
    <2> QED BY <2>1, <1>2, <1>4 DEF ListsRight
<1>6. InputsRight
    BY <1>1 DEF InputsRight
<1>7. FramesRight
    BY <1>1, <1>2, <1>3 DEF FramesRight
<1>8. NoneForgotten
    BY <1>1, <1>3 DEF NoneForgotten, Seen, Waiting
<1> QED BY <1>5, <1>6, <1>7, <1>8 DEF ListsInv

(* The steps that list nothing. *)
LEMMA ListsFrame ==
    ASSUME WalkInv, ListsInv, UNCHANGED <<graph, inputs, local_subscribers, ext_subscribers>>,
           FramesRight', NoneForgotten'
    PROVE  ListsInv'
<1>1. \A k \in Kids : Listed(k)' = Listed(k)
    BY DEF Listed
<1>2. ListsRight' /\ InputsRight'
    BY <1>1, GraphKept DEF ListsInv, ListsRight, InputsRight
<1> QED BY <1>2 DEF ListsInv

LEMMA NextSourceListsInv ==
    ASSUME WalkInv, ListsInv, NextSource
    PROVE  ListsInv'
<1> PICK k : k = Head(sources)
    OBVIOUS
<1> PICK c : c = [Top EXCEPT !.kid = k, !.edges = graph.edges[k]]
    OBVIOUS
<1>1. /\ Top.edges = <<>> /\ sources # <<>> /\ stack' = <<c>> /\ sources' = Tail(sources)
      /\ Len(stack) = 1
      /\ UNCHANGED <<graph, inputs, local_subscribers, ext_subscribers>>
    BY DEF NextSource
<1>2. stack # <<>> /\ Top \in Calls /\ Frames = {Top}
    <2>1. stack \in Seq(Calls) /\ stack # <<>>
        <3>1. Len(stack) # 0
            BY <1>1
        <3> QED BY <3>1, NotEmpty DEF WalkInv, StackOK
    <2>a. Top = stack[1]
        BY <2>1 DEF Top
    <2>2. Range(stack) = {Top}
        BY <2>1, <2>a, <1>1 DEF Range
    <2> QED BY <2>1, <2>2, TopTyped DEF Frames, WalkInv
<1>3. /\ c.kid = k /\ c.edges = graph.edges[k] /\ c.next_level = Top.next_level
      /\ Frames' = {c} /\ stack' # <<>>
    BY <1>1, <1>2 DEF Calls, Frames, Range
<1>4. k \in Kids /\ Range(sources) = {k} \cup Range(sources')
    BY <1>1, RangeOfTail DEF WalkInv
<1>5. k \in Reached /\ Range(sources) \subseteq Range(graph.sources)
    BY <1>4, ReachedFacts DEF WalkInv, ListsInv, FramesRight, Closed
<1>6. FramesRight'
    BY <1>1, <1>2, <1>3, <1>4, <1>5, GraphKept DEF ListsInv, FramesRight
<1>7. NoneForgotten'
    <2> SUFFICES ASSUME NEW j \in Kids, Seen(j)', ~Waiting(j)', NEW e \in Feeds(j)
                 PROVE  e \in Listed(j)' \/ \E f \in Frames' : f.kid = j /\ e \in Range(f.edges)
        BY <1>1, <1>3, GraphKept DEF NoneForgotten
    <2>1. CASE j = k
        BY <2>1, <1>3 DEF Feeds
    <2>2. CASE j # k
        <3>1. Seen(j) /\ ~Waiting(j)
            BY <2>2, <1>1, <1>2, <1>3, <1>4 DEF Seen, Waiting
        <3>2. e \in Listed(j) \/ e \in Range(Top.edges)
            BY <3>1, <1>2 DEF ListsInv, NoneForgotten
        <3>3. Range(Top.edges) = {}
            BY <1>1 DEF Range
        <3> QED BY <3>2, <3>3, <1>1 DEF Listed
    <2> QED BY <2>1, <2>2
<1> QED BY <1>1, <1>6, <1>7, ListsFrame

LEMMA DescendListsInv ==
    ASSUME WalkInv, ListsInv, Descend
    PROVE  ListsInv'
<1> PICK k : k = Head(Top.next_level)
    OBVIOUS
<1>c. PICK c : c = [kid |-> k, edges |-> graph.edges[k], next_level |-> <<>>]
    OBVIOUS
<1>d. PICK d : d = [Top EXCEPT !.next_level = Tail(@)]
    OBVIOUS
<1>1. /\ stack # <<>> /\ Top.edges = <<>> /\ Top.next_level # <<>>
      /\ stack' = <<c, d>> \o Tail(stack)
      /\ UNCHANGED <<graph, inputs, local_subscribers, ext_subscribers, sources>>
    BY <1>c, <1>d DEF Descend, LevelDone
<1>2. Top \in Calls /\ Tail(stack) \in Seq(Calls)
    BY <1>1, TopTyped DEF WalkInv
<1>3. /\ k \in Kids /\ Range(Top.next_level) = {k} \cup Range(Tail(Top.next_level))
      /\ Tail(Top.next_level) \in Seq(Kids)
    BY <1>1, <1>2, RangeOfTail DEF Calls
<1>4. c \in Calls /\ d \in Calls
    <2>1. graph.edges[k] \in EdgeLists /\ <<>> \in Seq(Kids)
        BY <1>3, GraphShape DEF WalkInv
    <2> QED BY <2>1, <1>2, <1>3, <1>c, <1>d DEF Calls
<1>b. PICK below : below = Range(Tail(stack))
    OBVIOUS
<1>5. Frames = {Top} \cup below /\ Frames' = {c, d} \cup below /\ stack' # <<>>
    <2>1. Frames = {Top} \cup below
        BY <1>1, <1>b, RangeOfTail DEF WalkInv, StackOK, Frames, Top
    <2>2. /\ Range(<<c, d>> \o Tail(stack)) = {c, d} \cup Range(Tail(stack))
          /\ <<c, d>> \o Tail(stack) # <<>>
        BY <1>2, <1>4, RangeOfTwo, Zenon
    <2> QED BY <2>1, <2>2, <1>1, <1>b DEF Frames
<1>6. /\ c.kid = k /\ c.edges = graph.edges[k] /\ c.next_level = <<>> /\ Range(c.next_level) = {}
      /\ d.kid = Top.kid /\ d.edges = <<>> /\ d.next_level = Tail(Top.next_level)
    BY <1>1, <1>2, <1>c, <1>d DEF Calls, Range
<1>7. k \in Reached
    BY <1>3, <1>5 DEF ListsInv, FramesRight
<1>8. FramesRight'
    BY <1>1, <1>3, <1>5, <1>6, <1>7, GraphKept DEF ListsInv, FramesRight
<1>9. NoneForgotten'
    <2> SUFFICES ASSUME NEW j \in Kids, Seen(j)', ~Waiting(j)', NEW e \in Feeds(j)
                 PROVE  e \in Listed(j)' \/ \E f \in Frames' : f.kid = j /\ e \in Range(f.edges)
        BY <1>1, <1>5, GraphKept DEF NoneForgotten
    <2>1. CASE j = k
        BY <2>1, <1>5, <1>6 DEF Feeds
    <2>2. CASE j # k
        <3>1. Seen(j)
            BY <1>1 DEF Seen
        <3>2. ~Waiting(j)
            BY <2>2, <1>1, <1>3, <1>5, <1>6 DEF Waiting
        <3>3. e \in Listed(j) \/ \E f \in Frames : f.kid = j /\ e \in Range(f.edges)
            BY <3>1, <3>2 DEF ListsInv, NoneForgotten
        <3>4. Range(Top.edges) = {}
            BY <1>1 DEF Range
        <3>5. Listed(j)' = Listed(j)
            BY <1>1 DEF Listed
        <3> QED BY <3>3, <3>4, <3>5, <1>5
    <2> QED BY <2>1, <2>2
<1> QED BY <1>1, <1>8, <1>9, ListsFrame

LEMMA ReturnListsInv ==
    ASSUME WalkInv, ListsInv, Return
    PROVE  ListsInv'
<1>1. /\ stack # <<>> /\ Top.edges = <<>> /\ Top.next_level = <<>>
      /\ (Len(stack) = 1 => sources = <<>>) /\ stack' = Tail(stack)
      /\ UNCHANGED <<graph, inputs, local_subscribers, ext_subscribers, sources>>
    BY DEF Return, LevelDone
<1>2. Frames = {Top} \cup Frames'
    BY <1>1, RangeOfTail DEF WalkInv, StackOK, Frames, Top
<1>3. Range(Top.edges) = {} /\ Range(Top.next_level) = {}
    BY <1>1 DEF Range
<1>4. FramesRight'
    BY <1>1, <1>2, GraphKept DEF ListsInv, FramesRight
<1>5. \A j \in Kids : /\ Seen(j)' <=> Seen(j)
                      /\ Waiting(j)' <=> Waiting(j)
                      /\ Listed(j)' = Listed(j)
    BY <1>1, <1>2, <1>3 DEF Seen, Waiting, Listed
<1>6. stack' = <<>> => sources' = <<>>
    <2>1. stack \in Seq(Calls)
        BY DEF WalkInv, StackOK
    <2>2. Len(stack) \in Nat /\ Len(stack) # 0 /\ Len(Tail(stack)) = Len(stack) - 1
        BY <2>1, <1>1
    <2>3. \A s : s = <<>> => Len(s) = 0
        OBVIOUS
    <2>4. Tail(stack) = <<>> => Len(stack) = 1
        BY <2>2, <2>3
    <2> QED BY <2>4, <1>1
<1>7. NoneForgotten'
    BY <1>1, <1>2, <1>3, <1>5, <1>6, GraphKept DEF ListsInv, NoneForgotten
<1> QED BY <1>1, <1>4, <1>7, ListsFrame

(* What an accepted edge adds to a list, and an edge that is not accepted. *)
LEMMA AddUniqueFacts ==
    ASSUME NEW e \in Kids \X Nat, NEW list \in EdgeLists, Known(e) \/ IsNewInput(e) <=> e \in Accepts
    PROVE  /\ AddUnique(list, e) \in EdgeLists
           /\ e \in Accepts => Range(AddUnique(list, e)) = Range(list) \cup {e}
           /\ e \notin Accepts => AddUnique(list, e) = list
           /\ IsInjective(list) => IsInjective(AddUnique(list, e))
<1>1. CASE e \in Accepts /\ e \notin Range(list)
    <2>1. AddUnique(list, e) = <<e>> \o list
        BY <1>1 DEF AddUnique
    <2>2. <<e>> \o list \in EdgeLists /\ Range(<<e>> \o list) = {e} \cup Range(list)
        BY RangeOfFront DEF EdgeLists
    <2>3. IsInjective(list) => IsInjective(<<e>> \o list)
        BY <1>1, FrontInjective DEF EdgeLists
    <2> QED BY <2>1, <2>2, <2>3, <1>1
<1>2. CASE ~(e \in Accepts /\ e \notin Range(list))
    <2>1. AddUnique(list, e) = list
        BY <1>2 DEF AddUnique
    <2> QED BY <2>1, <1>2
<1> QED BY <1>1, <1>2

(* The step that walks one edge: what it reads and what it changes. *)
LEMMA EdgeStep ==
    ASSUME WalkInv, ListsInv, InitEdge
    PROVE  \E k, e, c, below :
              /\ k = Top.kid /\ k \in Kids /\ k \in Reached
              /\ e = Head(Top.edges) /\ e \in Kids \X Nat /\ e \in Range(graph.edges[k])
              /\ Known(e) \/ IsNewInput(e) <=> e \in Accepts
              /\ graph' = graph /\ sources' = sources /\ stack' # <<>>
              /\ c.kid = k /\ Range(Top.edges) = {e} \cup Range(c.edges)
              /\ Range(c.next_level) = Range(Top.next_level) \cup (IF IsNewInput(e) THEN {e[1]} ELSE {})
              /\ c.edges # <<>> => Top.edges # <<>>
              /\ Frames = {Top} \cup below /\ Frames' = {c} \cup below
<1>k. PICK k : k = Top.kid
    OBVIOUS
<1>e. PICK e : e = Head(Top.edges)
    OBVIOUS
<1>1. /\ stack # <<>> /\ Top.edges # <<>> /\ Top \in Calls /\ k \in Kids
      /\ graph' = graph /\ sources' = sources
      /\ stack' = <<[Top EXCEPT !.edges = Tail(@), !.next_level = @ \o NextLevel(e)]>> \o Tail(stack)
    BY <1>k, <1>e, TopTyped DEF WalkInv, InitEdge
<1>2. /\ e \in Kids \X Nat /\ Tail(Top.edges) \in EdgeLists
      /\ Range(Top.edges) = {e} \cup Range(Tail(Top.edges))
    <2>1. Top.edges \in Seq(Kids \X Nat)
        BY <1>1 DEF Calls, EdgeLists
    <2> QED BY <2>1, <1>1, <1>e, RangeOfTail DEF EdgeLists
<1>3. PICK below : below = Range(Tail(stack))
    OBVIOUS
<1>4. stack \in Seq(Calls) /\ Tail(stack) \in Seq(Calls) /\ Frames = {Top} \cup below
    BY <1>1, <1>3, RangeOfTail DEF WalkInv, StackOK, Frames, Top
<1>5. k \in Reached /\ e \in Range(graph.edges[k])
    BY <1>1, <1>2, <1>4, <1>k DEF ListsInv, FramesRight
<1>6. Known(e) \/ IsNewInput(e) <=> e \in Accepts
    <2>1. e = <<e[1], e[2]>> /\ e[1] \in Kids
        BY <1>2
    <2>2. Known(e) => e \in Accepts
        BY <2>1 DEF Known, ListsInv, InputsRight
    <2> QED BY <2>2 DEF IsNewInput
<1>7. /\ Top.next_level \o NextLevel(e) \in Seq(Kids)
      /\ Range(Top.next_level \o NextLevel(e))
             = Range(Top.next_level) \cup (IF IsNewInput(e) THEN {e[1]} ELSE {})
    <2>1. Top.next_level \in Seq(Kids) /\ e[1] \in Kids
        BY <1>1, <1>2 DEF Calls
    <2>2. CASE IsNewInput(e)
        <3>1. NextLevel(e) = <<e[1]>>
            BY <2>2 DEF NextLevel
        <3>2. \A list \in Seq(Kids), d \in Kids :
                 list \o <<d>> \in Seq(Kids) /\ Range(list \o <<d>>) = Range(list) \cup {d}
            BY RangeOfBack
        <3> QED BY <3>1, <3>2, <2>1, <2>2
    <2>3. CASE ~IsNewInput(e)
        <3>1. Top.next_level \o NextLevel(e) = Top.next_level
            BY <2>1, <2>3 DEF NextLevel
        <3> QED BY <3>1, <2>1, <2>3
    <2> QED BY <2>2, <2>3
<1>8. PICK c : c = [Top EXCEPT !.edges = Tail(@), !.next_level = @ \o NextLevel(e)]
    OBVIOUS
<1>9. c \in Calls /\ c.kid = k /\ c.edges = Tail(Top.edges) /\ c.next_level = Top.next_level \o NextLevel(e)
    BY <1>1, <1>2, <1>7, <1>8, <1>k DEF Calls
<1>10. Frames' = {c} \cup below /\ stack' # <<>>
    <2>1. stack' = <<c>> \o Tail(stack)
        BY <1>1, <1>8
    <2>2. Range(<<c>> \o Tail(stack)) = {c} \cup Range(Tail(stack))
        <3>1. c \in Calls /\ Tail(stack) \in Seq(Calls)
            BY <1>4, <1>9
        <3>2. \A d \in Calls, list \in Seq(Calls) : Range(<<d>> \o list) = {d} \cup Range(list)
            BY RangeOfFront
        <3> QED BY <3>1, <3>2
    <2>3. <<c>> \o Tail(stack) # <<>>
        <3>1. Len(<<c>> \o Tail(stack)) # 0
            BY <1>4, <1>9
        <3> QED BY <3>1, NotEmpty
    <2> QED BY <2>1, <2>2, <2>3, <1>3 DEF Frames
<1>11. /\ c.kid = k /\ Range(Top.edges) = {e} \cup Range(c.edges)
       /\ Range(c.next_level) = Range(Top.next_level) \cup (IF IsNewInput(e) THEN {e[1]} ELSE {})
    BY <1>2, <1>7, <1>9
<1>12. c.edges # <<>> => Top.edges # <<>>
    BY <1>1
<1> QED BY <1>k, <1>e, <1>1, <1>2, <1>4, <1>5, <1>6, <1>10, <1>11, <1>12

LEMMA InitEdgeListsInv ==
    ASSUME WalkInv, ListsInv, InitEdge
    PROVE  ListsInv'
<1>1. PICK k, e, c, below :
          /\ k = Top.kid /\ k \in Kids /\ k \in Reached
          /\ e = Head(Top.edges) /\ e \in Kids \X Nat /\ e \in Range(graph.edges[k])
          /\ Known(e) \/ IsNewInput(e) <=> e \in Accepts
          /\ graph' = graph /\ sources' = sources /\ stack' # <<>>
          /\ c.kid = k /\ Range(Top.edges) = {e} \cup Range(c.edges)
          /\ Range(c.next_level) = Range(Top.next_level) \cup (IF IsNewInput(e) THEN {e[1]} ELSE {})
          /\ c.edges # <<>> => Top.edges # <<>>
          /\ Frames = {Top} \cup below /\ Frames' = {c} \cup below
    BY EdgeStep
<1>k. k = Top.kid
    BY <1>1
<1>e. e = Head(Top.edges)
    BY <1>1
<1>2. /\ c.kid = k /\ Range(Top.edges) = {e} \cup Range(c.edges)
      /\ Range(c.next_level) = Range(Top.next_level) \cup (IF IsNewInput(e) THEN {e[1]} ELSE {})
      /\ c.edges # <<>> => Top.edges # <<>>
      /\ Frames = {Top} \cup below /\ Frames' = {c} \cup below
    BY <1>1
<1>3. /\ ListsRight /\ InputsRight /\ FramesRight /\ NoneForgotten
      /\ local_subscribers \in [Kids -> EdgeLists] /\ ext_subscribers \in [Kids -> EdgeLists]
      /\ graph \in Graphs
    BY DEF ListsInv, WalkInv
<1>4. /\ Reached' = Reached /\ thread_id' = thread_id
      /\ \A j : Feeds(j)' = Feeds(j)
    BY <1>1, GraphKept
<1>5. e[1] \in Kids /\ e = <<e[1], e[2]>> /\ e[2] \in Nat
    BY <1>1
<1>6. inputs' = [inputs EXCEPT ![e[1]] = IF e \in Accepts THEN @ \cup {e[2]} ELSE @]
    BY <1>e DEF InitEdge
<1>7. /\ inputs' \in [Kids -> SUBSET Nat]
      /\ \A j \in Kids : inputs[j] \subseteq inputs'[j]
      /\ \A j \in Kids : \A p \in inputs'[j] : p \in inputs[j] \/ (j = e[1] /\ p = e[2] /\ e \in Accepts)
      /\ e \in Accepts => e[2] \in inputs'[e[1]]
    BY <1>3, <1>5, <1>6 DEF InputsRight
<1>8. /\ IsLocal(k, e) => /\ local_subscribers' = [local_subscribers EXCEPT ![k] = AddUnique(@, e)]
                          /\ ext_subscribers' = ext_subscribers
      /\ ~IsLocal(k, e) => /\ ext_subscribers' = [ext_subscribers EXCEPT ![k] = AddUnique(@, e)]
                           /\ local_subscribers' = local_subscribers
    BY <1>k, <1>e DEF InitEdge
<1>9. /\ \A j \in Kids : IsInjective(local_subscribers'[j]) /\ IsInjective(ext_subscribers'[j])
      /\ \A j \in Kids : /\ Range(local_subscribers[j]) \subseteq Range(local_subscribers'[j])
                         /\ Range(ext_subscribers[j]) \subseteq Range(ext_subscribers'[j])
      /\ \A j \in Kids : \A s \in Range(local_subscribers'[j]) :
            s \in Range(local_subscribers[j]) \/ (j = k /\ s = e /\ e \in Accepts /\ IsLocal(k, e))
      /\ \A j \in Kids : \A s \in Range(ext_subscribers'[j]) :
            s \in Range(ext_subscribers[j]) \/ (j = k /\ s = e /\ e \in Accepts /\ ~IsLocal(k, e))
      /\ e \in Accepts => e \in Range(local_subscribers'[k]) \cup Range(ext_subscribers'[k])
    <2>1. \A j \in Kids : /\ local_subscribers[j] \in EdgeLists /\ ext_subscribers[j] \in EdgeLists
                          /\ IsInjective(local_subscribers[j]) /\ IsInjective(ext_subscribers[j])
        BY <1>3 DEF ListsRight
    <2>2. \A list \in EdgeLists :
              /\ AddUnique(list, e) \in EdgeLists
              /\ e \in Accepts => Range(AddUnique(list, e)) = Range(list) \cup {e}
              /\ e \notin Accepts => AddUnique(list, e) = list
              /\ IsInjective(list) => IsInjective(AddUnique(list, e))
        BY <1>1, AddUniqueFacts
    <2>3. CASE IsLocal(k, e)
        <3>1. /\ local_subscribers'[k] = AddUnique(local_subscribers[k], e)
              /\ \A j \in Kids : j # k => local_subscribers'[j] = local_subscribers[j]
              /\ ext_subscribers' = ext_subscribers
            BY <2>3, <1>1, <1>3, <1>8
        <3> QED BY <3>1, <2>1, <2>2, <2>3, <1>1
    <2>4. CASE ~IsLocal(k, e)
        <3>1. /\ ext_subscribers'[k] = AddUnique(ext_subscribers[k], e)
              /\ \A j \in Kids : j # k => ext_subscribers'[j] = ext_subscribers[j]
              /\ local_subscribers' = local_subscribers
            BY <2>4, <1>1, <1>3, <1>8
        <3> QED BY <3>1, <2>1, <2>2, <2>4, <1>1
    <2> QED BY <2>3, <2>4
<1>10. /\ \A j \in Kids : Listed(j) \subseteq Listed(j)'
       /\ \A j \in Kids : \A s \in Listed(j)' : s \in Listed(j) \/ (j = k /\ s = e /\ e \in Accepts)
       /\ e \in Accepts => e \in Listed(k)'
    BY <1>9 DEF Listed
<1>11. e \in Accepts => e \in Feeds(k) /\ e[1] \in Reached
    <2>1. e \in Accepts => e \in Feeds(k)
        BY <1>1 DEF Feeds
    <2> QED BY <2>1, <1>1, <1>3, ReachedFacts DEF Closed
<1>12. ListsRight'
    <2> SUFFICES ASSUME NEW j \in Kids
                 PROVE  /\ Listed(j)' # {} => j \in Reached
                        /\ \A s \in Listed(j)' : s \in Feeds(j) /\ s[2] \in inputs'[s[1]]
                        /\ \A s \in Range(local_subscribers'[j]) : thread_id[s[1]] = thread_id[j]
                        /\ \A s \in Range(ext_subscribers'[j]) : thread_id[s[1]] # thread_id[j]
                        /\ IsInjective(local_subscribers'[j]) /\ IsInjective(ext_subscribers'[j])
        BY <1>4 DEF ListsRight
    <2>1. Listed(j)' # {} => j \in Reached
        BY <1>1, <1>3, <1>10 DEF ListsRight
    <2>2. \A s \in Listed(j)' : s \in Feeds(j) /\ s[2] \in inputs'[s[1]]
        <3>1. \A s \in Listed(j) : s \in Feeds(j) /\ s[2] \in inputs[s[1]] /\ s[1] \in Kids
            BY <1>3, ReachedFacts DEF ListsRight
        <3> QED BY <3>1, <1>7, <1>10, <1>11
    <2>3. \A s \in Range(local_subscribers'[j]) : thread_id[s[1]] = thread_id[j]
        BY <1>3, <1>9 DEF ListsRight, IsLocal
    <2>4. \A s \in Range(ext_subscribers'[j]) : thread_id[s[1]] # thread_id[j]
        BY <1>3, <1>9 DEF ListsRight, IsLocal
    <2> QED BY <2>1, <2>2, <2>3, <2>4, <1>9
<1>13. InputsRight'
    BY <1>3, <1>5, <1>7 DEF InputsRight
<1>14. FramesRight'
    <2>1. IsNewInput(e) => e[1] \in Reached
        BY <1>11 DEF IsNewInput
    <2>2. /\ Range(c.next_level) \subseteq Reached
          /\ c.edges # <<>> => c.kid \in Reached /\ Range(c.edges) \subseteq Range(graph.edges[c.kid])
        BY <2>1, <1>1, <1>2, <1>3, <1>k DEF FramesRight
    <2> QED BY <2>2, <1>1, <1>2, <1>3, <1>4 DEF FramesRight
<1>15. NoneForgotten'
    <2> SUFFICES ASSUME NEW j \in Kids, Seen(j)', ~Waiting(j)', NEW s \in Feeds(j)
                 PROVE  s \in Listed(j)' \/ \E f \in Frames' : f.kid = j /\ s \in Range(f.edges)
        BY <1>1, <1>4 DEF NoneForgotten
    <2>1. ~Waiting(j) /\ ~(j = e[1] /\ IsNewInput(e))
        BY <1>1, <1>2 DEF Waiting
    <2>2. Seen(j)
        <3>1. CASE j \in Range(graph.sources) \/ inputs[j] # {}
            BY <3>1 DEF Seen
        <3>2. CASE j \notin Range(graph.sources) /\ inputs[j] = {}
            <4>1. inputs'[j] # {}
                BY <3>2, <1>1 DEF Seen
            <4>2. j = e[1] /\ e \in Accepts
                BY <4>1, <3>2, <1>7
            <4>3. IsNewInput(e)
                BY <4>2, <3>2 DEF IsNewInput, Known
            <4> QED BY <4>2, <4>3, <2>1
        <3> QED BY <3>1, <3>2
    <2>3. s \in Listed(j) \/ \E f \in Frames : f.kid = j /\ s \in Range(f.edges)
        BY <2>1, <2>2, <1>3 DEF NoneForgotten
    <2>4. CASE s \in Listed(j)
        BY <2>4, <1>10
    <2>5. CASE \E f \in below : f.kid = j /\ s \in Range(f.edges)
        BY <2>5, <1>2
    <2>6. CASE Top.kid = j /\ s \in Range(Top.edges)
        <3>1. j = k /\ (s = e \/ s \in Range(c.edges))
            BY <2>6, <1>2, <1>k
        <3>2. s \in Accepts
            BY DEF Feeds
        <3> QED BY <3>1, <3>2, <1>2, <1>10
    <2> QED BY <2>3, <2>4, <2>5, <2>6, <1>2
<1> QED BY <1>12, <1>13, <1>14, <1>15 DEF ListsInv

LEMMA ListsInvIsInductive == WalkInv /\ ListsInv /\ [Next]_initVars => ListsInv'
<1> SUFFICES ASSUME WalkInv, ListsInv, [Next]_initVars PROVE ListsInv'
    OBVIOUS
<1>1. CASE UNCHANGED initVars
    <2>1. UNCHANGED <<graph, inputs, local_subscribers, ext_subscribers, sources, stack>>
        BY <1>1 DEF initVars
    <2>2. FramesRight' /\ NoneForgotten'
        BY <2>1, GraphKept DEF ListsInv, FramesRight, NoneForgotten, Frames, Seen, Waiting, Listed
    <2> QED BY <2>1, <2>2, ListsFrame
<1>2. CASE InitStep
    BY <1>2, NextSourceListsInv, InitEdgeListsInv, DescendListsInv, ReturnListsInv DEF InitStep
<1> QED BY <1>1, <1>2 DEF Next

(* At the end the walk has come to each kid the data can get to. *)
LEMMA AllSeen ==
    ASSUME WalkInv, ListsInv, InitDone
    PROVE  Reached \subseteq {k \in Kids : Seen(k)}
<1> DEFINE W == {k \in Kids : Seen(k)}
<1>1. /\ ListsRight /\ NoneForgotten /\ stack = <<>> /\ sources = <<>> /\ graph \in Graphs
    BY DEF ListsInv, InitDone, NoneForgotten, WalkInv
<1>2. Frames = {} /\ \A k \in Kids : ~Waiting(k)
    BY <1>1 DEF Frames, Waiting, Range
<1>3. \A k \in Kids : Seen(k) => Feeds(k) \subseteq Listed(k)
    BY <1>1, <1>2 DEF NoneForgotten
<1>4. Range(graph.sources) \subseteq W
    BY <1>1, GraphShape DEF Seen, Range
<1>5. \A k \in W : \A e \in Feeds(k) : e[1] \in W
    <2> TAKE k \in W
    <2> TAKE e \in Feeds(k)
    <2>1. e[2] \in inputs[e[1]] /\ e[1] \in Kids
        BY <1>1, <1>3, ReachedFacts DEF ListsRight
    <2> QED BY <2>1 DEF Seen
<1>6. Closed(W)
    BY <1>4, <1>5 DEF Closed
<1> HIDE DEF W
<1>7. W \subseteq Kids => Reached \subseteq W
    BY <1>1, <1>6, ReachedFacts
<1> QED BY <1>7 DEF W

(* ws_init_from_sources lists, in every graph, each subscriber of each kid *)
(* the data can get to exactly once, in the list of its thread, and gives  *)
(* no subscriber to a kid the data cannot get to.                          *)
THEOREM SubscribersAreExact == Spec => []SubscribersExact
<1>1. ASSUME WalkInv, ListsInv, InitDone PROVE SubscribersExact
    <2>1. /\ ListsRight /\ NoneForgotten /\ stack = <<>> /\ sources = <<>> /\ graph \in Graphs
        BY <1>1 DEF ListsInv, InitDone, NoneForgotten, WalkInv
    <2>2. Frames = {} /\ \A k \in Kids : ~Waiting(k)
        BY <2>1 DEF Frames, Waiting, Range
    <2>3. \A k \in Kids : Seen(k) => Feeds(k) \subseteq Listed(k)
        BY <2>1, <2>2 DEF NoneForgotten
    <2>4. Reached \subseteq {k \in Kids : Seen(k)}
        BY <1>1, AllSeen
    <2>5. \A k \in Kids : Listed(k) = IF k \in Reached THEN Feeds(k) ELSE {}
        BY <2>1, <2>3, <2>4 DEF ListsRight
    <2> SUFFICES ASSUME NEW k \in Kids, NEW fed, fed = IF k \in Reached THEN Feeds(k) ELSE {}
                 PROVE  /\ Range(local_subscribers[k]) = {e \in fed : thread_id[e[1]] = thread_id[k]}
                        /\ Range(ext_subscribers[k]) = {e \in fed : thread_id[e[1]] # thread_id[k]}
                        /\ IsInjective(local_subscribers[k]) /\ IsInjective(ext_subscribers[k])
        BY DEF SubscribersExact
    <2>6. Range(local_subscribers[k]) \cup Range(ext_subscribers[k]) = fed
        BY <2>5 DEF Listed
    <2>7. /\ \A e \in Range(local_subscribers[k]) : thread_id[e[1]] = thread_id[k]
          /\ \A e \in Range(ext_subscribers[k]) : thread_id[e[1]] # thread_id[k]
          /\ IsInjective(local_subscribers[k]) /\ IsInjective(ext_subscribers[k])
        BY <2>1 DEF ListsRight
    <2> QED BY <2>6, <2>7
<1>2. WalkInv /\ ListsInv => SubscribersExact
    BY <1>1 DEF SubscribersExact
<1> QED BY <1>2, InitWalkInv, WalkInvIsInductive, InitListsInv, ListsInvIsInductive, PTL DEF Spec

-----------------------------------------------------------------------------
(* The order in which the kids are flushed. *)

(* A kid with state to flush that the walk has come to is in the order,    *)
(* once, unless the order is full.                                         *)
FlushOrder ==
    /\ flush \in Seq(Kids) /\ Len(flush) <= MAX_FLUSH_SUBS
    /\ IsInjective(flush) /\ Range(flush) \subseteq flush_register \cap graph.flushers
    /\ Len(flush) < MAX_FLUSH_SUBS => flush_register \cap graph.flushers \subseteq Range(flush)

FlushSeen == \A k \in Kids : Seen(k) => k \in flush_register \/ k \in Range(sources)

FlushInv == FlushOrder /\ FlushSeen

(* An element behind a list that it is not in. *)
LEMMA BackInjective ==
    ASSUME NEW S, NEW list \in Seq(S), NEW e \in S, IsInjective(list), e \notin Range(list)
    PROVE  IsInjective(Append(list, e))
<1> PICK n \in Nat : n = Len(list)
    OBVIOUS
<1> PICK longer : longer = Append(list, e)
    OBVIOUS
<1>1. longer \in Seq(S) /\ Len(longer) = n + 1 /\ longer[n + 1] = e
    OBVIOUS
<1>2. \A m \in 1 .. n : longer[m] = list[m]
    OBVIOUS
<1>3. \A m \in 1 .. n + 1 : m \in 1 .. n \/ m = n + 1
    OBVIOUS
<1>d. DOMAIN list = 1 .. n
    OBVIOUS
<1>4. \A m \in 1 .. n : longer[m] = list[m] /\ longer[m] # e
    BY <1>2, <1>d DEF Range
<1>5. \A m, j \in 1 .. n : list[m] = list[j] => m = j
    BY <1>d DEF IsInjective
<1>6. \A m, j \in 1 .. n + 1 : longer[m] = longer[j] => m = j
    BY <1>1, <1>3, <1>4, <1>5
<1>7. DOMAIN longer = 1 .. n + 1
    BY <1>1
<1>8. IsInjective(longer)
    BY <1>6, <1>7 DEF IsInjective
<1> QED BY <1>8

(* To move an element to the end only changes the order. *)
LEMMA MovedFacts ==
    ASSUME NEW S, NEW list \in Seq(S), NEW k \in Range(list), IsInjective(list)
    PROVE  /\ MovedToEnd(list, k) \in Seq(S)
           /\ Len(MovedToEnd(list, k)) = Len(list)
           /\ IsInjective(MovedToEnd(list, k))
           /\ Range(MovedToEnd(list, k)) = Range(list)
<1> PICK n \in Nat : n = Len(list)
    OBVIOUS
<1>d. DOMAIN list = 1 .. n /\ \A m \in 1 .. n : list[m] \in S
    OBVIOUS
<1>a. PICK place : place = CHOOSE m \in DOMAIN list : list[m] = k
    OBVIOUS
<1>1. place \in 1 .. n /\ list[place] = k
    BY <1>a, <1>d DEF Range
<1>m. PICK moved : moved = MovedToEnd(list, k)
    OBVIOUS
<1>2. moved = [m \in 1 .. n |-> IF m < place THEN list[m] ELSE IF m = n THEN k ELSE list[m + 1]]
    BY <1>a, <1>d, <1>m DEF MovedToEnd
(* The place in the list of what is now at m. *)
<1>s. PICK from : from = [m \in 1 .. n |-> IF m < place THEN m ELSE IF m = n THEN place ELSE m + 1]
    OBVIOUS
<1>3. \A m \in 1 .. n : from[m] \in 1 .. n /\ moved[m] = list[from[m]]
    BY <1>1, <1>2, <1>s
<1>4. \A m, j \in 1 .. n : from[m] = from[j] => m = j
    BY <1>1, <1>s
<1>5. \A m \in 1 .. n : \E j \in 1 .. n : from[j] = m
    <2> TAKE m \in 1 .. n
    <2>1. CASE m < place
        BY <2>1, <1>s
    <2>2. CASE m = place
        <3>1. n \in 1 .. n /\ from[n] = m
            BY <2>2, <1>1, <1>s
        <3> QED BY <3>1
    <2>3. CASE m > place
        <3>1. m - 1 \in 1 .. n /\ from[m - 1] = m
            BY <2>3, <1>1, <1>s
        <3> QED BY <3>1
    <2> QED BY <2>1, <2>2, <2>3, <1>1
<1>6. DOMAIN moved = 1 .. n
    BY <1>2
<1>7. moved \in Seq(S) /\ Len(moved) = n
    <2>1. moved \in [1 .. n -> S]
        BY <1>2, <1>3, <1>d
    <2> QED BY <2>1
<1>8. Range(moved) = {moved[m] : m \in 1 .. n} /\ Range(list) = {list[m] : m \in 1 .. n}
    BY <1>d, <1>6 DEF Range
<1>9. Range(moved) = Range(list)
    <2>1. \A m \in 1 .. n : moved[m] \in Range(list)
        BY <1>3, <1>8
    <2>2. \A m \in 1 .. n : list[m] \in Range(moved)
        <3> TAKE m \in 1 .. n
        <3>1. PICK j \in 1 .. n : from[j] = m
            BY <1>5
        <3>2. moved[j] = list[m]
            BY <3>1, <1>3
        <3> QED BY <3>2, <1>8
    <2>3. Range(moved) \subseteq Range(list)
        BY <2>1, <1>8
    <2>4. Range(list) \subseteq Range(moved)
        BY <2>2, <1>8
    <2> QED BY <2>3, <2>4
<1>10. \A m, j \in 1 .. n : list[m] = list[j] => m = j
    BY <1>d DEF IsInjective
<1>11. IsInjective(moved)
    <2>1. \A m, j \in 1 .. n : moved[m] = moved[j] => m = j
        BY <1>3, <1>4, <1>10
    <2> QED BY <2>1, <1>6 DEF IsInjective
<1> QED BY <1>7, <1>9, <1>11, <1>m

(* A call of ws_init_flush. *)
LEMMA FlushCall ==
    ASSUME FlushOrder, NEW k \in Kids, ws_init_flush(k), graph' = graph
    PROVE  FlushOrder' /\ flush_register' = flush_register \cup {k}
<1>1. flush_register' = flush_register \cup {k}
    BY DEF ws_init_flush
<1>2. /\ flush \in Seq(Kids) /\ Len(flush) <= MAX_FLUSH_SUBS
      /\ IsInjective(flush) /\ Range(flush) \subseteq flush_register \cap graph.flushers
      /\ Len(flush) < MAX_FLUSH_SUBS => flush_register \cap graph.flushers \subseteq Range(flush)
      /\ MAX_FLUSH_SUBS \in Nat
    BY GraphConstants DEF FlushOrder
<1>3. CASE k \in Range(flush)
    <2>3. k \in flush_register
        BY <1>2, <1>3
    <2>1. flush' = MovedToEnd(flush, k)
        BY <2>3, <1>3 DEF ws_init_flush
    <2>2. flush' \in Seq(Kids) /\ Len(flush') = Len(flush) /\ IsInjective(flush') /\ Range(flush') = Range(flush)
        BY <2>1, <1>2, <1>3, MovedFacts
    <2> QED BY <2>2, <2>3, <1>1, <1>2 DEF FlushOrder
<1>4. CASE /\ k \notin Range(flush) /\ k \notin flush_register
           /\ k \in graph.flushers /\ Len(flush) < MAX_FLUSH_SUBS
    <2>1. flush' = Append(flush, k)
        BY <1>4 DEF ws_init_flush
    <2>2. /\ flush' \in Seq(Kids) /\ Len(flush') = Len(flush) + 1 /\ Len(flush) \in Nat
        BY <2>1, <1>2
    <2>3. IsInjective(flush')
        BY <2>1, <1>2, <1>4, BackInjective
    <2>4. Range(flush') = Range(flush) \cup {k}
        <3>1. flush' = flush \o <<k>>
            BY <2>1, <1>2
        <3>2. \A list \in Seq(Kids), d \in Kids : Range(list \o <<d>>) = Range(list) \cup {d}
            BY RangeOfBack
        <3> QED BY <3>1, <3>2, <1>2
    <2>5. Len(flush') <= MAX_FLUSH_SUBS
        BY <2>2, <1>2, <1>4
    <2>6. Len(flush') < MAX_FLUSH_SUBS => flush_register' \cap graph.flushers \subseteq Range(flush')
        BY <2>4, <1>1, <1>2, <1>4
    <2>7. Range(flush') \subseteq flush_register' \cap graph.flushers
        BY <2>4, <1>1, <1>2, <1>4
    <2> QED BY <2>2, <2>3, <2>5, <2>6, <2>7, <1>1 DEF FlushOrder
<1>5. CASE /\ k \notin Range(flush)
           /\ ~(k \notin flush_register /\ k \in graph.flushers /\ Len(flush) < MAX_FLUSH_SUBS)
    <2>1. flush' = flush
        BY <1>5 DEF ws_init_flush
    <2>2. Len(flush) < MAX_FLUSH_SUBS => flush_register' \cap graph.flushers \subseteq Range(flush)
        BY <1>1, <1>2, <1>5
    <2> QED BY <2>1, <2>2, <1>1, <1>2 DEF FlushOrder
<1> QED BY <1>1, <1>3, <1>4, <1>5

LEMMA InitFlushInv == Init => FlushInv
<1> SUFFICES ASSUME Init PROVE FlushInv
    OBVIOUS
<1>1. /\ flush = <<>> /\ flush_register = {} /\ sources = graph.sources
      /\ inputs = [k \in Kids |-> {}]
    BY DEF Init
<1>2. Range(flush) = {} /\ IsInjective(flush) /\ flush \in Seq(Kids) /\ Len(flush) = 0
    BY <1>1 DEF Range, IsInjective
<1>3. FlushOrder
    BY <1>1, <1>2, GraphConstants DEF FlushOrder
<1>4. FlushSeen
    BY <1>1 DEF FlushSeen, Seen
<1> QED BY <1>3, <1>4 DEF FlushInv

LEMMA FlushInvIsInductive == WalkInv /\ ListsInv /\ FlushInv /\ [Next]_initVars => FlushInv'
<1> SUFFICES ASSUME WalkInv, ListsInv, FlushInv, [Next]_initVars PROVE FlushInv'
    OBVIOUS
<1>f. FlushOrder /\ FlushSeen
    BY DEF FlushInv
<1>1. CASE UNCHANGED <<graph, inputs, flush_register, flush, sources>>
    BY <1>1 DEF FlushInv, FlushOrder, FlushSeen, Seen
<1>2. CASE NextSource
    <2>k. PICK k : k = Head(sources)
        OBVIOUS
    <2>1. /\ sources # <<>> /\ sources' = Tail(sources) /\ UNCHANGED <<graph, inputs>>
          /\ ws_init_flush(k)
        BY <1>2, <2>k DEF NextSource
    <2>2. k \in Kids /\ Range(sources) = {k} \cup Range(sources')
        BY <2>1, <2>k, RangeOfTail DEF WalkInv
    <2>3. FlushOrder' /\ flush_register' = flush_register \cup {k}
        BY <1>f, <2>1, <2>2, FlushCall
    <2>4. FlushSeen'
        BY <1>f, <2>1, <2>2, <2>3 DEF FlushSeen, Seen
    <2> QED BY <2>3, <2>4 DEF FlushInv
<1>3. CASE InitEdge
    <2>1. PICK e : e = Head(Top.edges) /\ e \in Kids \X Nat
        BY <1>3, EdgeStep
    <2>2. /\ inputs' = [inputs EXCEPT ![e[1]] = IF e \in Accepts THEN @ \cup {e[2]} ELSE @]
          /\ ws_init_flush(e[1]) /\ UNCHANGED <<graph, sources>>
        BY <1>3, <2>1 DEF InitEdge
    <2>3. e[1] \in Kids
        BY <2>1
    <2>4. FlushOrder' /\ flush_register' = flush_register \cup {e[1]}
        BY <1>f, <2>2, <2>3, FlushCall
    <2>5. \A j \in Kids : Seen(j)' => Seen(j) \/ j = e[1]
        BY <2>2, <2>3 DEF Seen, ListsInv, InputsRight
    <2>6. FlushSeen'
        BY <1>f, <2>2, <2>4, <2>5 DEF FlushSeen
    <2> QED BY <2>4, <2>6 DEF FlushInv
<1>4. CASE Descend
    <2>k. PICK k : k = Head(Top.next_level)
        OBVIOUS
    <2>1. /\ stack # <<>> /\ Top.next_level # <<>> /\ UNCHANGED <<graph, inputs, sources>>
          /\ ws_init_flush(k)
        BY <1>4, <2>k DEF Descend, LevelDone
    <2>2. k \in Kids
        BY <2>1, <2>k, TopTyped DEF WalkInv, Calls
    <2>3. FlushOrder' /\ flush_register' = flush_register \cup {k}
        BY <1>f, <2>1, <2>2, FlushCall
    <2>4. FlushSeen'
        BY <1>f, <2>1, <2>3 DEF FlushSeen, Seen
    <2> QED BY <2>3, <2>4 DEF FlushInv
<1>5. CASE Return
    BY <1>1, <1>5 DEF Return
<1>6. CASE UNCHANGED initVars
    BY <1>1, <1>6 DEF initVars
<1> QED BY <1>2, <1>3, <1>4, <1>5, <1>6 DEF Next, InitStep

(* ws_init_flush puts no kid into the order twice, leaves out a kid with   *)
(* state to flush only if the table is full, and the walk shows it each    *)
(* kid the data can get to.                                                *)
THEOREM FlushersAreOnce == Spec => []FlushersOnce
<1>1. ASSUME WalkInv, ListsInv, FlushInv PROVE FlushersOnce
    <2>1. FlushOrder /\ FlushSeen
        BY <1>1 DEF FlushInv
    <2>2. IsInjective(flush) /\ (Len(flush) < MAX_FLUSH_SUBS => Range(flush) = flush_register \cap graph.flushers)
        BY <2>1 DEF FlushOrder
    <2>3. ASSUME InitDone PROVE Reached \subseteq flush_register
        <3>1. Reached \subseteq {k \in Kids : Seen(k)}
            BY <1>1, <2>3, AllSeen
        <3>2. sources = <<>>
            BY <1>1, <2>3 DEF InitDone, ListsInv, NoneForgotten
        <3>3. Range(sources) = {}
            BY <3>2 DEF Range
        <3> QED BY <3>1, <3>3, <2>1 DEF FlushSeen
    <2> QED BY <2>2, <2>3 DEF FlushersOnce
<1>2. WalkInv /\ ListsInv /\ FlushInv => FlushersOnce
    BY <1>1
<1> QED BY <1>2, InitWalkInv, WalkInvIsInductive, InitListsInv, ListsInvIsInductive,
           InitFlushInv, FlushInvIsInductive, PTL DEF Spec

-----------------------------------------------------------------------------
(* The flush.                                                              *)

(* The least element of a set of natural numbers. *)
Less == {p \in Nat \X Nat : p[1] < p[2]}

LEMMA LessWF == IsWellFoundedOn(Less, Nat)
BY NatLessThanWellFounded, Zenon DEF OpToRel, Less

LEMMA LeastNat ==
    ASSUME NEW T \in SUBSET Nat, T # {}
    PROVE  \E x \in T : \A y \in T : x <= y
<1>1. PICK x \in T : \A y \in T : ~ (<<y, x>> \in Less)
    BY LessWF, WFMin
<1>2. ASSUME NEW y \in T PROVE x <= y
    <2>1. ~ (<<y, x>> \in Less)
        BY <1>1
    <2>2. x \in Nat /\ y \in Nat
        OBVIOUS
    <2>3. ~ (y < x)
        BY <2>1, <2>2 DEF Less
    <2> QED BY <2>2, <2>3
<1> QED BY <1>2

(* The lists ss[1], ss[1] \o ss[2] and so on, up to n of them. *)
Joins(ss, T, n, f) ==
    /\ f \in [1 .. n -> Seq(T)]
    /\ \A m \in 1 .. n : f[m] = IF m = 1 THEN ss[m] ELSE f[m - 1] \o ss[m]

(* They exist: the least n without them would have them one before. *)
LEMMA JoinsExist ==
    ASSUME NEW T, NEW ss \in Seq(Seq(T)), NEW n \in Nat, n <= Len(ss)
    PROVE  \E f : Joins(ss, T, n, f)
<1>1. PICK bad : bad = {m \in Nat : m <= Len(ss) /\ ~\E f : Joins(ss, T, m, f)}
    OBVIOUS
<1>2. bad \in SUBSET Nat
    BY <1>1
<1>3. CASE bad # {}
    <2>1. PICK m \in bad : \A k \in bad : m <= k
        BY <1>2, <1>3, LeastNat
    <2>2. m \in Nat /\ m <= Len(ss) /\ ~\E f : Joins(ss, T, m, f)
        BY <1>1
    <2>3. m # 0
        <3>1. Joins(ss, T, 0, <<>>)
            BY DEF Joins
        <3> QED BY <3>1, <2>2
    <2>4. PICK l : l = m - 1
        OBVIOUS
    <2>5. l \in Nat /\ l < m /\ m = l + 1 /\ l <= Len(ss)
        BY <2>2, <2>3, <2>4
    <2>6. l \notin bad
        BY <2>1, <2>2, <2>5
    <2>7. PICK f : Joins(ss, T, l, f)
        BY <1>1, <2>5, <2>6
    <2>8. m \in DOMAIN ss /\ ss[m] \in Seq(T)
        BY <2>2, <2>3
    <2>9. PICK last : last = IF m = 1 THEN ss[m] ELSE f[l] \o ss[m]
        OBVIOUS
    <2>10. last \in Seq(T)
        <3>1. CASE m = 1
            BY <3>1, <2>8, <2>9
        <3>2. CASE m # 1
            <4>1. f[l] \in Seq(T)
                BY <3>2, <2>5, <2>7 DEF Joins
            <4> QED BY <3>2, <4>1, <2>8, <2>9
        <3> QED BY <3>1, <3>2
    <2>11. PICK g : g = [k \in 1 .. m |-> IF k = m THEN last ELSE f[k]]
        OBVIOUS
    <2>12. g \in [1 .. m -> Seq(T)]
        BY <2>5, <2>7, <2>10, <2>11 DEF Joins
    <2>13. ASSUME NEW k \in 1 .. m
           PROVE  g[k] = IF k = 1 THEN ss[k] ELSE g[k - 1] \o ss[k]
        <3>1. CASE k = m
            <4>1. m # 1 => m - 1 \in 1 .. m /\ m - 1 # m
                BY <2>5
            <4>2. m # 1 => g[m - 1] = f[l]
                BY <2>4, <2>11, <4>1
            <4> QED BY <3>1, <4>2, <2>9, <2>11
        <3>2. CASE k # m
            <4>1. k \in 1 .. l /\ (k # 1 => k - 1 \in 1 .. m /\ k - 1 # m)
                BY <3>2, <2>5
            <4>2. g[k] = f[k] /\ (k # 1 => g[k - 1] = f[k - 1])
                BY <3>2, <4>1, <2>11
            <4> QED BY <4>1, <4>2, <2>7 DEF Joins
        <3> QED BY <3>1, <3>2
    <2>14. Joins(ss, T, m, g)
        BY <2>12, <2>13 DEF Joins
    <2> QED BY <2>2, <2>14
<1>4. CASE bad = {}
    BY <1>1, <1>4
<1> QED BY <1>3, <1>4

(* What FlattenSeq makes of lists over T. *)
LEMMA Flattened ==
    ASSUME NEW T, NEW ss \in Seq(Seq(T))
    PROVE  /\ FlattenSeq(ss) \in Seq(T)
           /\ ss # <<>> /\ (\A m \in DOMAIN ss : ss[m] # <<>>) => FlattenSeq(ss) # <<>>
<1>1. CASE Len(ss) = 0
    BY <1>1 DEF FlattenSeq
<1>2. CASE Len(ss) # 0
    <2> DEFINE flatten == CHOOSE f : f = [k \in 1 .. Len(ss) |-> IF k = 1 THEN ss[k] ELSE f[k - 1] \o ss[k]]
    <2>1. PICK n : n = Len(ss) /\ n \in Nat /\ n \in 1 .. n
        BY <1>2
    <2>2. FlattenSeq(ss) = flatten[Len(ss)]
        BY <1>2 DEF FlattenSeq
    <2>3. PICK g : Joins(ss, T, n, g)
        BY <2>1, JoinsExist
    <2>4. g = [k \in 1 .. Len(ss) |-> IF k = 1 THEN ss[k] ELSE g[k - 1] \o ss[k]]
        BY <2>1, <2>3 DEF Joins
    <2>5. flatten = [k \in 1 .. Len(ss) |-> IF k = 1 THEN ss[k] ELSE flatten[k - 1] \o ss[k]]
        BY <2>4
    <2> HIDE DEF flatten
    <2>u. \A k \in 1 .. n : flatten[k] = IF k = 1 THEN ss[k] ELSE flatten[k - 1] \o ss[k]
        BY <2>1, <2>5
    <2>6. \A k \in 1 .. n : flatten[k] \in Seq(T)
        <3>1. PICK bad : bad = {k \in 1 .. n : flatten[k] \notin Seq(T)}
            OBVIOUS
        <3>2. CASE bad # {}
            <4>1. bad \in SUBSET Nat
                BY <3>1
            <4>2. PICK k \in bad : \A j \in bad : k <= j
                BY <4>1, <3>2, LeastNat
            <4>3. k \in 1 .. n /\ flatten[k] \notin Seq(T)
                BY <3>1
            <4>4. ss[k] \in Seq(T)
                BY <4>3, <2>1
            <4>5. k # 1
                BY <4>3, <4>4, <2>u
            <4>6. k - 1 \in 1 .. n /\ ~(k <= k - 1)
                BY <4>3, <4>5, <2>1
            <4>7. flatten[k - 1] \in Seq(T)
                BY <4>2, <4>6, <3>1
            <4>8. flatten[k] = flatten[k - 1] \o ss[k]
                BY <4>3, <4>5, <2>u
            <4> QED BY <4>3, <4>4, <4>7, <4>8
        <3> QED BY <3>1, <3>2, <2>1
    <2>7. ASSUME \A m \in DOMAIN ss : ss[m] # <<>> PROVE flatten[n] # <<>>
        <3>1. ss[n] \in Seq(T) /\ ss[n] # <<>>
            BY <2>1, <2>7
        <3>2. CASE n = 1
            BY <3>1, <3>2, <2>u
        <3>3. CASE n # 1
            <4>1. n - 1 \in 1 .. Len(ss) /\ n - 1 \in 1 .. n
                BY <3>3, <2>1
            <4>2. flatten[n - 1] \in Seq(T)
                BY <4>1, <2>6
            <4>3. flatten[n] = flatten[n - 1] \o ss[n]
                BY <3>3, <2>u, <2>1
            <4> QED BY <3>1, <4>2, <4>3
        <3> QED BY <3>2, <3>3
    <2> QED BY <2>1, <2>2, <2>6, <2>7
<1> QED BY <1>1, <1>2

(* The kids that what k gives away can get to are in S. *)
Behind(k, S) ==
    /\ S \in SUBSET (Kids \ {k})
    /\ \A j \in S \cup {k} : Subs(j) \in Seq(S)
JobLists(S) == {l \in Seq(S) : l # <<>>}

(* Kids 2 to n - 1 of the order have nothing left. *)
EmptyBefore(n) == \A m \in 2 .. n - 1 : held[flush[m]] = 0

(* Before a call: either nothing came of the calls of this kid so far, or it *)
(* is called again, and has given up an entry in each call.                  *)
AtKid ==
    /\ i \in 1 .. Len(flush) + 1
    /\ IF flushes = 0 THEN EmptyBefore(i)
       ELSE i <= Len(flush) /\ held[flush[i]] + flushes <= TableLen

(* During a call: its jobs do not get back to the kid that was called. *)
AtDrain ==
    /\ i \in 1 .. Len(flush) /\ jobs \in Nat
    /\ flushes \in 1 .. TableLen + 1
    /\ \E S : Behind(flush[i], S) /\ jobq \in Seq(JobLists(S))
    /\ IF jobs = 0 /\ jobq = <<>> THEN held[flush[i]] = 0
       ELSE held[flush[i]] + flushes <= TableLen
    /\ flushes = 1 /\ jobs = 0 => EmptyBefore(i)

FlushedInv ==
    /\ at \in {"init", "kid", "drain", "done"}
    /\ at # "init" => InitDone
    /\ at \in {"kid", "drain"} => ~graph.no_flush_on_exit /\ held \in [Kids -> 0 .. TableLen] /\ flushes \in Nat
    /\ at = "kid" => AtKid
    /\ at = "drain" => AtDrain
    /\ OthersFlushed

LEMMA JoinedElement ==
    ASSUME NEW T, NEW p \in Seq(T), NEW q \in Seq(T), NEW n \in 1 .. Len(p \o q)
    PROVE  (p \o q)[n] \in Range(p) \cup Range(q)
<1>1. CASE n <= Len(p)
    <2>1. n \in 1 .. Len(p) /\ (p \o q)[n] = p[n]
        BY <1>1
    <2> QED BY <2>1 DEF Range
<1>2. CASE n > Len(p)
    <2>1. n - Len(p) \in 1 .. Len(q) /\ (p \o q)[n] = q[n - Len(p)]
        BY <1>2
    <2> QED BY <2>1 DEF Range
<1> QED BY <1>1, <1>2

(* The kids behind one that is flushed; the lists are what the walk made. *)
LEMMA BehindExists ==
    ASSUME WalkInv, ListsInv, FlushedAcyclic, ~graph.no_flush_on_exit, NEW k \in Kids
    PROVE  \E S : Behind(k, S)
<1>1. PICK S \in SUBSET (Kids \ {k}) :
          \A j \in S \cup {k} : \A e \in Range(graph.edges[j]) : e \in Accepts => e[1] \in S
    BY DEF FlushedAcyclic, NeverBack, WalkInv
<1>2. ASSUME NEW j \in S \cup {k} PROVE Subs(j) \in Seq(S)
    <2>1. j \in Kids /\ local_subscribers[j] \in EdgeLists /\ ext_subscribers[j] \in EdgeLists
        BY <1>1 DEF WalkInv
    <2>2. PICK both : both = local_subscribers[j] \o ext_subscribers[j]
        OBVIOUS
    <2>3. both \in EdgeLists
        BY <2>1, <2>2 DEF EdgeLists
    <2>4. \A n \in 1 .. Len(both) : both[n] \in Listed(j)
        BY <2>1, <2>2, JoinedElement DEF Listed, EdgeLists
    <2>5. \A e \in Listed(j) : e[1] \in S
        BY <1>1, <2>1 DEF ListsInv, ListsRight, Feeds
    <2>6. Subs(j) = [n \in 1 .. Len(both) |-> both[n][1]]
        BY <2>2 DEF Subs
    <2> QED BY <2>3, <2>4, <2>5, <2>6 DEF EdgeLists
<1> QED BY <1>1, <1>2 DEF Behind

LEMMA EmissionFacts ==
    ASSUME NEW k, NEW S, Behind(k, S), NEW j \in S \cup {k}
    PROVE  /\ Emission(j) \in Seq(JobLists(S))
           /\ Emission(j) = <<>> <=> Subs(j) = <<>>
<1>1. Subs(j) \in Seq(S)
    BY DEF Behind
<1>2. CASE Subs(j) = <<>>
    BY <1>2 DEF Emission
<1>3. CASE Subs(j) # <<>>
    <2>1. Subs(j) \in JobLists(S) /\ Emission(j) = <<Subs(j)>>
        BY <1>1, <1>3 DEF JobLists, Emission
    <2> QED BY <1>3, <2>1
<1> QED BY <1>2, <1>3

LEMMA InitKept ==
    ASSUME UNCHANGED initVars
    PROVE  /\ UNCHANGED <<graph, flush, stack>> /\ InitDone' = InitDone
           /\ \A k, S : Behind(k, S)' = Behind(k, S)
<1>1. UNCHANGED <<graph, flush, stack, local_subscribers, ext_subscribers>>
    BY DEF initVars
<1>2. \A j : Subs(j)' = Subs(j)
    BY <1>1 DEF Subs
<1>3. \A k, S : Behind(k, S)' = Behind(k, S)
    BY <1>2 DEF Behind
<1> QED BY <1>1, <1>3 DEF InitDone

LEMMA FlushKidInv ==
    ASSUME WalkInv, ListsInv, FlushOrder, FlushedAcyclic, FlushedInv, FlushKid
    PROVE  FlushedInv'
<1>1. /\ at = "kid" /\ i <= Len(flush) /\ at' = "drain" /\ flushes' = flushes + 1 /\ jobs' = 0
      /\ i' = i /\ UNCHANGED initVars
    BY DEF FlushKid
<1>2. /\ InitDone /\ ~graph.no_flush_on_exit /\ held \in [Kids -> 0 .. TableLen] /\ flushes \in Nat /\ AtKid
      /\ flush \in Seq(Kids) /\ TableLen \in Nat
    BY <1>1, FlushConstants DEF FlushedInv, FlushOrder
<1>3. PICK k : k = flush[i]
    OBVIOUS
<1>4. i \in 1 .. Len(flush) /\ k \in Kids
    BY <1>1, <1>2, <1>3 DEF AtKid
<1>5. PICK S : Behind(k, S)
    BY <1>2, <1>4, BehindExists
<1>6. PICK n : /\ n \in IF held[k] = 0 \/ Subs(k) = <<>> THEN {held[k]} ELSE 1 .. held[k]
               /\ held' = [held EXCEPT ![k] = @ - n]
               /\ jobq' = FlattenSeq([m \in 1 .. n |-> Emission(k)])
    BY <1>3 DEF FlushKid
<1>7. held[k] \in Nat /\ held[k] <= TableLen /\ n \in Nat /\ n <= held[k]
    BY <1>2, <1>4, <1>6
<1>8. held' \in [Kids -> 0 .. TableLen] /\ held'[k] = held[k] - n /\ \A j \in Kids : held'[j] <= held[j]
    BY <1>2, <1>4, <1>6, <1>7
<1>9. PICK ss : ss = [m \in 1 .. n |-> Emission(k)]
    OBVIOUS
<1>10. jobq' = FlattenSeq(ss) /\ Len(ss) = n
    BY <1>6, <1>7, <1>9
<1>11. Emission(k) \in Seq(JobLists(S)) /\ (Emission(k) = <<>> <=> Subs(k) = <<>>)
    BY <1>5, EmissionFacts
<1>12. ss \in Seq(Seq(JobLists(S)))
    BY <1>7, <1>9, <1>11
<1>13. jobq' \in Seq(JobLists(S))
    BY <1>10, <1>12, Flattened
<1>14. IF jobq' = <<>> THEN held'[k] = 0 ELSE held'[k] + flushes' <= TableLen
    <2>1. CASE held[k] = 0
        <3>1. n = 0 /\ held'[k] = 0
            BY <1>7, <1>8, <2>1
        <3>2. FlattenSeq(ss) = ss /\ ss = <<>>
            BY <1>9, <1>10, <3>1 DEF FlattenSeq
        <3> QED BY <1>10, <3>1, <3>2
    <2>2. CASE held[k] # 0 /\ Subs(k) = <<>>
        <3>1. held'[k] = 0
            BY <1>6, <1>7, <1>8, <2>2
        <3>2. ss \in Seq(Seq({}))
            BY <1>7, <1>9, <1>11, <2>2
        <3>3. FlattenSeq(ss) \in Seq({})
            BY <3>2, Flattened
        <3>4. jobq' = <<>>
            BY <1>10, <3>3
        <3> QED BY <3>1, <3>4
    <2>3. CASE held[k] # 0 /\ Subs(k) # <<>>
        <3>1. n \in 1 .. held[k]
            BY <1>6, <2>3
        <3>2. ss # <<>> /\ \A m \in DOMAIN ss : ss[m] # <<>>
            BY <1>7, <1>9, <1>11, <2>3, <3>1
        <3>3. jobq' # <<>>
            BY <1>10, <1>12, <3>2, Flattened
        <3>4. held[k] + flushes <= TableLen
            BY <1>2, <1>3, <1>7 DEF AtKid
        <3>5. held'[k] + flushes' <= TableLen
            BY <1>1, <1>2, <1>7, <1>8, <3>1, <3>4
        <3> QED BY <3>3, <3>5
    <2> QED BY <2>1, <2>2, <2>3
<1>15. flushes' \in 1 .. TableLen + 1
    <2>1. flushes <= TableLen
        BY <1>2, <1>3, <1>7 DEF AtKid
    <2> QED BY <1>1, <1>2, <2>1
<1>16. flushes' = 1 => EmptyBefore(i)'
    <2> SUFFICES ASSUME flushes' = 1, NEW m \in 2 .. i - 1 PROVE held'[flush[m]] = 0
        BY <1>1, InitKept DEF EmptyBefore
    <2>1. held[flush[m]] = 0
        BY <1>1, <1>2 DEF AtKid, EmptyBefore
    <2>2. flush[m] \in Kids
        BY <1>2, <1>4
    <2> QED BY <1>8, <2>1, <2>2
<1>17. AtDrain'
    <2>1. i' \in 1 .. Len(flush') /\ jobs' \in Nat /\ flush' = flush
        BY <1>1, <1>4, InitKept
    <2>2. Behind(k, S)'
        BY <1>1, <1>5, InitKept
    <2>3. flush'[i'] = k
        BY <1>1, <1>3, <2>1
    <2>4. \E Q : Behind(flush[i], Q)' /\ jobq' \in Seq(JobLists(Q))
        BY <1>13, <2>2, <2>3
    <2> QED BY <1>1, <1>14, <1>15, <1>16, <2>1, <2>3, <2>4 DEF AtDrain
<1> QED BY <1>1, <1>2, <1>8, <1>15, <1>17, InitKept DEF FlushedInv, OthersFlushed

LEMMA LocalJobInv ==
    ASSUME FlushOrder, FlushedInv, LocalJob
    PROVE  FlushedInv'
<1>1. /\ at = "drain" /\ jobq # <<>> /\ jobs' = jobs + 1 /\ UNCHANGED <<at, i, flushes>> /\ UNCHANGED initVars
    BY DEF LocalJob
<1>2. /\ InitDone /\ ~graph.no_flush_on_exit /\ held \in [Kids -> 0 .. TableLen] /\ flushes \in Nat /\ AtDrain
      /\ flush \in Seq(Kids) /\ TableLen \in Nat
    BY <1>1, FlushConstants DEF FlushedInv, FlushOrder
<1>3. PICK k : k = flush[i]
    OBVIOUS
<1>4. i \in 1 .. Len(flush) /\ k \in Kids /\ jobs \in Nat /\ held[k] + flushes <= TableLen
    BY <1>1, <1>2, <1>3 DEF AtDrain
<1>5. PICK S : Behind(k, S) /\ jobq \in Seq(JobLists(S))
    BY <1>2, <1>3 DEF AtDrain
<1>6. PICK l : l = Head(jobq)
    OBVIOUS
<1>7. PICK keep \in SUBSET (Range(l) \cap Range(flush)) :
          /\ held' = [j \in Kids |-> IF j \in keep /\ held[j] < TableLen THEN held[j] + 1 ELSE held[j]]
          /\ jobq' = Tail(jobq) \o FlattenSeq([m \in 1 .. Len(l) |->
                         IF l[m] \in keep THEN <<>> ELSE Emission(l[m])])
    BY <1>6 DEF LocalJob
<1>8. l \in Seq(S) /\ Tail(jobq) \in Seq(JobLists(S)) /\ k \notin S
    BY <1>1, <1>5, <1>6 DEF JobLists, Behind
<1>9. Range(l) \subseteq S
    BY <1>8 DEF Range
<1>10. held' \in [Kids -> 0 .. TableLen] /\ held'[k] = held[k]
    BY <1>2, <1>4, <1>7, <1>8, <1>9
<1>11. PICK ss : ss = [m \in 1 .. Len(l) |-> IF l[m] \in keep THEN <<>> ELSE Emission(l[m])]
    OBVIOUS
<1>12. \A m \in 1 .. Len(l) : Emission(l[m]) \in Seq(JobLists(S))
    BY <1>5, <1>8, EmissionFacts
<1>13. ss \in Seq(Seq(JobLists(S)))
    BY <1>8, <1>11, <1>12
<1>14. FlattenSeq(ss) \in Seq(JobLists(S))
    BY <1>13, Flattened
<1>15. jobq' \in Seq(JobLists(S))
    BY <1>7, <1>8, <1>11, <1>14
<1>16. AtDrain'
    <2>1. i' \in 1 .. Len(flush') /\ jobs' \in Nat /\ jobs' # 0 /\ flush' = flush
        BY <1>1, <1>4, InitKept
    <2>2. Behind(k, S)'
        BY <1>1, <1>5, InitKept
    <2>3. flush'[i'] = k
        BY <1>1, <1>3, <2>1
    <2>4. \E Q : Behind(flush[i], Q)' /\ jobq' \in Seq(JobLists(Q))
        BY <1>15, <2>2, <2>3
    <2>5. flushes' \in 1 .. TableLen + 1 /\ held'[k] + flushes' <= TableLen
        BY <1>1, <1>2, <1>4, <1>10 DEF AtDrain
    <2> QED BY <2>1, <2>3, <2>4, <2>5 DEF AtDrain
<1> QED BY <1>1, <1>2, <1>10, <1>16, InitKept DEF FlushedInv, OthersFlushed

LEMMA DrainedInv ==
    ASSUME FlushOrder, FlushedInv, Drained, TableLen + 1 < MAX_FLUSHES
    PROVE  FlushedInv'
<1>1. /\ at = "drain" /\ jobq = <<>> /\ at' = "kid" /\ UNCHANGED <<jobs, jobq, held>> /\ UNCHANGED initVars
      /\ IF Again THEN UNCHANGED <<i, flushes>> ELSE i' = Restart /\ flushes' = 0
    BY DEF Drained
<1>2. /\ InitDone /\ ~graph.no_flush_on_exit /\ held \in [Kids -> 0 .. TableLen] /\ flushes \in Nat /\ AtDrain
      /\ flush \in Seq(Kids) /\ TableLen \in Nat /\ MAX_FLUSHES \in Nat
    BY <1>1, FlushConstants DEF FlushedInv, FlushOrder
<1>3. i \in 1 .. Len(flush) /\ jobs \in Nat /\ flushes \in 1 .. TableLen + 1
    BY <1>2 DEF AtDrain
<1>4. flushes < MAX_FLUSHES
    BY <1>2, <1>3
<1>5. flush' = flush /\ InitDone' /\ graph' = graph
    BY <1>1, <1>2, InitKept
<1>6. CASE jobs >= 1
    <2>1. i' = i /\ flushes' = flushes
        BY <1>1, <1>4, <1>6 DEF Again
    <2>2. held[flush[i]] + flushes <= TableLen
        BY <1>2, <1>3, <1>6 DEF AtDrain
    <2>3. AtKid'
        BY <1>1, <1>3, <1>5, <2>1, <2>2 DEF AtKid
    <2> QED BY <1>1, <1>2, <1>5, <2>1, <2>3 DEF FlushedInv, OthersFlushed
<1>7. CASE jobs = 0
    <2>1. i' = Restart /\ flushes' = 0
        BY <1>1, <1>7 DEF Again
    <2>2. i' \in 1 .. Len(flush') + 1 /\ EmptyBefore(i)'
        <3>1. CASE flushes > 1
            <4>1. i' = 2
                BY <1>4, <2>1, <3>1 DEF Restart
            <4> QED BY <1>2, <1>3, <1>5, <4>1 DEF EmptyBefore
        <3>2. CASE flushes = 1
            <4>1. i' = i + 1
                BY <2>1, <3>2 DEF Restart
            <4>2. EmptyBefore(i) /\ held[flush[i]] = 0
                BY <1>1, <1>2, <1>7, <3>2 DEF AtDrain
            <4>3. \A m \in 2 .. i' - 1 : held'[flush'[m]] = 0
                <5> SUFFICES ASSUME NEW m \in 2 .. i' - 1 PROVE held[flush[m]] = 0
                    BY <1>1, <1>5
                <5>1. m \in 2 .. i - 1 \/ m = i
                    BY <1>3, <4>1
                <5> QED BY <4>2, <5>1 DEF EmptyBefore
            <4> QED BY <1>2, <1>3, <1>5, <4>1, <4>3 DEF EmptyBefore
        <3> QED BY <1>3, <3>1, <3>2
    <2>3. AtKid'
        BY <2>1, <2>2 DEF AtKid
    <2> QED BY <1>1, <1>2, <1>5, <2>1, <2>3 DEF FlushedInv, OthersFlushed
<1> QED BY <1>3, <1>6, <1>7

LEMMA FlushedInvKept ==
    ASSUME FlushedAcyclic, TableLen + 1 < MAX_FLUSHES
    PROVE  WalkInv /\ ListsInv /\ FlushInv /\ FlushedInv /\ [FlushNext]_vars => FlushedInv'
<1> SUFFICES ASSUME WalkInv, ListsInv, FlushInv, FlushedInv, [FlushNext]_vars PROVE FlushedInv'
    OBVIOUS
<1>f. FlushOrder /\ flush \in Seq(Kids)
    BY DEF FlushInv, FlushOrder
<1>1. CASE UNCHANGED vars
    <2>1. UNCHANGED <<at, i, flushes, jobs, jobq, held>> /\ UNCHANGED initVars
        BY <1>1 DEF vars, flushVars
    <2>2. AtKid' = AtKid /\ AtDrain' = AtDrain
        BY <2>1, InitKept DEF AtKid, AtDrain, EmptyBefore
    <2> QED BY <2>1, <2>2, InitKept DEF FlushedInv, OthersFlushed
<1>2. CASE InitGraph
    <2>1. stack # <<>> /\ at' = at
        <3>1. NextSource => stack # <<>>
            BY DEF NextSource
        <3>2. InitEdge \/ Descend \/ Return => stack # <<>>
            BY DEF InitEdge, Descend, Return, LevelDone
        <3> QED BY <1>2, <3>1, <3>2 DEF InitGraph, InitStep, flushVars
    <2>2. at = "init" /\ at' = "init"
        BY <2>1 DEF FlushedInv, InitDone
    <2> QED BY <2>2 DEF FlushedInv, OthersFlushed
<1>3. CASE NoFlush
    <2>1. at' = "done" /\ InitDone /\ graph.no_flush_on_exit /\ UNCHANGED initVars
        BY <1>3 DEF NoFlush
    <2> QED BY <2>1, InitKept DEF FlushedInv, OthersFlushed
<1>4. CASE BeginFlush
    <2>1. /\ at' = "kid" /\ InitDone /\ ~graph.no_flush_on_exit /\ UNCHANGED initVars
          /\ i' = 1 /\ flushes' = 0 /\ held' \in [Kids -> 0 .. TableLen]
        BY <1>4 DEF BeginFlush
    <2>2. AtKid'
        BY <1>f, <2>1, InitKept DEF AtKid, EmptyBefore
    <2> QED BY <2>1, <2>2, InitKept DEF FlushedInv, OthersFlushed
<1>5. CASE FlushKid
    BY <1>f, <1>5, FlushKidInv
<1>6. CASE LocalJob
    BY <1>f, <1>6, LocalJobInv
<1>7. CASE Drained
    BY <1>f, <1>7, DrainedInv
<1>8. CASE EndFlush
    <2>1. /\ at = "kid" /\ i > Len(flush) /\ at' = "done" /\ held' = held /\ UNCHANGED initVars
        BY <1>8 DEF EndFlush
    <2>2. AtKid /\ InitDone
        BY <2>1 DEF FlushedInv
    <2>3. i = Len(flush) + 1 /\ EmptyBefore(i)
        BY <1>f, <2>1, <2>2 DEF AtKid
    <2>4. \A m \in 2 .. Len(flush) : held[flush[m]] = 0
        BY <1>f, <2>3 DEF EmptyBefore
    <2> QED BY <2>1, <2>2, <2>4, InitKept DEF FlushedInv, OthersFlushed
<1>9. CASE at = "done" /\ UNCHANGED vars
    BY <1>1, <1>9
<1> QED BY <1>1, <1>2, <1>3, <1>4, <1>5, <1>6, <1>7, <1>8, <1>9 DEF FlushNext, FlushStep

(* The flush begins with the lists of the walk and changes none of them: what *)
(* holds of the walk holds of a run with its flush.                           *)
THEOREM FlushIsAWalk == FlushSpec => Spec
<1>1. FlushInit => Init
    BY DEF FlushInit
<1>2. [FlushNext]_vars => [Next]_initVars
    BY DEF FlushNext, FlushStep, InitGraph, NoFlush, BeginFlush, FlushKid, LocalJob, Drained, EndFlush, vars, Next
<1> QED BY <1>1, <1>2, PTL DEF FlushSpec, Spec

(* mimo_flush_graph, in every set of graphs of which those that are flushed  *)
(* have no cycle: at the end of the flush no kid but the first of the order  *)
(* has anything left, whatever each call gives up and whatever the kids      *)
(* behind it keep of that, as long as a kid may be called more often in a    *)
(* row than its table has entries (MAX_FLUSHES is 0x7FFFFFFF).               *)
THEOREM OthersAreFlushed ==
    ASSUME FlushedAcyclic, TableLen + 1 < MAX_FLUSHES
    PROVE  FlushSpec => []OthersFlushed
<1>1. FlushInit => Init /\ FlushedInv
    BY DEF FlushInit, FlushedInv, OthersFlushed
<1>2. FlushSpec => [](WalkInv /\ ListsInv /\ FlushInv)
    BY FlushIsAWalk, InitWalkInv, WalkInvIsInductive, InitListsInv, ListsInvIsInductive,
       InitFlushInv, FlushInvIsInductive, PTL DEF Spec
<1>3. WalkInv /\ ListsInv /\ FlushInv /\ FlushedInv /\ [FlushNext]_vars => FlushedInv'
    BY FlushedInvKept
<1>4. FlushedInv => OthersFlushed
    BY DEF FlushedInv
<1> QED BY <1>1, <1>2, <1>3, <1>4, PTL DEF FlushSpec
=============================================================================
