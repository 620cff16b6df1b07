-------------------------- MODULE MwsrQueueProofs ---------------------------
(***************************************************************************)
(* Proofs about the queue of MwsrQueue, for any finite set of writers, any *)
(* number of cells and any number of jobs.                                 *)
(***************************************************************************)
EXTENDS MwsrQueue, FiniteSetTheorems, TLAPS

(* The cells the cache of w has allocated. *)
Allocated(w) == {w} \X (1 .. allocated_count[w])

(* The writers that hold a cell. *)
Holding == {w \in Writers : wpc[w] \in {"fill", "swap", "link"}}

(* The reader has a cell that is still the first of the queue. *)
Reading == rpc \notin {"idle", "free"}

(* Each cell is allocated and is in one place: a cache, the queue, or the  *)
(* hands of a writer that fills it or of the reader that gives it back.    *)
CachesOwn == \A w \in Writers : NoDup(free[w]) /\ InCache(w) \subseteq Allocated(w)

QueueOwns ==
    /\ NoDup(order)
    /\ \A c \in OnQueue : c \in Allocated(c[1]) /\ c \notin InCache(c[1])

WritersOwn ==
    /\ \A w \in Holding : data[w] \in Allocated(w)
    /\ \A w \in Filling : data[w] \notin OnQueue \cup InCache(w)

ReaderOwns ==
    /\ Reading => order # <<>> /\ element = order[1]
    /\ rpc = "free" => /\ element \in Cells /\ element \in Allocated(element[1])
                       /\ element \notin OnQueue \cup InCache(element[1])
                       /\ \A w \in Filling : data[w] # element

CellInv == CachesOwn /\ QueueOwns /\ WritersOwn /\ ReaderOwns

(* What a cell holds once it is filled, and on the queue. *)
JobInv ==
    /\ \A w \in Writers : wpc[w] \in {"grow", "fill", "swap"} => sent[w] < MaxAdds
    /\ \A w \in Writers : wpc[w] = "swap" => /\ buffer[data[w]] = <<w, sent[w] + 1>>
                                             /\ next[data[w]] = NULL
    /\ \A c \in OnQueue : buffer[c] # NULL

(* The queue without the cell that the reader has taken off it. *)
Live == IF rpc = "take" THEN Tail(order) ELSE order

(* The writer of c has put it on the queue but not yet linked it. *)
BeingLinked(c) == wpc[c[1]] = "link" /\ data[c[1]] = c

(* The links lead along the queue, except to a cell that is being linked.  *)
Linked ==
    /\ \A k \in 1 .. Len(Live) : k # 1 =>
            next[Live[k - 1]] = IF BeingLinked(Live[k]) THEN NULL ELSE Live[k]
    /\ Live # <<>> => next[Live[Len(Live)]] = NULL

(* Each writer that links has the cell before its own. *)
PrevKnown ==
    \A w \in Linking : \E k \in 1 .. Len(Live) :
        data[w] = Live[k] /\ prev[w] = IF k = 1 THEN NULL ELSE Live[k - 1]

(* The two ends. *)
EndsKnown ==
    /\ work_queue_tail = IF Live = <<>> THEN NULL ELSE Live[Len(Live)]
    /\ rpc \in {"idle", "take", "free"} =>
            work_queue_head = IF Live = <<>> THEN NULL
                              ELSE IF BeingLinked(Live[1]) THEN NULL ELSE Live[1]
    /\ Reading /\ rpc # "take" => ~BeingLinked(Live[1])
    /\ rpc = "cas" => work_queue_head = NULL
    /\ rpc = "advance" => next[element] # NULL

ChainInv == Linked /\ PrevKnown /\ EndsKnown

QueueInv == TypeOK /\ CellInv /\ JobInv /\ ChainInv

-----------------------------------------------------------------------------
(* Lists without duplicates, and the sets of their elements.               *)
LEMMA EmptyElems == Elems(<<>>) = {} /\ NoDup(<<>>)
<1>1. Len(<<>>) = 0
    OBVIOUS
<1> QED BY <1>1 DEF Elems, NoDup

LEMMA AppendElems ==
    ASSUME NEW S, NEW list \in Seq(S), NEW e \in S, NoDup(list), e \notin Elems(list)
    PROVE  Elems(Append(list, e)) = Elems(list) \cup {e} /\ NoDup(Append(list, e))
<1> DEFINE n == Len(list)
           longer == Append(list, e)
<1>1. n \in Nat /\ Len(longer) = n + 1 /\ longer[n + 1] = e
    OBVIOUS
<1>2. \A i \in 1 .. n : longer[i] = list[i]
    OBVIOUS
<1>3. \A i \in 1 .. n + 1 : i \in 1 .. n \/ i = n + 1
    BY <1>1
<1>4. \A i \in 1 .. n : list[i] # e
    BY DEF Elems
<1>5. 1 .. n \subseteq 1 .. n + 1 /\ n + 1 \in 1 .. n + 1
    BY <1>1
<1> HIDE DEF longer
<1>6. Elems(longer) = Elems(list) \cup {e}
    <2> HIDE DEF n
    <2>1. Elems(longer) = {longer[i] : i \in 1 .. n + 1} /\ Elems(list) = {list[i] : i \in 1 .. n}
        BY <1>1 DEF Elems, n
    <2> QED BY <2>1, <1>1, <1>2, <1>3, <1>5
<1>7. NoDup(longer)
    BY <1>1, <1>2, <1>3, <1>4 DEF NoDup
<1> QED BY <1>6, <1>7 DEF longer

LEMMA TailElems ==
    ASSUME NEW S, NEW list \in Seq(S), list # <<>>, NoDup(list)
    PROVE  /\ list[1] \in Elems(list) /\ Head(list) = list[1]
           /\ Elems(Tail(list)) = Elems(list) \ {list[1]} /\ NoDup(Tail(list))
<1> DEFINE n == Len(list)
           rest == Tail(list)
<1>1. n \in Nat /\ n > 0 /\ Len(rest) = n - 1 /\ Head(list) = list[1]
    OBVIOUS
<1>2. \A i \in 1 .. n - 1 : rest[i] = list[i + 1]
    OBVIOUS
<1> HIDE DEF rest
<1>3. \A i \in 1 .. n : i = 1 \/ (i - 1 \in 1 .. n - 1 /\ (i - 1) + 1 = i)
    BY <1>1
<1>4. \A i \in 1 .. n - 1 : i + 1 \in 1 .. n /\ i + 1 # 1
    BY <1>1
<1>5. 1 \in 1 .. n
    BY <1>1
<1> HIDE DEF n
<1>6. Elems(rest) = {rest[i] : i \in 1 .. n - 1} /\ Elems(list) = {list[i] : i \in 1 .. n}
    BY <1>1 DEF Elems, n
<1>7. \A i, j \in 1 .. n : list[i] = list[j] => i = j
    BY DEF NoDup, n
<1>8. Elems(rest) \subseteq Elems(list) \ {list[1]}
    BY <1>2, <1>4, <1>5, <1>6, <1>7
<1>9. Elems(list) \ {list[1]} \subseteq Elems(rest)
    BY <1>2, <1>3, <1>6
<1>10. NoDup(rest)
    <2> SUFFICES ASSUME NEW i \in 1 .. n - 1, NEW j \in 1 .. n - 1, rest[i] = rest[j]
                 PROVE  i = j
        BY <1>1 DEF NoDup
    <2>1. i + 1 = j + 1
        BY <1>2, <1>4, <1>7
    <2> QED BY <2>1
<1> QED BY <1>1, <1>5, <1>6, <1>8, <1>9, <1>10 DEF rest

LEMMA FrontElems ==
    ASSUME NEW S, NEW list \in Seq(S), NEW e \in S, NoDup(list), e \notin Elems(list)
    PROVE  Elems(<<e>> \o list) = Elems(list) \cup {e} /\ NoDup(<<e>> \o list)
<1> DEFINE n == Len(list)
           longer == <<e>> \o list
<1>1. n \in Nat /\ Len(longer) = n + 1 /\ longer[1] = e
    OBVIOUS
<1>2. \A i \in 1 .. n : longer[i + 1] = list[i]
    OBVIOUS
<1> HIDE DEF longer
<1>3. \A i \in 1 .. n + 1 : i = 1 \/ (i - 1 \in 1 .. n /\ (i - 1) + 1 = i)
    BY <1>1
<1>4. \A i \in 1 .. n : list[i] # e /\ i + 1 \in 1 .. n + 1
    BY <1>1 DEF Elems
<1>5. 1 \in 1 .. n + 1
    BY <1>1
<1> HIDE DEF n
<1>6. Elems(longer) = {longer[i] : i \in 1 .. n + 1} /\ Elems(list) = {list[i] : i \in 1 .. n}
    BY <1>1 DEF Elems, n
<1>7. Elems(longer) = Elems(list) \cup {e}
    <2>1. Elems(longer) \subseteq Elems(list) \cup {e}
        <3> SUFFICES ASSUME NEW i \in 1 .. n + 1 PROVE longer[i] \in Elems(list) \cup {e}
            BY <1>6
        <3>1. CASE i = 1
            BY <3>1, <1>1
        <3>2. CASE i # 1
            <4>1. i - 1 \in 1 .. n /\ longer[(i - 1) + 1] = list[i - 1] /\ (i - 1) + 1 = i
                BY <3>2, <1>2, <1>3
            <4> QED BY <4>1, <1>6
        <3> QED BY <3>1, <3>2
    <2>2. Elems(list) \cup {e} \subseteq Elems(longer)
        BY <1>1, <1>2, <1>4, <1>5, <1>6
    <2> QED BY <2>1, <2>2
<1>8. \A i, j \in 1 .. n : list[i] = list[j] => i = j
    BY DEF NoDup, n
<1>9. NoDup(longer)
    <2> SUFFICES ASSUME NEW i \in 1 .. n + 1, NEW j \in 1 .. n + 1, longer[i] = longer[j]
                 PROVE  i = j
        BY <1>1 DEF NoDup
    <2>1. \A m \in 1 .. n + 1 : m # 1 => longer[m] # longer[1]
        <3>1. \A m \in 1 .. n + 1 : m # 1 => longer[m] = list[m - 1] /\ m - 1 \in 1 .. n
            <4> TAKE m \in 1 .. n + 1
            <4> HAVE m # 1
            <4>1. m - 1 \in 1 .. n /\ longer[(m - 1) + 1] = list[m - 1] /\ (m - 1) + 1 = m
                BY <1>2, <1>3
            <4> QED BY <4>1
        <3> QED BY <3>1, <1>1, <1>4
    <2>3. CASE i = 1 \/ j = 1
        BY <2>1, <2>3
    <2>2. CASE i # 1 /\ j # 1
        <3>1. longer[i] = list[i - 1] /\ longer[j] = list[j - 1]
            BY <2>2, <1>2, <1>3
        <3>2. i - 1 = j - 1
            BY <2>2, <3>1, <1>3, <1>8
        <3> QED BY <3>2
    <2> QED BY <2>2, <2>3
<1> QED BY <1>7, <1>9 DEF longer

-----------------------------------------------------------------------------
LEMMA InitQueueInv == Init => QueueInv
<1> SUFFICES ASSUME Init PROVE QueueInv
    OBVIOUS
<1>1. TypeOK
    BY FreeListBound, AddBound DEF Init, TypeOK, Cells
<1>2. Live = <<>> /\ Len(Live) = 0
    BY DEF Init, Live
<1>3. CellInv
    BY EmptyElems DEF Init, CellInv, CachesOwn, QueueOwns, WritersOwn, ReaderOwns, InCache, OnQueue, Holding, Filling, Reading
<1>4. JobInv
    BY EmptyElems DEF Init, JobInv, OnQueue
<1>5. ChainInv
    BY <1>2 DEF Init, ChainInv, Linked, PrevKnown, EndsKnown, Linking, Reading
<1> QED BY <1>1, <1>3, <1>4, <1>5 DEF QueueInv

-----------------------------------------------------------------------------
(* The cells that a step may hand from one place to another.               *)
LEMMA CellsTyped ==
    ASSUME TypeOK, CellInv
    PROVE  /\ \A w \in Writers : Allocated(w) \subseteq Cells
           /\ \A w \in Holding : data[w] \in Cells /\ data[w][1] = w
           /\ rpc # "idle" => element \in Cells /\ element[1] \in Writers
           /\ Reading => element \in OnQueue
           /\ \A c \in OnQueue : c \in Cells /\ c[1] \in Writers
<1>1. \A w \in Writers : allocated_count[w] \in 0 .. max_allocated
    BY DEF TypeOK
<1>2. \A w \in Writers : Allocated(w) \subseteq Cells
    BY <1>1, FreeListBound DEF Allocated, Cells
<1>3. \A w \in Holding : data[w] \in Cells /\ data[w][1] = w
    BY <1>2 DEF CellInv, WritersOwn, Allocated, Holding
<1>4. Reading => element \in OnQueue
    BY TailElems DEF TypeOK, CellInv, QueueOwns, ReaderOwns, OnQueue
<1>5. OnQueue \subseteq Cells
    BY DEF TypeOK, OnQueue, Elems
<1>6. rpc # "idle" => element \in Cells /\ element[1] \in Writers
    BY <1>4, <1>5 DEF CellInv, ReaderOwns, Reading, Cells
<1>7. \A c \in OnQueue : c \in Cells /\ c[1] \in Writers
    BY <1>5 DEF Cells
<1> QED BY <1>2, <1>3, <1>4, <1>6, <1>7

LEMMA WriterTypes ==
    ASSUME QueueInv, NEW w \in Writers, Writer(w)
    PROVE  TypeOK'
<1> USE DEF QueueInv, TypeOK, listVars, cellVars, queueVars, writerVars, readerVars, counts, WriterAt
<1>1. w \in Holding => data[w] \in Cells
    BY CellsTyped
<1>2. CASE AllocPop(w)
    BY <1>2 DEF AllocPop
<1>3. CASE AllocEmpty(w)
    BY <1>3 DEF AllocEmpty
<1>4. CASE AllocGrow(w)
    <2>1. allocated_count[w] + 1 \in 1 .. max_allocated
        BY <1>4, FreeListBound DEF AllocGrow, MayGrow
    <2>2. <<w, allocated_count[w] + 1>> \in Cells
        BY <2>1 DEF Cells
    <2>3. allocated_count' \in [Writers -> 0 .. max_allocated]
        <3>1. allocated_count[w] + 1 \in 0 .. max_allocated
            BY <2>1
        <3> QED BY <3>1, <1>4 DEF AllocGrow
    <2>4. data' \in [Writers -> Cells \cup {NULL}]
        BY <2>2, <1>4 DEF AllocGrow
    <2> QED BY <2>3, <2>4, <1>4 DEF AllocGrow
<1>5. CASE AllocRefused(w)
    BY <1>5 DEF AllocRefused
<1>6. CASE AddFill(w)
    <2>1. sent[w] + 1 \in 1 .. MaxAdds
        BY <1>6, AddBound DEF AddFill, JobInv
    <2> QED BY <2>1, <1>1, <1>6 DEF AddFill, Holding
<1>7. CASE AddSwap(w)
    <2>1. sent[w] + 1 \in 0 .. MaxAdds
        BY <1>7, AddBound DEF AddSwap, JobInv
    <2>2. data[w] \in Cells
        BY <1>1, <1>7 DEF AddSwap, Holding
    <2>3. order' \in Seq(Cells) /\ work_queue_tail' \in Cells
        BY <2>2, <1>7 DEF AddSwap
    <2>4. prev' \in [Writers -> Cells \cup {NULL}] /\ sent' \in [Writers -> 0 .. MaxAdds]
        BY <2>1, <1>7 DEF AddSwap
    <2>5. wpc' \in [Writers -> {"idle", "grow", "fill", "swap", "link"}]
        BY <1>7 DEF AddSwap
    <2> QED BY <2>3, <2>4, <2>5, <1>7 DEF AddSwap
<1>8. CASE AddFirst(w)
    BY <1>1, <1>8 DEF AddFirst, Holding
<1>9. CASE AddLink(w)
    BY <1>1, <1>9 DEF AddLink, Holding
<1> QED BY <1>2, <1>3, <1>4, <1>5, <1>6, <1>7, <1>8, <1>9 DEF Writer

LEMMA ReaderTypes ==
    ASSUME QueueInv, Reader
    PROVE  TypeOK'
<1> USE DEF QueueInv, TypeOK, listVars, cellVars, queueVars, writerVars, readerVars, counts, ReaderAt
<1>1. rpc # "idle" => element \in Cells /\ element[1] \in Writers
    BY CellsTyped
<1>2. CASE RemoveEmpty \/ RemoveSpin
    BY <1>2 DEF RemoveEmpty, RemoveSpin, vars
<1>3. CASE RemoveHead
    BY <1>3 DEF RemoveHead
<1>4. CASE RemoveHasNext \/ RemoveNoNext \/ RemoveCasFails
    BY <1>4 DEF RemoveHasNext, RemoveNoNext, RemoveCasFails
<1>5. CASE RemoveAdvance
    BY <1>1, <1>5 DEF RemoveAdvance
<1>6. CASE RemoveClear \/ RemoveCas
    BY <1>6 DEF RemoveClear, RemoveCas
<1>7. CASE RemoveTake
    <2>1. buffer[element] \in Writers \X (1 .. MaxAdds)
        BY <1>1, <1>7, CellsTyped DEF RemoveTake, JobInv, Reading
    <2>2. received' \in [Writers -> 0 .. MaxAdds]
        BY <2>1, <1>7, AddBound DEF RemoveTake
    <2>3. order # <<>> /\ order' \in Seq(Cells)
        BY <1>7 DEF RemoveTake, CellInv, ReaderOwns, Reading
    <2> QED BY <2>2, <2>3, <1>7 DEF RemoveTake
<1>8. CASE RemoveFree
    <2>1. free' \in [Writers -> Seq(Cells)]
        BY <1>1, <1>8 DEF RemoveFree
    <2> QED BY <2>1, <1>8 DEF RemoveFree
<1> QED BY <1>2, <1>3, <1>4, <1>5, <1>6, <1>7, <1>8 DEF Reader

(* The live queue is part of the queue. *)
LEMMA LiveTyped ==
    ASSUME TypeOK, CellInv
    PROVE  /\ Live \in Seq(Cells) /\ NoDup(Live)
           /\ \A k \in 1 .. Len(Live) :
                Live[k] \in Cells /\ Live[k] \in OnQueue /\ Live[k][1] \in Writers
<1>1. order \in Seq(Cells) /\ NoDup(order) /\ (rpc = "take" => order # <<>>)
    BY DEF TypeOK, CellInv, QueueOwns, ReaderOwns, Reading
<1>2. Live \in Seq(Cells) /\ NoDup(Live) /\ Elems(Live) \subseteq OnQueue
    BY <1>1, TailElems DEF Live, OnQueue
<1>3. \A k \in 1 .. Len(Live) : Live[k] \in Elems(Live)
    BY DEF Elems
<1> QED BY <1>2, <1>3, CellsTyped

(* A cell that another one is to be linked to is still on the queue. *)
LEMMA PrevOnQueue ==
    ASSUME QueueInv, NEW w \in Linking, prev[w] # NULL
    PROVE  prev[w] \in OnQueue
<1>1. PICK k \in 1 .. Len(Live) : prev[w] = IF k = 1 THEN NULL ELSE Live[k - 1]
    BY DEF QueueInv, ChainInv, PrevKnown
<1>2. Live \in Seq(Cells)
    BY LiveTyped DEF QueueInv
<1>3. k # 1 /\ k - 1 \in 1 .. Len(Live)
    BY <1>1, <1>2
<1> QED BY <1>1, <1>3, LiveTyped DEF QueueInv

-----------------------------------------------------------------------------
(* Every cell stays in one place: the steps of a writer.                   *)
LEMMA AllocPopCells ==
    ASSUME QueueInv, NEW w \in Writers, AllocPop(w)
    PROVE  CellInv'
<1> DEFINE c == Head(free[w])
<1>1. /\ free[w] # <<>> /\ free' = [free EXCEPT ![w] = Tail(free[w])]
      /\ data' = [data EXCEPT ![w] = c] /\ wpc[w] = "idle" /\ wpc' = [wpc EXCEPT ![w] = "fill"]
      /\ UNCHANGED <<allocated_count, order, rpc, element>>
    BY DEF AllocPop, WriterAt, queueVars, readerVars
<1>2. /\ free \in [Writers -> Seq(Cells)] /\ data \in [Writers -> Cells \cup {NULL}]
      /\ wpc \in [Writers -> {"idle", "grow", "fill", "swap", "link"}]
    BY DEF QueueInv, TypeOK
<1>3. CachesOwn /\ QueueOwns /\ WritersOwn /\ ReaderOwns
    BY DEF QueueInv, CellInv
<1>4. /\ c \in InCache(w) /\ InCache(w)' = InCache(w) \ {c} /\ NoDup(free'[w])
      /\ \A v \in Writers : v # w => free'[v] = free[v] /\ InCache(v)' = InCache(v)
    <2>1. free[w] \in Seq(Cells) /\ NoDup(free[w])
        BY <1>2, <1>3 DEF CachesOwn
    <2>2. free'[w] = Tail(free[w]) /\ \A v \in Writers : v # w => free'[v] = free[v]
        BY <1>1, <1>2
    <2> QED BY <1>1, <2>1, <2>2, TailElems DEF InCache
<1>5. OnQueue' = OnQueue /\ \A v \in Writers : Allocated(v)' = Allocated(v)
    BY <1>1 DEF OnQueue, Allocated
<1>6. c \in Allocated(w) /\ c[1] = w /\ c \notin OnQueue
    BY <1>3, <1>4 DEF CachesOwn, QueueOwns, Allocated
<1> HIDE DEF c
<1>7. /\ Holding' = Holding \cup {w} /\ Filling' = Filling \cup {w} /\ w \notin Holding
      /\ data'[w] = c /\ \A v \in Writers : v # w => data'[v] = data[v]
    BY <1>1, <1>2 DEF Holding, Filling
<1>8. CachesOwn'
    BY <1>3, <1>4, <1>5 DEF CachesOwn
<1>9. QueueOwns'
    <2>1. \A d \in OnQueue : d[1] \in Writers
        BY CellsTyped DEF QueueInv
    <2>2. \A v \in Writers : InCache(v)' \subseteq InCache(v)
        BY <1>4
    <2>3. NoDup(order) /\ \A d \in OnQueue : d \in Allocated(d[1]) /\ d \notin InCache(d[1])
        BY <1>3 DEF QueueOwns
    <2>4. NoDup(order')
        BY <1>1, <2>3
    <2> QED BY <2>1, <2>2, <2>3, <2>4, <1>5 DEF QueueOwns
<1>10. WritersOwn'
    BY <1>3, <1>4, <1>5, <1>6, <1>7 DEF WritersOwn, Holding, Filling
<1>11. ReaderOwns'
    <2>1. rpc = "free" => element # c /\ element[1] \in Writers
        BY <1>3, <1>4, <1>6 DEF ReaderOwns, Cells
    <2> QED BY <2>1, <1>1, <1>3, <1>4, <1>5, <1>7 DEF ReaderOwns, Reading, Filling
<1> QED BY <1>8, <1>9, <1>10, <1>11 DEF CellInv

(* A step that moves no cell. *)
LEMMA CellFrame ==
    ASSUME CellInv, UNCHANGED <<free, allocated_count, order>>,
           Holding' \subseteq Holding, Filling' \subseteq Filling,
           \A v \in Holding' : data'[v] = data[v],
           UNCHANGED <<rpc, element>> \/ ReaderOwns'
    PROVE  CellInv'
<1>1. /\ OnQueue' = OnQueue /\ \A v : InCache(v)' = InCache(v) /\ Allocated(v)' = Allocated(v)
      /\ Filling' \subseteq Holding'
    BY DEF OnQueue, InCache, Allocated, Filling, Holding
<1>2. CachesOwn' /\ QueueOwns'
    BY <1>1 DEF CellInv, CachesOwn, QueueOwns
<1>3. WritersOwn'
    BY <1>1 DEF CellInv, WritersOwn
<1>4. UNCHANGED <<rpc, element>> => ReaderOwns'
    BY <1>1 DEF CellInv, ReaderOwns, Reading
<1> QED BY <1>2, <1>3, <1>4 DEF CellInv

LEMMA AllocGrowCells ==
    ASSUME QueueInv, NEW w \in Writers, AllocGrow(w)
    PROVE  CellInv'
<1> DEFINE c == <<w, allocated_count[w] + 1>>
<1>1. /\ allocated_count' = [allocated_count EXCEPT ![w] = allocated_count[w] + 1]
      /\ data' = [data EXCEPT ![w] = c] /\ wpc[w] = "grow" /\ wpc' = [wpc EXCEPT ![w] = "fill"]
      /\ UNCHANGED <<free, order, rpc, element>>
    BY DEF AllocGrow, WriterAt, queueVars, readerVars
<1>2. /\ allocated_count \in [Writers -> 0 .. max_allocated]
      /\ data \in [Writers -> Cells \cup {NULL}]
      /\ wpc \in [Writers -> {"idle", "grow", "fill", "swap", "link"}]
    BY DEF QueueInv, TypeOK
<1>3. CachesOwn /\ QueueOwns /\ WritersOwn /\ ReaderOwns
    BY DEF QueueInv, CellInv
<1>4. OnQueue' = OnQueue /\ \A v : InCache(v)' = InCache(v)
    BY <1>1 DEF OnQueue, InCache
<1>5. /\ \A v \in Writers : Allocated(v) \subseteq Allocated(v)'
      /\ c \in Allocated(w)' /\ c \notin Allocated(w) /\ c[1] = w
    BY <1>1, <1>2, FreeListBound DEF Allocated
<1> HIDE DEF c
<1>6. c \notin OnQueue \cup InCache(w)
    BY <1>3, <1>5 DEF CachesOwn, QueueOwns
<1>7. /\ Holding' = Holding \cup {w} /\ Filling' = Filling \cup {w} /\ w \notin Holding
      /\ data'[w] = c /\ \A v \in Writers : v # w => data'[v] = data[v]
    BY <1>1, <1>2 DEF Holding, Filling
<1>8. CachesOwn'
    BY <1>1, <1>3, <1>4, <1>5 DEF CachesOwn
<1>9. QueueOwns'
    <2>1. \A d \in OnQueue : d[1] \in Writers
        BY CellsTyped DEF QueueInv
    <2> QED BY <2>1, <1>1, <1>3, <1>4, <1>5 DEF QueueOwns
<1>10. WritersOwn'
    BY <1>3, <1>4, <1>5, <1>6, <1>7 DEF WritersOwn, Holding, Filling
<1>11. ReaderOwns'
    <2>1. rpc = "free" => element[1] \in Writers /\ element # c
        BY <1>3, <1>5 DEF ReaderOwns, Cells
    <2> QED BY <2>1, <1>1, <1>3, <1>4, <1>5, <1>7 DEF ReaderOwns, Reading, Filling
<1> QED BY <1>8, <1>9, <1>10, <1>11 DEF CellInv

LEMMA AddSwapCells ==
    ASSUME QueueInv, NEW w \in Writers, AddSwap(w)
    PROVE  CellInv'
<1>1. /\ wpc[w] = "swap" /\ wpc' = [wpc EXCEPT ![w] = "link"]
      /\ order' = Append(order, data[w])
      /\ UNCHANGED <<free, allocated_count, data, rpc, element>>
    BY DEF AddSwap, WriterAt, listVars, readerVars
<1>2. /\ order \in Seq(Cells)
      /\ wpc \in [Writers -> {"idle", "grow", "fill", "swap", "link"}]
    BY DEF QueueInv, TypeOK
<1>3. CachesOwn /\ QueueOwns /\ WritersOwn /\ ReaderOwns
    BY DEF QueueInv, CellInv
<1>4. /\ w \in Holding /\ w \in Filling
      /\ Holding' = Holding /\ Filling' = Filling \ {w}
    BY <1>1, <1>2 DEF Holding, Filling
<1>5. \A v : InCache(v)' = InCache(v) /\ Allocated(v)' = Allocated(v)
    BY <1>1 DEF InCache, Allocated
<1>6. /\ data[w] \in Cells /\ data[w][1] = w /\ data[w] \in Allocated(w)
      /\ data[w] \notin OnQueue \cup InCache(w)
    BY <1>3, <1>4, CellsTyped DEF QueueInv, WritersOwn
<1>7. OnQueue' = OnQueue \cup {data[w]} /\ NoDup(order')
    BY <1>1, <1>2, <1>3, <1>6, AppendElems DEF QueueOwns, OnQueue
<1>8. CachesOwn'
    BY <1>1, <1>3, <1>5 DEF CachesOwn
<1>9. QueueOwns'
    BY <1>3, <1>5, <1>6, <1>7 DEF QueueOwns
<1>10. WritersOwn'
    <2>1. \A v \in Filling' : v \in Filling /\ v \in Holding /\ data[v] # data[w]
        BY <1>4, <1>6, CellsTyped DEF QueueInv, Filling, Holding
    <2> QED BY <2>1, <1>1, <1>3, <1>4, <1>5, <1>7 DEF WritersOwn
<1>11. ReaderOwns'
    <2>1. Reading => order' # <<>> /\ order'[1] = order[1]
        BY <1>1, <1>2, <1>3, <1>6 DEF ReaderOwns
    <2>2. rpc = "free" => element # data[w]
        BY <1>3, <1>4 DEF ReaderOwns
    <2> QED BY <2>1, <2>2, <1>1, <1>3, <1>4, <1>5, <1>7 DEF ReaderOwns, Reading
<1> QED BY <1>8, <1>9, <1>10, <1>11 DEF CellInv

LEMMA WriterCells ==
    ASSUME QueueInv, NEW w \in Writers, Writer(w)
    PROVE  CellInv'
<1> USE DEF WriterAt, listVars, queueVars, readerVars
<1>1. CellInv /\ wpc \in [Writers -> {"idle", "grow", "fill", "swap", "link"}]
      /\ data \in [Writers -> Cells \cup {NULL}]
    BY DEF QueueInv, TypeOK
<1>2. CASE AllocEmpty(w) \/ AllocRefused(w) \/ AddFill(w)
    <2>1. UNCHANGED <<free, allocated_count, order, data, rpc, element>>
        BY <1>2 DEF AllocEmpty, AllocRefused, AddFill
    <2>2. Holding' = Holding /\ Filling' = Filling
        BY <1>1, <1>2 DEF AllocEmpty, AllocRefused, AddFill, Holding, Filling
    <2> QED BY <1>1, <2>1, <2>2, CellFrame
<1>3. CASE AddFirst(w) \/ AddLink(w)
    <2>1. UNCHANGED <<free, allocated_count, order, rpc, element>>
        BY <1>3 DEF AddFirst, AddLink
    <2>2. /\ Holding' \subseteq Holding \ {w} /\ Filling' = Filling
          /\ \A v \in Writers : v # w => data'[v] = data[v]
        BY <1>1, <1>3 DEF AddFirst, AddLink, Holding, Filling
    <2>3. \A v \in Holding' : data'[v] = data[v]
        BY <2>2 DEF Holding
    <2> QED BY <1>1, <2>1, <2>2, <2>3, CellFrame
<1> QED BY <1>2, <1>3, AllocPopCells, AllocGrowCells, AddSwapCells DEF Writer

-----------------------------------------------------------------------------
(* ... and the steps of the reader.                                        *)
LEMMA RemoveTakeCells ==
    ASSUME QueueInv, RemoveTake
    PROVE  CellInv'
<1>1. /\ rpc = "take" /\ rpc' = "free" /\ order' = Tail(order)
      /\ UNCHANGED <<free, allocated_count, wpc, data, element>>
    BY DEF RemoveTake, ReaderAt, listVars, writerVars
<1>2. CachesOwn /\ QueueOwns /\ WritersOwn /\ ReaderOwns
    BY DEF QueueInv, CellInv
<1>3. order \in Seq(Cells) /\ order # <<>> /\ element = order[1]
    BY <1>1, <1>2 DEF QueueInv, TypeOK, ReaderOwns, Reading
<1>4. element \in OnQueue /\ OnQueue' = OnQueue \ {element} /\ NoDup(order')
    BY <1>1, <1>2, <1>3, TailElems DEF QueueOwns, OnQueue
<1>5. /\ \A v : InCache(v)' = InCache(v) /\ Allocated(v)' = Allocated(v)
      /\ Filling' = Filling /\ Holding' = Holding
    BY <1>1 DEF InCache, Allocated, Filling, Holding
<1>6. element \in Cells
    BY <1>4, CellsTyped DEF QueueInv
<1>7. CachesOwn'
    BY <1>1, <1>2, <1>5 DEF CachesOwn
<1>8. QueueOwns'
    BY <1>2, <1>4, <1>5 DEF QueueOwns
<1>9. WritersOwn'
    BY <1>1, <1>2, <1>4, <1>5 DEF WritersOwn
<1>10. ReaderOwns'
    <2>1. element \in Allocated(element[1]) /\ element \notin InCache(element[1])
        BY <1>2, <1>4 DEF QueueOwns
    <2>2. \A v \in Filling : data[v] # element
        BY <1>2, <1>4 DEF WritersOwn
    <2> QED BY <2>1, <2>2, <1>1, <1>4, <1>5, <1>6 DEF ReaderOwns, Reading
<1> QED BY <1>7, <1>8, <1>9, <1>10 DEF CellInv

LEMMA RemoveFreeCells ==
    ASSUME QueueInv, RemoveFree
    PROVE  CellInv'
<1>0. element \in Cells /\ element[1] \in Writers
    BY CellsTyped DEF RemoveFree, ReaderAt, QueueInv
<1> PICK w \in Writers : w = element[1]
    BY <1>0
<1>1. /\ rpc = "free" /\ rpc' = "idle"
      /\ free' = [free EXCEPT ![w] = <<element>> \o free[w]]
      /\ UNCHANGED <<allocated_count, order, wpc, data>>
    BY DEF RemoveFree, ReaderAt, queueVars, writerVars
<1>2. CachesOwn /\ QueueOwns /\ WritersOwn /\ ReaderOwns
    BY DEF QueueInv, CellInv
<1>3. /\ element \in Allocated(w)
      /\ element \notin OnQueue \cup InCache(w) /\ \A v \in Filling : data[v] # element
    BY <1>1, <1>2 DEF ReaderOwns
<1>4. /\ InCache(w)' = InCache(w) \cup {element} /\ NoDup(free'[w])
      /\ \A v \in Writers : v # w => free'[v] = free[v] /\ InCache(v)' = InCache(v)
    <2>1. free \in [Writers -> Seq(Cells)] /\ free[w] \in Seq(Cells) /\ NoDup(free[w])
        BY <1>2, <1>3 DEF CachesOwn, QueueInv, TypeOK
    <2>2. free'[w] = <<element>> \o free[w] /\ \A v \in Writers : v # w => free'[v] = free[v]
        BY <1>1, <1>3, <2>1
    <2> QED BY <1>0, <1>3, <2>1, <2>2, FrontElems DEF InCache
<1>5. /\ OnQueue' = OnQueue /\ \A v : Allocated(v)' = Allocated(v)
      /\ Filling' = Filling /\ Holding' = Holding
    BY <1>1 DEF OnQueue, Allocated, Filling, Holding
<1>6. CachesOwn'
    BY <1>2, <1>3, <1>4, <1>5 DEF CachesOwn
<1>7. QueueOwns'
    <2>1. \A d \in OnQueue : d[1] \in Writers /\ d # element
        BY <1>3, CellsTyped DEF QueueInv
    <2>2. NoDup(order')
        BY <1>1, <1>2 DEF QueueOwns
    <2> QED BY <2>1, <2>2, <1>2, <1>4, <1>5 DEF QueueOwns
<1>8. WritersOwn'
    <2>1. \A v \in Filling : v \in Writers
        BY DEF Filling
    <2>2. \A v \in Filling : data[v] \notin OnQueue' \cup InCache(v)'
        BY <2>1, <1>2, <1>3, <1>4, <1>5 DEF WritersOwn
    <2> QED BY <2>2, <1>1, <1>2, <1>5 DEF WritersOwn
<1>9. ReaderOwns'
    BY <1>1 DEF ReaderOwns, Reading
<1> QED BY <1>6, <1>7, <1>8, <1>9 DEF CellInv

LEMMA ReaderCells ==
    ASSUME QueueInv, Reader
    PROVE  CellInv'
<1> USE DEF ReaderAt, listVars, cellVars, queueVars, writerVars
<1>1. CellInv /\ ReaderOwns
    BY DEF QueueInv, CellInv
<1>2. CASE RemoveEmpty \/ RemoveSpin
    <2>1. UNCHANGED <<free, allocated_count, order, wpc, data, rpc, element>>
        BY <1>2 DEF RemoveEmpty, RemoveSpin, vars, readerVars
    <2>2. Holding' = Holding /\ Filling' = Filling
        BY <2>1 DEF Holding, Filling
    <2> QED BY <1>1, <2>1, <2>2, CellFrame
<1>3. CASE RemoveHead
    <2>1. /\ rpc = "idle" /\ rpc' = "look" /\ element' = work_queue_head /\ work_queue_head # NULL
          /\ UNCHANGED <<free, allocated_count, order, wpc, data>>
        BY <1>3 DEF RemoveHead
    <2>2. Holding' = Holding /\ Filling' = Filling
        BY <2>1 DEF Holding, Filling
    <2>3. order # <<>> /\ work_queue_head = order[1]
        BY <2>1 DEF QueueInv, ChainInv, EndsKnown, Live
    <2>4. ReaderOwns'
        BY <2>1, <2>3 DEF ReaderOwns
    <2> QED BY <1>1, <2>1, <2>2, <2>4, CellFrame
<1>4. CASE RemoveHasNext \/ RemoveAdvance \/ RemoveNoNext \/ RemoveClear \/ RemoveCas \/ RemoveCasFails
    <2>1. /\ Reading /\ rpc' \notin {"idle", "free"}
          /\ UNCHANGED <<free, allocated_count, order, wpc, data, element>>
        BY <1>4 DEF RemoveHasNext, RemoveAdvance, RemoveNoNext, RemoveClear, RemoveCas, RemoveCasFails,
                    Reading
    <2>2. Holding' = Holding /\ Filling' = Filling
        BY <2>1 DEF Holding, Filling
    <2>3. ReaderOwns'
        BY <1>1, <2>1 DEF ReaderOwns
    <2> QED BY <1>1, <2>1, <2>2, <2>3, CellFrame
<1> QED BY <1>2, <1>3, <1>4, RemoveTakeCells, RemoveFreeCells DEF Reader

-----------------------------------------------------------------------------
(* A filled cell keeps its job until it is freed.                          *)
LEMMA WriterJobs ==
    ASSUME QueueInv, NEW w \in Writers, Writer(w)
    PROVE  JobInv'
<1> USE DEF WriterAt, listVars, cellVars, queueVars, counts
<1>1. /\ TypeOK /\ JobInv /\ WritersOwn
      /\ wpc \in [Writers -> {"idle", "grow", "fill", "swap", "link"}]
      /\ data \in [Writers -> Cells \cup {NULL}] /\ sent \in [Writers -> 0 .. MaxAdds]
    BY DEF QueueInv, CellInv, TypeOK
<1>2. \A v \in Holding : data[v] \in Cells /\ data[v][1] = v
    BY CellsTyped DEF QueueInv
<1>3. CASE AllocPop(w) \/ AllocEmpty(w) \/ AllocGrow(w) \/ AllocRefused(w)
    <2>1. UNCHANGED <<buffer, next, sent, order>> /\ OnQueue' = OnQueue
        BY <1>3 DEF AllocPop, AllocEmpty, AllocGrow, AllocRefused, OnQueue
    <2>2. \A v \in Writers : wpc'[v] = "swap" => wpc[v] = "swap" /\ data'[v] = data[v]
        BY <1>1, <1>3 DEF AllocPop, AllocEmpty, AllocGrow, AllocRefused
    <2>3. \A v \in Writers : wpc'[v] \in {"grow", "fill", "swap"} =>
              sent[v] < MaxAdds \/ wpc[v] \in {"grow", "fill", "swap"}
        BY <1>1, <1>3 DEF AllocPop, AllocEmpty, AllocGrow, AllocRefused
    <2> QED BY <1>1, <2>1, <2>2, <2>3 DEF JobInv
<1>4. CASE AddFill(w)
    <2>1. /\ wpc[w] = "fill" /\ wpc' = [wpc EXCEPT ![w] = "swap"]
          /\ buffer' = [buffer EXCEPT ![data[w]] = <<w, sent[w] + 1>>]
          /\ next' = [next EXCEPT ![data[w]] = NULL]
          /\ UNCHANGED <<order, data, sent>> /\ OnQueue' = OnQueue
        BY <1>4 DEF AddFill, OnQueue
    <2>2. w \in Filling /\ w \in Holding /\ data[w] \in Cells /\ data[w] \notin OnQueue
        BY <2>1, <1>1, <1>2 DEF Filling, Holding, WritersOwn
    <2>3. \A c \in Cells : c # data[w] => buffer'[c] = buffer[c] /\ next'[c] = next[c]
        BY <2>1, <1>1 DEF TypeOK
    <2>4. buffer'[data[w]] = <<w, sent[w] + 1>> /\ next'[data[w]] = NULL
        BY <2>1, <2>2, <1>1 DEF TypeOK
    <2>5. \A v \in Writers : wpc'[v] = "swap" /\ v # w =>
              v \in Holding /\ wpc[v] = "swap" /\ data[v] # data[w]
        BY <1>1, <1>2, <2>1, <2>2 DEF Holding
    <2>6. \A v \in Writers : wpc'[v] = "swap" =>
              buffer'[data[v]] = <<v, sent[v] + 1>> /\ next'[data[v]] = NULL
        BY <1>1, <1>2, <2>3, <2>4, <2>5 DEF JobInv
    <2>7. \A c \in OnQueue : buffer'[c] # NULL
        <3>1. \A c \in OnQueue : c \in Cells
            BY CellsTyped DEF QueueInv
        <3> QED BY <3>1, <1>1, <2>2, <2>3 DEF JobInv
    <2>8. \A v \in Writers : wpc'[v] \in {"grow", "fill", "swap"} => sent[v] < MaxAdds
        BY <1>1, <2>1 DEF JobInv
    <2> QED BY <2>1, <2>6, <2>7, <2>8 DEF JobInv
<1>5. CASE AddSwap(w)
    <2>1. /\ wpc[w] = "swap" /\ wpc' = [wpc EXCEPT ![w] = "link"]
          /\ order' = Append(order, data[w]) /\ sent' = [sent EXCEPT ![w] = sent[w] + 1]
          /\ UNCHANGED <<buffer, next, data>>
        BY <1>5 DEF AddSwap
    <2>2. buffer[data[w]] # NULL
        <3>1. data[w] \in Cells /\ buffer[data[w]] = <<w, sent[w] + 1>>
            BY <1>1, <1>2, <2>1 DEF JobInv, Holding
        <3>2. sent[w] + 1 \in 1 .. MaxAdds
            BY <1>1, <2>1, AddBound DEF JobInv
        <3> QED BY <3>1, <3>2, NullIsNoJob
    <2>3. OnQueue' = OnQueue \cup {data[w]}
        <3>1. w \in Filling /\ w \in Holding
            BY <2>1 DEF Filling, Holding
        <3>2. order \in Seq(Cells) /\ NoDup(order) /\ data[w] \in Cells /\ data[w] \notin Elems(order)
            BY <3>1, <1>1, <1>2 DEF QueueInv, CellInv, QueueOwns, WritersOwn, TypeOK, OnQueue
        <3> QED BY <3>2, <2>1, AppendElems DEF OnQueue
    <2>4. \A v \in Writers : wpc'[v] # "link" => wpc'[v] = wpc[v] /\ sent'[v] = sent[v]
        BY <1>1, <2>1
    <2> QED BY <1>1, <2>1, <2>2, <2>3, <2>4 DEF JobInv
<1>6. CASE AddFirst(w) \/ AddLink(w)
    <2>1. /\ wpc[w] = "link" /\ wpc' = [wpc EXCEPT ![w] = "idle"]
          /\ UNCHANGED <<buffer, order, sent>> /\ OnQueue' = OnQueue
          /\ \A v \in Writers : v # w => data'[v] = data[v]
        BY <1>1, <1>6 DEF AddFirst, AddLink, OnQueue
    <2>2. \A v \in Writers : wpc'[v] # "idle" => wpc'[v] = wpc[v] /\ v # w
        BY <1>1, <2>1
    <2>3. \A v \in Writers : wpc[v] = "swap" => next'[data[v]] = next[data[v]]
        <3>1. CASE AddFirst(w)
            BY <3>1 DEF AddFirst
        <3>2. CASE AddLink(w)
            <4>1. /\ prev[w] # NULL /\ w \in Linking
                  /\ next' = [next EXCEPT ![prev[w]] = data[w]]
                BY <3>2, <2>1 DEF AddLink, Linking
            <4>2. prev[w] \in OnQueue
                BY <4>1, PrevOnQueue
            <4>3. \A v \in Writers : wpc[v] = "swap" => data[v] \notin OnQueue
                BY <1>1 DEF WritersOwn, Filling
            <4> QED BY <4>1, <4>2, <4>3, <1>1 DEF TypeOK
        <3> QED BY <3>1, <3>2, <1>6
    <2> QED BY <1>1, <2>1, <2>2, <2>3 DEF JobInv
<1> QED BY <1>3, <1>4, <1>5, <1>6 DEF Writer

LEMMA ReaderJobs ==
    ASSUME QueueInv, Reader
    PROVE  JobInv'
<1>1. UNCHANGED <<wpc, data, sent, buffer, next>>
    BY DEF Reader, ReaderAt, RemoveEmpty, RemoveHead, RemoveHasNext, RemoveAdvance, RemoveNoNext,
           RemoveClear, RemoveCas, RemoveCasFails, RemoveSpin, RemoveTake, RemoveFree,
           vars, cellVars, writerVars, counts
<1>2. OnQueue' \subseteq OnQueue
    <2>1. CASE RemoveTake
        BY <2>1, TailElems DEF RemoveTake, ReaderAt, QueueInv, TypeOK, CellInv, QueueOwns, ReaderOwns,
                               Reading, OnQueue
    <2>2. CASE ~RemoveTake
        BY <2>2 DEF Reader, RemoveEmpty, RemoveHead, RemoveHasNext, RemoveAdvance, RemoveNoNext,
               RemoveClear, RemoveCas, RemoveCasFails, RemoveSpin, RemoveFree,
               vars, queueVars, OnQueue
    <2> QED BY <2>1, <2>2
<1> QED BY <1>1, <1>2 DEF QueueInv, JobInv

-----------------------------------------------------------------------------
(* The links of the queue: the steps of a writer.                          *)

(* A step that changes nothing of the queue and of the writers that link. *)
LEMMA ChainFrame ==
    ASSUME QueueInv, UNCHANGED <<order, rpc, element, work_queue_head, work_queue_tail>>,
           Linking' = Linking,
           \A v \in Linking : data'[v] = data[v] /\ prev'[v] = prev[v],
           \A c \in OnQueue : next'[c] = next[c]
    PROVE  ChainInv'
<1>1. Live' = Live
    BY DEF Live
<1>2. /\ Live \in Seq(Cells)
      /\ \A k \in 1 .. Len(Live) :
            Live[k] \in Cells /\ Live[k] \in OnQueue /\ Live[k][1] \in Writers
    BY LiveTyped DEF QueueInv
<1>3. \A c \in Cells : BeingLinked(c)' = BeingLinked(c)
    <2>1. \A v \in Writers : wpc'[v] = "link" <=> wpc[v] = "link"
        BY DEF Linking
    <2>2. \A v \in Writers : wpc[v] = "link" => data'[v] = data[v]
        BY DEF Linking
    <2>3. \A c \in Cells : c[1] \in Writers
        BY DEF Cells
    <2> QED BY <2>1, <2>2, <2>3 DEF BeingLinked
<1>4. Linked /\ PrevKnown /\ EndsKnown
    BY DEF QueueInv, ChainInv
<1>5. Linked'
    <2>1. \A k \in 1 .. Len(Live) : k # 1 => k - 1 \in 1 .. Len(Live)
        BY <1>2
    <2>2. Live # <<>> => Len(Live) \in 1 .. Len(Live)
        BY <1>2
    <2>3. \A k \in 1 .. Len(Live) : next'[Live[k]] = next[Live[k]]
        BY <1>2
    <2>4. \A k \in 1 .. Len(Live) : BeingLinked(Live[k])' = BeingLinked(Live[k])
        BY <1>1, <1>2, <1>3
    <2> QED BY <2>1, <2>2, <2>3, <2>4, <1>1, <1>4 DEF Linked
<1>6. PrevKnown'
    BY <1>1, <1>4 DEF PrevKnown
<1>7. EndsKnown'
    <2>1. Reading => element \in OnQueue
        BY CellsTyped DEF QueueInv
    <2>2. Live # <<>> => BeingLinked(Live[1])' = BeingLinked(Live[1])
        BY <1>1, <1>2, <1>3
    <2>3. Reading /\ rpc # "take" => Live # <<>>
        BY DEF QueueInv, CellInv, ReaderOwns, Live
    <2> QED BY <2>1, <2>2, <2>3, <1>1, <1>4 DEF EndsKnown, Reading
<1> QED BY <1>5, <1>6, <1>7 DEF ChainInv

(* The cell that a writer links is marked so. *)
LEMMA LinkingMarks ==
    ASSUME QueueInv
    PROVE  \A v \in Linking : BeingLinked(data[v]) /\ v \in Writers /\ data[v][1] = v
BY CellsTyped DEF QueueInv, BeingLinked, Linking, Holding

LEMMA AddSwapChain ==
    ASSUME QueueInv, NEW w \in Writers, AddSwap(w)
    PROVE  ChainInv'
<1>0. Live \in Seq(Cells)
    BY LiveTyped DEF QueueInv
<1> PICK n \in Nat : n = Len(Live)
    BY <1>0
<1> PICK c : c = data[w]
    OBVIOUS
<1>1. /\ wpc[w] = "swap" /\ wpc' = [wpc EXCEPT ![w] = "link"]
      /\ prev' = [prev EXCEPT ![w] = work_queue_tail] /\ work_queue_tail' = c
      /\ order' = Append(order, c)
      /\ UNCHANGED <<data, next, work_queue_head, rpc, element>>
    BY DEF AddSwap, WriterAt, cellVars, readerVars
<1>2. /\ Live \in Seq(Cells)
      /\ \A k \in 1 .. n : Live[k] \in Cells /\ Live[k] \in OnQueue /\ Live[k][1] \in Writers
    BY <1>0, LiveTyped DEF QueueInv
<1>3. /\ order \in Seq(Cells) /\ prev \in [Writers -> Cells \cup {NULL}]
      /\ wpc \in [Writers -> {"idle", "grow", "fill", "swap", "link"}]
    BY DEF QueueInv, TypeOK
<1>4. c \in Cells /\ c[1] = w /\ c \notin OnQueue /\ next[c] = NULL
    <2>1. w \in Holding /\ w \in Filling
        BY <1>1 DEF Holding, Filling
    <2> QED BY <2>1, <1>1, CellsTyped DEF QueueInv, CellInv, WritersOwn, JobInv
<1>5. Live' = Append(Live, c)
    <2>1. rpc = "take" => order # <<>>
        BY DEF QueueInv, CellInv, ReaderOwns, Reading
    <2>2. order # <<>> => Tail(Append(order, c)) = Append(Tail(order), c)
        BY <1>3, <1>4
    <2> QED BY <2>1, <2>2, <1>1 DEF Live
<1>6. /\ n \in Nat /\ Len(Live') = n + 1 /\ Live'[n + 1] = c /\ Live' # <<>>
      /\ \A k \in 1 .. n : Live'[k] = Live[k]
    BY <1>2, <1>4, <1>5
<1>7. /\ \A k \in 1 .. n : BeingLinked(Live[k])' = BeingLinked(Live[k])
      /\ BeingLinked(Live[n + 1])'
    BY <1>1, <1>2, <1>3, <1>4, <1>6 DEF BeingLinked
<1>8. Linked /\ PrevKnown /\ EndsKnown
    BY DEF QueueInv, ChainInv
<1>9. Linked'
    <2> SUFFICES ASSUME NEW k \in 1 .. n + 1, k # 1
                 PROVE  next[Live'[k - 1]] = IF BeingLinked(Live[k])' THEN NULL ELSE Live'[k]
        BY <1>1, <1>4, <1>6 DEF Linked
    <2>1. k - 1 \in 1 .. n
        BY <1>6
    <2>2. CASE k \in 1 .. n
        BY <2>1, <2>2, <1>6, <1>7, <1>8 DEF Linked
    <2>3. CASE k = n + 1
        <3>1. Live # <<>> /\ k - 1 = n
            BY <2>1, <2>3, <1>2, <1>6
        <3> QED BY <3>1, <2>1, <2>3, <1>6, <1>7, <1>8 DEF Linked
    <2> QED BY <2>2, <2>3, <1>6
<1>10. PrevKnown'
    <2> SUFFICES ASSUME NEW v \in Linking'
                 PROVE  \E k \in 1 .. n + 1 :
                            data[v] = Live'[k] /\ prev'[v] = IF k = 1 THEN NULL ELSE Live'[k - 1]
        BY <1>1, <1>6 DEF PrevKnown
    <2>1. CASE v = w
        <3>1. prev'[w] = IF n + 1 = 1 THEN NULL ELSE Live'[n]
            <4>1. prev'[w] = IF Live = <<>> THEN NULL ELSE Live[n]
                BY <1>1, <1>3, <1>8 DEF EndsKnown
            <4>2. Live = <<>> <=> n = 0
                BY <1>2
            <4> QED BY <4>1, <4>2, <1>6
        <3>2. n + 1 \in 1 .. n + 1 /\ (n + 1) - 1 = n
            BY <1>6
        <3> QED BY <3>1, <3>2, <2>1, <1>6
    <2>2. CASE v # w
        <3>1. v \in Linking /\ prev'[v] = prev[v]
            BY <2>2, <1>1, <1>3 DEF Linking
        <3>2. PICK k \in 1 .. n : data[v] = Live[k] /\ prev[v] = IF k = 1 THEN NULL ELSE Live[k - 1]
            BY <3>1, <1>8 DEF PrevKnown
        <3>3. k \in 1 .. n + 1 /\ (k # 1 => k - 1 \in 1 .. n)
            BY <1>6
        <3> QED BY <3>1, <3>2, <3>3, <1>6
    <2> QED BY <2>1, <2>2
<1>11. EndsKnown'
    <2>1. Live # <<>> <=> n # 0
        BY <1>2
    <2>2. Live # <<>> => Live'[1] = Live[1] /\ BeingLinked(Live[1])' = BeingLinked(Live[1])
        BY <2>1, <1>6, <1>7
    <2>3. Live = <<>> => BeingLinked(Live[1])'
        BY <2>1, <1>6, <1>7
    <2>4. Reading /\ rpc # "take" => Live # <<>>
        BY DEF QueueInv, CellInv, ReaderOwns, Live
    <2> QED BY <2>2, <2>3, <2>4, <1>1, <1>6, <1>8 DEF EndsKnown, Reading
<1> QED BY <1>9, <1>10, <1>11 DEF ChainInv

(* A link is made: the cell is no longer marked and no other mark changes. *)
LEMMA LinkMade ==
    ASSUME QueueInv, NEW w \in Linking,
           wpc' = [wpc EXCEPT ![w] = "idle"], data' = [data EXCEPT ![w] = NULL]
    PROVE  /\ \A c \in Cells : BeingLinked(c)' <=> BeingLinked(c) /\ c # data[w]
           /\ Linking' = Linking \ {w}
           /\ \A v \in Writers : v # w => data'[v] = data[v]
<1>1. /\ wpc \in [Writers -> {"idle", "grow", "fill", "swap", "link"}]
      /\ data \in [Writers -> Cells \cup {NULL}]
    BY DEF QueueInv, TypeOK
<1>2. w \in Writers /\ data[w][1] = w
    BY LinkingMarks
<1>3. \A c \in Cells : c[1] \in Writers
    BY DEF Cells
<1>4. /\ wpc'[w] = "idle" /\ data'[w] = NULL
      /\ \A v \in Writers : v # w => wpc'[v] = wpc[v] /\ data'[v] = data[v]
    BY <1>1, <1>2
<1>5. Linking' = Linking \ {w}
    BY <1>2, <1>4 DEF Linking
<1>6. ASSUME NEW c \in Cells PROVE BeingLinked(c)' <=> BeingLinked(c) /\ c # data[w]
    <2>1. CASE c[1] = w
        <3>1. ~BeingLinked(c)'
            BY <2>1, <1>4 DEF BeingLinked
        <3>2. BeingLinked(c) => c = data[w]
            BY <2>1 DEF BeingLinked
        <3> QED BY <3>1, <3>2
    <2>2. CASE c[1] # w
        <3>1. BeingLinked(c)' <=> BeingLinked(c)
            BY <2>2, <1>3, <1>4 DEF BeingLinked
        <3>2. c # data[w]
            BY <2>2, <1>2
        <3> QED BY <3>1, <3>2 DEF BeingLinked
    <2> QED BY <2>1, <2>2
<1> QED BY <1>4, <1>5, <1>6

LEMMA AddFirstChain ==
    ASSUME QueueInv, NEW w \in Writers, AddFirst(w)
    PROVE  ChainInv'
<1>0. Live \in Seq(Cells) /\ NoDup(Live)
    BY LiveTyped DEF QueueInv
<1> PICK n \in Nat : n = Len(Live)
    BY <1>0
<1> PICK live \in Seq(Cells) : live = Live
    BY <1>0
<1>1. /\ w \in Linking /\ wpc' = [wpc EXCEPT ![w] = "idle"] /\ prev[w] = NULL
      /\ data' = [data EXCEPT ![w] = NULL] /\ work_queue_head' = data[w]
      /\ UNCHANGED <<next, work_queue_tail, order, prev, rpc, element>>
    BY DEF AddFirst, WriterAt, Linking, cellVars, readerVars
<1>2. \A k \in 1 .. n : live[k] \in Cells
    OBVIOUS
<1>3. Linked /\ PrevKnown /\ EndsKnown
    BY DEF QueueInv, ChainInv
<1>4. data[w] = live[1] /\ 1 \in 1 .. n
    <2>1. PICK k \in 1 .. n : data[w] = live[k] /\ prev[w] = IF k = 1 THEN NULL ELSE live[k - 1]
        BY <1>1, <1>3 DEF PrevKnown
    <2>2. k # 1 => k - 1 \in 1 .. n
        OBVIOUS
    <2>3. k = 1
        BY <2>1, <2>2, <1>1, <1>2, NullIsNoCell
    <2> QED BY <2>1, <2>3
<1>5. Live' = live /\ live # <<>> /\ n = Len(live)
    <2>1. Live' = Live
        BY <1>1 DEF Live
    <2> QED BY <2>1, <1>4
<1>m. /\ \A c \in Cells : BeingLinked(c)' <=> BeingLinked(c) /\ c # data[w]
      /\ \A v \in Linking' : v \in Linking /\ data'[v] = data[v]
      /\ BeingLinked(data[w])
    <2>1. /\ \A c \in Cells : BeingLinked(c)' <=> BeingLinked(c) /\ c # data[w]
          /\ Linking' = Linking \ {w}
          /\ \A v \in Writers : v # w => data'[v] = data[v]
        BY <1>1, LinkMade
    <2>2. \A v \in Linking : BeingLinked(data[v]) /\ v \in Writers
        BY LinkingMarks
    <2> QED BY <1>1, <2>1, <2>2
<1>6. /\ ~BeingLinked(live[1])' /\ BeingLinked(live[1])
      /\ \A k \in 1 .. n : k # 1 => (BeingLinked(live[k])' <=> BeingLinked(live[k]))
    BY <1>0, <1>2, <1>4, <1>5, <1>m DEF NoDup
<1>7. Linked'
    BY <1>1, <1>3, <1>5, <1>6 DEF Linked
<1>8. PrevKnown'
    <2> QED BY <1>m, <1>1, <1>3, <1>5 DEF PrevKnown
<1>9. EndsKnown'
    BY <1>1, <1>3, <1>4, <1>5, <1>6 DEF EndsKnown, Reading
<1> QED BY <1>7, <1>8, <1>9 DEF ChainInv

LEMMA AddLinkChain ==
    ASSUME QueueInv, NEW w \in Writers, AddLink(w)
    PROVE  ChainInv'
<1>0. Live \in Seq(Cells) /\ NoDup(Live)
    BY LiveTyped DEF QueueInv
<1> PICK n \in Nat : n = Len(Live)
    BY <1>0
<1> PICK live \in Seq(Cells) : live = Live
    BY <1>0
<1>1. /\ w \in Linking /\ wpc' = [wpc EXCEPT ![w] = "idle"] /\ prev[w] # NULL
      /\ data' = [data EXCEPT ![w] = NULL] /\ prev' = [prev EXCEPT ![w] = NULL]
      /\ next' = [next EXCEPT ![prev[w]] = data[w]]
      /\ UNCHANGED <<work_queue_head, work_queue_tail, order, rpc, element>>
    BY DEF AddLink, WriterAt, Linking, queueVars, readerVars
<1>2. \A k \in 1 .. n : live[k] \in Cells
    OBVIOUS
<1>3. Linked /\ PrevKnown /\ EndsKnown
    BY DEF QueueInv, ChainInv
<1>4. PICK k \in 1 .. n : k # 1 /\ data[w] = live[k] /\ prev[w] = live[k - 1]
    BY <1>1, <1>3 DEF PrevKnown
<1>5. /\ Live' = live /\ live # <<>> /\ n = Len(live)
      /\ k - 1 \in 1 .. n /\ 1 \in 1 .. n /\ n \in 1 .. n
    <2>1. Live' = Live
        BY <1>1 DEF Live
    <2> QED BY <2>1, <1>4
<1>m. /\ \A c \in Cells : BeingLinked(c)' <=> BeingLinked(c) /\ c # data[w]
      /\ \A v \in Linking' : v \in Linking /\ v \in Writers /\ v # w /\ data'[v] = data[v]
    <2>1. /\ \A c \in Cells : BeingLinked(c)' <=> BeingLinked(c) /\ c # data[w]
          /\ Linking' = Linking \ {w}
          /\ \A v \in Writers : v # w => data'[v] = data[v]
        BY <1>1, LinkMade
    <2>2. \A v \in Linking : BeingLinked(data[v]) /\ v \in Writers
        BY LinkingMarks
    <2> QED BY <1>1, <2>1, <2>2
<1>6. /\ ~BeingLinked(live[k])'
      /\ \A j \in 1 .. n : j # k => (BeingLinked(live[j])' <=> BeingLinked(live[j]))
    BY <1>0, <1>2, <1>4, <1>5, <1>m DEF NoDup
<1>7. /\ next'[live[k - 1]] = live[k]
      /\ \A j \in 1 .. n : j # k - 1 => next'[live[j]] = next[live[j]]
    <2>1. next \in [Cells -> Cells \cup {NULL}]
        BY DEF QueueInv, TypeOK
    <2>2. live[k - 1] \in Cells
        BY <1>2, <1>5
    <2>3. next' = [next EXCEPT ![live[k - 1]] = live[k]]
        BY <1>1, <1>4
    <2>4. \A j \in 1 .. n : j # k - 1 => live[j] # live[k - 1]
        BY <1>0, <1>5 DEF NoDup
    <2> QED BY <2>1, <2>2, <2>3, <2>4, <1>2
<1>8. Linked'
    <2>1. \A j \in 1 .. n : j # 1 =>
              next'[live[j - 1]] = IF BeingLinked(live[j])' THEN NULL ELSE live[j]
        <3> SUFFICES ASSUME NEW j \in 1 .. n, j # 1
                     PROVE  next'[live[j - 1]] = IF BeingLinked(live[j])' THEN NULL ELSE live[j]
            OBVIOUS
        <3>1. CASE j = k
            BY <3>1, <1>6, <1>7
        <3>2. CASE j # k
            <4>1. j - 1 \in 1 .. n /\ j - 1 # k - 1
                BY <3>2
            <4>2. next[live[j - 1]] = IF BeingLinked(live[j]) THEN NULL ELSE live[j]
                BY <1>3 DEF Linked
            <4> QED BY <4>1, <4>2, <3>2, <1>6, <1>7
        <3> QED BY <3>1, <3>2
    <2>2. next'[live[n]] = NULL
        <3>1. n # k - 1
            OBVIOUS
        <3>2. next[live[n]] = NULL
            BY <1>3, <1>5 DEF Linked
        <3> QED BY <3>1, <3>2, <1>5, <1>7
    <2> QED BY <2>1, <2>2, <1>5 DEF Linked
<1>9. PrevKnown'
    <2>1. \A v \in Linking' : v \in Linking /\ data'[v] = data[v] /\ prev'[v] = prev[v]
        BY <1>1, <1>m DEF QueueInv, TypeOK
    <2> QED BY <2>1, <1>3, <1>5 DEF PrevKnown
<1>10. EndsKnown'
    <2>1. BeingLinked(live[1])' <=> BeingLinked(live[1])
        BY <1>4, <1>5, <1>6
    <2>2. rpc = "advance" => next'[element] # NULL
        <3> SUFFICES ASSUME rpc = "advance" PROVE next'[element] # NULL
            OBVIOUS
        <3>1. element = live[1] /\ next[element] # NULL
            BY <1>3 DEF EndsKnown, QueueInv, CellInv, ReaderOwns, Reading, Live
        <3>2. CASE k - 1 = 1
            BY <3>1, <3>2, <1>2, <1>7, NullIsNoCell
        <3>3. CASE k - 1 # 1
            BY <3>1, <3>3, <1>5, <1>7
        <3> QED BY <3>2, <3>3
    <2> QED BY <2>1, <2>2, <1>1, <1>3, <1>5 DEF EndsKnown, Reading
<1> QED BY <1>8, <1>9, <1>10 DEF ChainInv

LEMMA WriterChain ==
    ASSUME QueueInv, NEW w \in Writers, Writer(w)
    PROVE  ChainInv'
<1> USE DEF WriterAt, listVars, cellVars, queueVars, readerVars
<1>1. /\ wpc \in [Writers -> {"idle", "grow", "fill", "swap", "link"}]
      /\ data \in [Writers -> Cells \cup {NULL}]
      /\ next \in [Cells -> Cells \cup {NULL}]
    BY DEF QueueInv, TypeOK
<1>2. CASE AllocPop(w) \/ AllocEmpty(w) \/ AllocGrow(w) \/ AllocRefused(w)
    <2>1. UNCHANGED <<order, rpc, element, work_queue_head, work_queue_tail, next, prev>>
        BY <1>2 DEF AllocPop, AllocEmpty, AllocGrow, AllocRefused
    <2>2. /\ wpc[w] # "link" /\ wpc'[w] # "link"
          /\ \A v \in Writers : v # w => wpc'[v] = wpc[v] /\ data'[v] = data[v]
        BY <1>1, <1>2 DEF AllocPop, AllocEmpty, AllocGrow, AllocRefused
    <2>3. Linking' = Linking /\ \A v \in Linking : data'[v] = data[v]
        BY <2>2 DEF Linking
    <2> QED BY <2>1, <2>3, ChainFrame
<1>3. CASE AddFill(w)
    <2>1. /\ wpc[w] = "fill" /\ wpc' = [wpc EXCEPT ![w] = "swap"]
          /\ next' = [next EXCEPT ![data[w]] = NULL]
          /\ UNCHANGED <<order, rpc, element, work_queue_head, work_queue_tail, data, prev>>
        BY <1>3 DEF AddFill
    <2>2. Linking' = Linking
        BY <1>1, <2>1 DEF Linking
    <2>3. w \in Filling
        BY <2>1 DEF Filling
    <2>4. \A c \in OnQueue : c \in Cells /\ c # data[w]
        BY <2>3, CellsTyped DEF QueueInv, CellInv, WritersOwn
    <2>5. \A c \in OnQueue : next'[c] = next[c]
        BY <1>1, <2>1, <2>4
    <2> QED BY <2>1, <2>2, <2>5, ChainFrame
<1> QED BY <1>2, <1>3, AddSwapChain, AddFirstChain, AddLinkChain DEF Writer

-----------------------------------------------------------------------------
(* The links of the queue: the steps of the reader.                        *)
LEMMA ReaderFrame ==
    ASSUME QueueInv, UNCHANGED <<wpc, data, prev, next>>, Live' = Live, EndsKnown'
    PROVE  ChainInv'
<1> PICK live : live = Live
    OBVIOUS
<1>1. Linked /\ PrevKnown
    BY DEF QueueInv, ChainInv
<1>2. Live' = live /\ \A c : BeingLinked(c)' <=> BeingLinked(c)
    BY DEF BeingLinked
<1>3. \A k \in 1 .. Len(live) : BeingLinked(live[k])' <=> BeingLinked(live[k])
    BY <1>2
<1>4. Linked'
    BY <1>1, <1>2, <1>3 DEF Linked
<1>5. PrevKnown'
    BY <1>1, <1>2 DEF PrevKnown, Linking
<1> QED BY <1>4, <1>5 DEF ChainInv

LEMMA RemoveCasChain ==
    ASSUME QueueInv, RemoveCas
    PROVE  ChainInv'
<1>1. /\ rpc = "cas" /\ rpc' = "take" /\ work_queue_tail = element /\ work_queue_tail' = NULL
      /\ UNCHANGED <<wpc, data, prev, next, order, element, work_queue_head>>
    BY DEF RemoveCas, ReaderAt, cellVars, writerVars
<1>2. /\ Live = order /\ Live \in Seq(Cells) /\ NoDup(Live)
      /\ Linked /\ PrevKnown /\ EndsKnown
    BY <1>1, LiveTyped DEF QueueInv, ChainInv, Live
<1>3. order # <<>> /\ element = Live[1] /\ ~BeingLinked(Live[1])
    BY <1>1, <1>2 DEF QueueInv, CellInv, ReaderOwns, Reading, EndsKnown
<1>4. Len(Live) = 1
    <2>1. Len(Live) \in 1 .. Len(Live) /\ 1 \in 1 .. Len(Live)
        BY <1>2, <1>3
    <2>2. Live[Len(Live)] = Live[1]
        BY <1>1, <1>2, <1>3 DEF EndsKnown
    <2> QED BY <2>1, <2>2, <1>2 DEF NoDup
<1>5. Live' = <<>>
    <2>1. Live' = Tail(order)
        BY <1>1 DEF Live
    <2>2. order \in Seq(Cells) /\ Len(order) = 1
        BY <1>2, <1>4
    <2> QED BY <2>1, <2>2
<1>6. Linking' = {}
    <2> SUFFICES ASSUME NEW v \in Linking PROVE FALSE
        BY <1>1 DEF Linking
    <2>1. PICK k \in 1 .. Len(Live) : data[v] = Live[k]
        BY <1>2 DEF PrevKnown
    <2>2. k = 1 /\ BeingLinked(data[v])
        BY <1>4, <2>1, LinkingMarks
    <2> QED BY <1>3, <2>1, <2>2
<1>7. Linked'
    BY <1>5 DEF Linked
<1>8. PrevKnown'
    BY <1>6 DEF PrevKnown
<1>9. EndsKnown'
    BY <1>1, <1>2, <1>5 DEF EndsKnown
<1> QED BY <1>7, <1>8, <1>9 DEF ChainInv

LEMMA RemoveAdvanceChain ==
    ASSUME QueueInv, RemoveAdvance
    PROVE  ChainInv'
<1>0. Live \in Seq(Cells)
    BY LiveTyped DEF QueueInv
<1> PICK live \in Seq(Cells) : live = Live
    BY <1>0
<1> PICK n \in Nat : n = Len(live)
    OBVIOUS
<1>1. /\ rpc = "advance" /\ rpc' = "take" /\ work_queue_head' = next[element]
      /\ UNCHANGED <<wpc, data, prev, next, order, element, work_queue_tail>>
    BY DEF RemoveAdvance, ReaderAt, cellVars, writerVars
<1>2. live = order /\ Linked /\ PrevKnown /\ EndsKnown
    BY <1>1 DEF QueueInv, ChainInv, Live
<1>3. live # <<>> /\ element = live[1] /\ ~BeingLinked(live[1]) /\ next[element] # NULL
    BY <1>1, <1>2 DEF QueueInv, CellInv, ReaderOwns, Reading, EndsKnown
<1>4. n > 1
    BY <1>2, <1>3 DEF Linked
<1>5. next[live[1]] = live[2] /\ ~BeingLinked(live[2])
    <2>1. 2 \in 1 .. n /\ 2 # 1 /\ 2 - 1 = 1
        BY <1>4
    <2>2. next[live[2 - 1]] = IF BeingLinked(live[2]) THEN NULL ELSE live[2]
        BY <2>1, <1>2 DEF Linked
    <2> QED BY <2>2, <1>3
<1>t. Tail(live) \in Seq(Cells)
    BY <1>3
<1> PICK rest \in Seq(Cells) : rest = Tail(live)
    BY <1>t
<1>6. /\ Live' = rest /\ rest # <<>> /\ Len(rest) = n - 1
      /\ \A k \in 1 .. n - 1 : rest[k] = live[k + 1]
    <2>1. Live' = Tail(order)
        BY <1>1 DEF Live
    <2>2. Len(rest) = n - 1 /\ \A k \in 1 .. n - 1 : rest[k] = live[k + 1]
        BY <1>3
    <2>3. rest # <<>>
        <3>1. Len(rest) # 0
            BY <2>2, <1>4
        <3>2. \A s : s = <<>> => Len(s) = 0
            OBVIOUS
        <3> QED BY <3>1, <3>2
    <2> QED BY <2>1, <2>2, <2>3, <1>2
<1>7. \A c : BeingLinked(c)' <=> BeingLinked(c)
    BY <1>1 DEF BeingLinked
<1>8. Linked'
    <2>1. ASSUME NEW k \in 1 .. n - 1, k # 1
          PROVE  next[rest[k - 1]] = IF BeingLinked(rest[k]) THEN NULL ELSE rest[k]
        <3>1. k + 1 \in 1 .. n /\ k + 1 # 1 /\ (k + 1) - 1 = k /\ k - 1 \in 1 .. n - 1
            BY <2>1
        <3>2. rest[k] = live[k + 1] /\ rest[k - 1] = live[k]
            BY <1>6, <3>1
        <3> QED BY <1>2, <3>1, <3>2 DEF Linked
    <2>2. next[rest[n - 1]] = NULL
        <3>1. n - 1 \in 1 .. n - 1 /\ (n - 1) + 1 = n
            BY <1>4
        <3> QED BY <1>2, <1>3, <1>6, <3>1 DEF Linked
    <2>3. \A k \in 1 .. n - 1 : BeingLinked(rest[k])' <=> BeingLinked(rest[k])
        BY <1>7
    <2> QED BY <1>1, <1>6, <2>1, <2>2, <2>3 DEF Linked
<1>9. PrevKnown'
    <2> SUFFICES ASSUME NEW v \in Linking
                 PROVE  \E k \in 1 .. n - 1 :
                            data[v] = rest[k] /\ prev[v] = IF k = 1 THEN NULL ELSE rest[k - 1]
        <3>1. Linking' = Linking /\ data' = data /\ prev' = prev
            BY <1>1 DEF Linking
        <3>2. PrevKnown' <=> \A v \in Linking : \E k \in 1 .. Len(rest) :
                    data[v] = rest[k] /\ prev[v] = IF k = 1 THEN NULL ELSE rest[k - 1]
            BY <3>1, <1>6 DEF PrevKnown
        <3> QED BY <3>2, <1>6
    <2>1. PICK k \in 1 .. n : data[v] = live[k] /\ prev[v] = IF k = 1 THEN NULL ELSE live[k - 1]
        BY <1>2 DEF PrevKnown
    <2>2. k # 1 /\ k # 2
        BY <2>1, <1>3, <1>5, LinkingMarks
    <2>3. /\ k - 1 \in 1 .. n - 1 /\ k - 1 # 1 /\ (k - 1) + 1 = k
          /\ (k - 1) - 1 \in 1 .. n - 1 /\ ((k - 1) - 1) + 1 = k - 1
        BY <2>2
    <2>4. rest[k - 1] = live[k] /\ rest[(k - 1) - 1] = live[k - 1]
        BY <2>3, <1>6
    <2>5. prev[v] = live[k - 1]
        BY <2>1, <2>2
    <2> QED BY <2>1, <2>3, <2>4, <2>5
<1>10. EndsKnown'
    <2>1. rest[1] = live[2] /\ rest[n - 1] = live[n]
        <3>1. 1 \in 1 .. n - 1 /\ n - 1 \in 1 .. n - 1 /\ (n - 1) + 1 = n /\ 1 + 1 = 2
            BY <1>4
        <3> QED BY <3>1, <1>6
    <2>2. work_queue_tail = live[n]
        BY <1>2, <1>3 DEF EndsKnown
    <2>3. ~BeingLinked(rest[1])'
        BY <2>1, <1>5, <1>7
    <2>4. work_queue_head' = rest[1]
        BY <2>1, <1>1, <1>3, <1>5
    <2> QED BY <2>1, <2>2, <2>3, <2>4, <1>1, <1>6 DEF EndsKnown
<1> QED BY <1>8, <1>9, <1>10 DEF ChainInv

LEMMA ReaderChain ==
    ASSUME QueueInv, Reader
    PROVE  ChainInv'
<1> USE DEF ReaderAt, listVars, cellVars, queueVars, writerVars
<1> PICK live : live = Live
    OBVIOUS
<1>1. /\ UNCHANGED <<wpc, data, prev, next>>
      /\ \A c : BeingLinked(c)' <=> BeingLinked(c)
    <2>1. UNCHANGED <<wpc, data, prev, next>>
        BY DEF Reader, RemoveEmpty, RemoveHead, RemoveHasNext, RemoveAdvance, RemoveNoNext,
               RemoveClear, RemoveCas, RemoveCasFails, RemoveSpin, RemoveTake, RemoveFree, vars
    <2> QED BY <2>1 DEF BeingLinked
<1>2. /\ EndsKnown /\ (BeingLinked(live[1])' <=> BeingLinked(live[1]))
      /\ (Reading => order # <<>> /\ element = order[1])
    BY <1>1 DEF QueueInv, ChainInv, CellInv, ReaderOwns
<1>3. CASE RemoveEmpty \/ RemoveSpin
    <2>1. UNCHANGED <<rpc, element, work_queue_head, work_queue_tail, order>>
        BY <1>3 DEF RemoveEmpty, RemoveSpin, vars, readerVars
    <2>2. Live' = live
        BY <2>1 DEF Live
    <2>3. EndsKnown'
        BY <2>1, <2>2, <1>1, <1>2 DEF EndsKnown, Reading
    <2> QED BY <2>2, <2>3, <1>1, ReaderFrame
<1>4. CASE RemoveHead \/ RemoveHasNext \/ RemoveNoNext \/ RemoveClear \/ RemoveCasFails
    <2>1. /\ rpc # "take" /\ rpc' \notin {"idle", "take", "free"}
          /\ UNCHANGED <<order, work_queue_tail>>
        BY <1>4 DEF RemoveHead, RemoveHasNext, RemoveNoNext, RemoveClear, RemoveCasFails
    <2>2. Live' = live /\ Live = order
        BY <2>1 DEF Live
    <2>3. ~BeingLinked(live[1])
        <3>1. CASE RemoveHead
            BY <3>1, <1>2 DEF RemoveHead, EndsKnown
        <3>2. CASE ~RemoveHead
            BY <3>2, <1>2, <1>4 DEF RemoveHasNext, RemoveNoNext, RemoveClear, RemoveCasFails,
                                    EndsKnown, Reading
        <3> QED BY <3>1, <3>2
    <2>4. rpc' = "cas" => work_queue_head' = NULL
        BY <1>4 DEF RemoveHead, RemoveHasNext, RemoveNoNext, RemoveClear, RemoveCasFails
    <2>5. rpc' = "advance" => next'[element'] # NULL
        BY <1>4 DEF RemoveHead, RemoveHasNext, RemoveNoNext, RemoveClear, RemoveCasFails
    <2>6. EndsKnown'
        BY <2>1, <2>2, <2>3, <2>4, <2>5, <1>2 DEF EndsKnown
    <2> QED BY <2>2, <2>6, <1>1, ReaderFrame
<1>5. CASE RemoveTake \/ RemoveFree
    <2>1. /\ rpc \in {"take", "free"} /\ rpc' \in {"idle", "free"}
          /\ UNCHANGED <<work_queue_head, work_queue_tail>>
        BY <1>5 DEF RemoveTake, RemoveFree
    <2>2. Live' = live
        BY <1>5 DEF RemoveTake, RemoveFree, Live
    <2>3. EndsKnown'
        BY <2>1, <2>2, <1>2 DEF EndsKnown, Reading
    <2> QED BY <2>2, <2>3, <1>1, ReaderFrame
<1> QED BY <1>3, <1>4, <1>5, RemoveCasChain, RemoveAdvanceChain DEF Reader

-----------------------------------------------------------------------------
LEMMA NextQueueInv ==
    ASSUME QueueInv, [Next]_vars
    PROVE  QueueInv'
<1>1. CASE Reader
    BY <1>1, ReaderTypes, ReaderCells, ReaderJobs, ReaderChain DEF QueueInv
<1>2. ASSUME NEW w \in Writers, Writer(w) PROVE QueueInv'
    BY <1>2, WriterTypes, WriterCells, WriterJobs, WriterChain DEF QueueInv
<1>3. CASE UNCHANGED vars
    <2>1. UNCHANGED <<rpc, element, work_queue_head, work_queue_tail, order, free, allocated_count,
                      wpc, data, prev, next, buffer, sent, received>>
        BY <1>3 DEF vars, listVars, cellVars, queueVars, writerVars, readerVars, counts
    <2>2. TypeOK' /\ (CellInv /\ JobInv)'
        BY <2>1 DEF QueueInv, TypeOK, CellInv, CachesOwn, QueueOwns, WritersOwn, ReaderOwns, JobInv,
                    Reading, Holding, Filling, Allocated, InCache, OnQueue
    <2>3. ChainInv'
        BY <2>1, ChainFrame DEF Linking
    <2> QED BY <2>2, <2>3 DEF QueueInv
<1> QED BY <1>1, <1>2, <1>3 DEF Next

LEMMA QueueInvariant == Spec => []QueueInv
<1>1. Init => QueueInv
    BY InitQueueInv
<1>2. QueueInv /\ [Next]_vars => QueueInv'
    BY NextQueueInv
<1> QED BY <1>1, <1>2, PTL DEF Spec

(***************************************************************************)
(* A cell has one owner: what a writer fills, what the queue holds, what a *)
(* cache holds and what the reader gives back are different cells, and the *)
(* cell a writer links to is still on the queue (shared_queue_swap and the *)
(* remove of shared_queue.h, alloc and free of wsfree_list.h).             *)
(***************************************************************************)
THEOREM CellsSafe == Spec => [](TypeOK /\ NoCellShared)
<1>1. ASSUME QueueInv PROVE NoCellShared
    <2>1. CachesOwn /\ QueueOwns /\ WritersOwn /\ ReaderOwns
        BY <1>1 DEF QueueInv, CellInv
    <2>2. ASSUME NEW w \in Filling, rpc # "idle" PROVE data[w] # element
        <3>1. CASE rpc = "free"
            BY <3>1, <2>1 DEF ReaderOwns
        <3>2. CASE rpc # "free"
            BY <3>2, <2>1, <2>2, <1>1, CellsTyped DEF QueueInv, Reading, WritersOwn
        <3> QED BY <3>1, <3>2
    <2>3. \A w \in Linking : prev[w] # NULL => prev[w] \in OnQueue
        BY <1>1, PrevOnQueue
    <2>4. ASSUME NEW w \in Writers
          PROVE  /\ InCache(w) \cap OnQueue = {}
                 /\ \A c \in InCache(w) : c[1] = w /\ c[2] <= allocated_count[w]
        <3>1. \A c \in Allocated(w) : c[1] = w /\ c[2] <= allocated_count[w]
            BY <1>1 DEF Allocated, QueueInv, TypeOK
        <3> QED BY <3>1, <2>1 DEF CachesOwn, QueueOwns
    <2> QED BY <2>1, <2>2, <2>3, <2>4 DEF NoCellShared, CachesOwn, QueueOwns, WritersOwn
<1>2. QueueInv => TypeOK /\ NoCellShared
    BY <1>1 DEF QueueInv
<1> QED BY <1>2, QueueInvariant, PTL

(***************************************************************************)
(* A remove that finds no head means an empty queue, unless an add is      *)
(* between its swap and its link (mwsr_shared_queue_remove_nonblock).      *)
(***************************************************************************)
THEOREM EmptyLooksEmpty == Spec => []EmptyIsEmpty
<1>1. ASSUME QueueInv, rpc = "idle", work_queue_head = NULL, Linking = {} PROVE order = <<>>
    <2>1. Live = order
        BY <1>1 DEF Live
    <2>2. ASSUME Live # <<>> PROVE FALSE
        <3>1. 1 \in 1 .. Len(Live) /\ Live[1] \in Cells /\ Live[1][1] \in Writers
            BY <1>1, <2>2, LiveTyped DEF QueueInv
        <3>2. ~BeingLinked(Live[1])
            BY <1>1, <3>1 DEF BeingLinked, Linking
        <3> QED BY <1>1, <2>2, <3>1, <3>2, NullIsNoCell DEF QueueInv, ChainInv, EndsKnown
    <2> QED BY <2>1, <2>2
<1>2. QueueInv => EmptyIsEmpty
    BY <1>1 DEF EmptyIsEmpty
<1> QED BY <1>2, QueueInvariant, PTL

-----------------------------------------------------------------------------
(* The queue is a job channel.                                             *)

(* The jobs on the queue, as the instance of the channel has them. *)
OnQueueJobs == [i \in 1 .. Len(order) |-> buffer[order[i]]]

(* Below the limit, as long as one cell is not on the queue. *)
LEMMA QueueBounded ==
    ASSUME TypeOK, CellInv, NEW c \in Cells, c \notin OnQueue
    PROVE  Len(order) < Cardinality(Cells)
<1> DEFINE n == Len(order)
           rest == Cells \ {c}
<1>1. IsFiniteSet(Cells) /\ Cardinality(Cells) \in Nat
    <2>1. IsFiniteSet(1 .. max_allocated)
        BY FreeListBound, FS_Interval
    <2> QED BY <2>1, SomeWriters, FS_Product, FS_CardinalityType DEF Cells
<1>2. IsFiniteSet(rest) /\ Cardinality(rest) = Cardinality(Cells) - 1
    BY <1>1, FS_RemoveElement
<1>3. order \in Seq(Cells) /\ NoDup(order) /\ n \in Nat
    BY DEF TypeOK, CellInv, QueueOwns
<1>4. order \in Injection(1 .. n, rest)
    <2>1. order \in [1 .. n -> rest]
        BY <1>3 DEF OnQueue, Elems
    <2>2. IsInjective(order)
        BY <1>3, <2>1 DEF NoDup, IsInjective
    <2> QED BY <2>1, <2>2 DEF Injection
<1>5. Cardinality(1 .. n) <= Cardinality(rest)
    <2> HIDE DEF n, rest
    <2> QED BY <1>2, <1>4, FS_Injection
<1>6. Cardinality(1 .. n) = n
    <2>1. Cardinality(1 .. n) = IF 1 > n THEN 0 ELSE n - 1 + 1
        BY <1>3, FS_Interval
    <2> QED BY <2>1, <1>3
<1> QED BY <1>1, <1>2, <1>3, <1>5, <1>6

LEMMA InitJobChannel == Init => Channel!Init
<1> SUFFICES ASSUME Init PROVE Channel!Init
    OBVIOUS
<1>1. Len(order) = 0
    BY DEF Init
<1> QED BY <1>1 DEF Init, Channel!Init

(* The swap of the tail sends, the copy out of the cell receives. *)
LEMMA SwapSends ==
    ASSUME QueueInv, NEW w \in Writers, AddSwap(w)
    PROVE  Channel!Send(w)
<1> PICK c : c = data[w]
    OBVIOUS
<1>1. /\ wpc[w] = "swap" /\ order' = Append(order, c)
      /\ sent' = [sent EXCEPT ![w] = sent[w] + 1] /\ UNCHANGED <<buffer, received>>
    BY DEF AddSwap, WriterAt, cellVars
<1>2. c \in Cells /\ c \notin OnQueue /\ buffer[c] = <<w, sent[w] + 1>> /\ sent[w] < MaxAdds
    <2>1. w \in Holding /\ w \in Filling
        BY <1>1 DEF Holding, Filling
    <2> QED BY <2>1, <1>1, CellsTyped DEF QueueInv, CellInv, WritersOwn, JobInv
<1>3. Len(order) < Cardinality(Cells)
    BY <1>2, QueueBounded DEF QueueInv
<1> PICK old \in Seq(Cells) : old = order
    BY DEF QueueInv, TypeOK
<1> PICK n \in Nat : n = Len(old)
    OBVIOUS
<1> PICK jobs : jobs = OnQueueJobs
    OBVIOUS
<1> PICK longer : longer = OnQueueJobs'
    OBVIOUS
<1> PICK job : job = <<w, sent[w] + 1>>
    OBVIOUS
<1>4. \A i \in 1 .. n : old[i] \in Cells
    OBVIOUS
<1> PICK Any : Any = {buffer[d] : d \in Cells} \cup {job}
    OBVIOUS
<1>5. jobs \in Seq(Any) /\ Len(jobs) = n /\ \A i \in 1 .. n : jobs[i] = buffer[old[i]]
    <2>1. jobs = [i \in 1 .. n |-> buffer[old[i]]]
        BY DEF OnQueueJobs
    <2>2. \A i \in 1 .. n : buffer[old[i]] \in Any
        BY <1>4
    <2> QED BY <2>1, <2>2
<1>6. /\ longer \in Seq(Any) /\ Len(longer) = n + 1 /\ longer[n + 1] = job
      /\ \A i \in 1 .. n : longer[i] = buffer[old[i]]
    <2>1. order' = Append(old, c) /\ Len(order') = n + 1 /\ order'[n + 1] = c
          /\ \A i \in 1 .. n : order'[i] = old[i]
        BY <1>1, <1>2
    <2>2. longer = [i \in 1 .. n + 1 |-> buffer[order'[i]]]
        BY <1>1, <2>1 DEF OnQueueJobs
    <2>3. \A i \in 1 .. n + 1 : i \in 1 .. n \/ i = n + 1
        OBVIOUS
    <2>4. n + 1 \in 1 .. n + 1 /\ \A i \in 1 .. n : i \in 1 .. n + 1
        OBVIOUS
    <2>5. \A i \in 1 .. n + 1 : buffer[order'[i]] \in Any
        BY <1>2, <1>4, <2>1, <2>3
    <2> QED BY <1>2, <2>1, <2>2, <2>4, <2>5
<1>7. longer = Append(jobs, job)
    <2>1. /\ Append(jobs, job) \in Seq(Any) /\ Len(Append(jobs, job)) = n + 1
          /\ Append(jobs, job)[n + 1] = job
          /\ \A i \in 1 .. n : Append(jobs, job)[i] = jobs[i]
        BY <1>5
    <2>2. \A i \in 1 .. n + 1 : i \in 1 .. n \/ i = n + 1
        OBVIOUS
    <2>3. \A i \in 1 .. n + 1 : longer[i] = Append(jobs, job)[i]
        BY <2>1, <2>2, <1>5, <1>6
    <2> PICK other : other = Append(jobs, job)
        OBVIOUS
    <2>4. longer = other
        BY <2>1, <2>3, <1>6
    <2> QED BY <2>4
<1>8. OnQueueJobs' = Append(OnQueueJobs, <<w, sent[w] + 1>>) /\ Len(OnQueueJobs) < Cardinality(Cells)
    BY <1>3, <1>5, <1>7
<1> QED BY <1>1, <1>2, <1>8 DEF Channel!Send, OnQueueJobs

LEMMA TakeReceives ==
    ASSUME QueueInv, RemoveTake
    PROVE  Channel!Receive
<1> PICK old \in Seq(Cells) : old = order
    BY DEF QueueInv, TypeOK
<1> PICK n \in Nat : n = Len(old)
    OBVIOUS
<1> PICK jobs : jobs = OnQueueJobs
    OBVIOUS
<1> PICK fewer : fewer = OnQueueJobs'
    OBVIOUS
<1> PICK Any : Any = {buffer[d] : d \in Cells}
    OBVIOUS
<1>1. /\ old # <<>> /\ element = old[1] /\ order' = Tail(old) /\ UNCHANGED <<buffer, sent>>
      /\ received' = [received EXCEPT ![buffer[element][1]] = buffer[element][2]]
    BY DEF RemoveTake, ReaderAt, cellVars, QueueInv, CellInv, ReaderOwns, Reading
<1>2. /\ jobs \in Seq(Any) /\ Len(jobs) = n /\ \A i \in 1 .. n : jobs[i] = buffer[old[i]]
    <2>1. jobs = [i \in 1 .. n |-> buffer[old[i]]]
        BY DEF OnQueueJobs
    <2>2. \A i \in 1 .. n : buffer[old[i]] \in Any
        OBVIOUS
    <2> QED BY <2>1, <2>2
<1>3. n > 0 /\ jobs # <<>> /\ Head(jobs) = buffer[element]
    <2>1. n > 0
        BY <1>1
    <2>2. Head(jobs) = jobs[1]
        BY <1>2, <2>1
    <2> QED BY <2>1, <2>2, <1>1, <1>2
<1>4. /\ fewer \in Seq(Any) /\ Len(fewer) = n - 1
      /\ \A i \in 1 .. n - 1 : fewer[i] = buffer[old[i + 1]]
    <2>1. Len(order') = n - 1 /\ \A i \in 1 .. n - 1 : order'[i] = old[i + 1]
        BY <1>1
    <2>2. fewer = [i \in 1 .. n - 1 |-> buffer[order'[i]]]
        BY <1>1, <2>1 DEF OnQueueJobs
    <2>3. \A i \in 1 .. n - 1 : i + 1 \in 1 .. n
        OBVIOUS
    <2>4. \A i \in 1 .. n - 1 : buffer[order'[i]] \in Any
        BY <2>1, <2>3
    <2> QED BY <2>1, <2>2, <2>4, <1>3
<1>5. fewer = Tail(jobs)
    <2>1. Tail(jobs) \in Seq(Any) /\ Len(Tail(jobs)) = n - 1
          /\ \A i \in 1 .. n - 1 : Tail(jobs)[i] = jobs[i + 1]
        BY <1>2, <1>3
    <2>2. \A i \in 1 .. n - 1 : i + 1 \in 1 .. n
        OBVIOUS
    <2>3. \A i \in 1 .. n - 1 : fewer[i] = Tail(jobs)[i]
        BY <2>1, <2>2, <1>2, <1>4
    <2> PICK other : other = Tail(jobs)
        OBVIOUS
    <2>4. fewer = other
        BY <2>1, <2>3, <1>4
    <2> QED BY <2>4
<1>6. OnQueueJobs # <<>> /\ Head(OnQueueJobs) = buffer[element] /\ OnQueueJobs' = Tail(OnQueueJobs)
    BY <1>3, <1>5
<1> QED BY <1>1, <1>6 DEF Channel!Receive, OnQueueJobs

(* A writer fills a cell that is not on the queue. *)
LEMMA FillKeeps ==
    ASSUME QueueInv, NEW w \in Writers, AddFill(w)
    PROVE  UNCHANGED <<OnQueueJobs, sent, received>>
<1>1. /\ wpc[w] = "fill" /\ buffer' = [buffer EXCEPT ![data[w]] = <<w, sent[w] + 1>>]
      /\ UNCHANGED <<order, sent, received>>
    BY DEF AddFill, WriterAt, queueVars, counts
<1>2. w \in Filling
    BY <1>1 DEF Filling
<1>3. \A i \in 1 .. Len(order) : order[i] \in OnQueue
    BY DEF OnQueue, Elems
<1>4. \A d \in OnQueue : d \in Cells /\ d # data[w]
    BY <1>2, CellsTyped DEF QueueInv, CellInv, WritersOwn
<1>5. \A i \in 1 .. Len(order) : buffer'[order[i]] = buffer[order[i]]
    BY <1>1, <1>3, <1>4 DEF QueueInv, TypeOK
<1> QED BY <1>1, <1>5 DEF OnQueueJobs

LEMMA StepJobChannel ==
    QueueInv /\ [Next]_vars => [Channel!Next]_<<OnQueueJobs, sent, received>>
<1> SUFFICES ASSUME QueueInv, [Next]_vars
             PROVE  Channel!Next \/ UNCHANGED <<OnQueueJobs, sent, received>>
    OBVIOUS
<1> USE DEF WriterAt, ReaderAt, cellVars, queueVars, counts
<1>1. CASE UNCHANGED <<buffer, order, sent, received>>
    BY <1>1 DEF OnQueueJobs
<1>2. CASE RemoveTake
    BY <1>2, TakeReceives DEF Channel!Next
<1>3. ASSUME NEW w \in Writers, AddSwap(w) PROVE Channel!Next
    BY <1>3, SwapSends DEF Channel!Next
<1>4. ASSUME NEW w \in Writers, AddFill(w) PROVE UNCHANGED <<OnQueueJobs, sent, received>>
    BY <1>4, FillKeeps
<1>5. CASE Reader
    <2>1. RemoveTake \/ UNCHANGED <<buffer, order, sent, received>>
        BY <1>5 DEF Reader, RemoveEmpty, RemoveHead, RemoveHasNext, RemoveAdvance, RemoveNoNext,
               RemoveClear, RemoveCas, RemoveCasFails, RemoveSpin, RemoveFree, vars
    <2> QED BY <2>1, <1>1, <1>2
<1>6. ASSUME NEW w \in Writers, Writer(w)
      PROVE  AddSwap(w) \/ AddFill(w) \/ UNCHANGED <<buffer, order, sent, received>>
    BY <1>6 DEF Writer, AllocPop, AllocEmpty, AllocGrow, AllocRefused, AddFirst, AddLink
<1>7. CASE UNCHANGED vars
    BY <1>1, <1>7 DEF vars
<1> QED BY <1>1, <1>3, <1>4, <1>5, <1>6, <1>7 DEF Next

(***************************************************************************)
(* The queue is a job channel with one place for each cell, whatever the   *)
(* order in which the threads run: no job is received before it was sent,  *)
(* twice, or out of the order of its writer.  (The fairness of the channel *)
(* is left to the model checker.)                                          *)
(***************************************************************************)
THEOREM QueueIsAChannel == Spec => Channel!SafeSpec
<1> QED BY InitQueueInv, NextQueueInv, InitJobChannel, StepJobChannel, PTL
        DEF Spec, Channel!SafeSpec, Channel!channelVars, OnQueueJobs
=============================================================================
