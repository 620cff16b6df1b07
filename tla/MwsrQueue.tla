----------------------------- MODULE MwsrQueue ------------------------------
(***************************************************************************)
(* The multiple-writer single-reader shared queue of the parallel build    *)
(* (mwsr_shared_queue_add_nonblock, mwsr_shared_queue_remove_nonblock in   *)
(* src/src/include/shared/shared_queue.h) on top of the free list of cells *)
(* with one cache per writer (the USE_MUTEX_HOMED_FREE_LIST part of        *)
(* src/src/include/wsfree_list.h).                                         *)
(*                                                                         *)
(* A cell is <<w, k>>: the k-th cell that writer w allocated.  Its home is *)
(* w's cache, where it returns when the reader frees it.  The cells of a   *)
(* cache are taken last in first out, under the spinlock of the cache, so  *)
(* a pop or a push is one step.  Every plain store to memory the other     *)
(* threads load is followed by a locked instruction of the same thread, so *)
(* a buffered store only looks like a later step.  The n-th job of writer  *)
(* w is <<w, n>>.                                                          *)
(***************************************************************************)
EXTENDS Naturals, Sequences, FiniteSets

CONSTANTS Writers,        \* the threads that add jobs
          max_allocated,  \* cells one cache may allocate (the queue length)
          MaxAdds,        \* bound: how many jobs one writer adds
          NULL

ASSUME SomeWriters == IsFiniteSet(Writers)
ASSUME FreeListBound == max_allocated \in Nat
ASSUME AddBound == MaxAdds \in Nat

Cells == Writers \X (1 .. max_allocated)

ASSUME NullIsNoCell == NULL \notin Cells
ASSUME NullIsNoJob == NULL \notin Writers \X (1 .. MaxAdds)

VARIABLES
    free,             \* the free cells of each cache, the top first
    allocated_count,  \* how many cells each cache has allocated
    buffer,           \* the job in each cell
    next,             \* the link of each cell
    work_queue_head, work_queue_tail,
    wpc, data, prev,  \* each writer: its position, its cell, the tail it swapped out
    rpc, element,     \* the reader: its position and its cell
    sent,             \* how many jobs each writer has put on the queue
    received,         \* the last job of each writer that the reader returned
    order             \* history: the cells on the queue in the order of the swaps

listVars == <<free, allocated_count>>
cellVars == <<buffer, next>>
queueVars == <<work_queue_head, work_queue_tail, order>>
writerVars == <<wpc, data, prev>>
readerVars == <<rpc, element>>
counts == <<sent, received>>
vars == <<listVars, cellVars, queueVars, writerVars, readerVars, counts>>

Init ==
    /\ free = [w \in Writers |-> <<>>]
    /\ allocated_count = [w \in Writers |-> 0]
    /\ buffer = [c \in Cells |-> NULL]
    /\ next = [c \in Cells |-> NULL]
    /\ work_queue_head = NULL /\ work_queue_tail = NULL
    /\ wpc = [w \in Writers |-> "idle"]
    /\ data = [w \in Writers |-> NULL]
    /\ prev = [w \in Writers |-> NULL]
    /\ rpc = "idle" /\ element = NULL
    /\ sent = [w \in Writers |-> 0]
    /\ received = [w \in Writers |-> 0]
    /\ order = <<>>

WriterAt(w, from, to) ==
    /\ wpc[w] = from
    /\ wpc' = [wpc EXCEPT ![w] = to]

-----------------------------------------------------------------------------
(* A writer: wsfree_list_alloc, fill the cell, swap the tail, link.        *)

(* The cache of w holds a free cell. *)
AllocPop(w) ==
    /\ sent[w] < MaxAdds
    /\ free[w] # <<>>
    /\ WriterAt(w, "idle", "fill")
    /\ data' = [data EXCEPT ![w] = Head(free[w])]
    /\ free' = [free EXCEPT ![w] = Tail(@)]
    /\ UNCHANGED <<allocated_count, cellVars, queueVars, prev, readerVars, counts>>

(* The cache is empty and its lock is given back before the count is read. *)
AllocEmpty(w) ==
    /\ sent[w] < MaxAdds
    /\ free[w] = <<>>
    /\ WriterAt(w, "idle", "grow")
    /\ UNCHANGED <<listVars, cellVars, queueVars, data, prev, readerVars, counts>>

MayGrow(w) == allocated_count[w] < max_allocated

(* A new cell: calloc clears it and w's cache is its home. *)
AllocGrow(w) ==
    /\ MayGrow(w)
    /\ WriterAt(w, "grow", "fill")
    /\ allocated_count' = [allocated_count EXCEPT ![w] = @ + 1]
    /\ data' = [data EXCEPT ![w] = <<w, allocated_count[w] + 1>>]
    /\ UNCHANGED <<free, cellVars, queueVars, prev, readerVars, counts>>

(* The add returns 0: the writer is out of cells. *)
AllocRefused(w) ==
    /\ ~MayGrow(w)
    /\ WriterAt(w, "grow", "idle")
    /\ UNCHANGED <<listVars, cellVars, queueVars, data, prev, readerVars, counts>>

AddFill(w) ==
    /\ WriterAt(w, "fill", "swap")
    /\ buffer' = [buffer EXCEPT ![data[w]] = <<w, sent[w] + 1>>]
    /\ next' = [next EXCEPT ![data[w]] = NULL]
    /\ UNCHANGED <<listVars, queueVars, data, prev, readerVars, counts>>

(* shared_queue_swap: the compare-and-swap that succeeds. *)
AddSwap(w) ==
    /\ WriterAt(w, "swap", "link")
    /\ prev' = [prev EXCEPT ![w] = work_queue_tail]
    /\ work_queue_tail' = data[w]
    /\ order' = Append(order, data[w])
    /\ sent' = [sent EXCEPT ![w] = @ + 1]
    /\ UNCHANGED <<listVars, cellVars, work_queue_head, data, readerVars, received>>

(* A plausible error: the link is only made when the queue was empty. *)
AddLinkForgotten(w) ==
    /\ prev[w] # NULL
    /\ WriterAt(w, "link", "idle")
    /\ data' = [data EXCEPT ![w] = NULL]
    /\ prev' = [prev EXCEPT ![w] = NULL]
    /\ UNCHANGED <<listVars, cellVars, queueVars, readerVars, counts>>

(* The queue was empty: the cell is its head. *)
AddFirst(w) ==
    /\ prev[w] = NULL
    /\ WriterAt(w, "link", "idle")
    /\ work_queue_head' = data[w]
    /\ data' = [data EXCEPT ![w] = NULL]
    /\ UNCHANGED <<listVars, cellVars, work_queue_tail, order, prev, readerVars, counts>>

AddLink(w) ==
    /\ prev[w] # NULL
    /\ WriterAt(w, "link", "idle")
    /\ next' = [next EXCEPT ![prev[w]] = data[w]]
    /\ data' = [data EXCEPT ![w] = NULL]
    /\ prev' = [prev EXCEPT ![w] = NULL]
    /\ UNCHANGED <<listVars, buffer, queueVars, readerVars, counts>>

Writer(w) ==
    \/ AllocPop(w) \/ AllocEmpty(w) \/ AllocGrow(w) \/ AllocRefused(w)
    \/ AddFill(w) \/ AddSwap(w) \/ AddFirst(w) \/ AddLink(w)

-----------------------------------------------------------------------------
(* The reader.                                                             *)

ReaderAt(from, to) ==
    /\ rpc = from
    /\ rpc' = to

(* The remove returns 0. *)
RemoveEmpty ==
    /\ rpc = "idle" /\ work_queue_head = NULL
    /\ UNCHANGED vars

RemoveHead ==
    /\ work_queue_head # NULL
    /\ ReaderAt("idle", "look")
    /\ element' = work_queue_head
    /\ UNCHANGED <<listVars, cellVars, queueVars, writerVars, counts>>

(* The test of element->next, and, after the spin, its way out. *)
RemoveHasNext ==
    /\ rpc \in {"look", "spin"}
    /\ next[element] # NULL
    /\ rpc' = "advance"
    /\ UNCHANGED <<listVars, cellVars, queueVars, writerVars, element, counts>>

RemoveAdvance ==
    /\ ReaderAt("advance", "take")
    /\ work_queue_head' = next[element]
    /\ UNCHANGED <<listVars, cellVars, work_queue_tail, order, writerVars, element, counts>>

(* The last cell: head is cleared before the compare-and-swap on tail. *)
RemoveNoNext ==
    /\ ReaderAt("look", "clear")
    /\ next[element] = NULL
    /\ UNCHANGED <<listVars, cellVars, queueVars, writerVars, element, counts>>

(* A plausible error: the tail keeps the cell that is about to be freed. *)
RemoveClearOnly ==
    /\ ReaderAt("clear", "take")
    /\ work_queue_head' = NULL
    /\ UNCHANGED <<listVars, cellVars, work_queue_tail, order, writerVars, element, counts>>

RemoveClear ==
    /\ ReaderAt("clear", "cas")
    /\ work_queue_head' = NULL
    /\ UNCHANGED <<listVars, cellVars, work_queue_tail, order, writerVars, element, counts>>

RemoveCas ==
    /\ work_queue_tail = element
    /\ ReaderAt("cas", "take")
    /\ work_queue_tail' = NULL
    /\ UNCHANGED <<listVars, cellVars, work_queue_head, order, writerVars, element, counts>>

(* A plausible error: the reader does not wait for the writer that swapped *)
(* the tail in the meantime. *)
RemoveCasFailsNoSpin ==
    /\ work_queue_tail # element
    /\ ReaderAt("cas", "take")
    /\ UNCHANGED <<listVars, cellVars, queueVars, writerVars, element, counts>>

(* A writer swapped the tail in the meantime: spin until it has linked. *)
RemoveCasFails ==
    /\ work_queue_tail # element
    /\ ReaderAt("cas", "spin")
    /\ UNCHANGED <<listVars, cellVars, queueVars, writerVars, element, counts>>

RemoveSpin ==
    /\ rpc = "spin" /\ next[element] = NULL
    /\ UNCHANGED vars

RemoveTake ==
    /\ ReaderAt("take", "free")
    /\ received' = [received EXCEPT ![buffer[element][1]] = buffer[element][2]]
    /\ order' = Tail(order)
    /\ UNCHANGED <<listVars, cellVars, work_queue_head, work_queue_tail, writerVars, element, sent>>

(* wsfree_list_free: the cell goes home. *)
RemoveFree ==
    /\ ReaderAt("free", "idle")
    /\ free' = [free EXCEPT ![element[1]] = <<element>> \o @]
    /\ element' = NULL
    /\ UNCHANGED <<allocated_count, cellVars, queueVars, writerVars, counts>>

Reader ==
    \/ RemoveEmpty \/ RemoveHead \/ RemoveHasNext \/ RemoveAdvance \/ RemoveNoNext
    \/ RemoveClear \/ RemoveCas \/ RemoveCasFails \/ RemoveSpin \/ RemoveTake \/ RemoveFree

Next == Reader \/ \E w \in Writers : Writer(w)

(* No thread is stopped for ever in the middle of an add or a remove. *)
Fairness == WF_vars(Reader) /\ \A w \in Writers : WF_vars(Writer(w))

Spec == Init /\ [][Next]_vars
FairSpec == Spec /\ Fairness

-----------------------------------------------------------------------------
Elems(list) == {list[i] : i \in 1 .. Len(list)}
NoDup(list) == \A i, j \in 1 .. Len(list) : list[i] = list[j] => i = j

OnQueue == Elems(order)
InCache(w) == Elems(free[w])
Filling == {w \in Writers : wpc[w] \in {"fill", "swap"}}
Linking == {w \in Writers : wpc[w] = "link"}

TypeOK ==
    /\ free \in [Writers -> Seq(Cells)]
    /\ allocated_count \in [Writers -> 0 .. max_allocated]
    /\ buffer \in [Cells -> (Writers \X (1 .. MaxAdds)) \cup {NULL}]
    /\ next \in [Cells -> Cells \cup {NULL}]
    /\ work_queue_head \in Cells \cup {NULL} /\ work_queue_tail \in Cells \cup {NULL}
    /\ wpc \in [Writers -> {"idle", "grow", "fill", "swap", "link"}]
    /\ data \in [Writers -> Cells \cup {NULL}] /\ prev \in [Writers -> Cells \cup {NULL}]
    /\ rpc \in {"idle", "look", "advance", "clear", "cas", "spin", "take", "free"}
    /\ element \in Cells \cup {NULL}
    /\ sent \in [Writers -> 0 .. MaxAdds] /\ received \in [Writers -> 0 .. MaxAdds]
    /\ order \in Seq(Cells)

(* A cell has one owner.  The cell a writer fills is on no queue and in no *)
(* cache, nobody else holds it, and the cell a writer links its own cell   *)
(* to is still on the queue: a stale tail would let the writer write into  *)
(* a cell that the free list has handed out again.  A freed cell goes to   *)
(* the cache it came from.                                                 *)
NoCellShared ==
    /\ \A w \in Filling :
        /\ data[w] \notin OnQueue \cup InCache(w)
        /\ rpc # "idle" => data[w] # element
    /\ \A w \in Linking : prev[w] # NULL => prev[w] \in OnQueue
    /\ NoDup(order)
    /\ \A w \in Writers :
        /\ NoDup(free[w]) /\ InCache(w) \cap OnQueue = {}
        /\ \A c \in InCache(w) : c[1] = w /\ c[2] <= allocated_count[w]

(* A remove that finds no head means an empty queue, unless an add is      *)
(* between its swap and its link: the engine takes "no job" for an answer  *)
(* when it counts idle threads at the end of a run.                        *)
EmptyIsEmpty ==
    rpc = "idle" /\ work_queue_head = NULL /\ Linking = {} => order = <<>>

(* The spin of the remove ends. *)
SpinEnds == rpc = "spin" ~> rpc = "idle"

(* The queue is a job channel that holds max_allocated jobs of each        *)
(* writer: a job is sent when its cell becomes the tail and received when  *)
(* the reader copies it out.                                               *)
Channel == INSTANCE JobChannel WITH
    Capacity <- Cardinality(Cells),
    queue <- [i \in 1 .. Len(order) |-> buffer[order[i]]]

ImplementsChannel == Channel!Spec
=============================================================================
