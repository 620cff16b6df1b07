----------------------------- MODULE SwsrQueue ------------------------------
(***************************************************************************)
(* The single-writer single-reader shared queue, the ring that             *)
(* reset_shq_type installs when at most one thread writes to a queue       *)
(* (swsr_shared_queue_add_nonblock and swsr_shared_queue_remove_nonblock   *)
(* in src/src/include/shared/shared_queue.h).                              *)
(*                                                                         *)
(* head and tail are plain words: each thread sees its own store at once,  *)
(* the other thread sees it when the store leaves the store buffer.  head  *)
(* and tail are the owners' views, seen_head and seen_tail what the other  *)
(* thread loads.  Stores become visible in program order (x86), and the    *)
(* MACHINE_FENCE of the add waits for the writer's earlier stores.         *)
(*                                                                         *)
(* Each action holds at most one access to what the other thread shares.   *)
(* The n-th job added is the number n.                                     *)
(***************************************************************************)
EXTENDS Naturals

CONSTANTS max_length,   \* slots of the ring (MAX_SQUEUE_LEN in the program)
          MaxAdds       \* bound: how many jobs the writer adds

ASSUME RingLength == max_length \in Nat /\ max_length > 1
ASSUME AddBound == MaxAdds \in Nat

VARIABLES elements,     \* the slots of the ring
          head, seen_head,
          tail, seen_tail,
          wpc,          \* where the writer is in its add
          rpc,          \* where the reader is in its remove
          data,         \* what the reader copied out of the slot
          added,        \* how many adds have returned 1
          removed       \* how many removes have returned 1

ringVars == <<elements, head, seen_head, tail, seen_tail>>
vars == <<elements, head, seen_head, tail, seen_tail, wpc, rpc, data, added, removed>>

Slots == 0 .. max_length - 1

Succ(i) == (i + 1) % max_length

Init ==
    /\ elements = [i \in Slots |-> 0]
    /\ head = 0 /\ seen_head = 0
    /\ tail = 0 /\ seen_tail = 0
    /\ wpc = "idle" /\ rpc = "idle"
    /\ data = 0
    /\ added = 0 /\ removed = 0

-----------------------------------------------------------------------------
(* The writer.                                                             *)

(* The queue looks full: the add returns 0. *)
AddFull ==
    /\ wpc = "idle"
    /\ Succ(tail) = seen_head
    /\ UNCHANGED vars

(* A plausible error: the add does not check for a full ring. *)
AddBeginUnchecked ==
    /\ wpc = "idle"
    /\ added < MaxAdds
    /\ wpc' = "store"
    /\ UNCHANGED <<ringVars, rpc, data, added, removed>>

AddBegin ==
    /\ wpc = "idle"
    /\ added < MaxAdds
    /\ Succ(tail) # seen_head
    /\ wpc' = "store"
    /\ UNCHANGED <<ringVars, rpc, data, added, removed>>

(* A plausible error: the job is stored at the next tail. *)
AddStoreNext ==
    /\ wpc = "store"
    /\ elements' = [elements EXCEPT ![Succ(tail)] = added + 1]
    /\ wpc' = "publish"
    /\ UNCHANGED <<head, seen_head, tail, seen_tail, rpc, data, added, removed>>

AddStore ==
    /\ wpc = "store"
    /\ elements' = [elements EXCEPT ![tail] = added + 1]
    /\ wpc' = "publish"
    /\ UNCHANGED <<head, seen_head, tail, seen_tail, rpc, data, added, removed>>

(* MACHINE_FENCE, then the store to tail. *)
AddPublish ==
    /\ wpc = "publish"
    /\ seen_tail = tail
    /\ tail' = Succ(tail)
    /\ added' = added + 1
    /\ wpc' = "idle"
    /\ UNCHANGED <<elements, head, seen_head, seen_tail, rpc, data, removed>>

Writer == AddFull \/ AddBegin \/ AddStore \/ AddPublish

-----------------------------------------------------------------------------
(* The reader.                                                             *)

(* The queue looks empty: the remove returns 0. *)
RemoveEmpty ==
    /\ rpc = "idle"
    /\ head = seen_tail
    /\ UNCHANGED vars

(* A plausible error: the last job counts as an empty queue. *)
RemoveBeginLate ==
    /\ rpc = "idle"
    /\ head # seen_tail /\ Succ(head) # seen_tail
    /\ rpc' = "read"
    /\ UNCHANGED <<ringVars, wpc, data, added, removed>>

RemoveBegin ==
    /\ rpc = "idle"
    /\ head # seen_tail
    /\ rpc' = "read"
    /\ UNCHANGED <<ringVars, wpc, data, added, removed>>

RemoveRead ==
    /\ rpc = "read"
    /\ data' = elements[head]
    /\ rpc' = "advance"
    /\ UNCHANGED <<ringVars, wpc, added, removed>>

RemoveAdvance ==
    /\ rpc = "advance"
    /\ head' = Succ(head)
    /\ removed' = removed + 1
    /\ rpc' = "idle"
    /\ UNCHANGED <<elements, seen_head, tail, seen_tail, wpc, data, added>>

Reader == RemoveEmpty \/ RemoveBegin \/ RemoveRead \/ RemoveAdvance

-----------------------------------------------------------------------------
(* A store leaves the store buffer of the thread that made it.             *)

DrainTail ==
    /\ seen_tail # tail
    /\ seen_tail' = tail
    /\ UNCHANGED <<elements, head, seen_head, tail, wpc, rpc, data, added, removed>>

DrainHead ==
    /\ seen_head # head
    /\ seen_head' = Succ(seen_head)
    /\ UNCHANGED <<elements, head, tail, seen_tail, wpc, rpc, data, added, removed>>

Next == Writer \/ Reader \/ DrainTail \/ DrainHead

(* Both threads keep running and every store buffer drains. *)
Fairness ==
    /\ WF_vars(Writer) /\ WF_vars(Reader)
    /\ WF_vars(DrainTail) /\ WF_vars(DrainHead)

Spec == Init /\ [][Next]_vars
FairSpec == Spec /\ Fairness

-----------------------------------------------------------------------------
(* How many steps forward from slot i to slot j. *)
Ahead(i, j) == IF i <= j THEN j - i ELSE (j + max_length) - i

TypeOK ==
    /\ elements \in [Slots -> Nat]
    /\ head \in Slots /\ seen_head \in Slots
    /\ tail \in Slots /\ seen_tail \in Slots
    /\ wpc \in {"idle", "store", "publish"}
    /\ rpc \in {"idle", "read", "advance"}
    /\ data \in Nat /\ added \in Nat /\ removed \in Nat

(* The reader never reads the slot the writer is filling: the two ends of  *)
(* the ring, each of which the other thread learns of late, never meet in  *)
(* one slot.                                                               *)
NoSlotRace ==
    ~(wpc \in {"store", "publish"} /\ rpc \in {"read", "advance"} /\ head = tail)

(* The n-th remove returns the n-th job added: no job is lost, duplicated, *)
(* reordered or overwritten before it is read, however late each thread    *)
(* learns of the other's progress.                                         *)
InOrder == rpc = "advance" => data = removed + 1

(* One slot stays empty: the ring never holds max_length jobs, so that a   *)
(* full ring is never taken for an empty one.                              *)
OneSlotFree ==
    /\ added - removed = Ahead(head, tail)
    /\ removed + (max_length - 1) >= added

(* A job that was added is removed in the end. *)
Delivered == \A n \in 1 .. MaxAdds : added >= n ~> removed >= n

(* The ring is a job channel: a job is sent when its tail becomes visible  *)
(* to the reader and received when the reader advances head.               *)
Pending == Ahead(head, seen_tail)
Channel == INSTANCE JobChannel WITH
    Writers <- {"w"},
    Capacity <- max_length - 1,
    queue <- [k \in 1 .. Pending |-> <<"w", elements[(head + k - 1) % max_length]>>],
    sent <- [w \in {"w"} |-> removed + Pending],
    received <- [w \in {"w"} |-> removed]

ImplementsChannel == Channel!Spec
=============================================================================
