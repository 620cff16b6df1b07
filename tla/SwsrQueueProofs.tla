-------------------------- MODULE SwsrQueueProofs ---------------------------
(***************************************************************************)
(* Proofs about the ring of SwsrQueue, for every length of the ring and    *)
(* every number of jobs.                                                   *)
(***************************************************************************)
EXTENDS SwsrQueue, Sequences, TLAPS

(* The jobs in the ring: every slot between head and tail holds the job    *)
(* whose number its distance from head gives. *)
Contents ==
    \A i \in Slots :
        Ahead(head, i) < Ahead(head, tail) => elements[i] = removed + Ahead(head, i) + 1

(* seen_head, head, seen_tail and tail follow one another around the ring  *)
(* within one turn of it, and the writer has at most one buffered store.   *)
EndsInOrder ==
    /\ Ahead(seen_head, tail)
         = Ahead(seen_head, head) + Ahead(head, seen_tail) + Ahead(seen_tail, tail)
    /\ Ahead(seen_tail, tail) <= 1

(* What the writer knows once it found a free slot. *)
WriterKnows ==
    /\ wpc # "idle" => Ahead(seen_head, tail) + 1 < max_length
    /\ wpc = "publish" => elements[tail] = added + 1

(* What the reader knows once it found a job. *)
ReaderKnows ==
    /\ rpc # "idle" => Ahead(head, seen_tail) > 0
    /\ rpc = "advance" => data = removed + 1

RingInv ==
    /\ TypeOK
    /\ added = removed + Ahead(head, tail)
    /\ Contents
    /\ EndsInOrder
    /\ WriterKnows
    /\ ReaderKnows

(* Succ wraps around: the remainder of (i + 1) is either i + 1 or 0. *)
LEMMA SuccCases ==
    ASSUME NEW i \in Slots
    PROVE  Succ(i) = IF i = max_length - 1 THEN 0 ELSE i + 1
<1>1. max_length \in Nat /\ max_length > 1 /\ i \in Nat /\ i <= max_length - 1
    BY RingLength DEF Slots
<1>2. CASE i = max_length - 1
    <2>1. (i + 1) = max_length
        BY <1>1, <1>2
    <2>2. max_length % max_length = 0
        BY <1>1
    <2> QED BY <2>1, <2>2, <1>2 DEF Succ
<1>3. CASE i # max_length - 1
    <2>1. i + 1 \in Nat /\ i + 1 < max_length
        BY <1>1, <1>3
    <2>2. (i + 1) % max_length = i + 1
        BY <1>1, <2>1
    <2> QED BY <2>2, <1>3 DEF Succ
<1> QED BY <1>2, <1>3

(* Distances around the ring: they are below max_length, zero exactly from *)
(* a slot to itself, and change by one when an end moves.                  *)
LEMMA AheadFacts ==
    ASSUME NEW i \in Slots, NEW j \in Slots
    PROVE  /\ Succ(i) \in Slots
           /\ Ahead(i, j) \in Slots
           /\ Ahead(i, j) = 0 <=> i = j
           /\ Succ(j) = i <=> Ahead(i, j) = max_length - 1
           /\ Succ(j) # i => Ahead(i, Succ(j)) = Ahead(i, j) + 1
           /\ i # j => Ahead(Succ(i), j) = Ahead(i, j) - 1
<1>1. max_length \in Nat /\ max_length > 1
    BY RingLength
<1>2. Succ(i) = IF i = max_length - 1 THEN 0 ELSE i + 1
    BY SuccCases
<1>3. Succ(j) = IF j = max_length - 1 THEN 0 ELSE j + 1
    BY SuccCases
<1> QED BY <1>1, <1>2, <1>3 DEF Ahead, Slots

(* The initial ring is empty. *)
LEMMA InitRingInv == Init => RingInv
<1> SUFFICES ASSUME Init PROVE RingInv
    OBVIOUS
<1>1. max_length \in Nat /\ max_length > 1
    BY RingLength
<1>2. TypeOK
    BY <1>1 DEF Init, TypeOK, Slots
<1>3. Ahead(0, 0) = 0
    BY DEF Ahead
<1>4. \A i \in Slots : ~(Ahead(0, i) < 0)
    BY <1>1 DEF Ahead, Slots
<1> QED BY <1>2, <1>3, <1>4
        DEF Init, RingInv, Contents, EndsInOrder, WriterKnows, ReaderKnows

(* Every step of either thread, and every store that becomes visible,      *)
(* keeps the invariant.                                                    *)
LEMMA NextRingInv == RingInv /\ [Next]_vars => RingInv'
<1> SUFFICES ASSUME RingInv, [Next]_vars PROVE RingInv'
    OBVIOUS
<1>0. max_length \in Nat /\ max_length > 1
    BY RingLength
<1> USE DEF RingInv
<1>a. /\ head \in Slots /\ seen_head \in Slots /\ tail \in Slots /\ seen_tail \in Slots
      /\ added \in Nat /\ removed \in Nat
    BY DEF TypeOK
<1>b. \A i \in Slots, j \in Slots : Ahead(i, j) \in Nat /\ Ahead(i, j) < max_length
    BY AheadFacts, <1>0 DEF Slots
<1>c. \A i \in Slots, j \in Slots : Ahead(i, j) = 0 <=> i = j
    BY AheadFacts
<1>d. \A i \in Slots, j \in Slots : i # j => Ahead(Succ(i), j) = Ahead(i, j) - 1
    BY AheadFacts
<1>e. \A i \in Slots, j \in Slots : Succ(j) = i <=> Ahead(i, j) = max_length - 1
    BY AheadFacts
<1>f. \A i \in Slots, j \in Slots : Succ(j) # i => Ahead(i, Succ(j)) = Ahead(i, j) + 1
    BY AheadFacts
<1>g. \A i \in Slots : Succ(i) \in Slots
    BY AheadFacts
<1>1. CASE UNCHANGED vars
    BY <1>1 DEF vars, TypeOK, Contents, EndsInOrder, WriterKnows, ReaderKnows, Ahead, Slots
<1>2. CASE AddBegin
    <2>1. Succ(tail) # seen_head /\ UNCHANGED <<ringVars, rpc, data, added, removed>> /\ wpc' = "store"
        BY <1>2 DEF AddBegin
    <2>2. Ahead(seen_head, tail) # max_length - 1
        BY <2>1, <1>a, <1>e
    <2>3. Ahead(seen_head, tail) + 1 < max_length
        BY <2>2, <1>a, <1>b, <1>0
    <2> QED BY <2>1, <2>3 DEF ringVars, TypeOK, Contents, EndsInOrder, WriterKnows, ReaderKnows, Ahead, Slots
<1>3. CASE AddStore
    <2>1. /\ wpc = "store" /\ wpc' = "publish"
          /\ elements' = [elements EXCEPT ![tail] = added + 1]
          /\ UNCHANGED <<head, seen_head, tail, seen_tail, rpc, data, added, removed>>
        BY <1>3 DEF AddStore
    <2>2. TypeOK'
        BY <2>1 DEF TypeOK
    <2>3. elements'[tail] = added + 1 /\ \A i \in Slots : i # tail => elements'[i] = elements[i]
        BY <2>1 DEF TypeOK
    <2>4. Contents'
        BY <2>1, <2>3 DEF Contents, Ahead, Slots
    <2> QED BY <2>1, <2>2, <2>3, <2>4 DEF EndsInOrder, WriterKnows, ReaderKnows, Ahead
<1>4. CASE AddPublish
    <2>1. /\ wpc = "publish" /\ seen_tail = tail
          /\ tail' = Succ(tail) /\ added' = added + 1 /\ wpc' = "idle"
          /\ UNCHANGED <<elements, head, seen_head, seen_tail, rpc, data, removed>>
        BY <1>4 DEF AddPublish
    <2>2. Ahead(seen_head, tail) + 1 < max_length
        BY <2>1 DEF WriterKnows
    <2>3. Ahead(seen_tail, tail) = 0
        BY <2>1, <1>a, <1>c
    <2>4. Ahead(head, tail) <= Ahead(seen_head, tail)
        BY <1>a, <1>b, <2>1, <2>3 DEF EndsInOrder
    <2>5. /\ Ahead(seen_head, Succ(tail)) = Ahead(seen_head, tail) + 1
          /\ Ahead(head, Succ(tail)) = Ahead(head, tail) + 1
          /\ Ahead(seen_tail, Succ(tail)) = Ahead(seen_tail, tail) + 1
        <3>1. /\ Ahead(seen_head, tail) # max_length - 1
              /\ Ahead(head, tail) # max_length - 1
              /\ Ahead(seen_tail, tail) # max_length - 1
            BY <2>2, <2>3, <2>4, <1>a, <1>b, <1>0
        <3> QED BY <3>1, <1>a, <1>e, <1>f
    <2>6. TypeOK'
        BY <2>1, <1>a, <1>g DEF TypeOK
    <2>7. \A i \in Slots : Ahead(head, i) = Ahead(head, tail) => i = tail
        BY <1>0, <1>a DEF Ahead, Slots
    <2>8. Contents'
        <3> SUFFICES ASSUME NEW i \in Slots, Ahead(head, i) < Ahead(head, tail) + 1
                     PROVE  elements[i] = removed + Ahead(head, i) + 1
            BY <2>1, <2>5 DEF Contents, Ahead, Slots
        <3>1. CASE Ahead(head, i) < Ahead(head, tail)
            BY <3>1 DEF Contents
        <3>2. CASE Ahead(head, i) = Ahead(head, tail)
            BY <3>2, <2>7, <2>1, <1>a, <1>b DEF WriterKnows
        <3> QED BY <3>1, <3>2, <1>a, <1>b
    <2>9. (added = removed + Ahead(head, tail))'
        BY <2>1, <2>5, <1>a, <1>b DEF Ahead
    <2>10. EndsInOrder'
        BY <2>1, <2>3, <2>5, <1>a, <1>b DEF EndsInOrder, Ahead
    <2> QED BY <2>1, <2>6, <2>8, <2>9, <2>10 DEF WriterKnows, ReaderKnows, Ahead
<1>5. CASE RemoveBegin
    <2>1. head # seen_tail /\ rpc' = "read" /\ UNCHANGED <<ringVars, wpc, data, added, removed>>
        BY <1>5 DEF RemoveBegin
    <2>2. Ahead(head, seen_tail) # 0
        BY <2>1, <1>a, <1>c
    <2>3. Ahead(head, seen_tail) > 0
        BY <2>2, <1>a, <1>b
    <2> QED BY <2>1, <2>3 DEF ringVars, TypeOK, Contents, EndsInOrder, WriterKnows, ReaderKnows, Ahead, Slots
<1>6. CASE RemoveRead
    <2>1. /\ rpc = "read" /\ rpc' = "advance" /\ data' = elements[head]
          /\ UNCHANGED <<ringVars, wpc, added, removed>>
        BY <1>6 DEF RemoveRead
    <2>2. Ahead(head, head) = 0 /\ Ahead(head, head) < Ahead(head, tail)
        <3>1. Ahead(head, seen_tail) > 0
            BY <2>1 DEF ReaderKnows
        <3>2. Ahead(head, tail) > 0
            BY <3>1, <1>0, <1>a DEF EndsInOrder, Ahead, Slots
        <3> QED BY <3>2, <1>a, <1>c
    <2>3. data' = removed + 1
        BY <2>1, <2>2, <1>a DEF Contents
    <2>4. TypeOK'
        BY <2>1, <2>3, <1>a DEF TypeOK, ringVars
    <2> QED BY <2>1, <2>3, <2>4 DEF ringVars, Contents, EndsInOrder, WriterKnows, ReaderKnows, Ahead, Slots
<1>7. CASE RemoveAdvance
    <2>1. /\ rpc = "advance" /\ rpc' = "idle"
          /\ head' = Succ(head) /\ removed' = removed + 1
          /\ UNCHANGED <<elements, seen_head, tail, seen_tail, wpc, data, added>>
        BY <1>7 DEF RemoveAdvance
    <2>2. Ahead(head, seen_tail) > 0
        BY <2>1 DEF ReaderKnows
    <2>3. Ahead(seen_head, head) < max_length - 1
        BY <2>2, <1>a, <1>b, <1>0 DEF EndsInOrder
    <2>4. Ahead(head, tail) > 0
        BY <2>2, <1>0, <1>a DEF EndsInOrder, Ahead, Slots
    <2>5. /\ Ahead(seen_head, Succ(head)) = Ahead(seen_head, head) + 1
          /\ Ahead(Succ(head), seen_tail) = Ahead(head, seen_tail) - 1
          /\ Ahead(Succ(head), tail) = Ahead(head, tail) - 1
        <3>1. Succ(head) # seen_head
            <4>1. Succ(head) = seen_head => Ahead(seen_head, head) = max_length - 1
                BY <1>a, <1>e
            <4> QED BY <4>1, <2>3, <1>a, <1>b, <1>0
        <3>2. Ahead(seen_head, Succ(head)) = Ahead(seen_head, head) + 1
            BY <3>1, <1>a, <1>f
        <3>3. head # seen_tail /\ head # tail
            BY <2>2, <2>4, <1>a, <1>c
        <3> QED BY <3>2, <3>3, <1>a, <1>d
    <2>6. TypeOK'
        BY <2>1, <1>a, <1>g DEF TypeOK
    <2>7. Contents'
        <3> SUFFICES ASSUME NEW i \in Slots, Ahead(Succ(head), i) < Ahead(head, tail) - 1
                     PROVE  elements[i] = removed + 1 + Ahead(Succ(head), i) + 1
            BY <2>1, <2>5 DEF Contents, Ahead, Slots
        <3>1. i # head
            <4>1. Ahead(Succ(head), head) = max_length - 1
                BY <1>a, <1>e, <1>g
            <4> QED BY <4>1, <1>a, <1>b, <1>0
        <3>2. Ahead(Succ(head), i) = Ahead(head, i) - 1
            BY <3>1, <1>a, <1>d
        <3> QED BY <3>2, <1>a, <1>b DEF Contents
    <2>8. (added = removed + Ahead(head, tail))'
        BY <2>1, <2>5, <1>a, <1>b DEF Ahead
    <2>9. EndsInOrder'
        BY <2>1, <2>5, <1>a, <1>b DEF EndsInOrder, Ahead
    <2> QED BY <2>1, <2>6, <2>7, <2>8, <2>9 DEF WriterKnows, ReaderKnows, Ahead
<1>8. CASE DrainTail
    <2>1. /\ seen_tail' = tail
          /\ UNCHANGED <<elements, head, seen_head, tail, wpc, rpc, data, added, removed>>
        BY <1>8 DEF DrainTail
    <2>2. Ahead(tail, tail) = 0
        BY <1>a, <1>c
    <2>3. Ahead(head, tail) = Ahead(head, seen_tail) + Ahead(seen_tail, tail)
        BY <1>0, <1>a DEF EndsInOrder, Ahead, Slots
    <2>4. TypeOK' /\ Contents' /\ WriterKnows'
        BY <2>1 DEF TypeOK, Contents, WriterKnows, Ahead, Slots
    <2>5. EndsInOrder' /\ ReaderKnows'
        BY <2>1, <2>2, <2>3, <1>a, <1>b DEF EndsInOrder, ReaderKnows, Ahead
    <2> QED BY <2>1, <2>4, <2>5 DEF Ahead
<1>9. CASE DrainHead
    <2>1. /\ seen_head # head /\ seen_head' = Succ(seen_head)
          /\ UNCHANGED <<elements, head, tail, seen_tail, wpc, rpc, data, added, removed>>
        BY <1>9 DEF DrainHead
    <2>2. Ahead(Succ(seen_head), head) = Ahead(seen_head, head) - 1
        BY <2>1, <1>a, <1>d
    <2>3. Ahead(seen_head, head) > 0
        <3>1. Ahead(seen_head, head) # 0
            BY <2>1, <1>a, <1>c
        <3> QED BY <3>1, <1>a, <1>b
    <2>4. Ahead(Succ(seen_head), tail) = Ahead(seen_head, tail) - 1
        <3>1. Ahead(seen_head, tail) > 0
            BY <2>3, <1>a, <1>b DEF EndsInOrder
        <3> QED BY <3>1, <1>a, <1>c, <1>d
    <2>5. TypeOK'
        BY <2>1, <1>a, <1>g DEF TypeOK
    <2>6. Contents'
        BY <2>1 DEF Contents, Ahead, Slots
    <2>7. EndsInOrder'
        BY <2>1, <2>2, <2>4, <1>a, <1>b DEF EndsInOrder, Ahead
    <2>8. WriterKnows'
        BY <2>1, <2>4, <1>a, <1>b, <1>0 DEF WriterKnows, Ahead
    <2> QED BY <2>1, <2>5, <2>6, <2>7, <2>8 DEF ReaderKnows, Ahead
<1> QED BY <1>1, <1>2, <1>3, <1>4, <1>5, <1>6, <1>7, <1>8, <1>9
        DEF Next, Writer, Reader, AddFull, RemoveEmpty

(* The invariant gives what the runs check. *)
LEMMA RingInvImplies == RingInv => TypeOK /\ NoSlotRace /\ InOrder /\ OneSlotFree
<1> SUFFICES ASSUME RingInv PROVE TypeOK /\ NoSlotRace /\ InOrder /\ OneSlotFree
    OBVIOUS
<1>0. max_length \in Nat /\ max_length > 1
    BY RingLength
<1>1. TypeOK /\ InOrder
    BY DEF RingInv, ReaderKnows, InOrder
<1>a. /\ head \in Slots /\ seen_head \in Slots /\ tail \in Slots /\ seen_tail \in Slots
      /\ added \in Nat /\ removed \in Nat
    BY DEF RingInv, TypeOK
<1>b. \A i \in Slots, j \in Slots : Ahead(i, j) \in Nat /\ Ahead(i, j) < max_length
    BY AheadFacts, <1>0 DEF Slots
<1>2. NoSlotRace
    <2> SUFFICES ASSUME wpc \in {"store", "publish"}, rpc \in {"read", "advance"}, head = tail
                 PROVE  FALSE
        BY DEF NoSlotRace
    <2>1. Ahead(head, seen_tail) > 0
        BY DEF RingInv, ReaderKnows
    <2>2. Ahead(seen_head, tail) = Ahead(seen_head, tail) + Ahead(head, seen_tail) + Ahead(seen_tail, tail)
        BY DEF RingInv, EndsInOrder
    <2> QED BY <2>1, <2>2, <1>a, <1>b
<1>3. OneSlotFree
    BY <1>a, <1>b, <1>0 DEF RingInv, OneSlotFree
<1> QED BY <1>1, <1>2, <1>3

(* The ring is well formed, its two ends never share a slot, the n-th      *)
(* remove returns the n-th job, and one slot stays free, in every state of *)
(* the queue of any length: this is swsr_shared_queue_add_nonblock against *)
(* swsr_shared_queue_remove_nonblock, with stores that become visible      *)
(* late.                                                                   *)
THEOREM RingSafe == Spec => [](TypeOK /\ InOrder /\ OneSlotFree)
<1>1. RingInv /\ [Next]_vars => RingInv'
    BY NextRingInv
<1> QED BY InitRingInv, <1>1, RingInvImplies, PTL DEF Spec

(* The reader never copies a job out of the slot that the writer is        *)
(* filling: swsr_shared_queue_add_nonblock may store to the slot at tail   *)
(* without a lock.                                                         *)
THEOREM EndsApart == Spec => []NoSlotRace
<1>1. RingInv /\ [Next]_vars => RingInv'
    BY NextRingInv
<1> QED BY InitRingInv, <1>1, RingInvImplies, PTL DEF Spec

-----------------------------------------------------------------------------
(* The ring implements the job channel.                                    *)

(* The writer adds at most MaxAdds jobs. *)
AddsBounded ==
    /\ added <= MaxAdds
    /\ wpc # "idle" => added < MaxAdds

LEMMA NextAddsBounded == TypeOK /\ AddsBounded /\ [Next]_vars => AddsBounded'
BY AddBound DEF AddsBounded, TypeOK, Next, Writer, Reader, AddFull, AddBegin, AddStore, AddPublish,
    RemoveEmpty, RemoveBegin, RemoveRead, RemoveAdvance, DrainTail, DrainHead, vars, ringVars

(* The d-th slot after i is d steps ahead of it. *)
LEMMA SlotAt ==
    ASSUME NEW i \in Slots, NEW d \in Slots
    PROVE  (i + d) % max_length \in Slots /\ Ahead(i, (i + d) % max_length) = d
<1>0. max_length \in Nat /\ max_length > 1
    BY RingLength
<1>1. i \in Nat /\ d \in Nat /\ i < max_length /\ d < max_length
    BY <1>0 DEF Slots
<1>2. CASE i + d < max_length
    <2>1. (i + d) % max_length = i + d
        BY <1>0, <1>1, <1>2
    <2> QED BY <2>1, <1>0, <1>1, <1>2 DEF Ahead, Slots
<1>3. CASE i + d >= max_length
    <2>1. (i + d) % max_length = (i + d) - max_length
        BY <1>0, <1>1, <1>3
    <2> QED BY <2>1, <1>0, <1>1, <1>3 DEF Ahead, Slots
<1> QED BY <1>0, <1>1, <1>2, <1>3

(* n jobs of the writer that follow the first r. *)
Jobs(n, r) == [k \in 1 .. n |-> <<"w", r + k>>]

LEMMA JobsAppend ==
    ASSUME NEW n \in Nat, NEW r \in Nat
    PROVE  /\ Len(Jobs(n, r)) = n
           /\ Jobs(n + 1, r) = Append(Jobs(n, r), <<"w", r + n + 1>>)
<1>1. Jobs(n, r) \in Seq({"w"} \X Nat) /\ Jobs(n + 1, r) \in Seq({"w"} \X Nat)
    BY DEF Jobs
<1>2. Len(Jobs(n, r)) = n /\ Len(Jobs(n + 1, r)) = n + 1
    BY DEF Jobs
<1> DEFINE longer == Append(Jobs(n, r), <<"w", r + n + 1>>)
<1>3. longer \in Seq({"w"} \X Nat) /\ Len(longer) = n + 1
    BY <1>1, <1>2
<1>4. \A k \in 1 .. n : longer[k] = <<"w", r + k>>
    BY <1>1, <1>2 DEF Jobs
<1>5. longer[n + 1] = <<"w", r + n + 1>>
    BY <1>1, <1>2
<1>6. \A k \in 1 .. n + 1 : Jobs(n + 1, r)[k] = longer[k]
    BY <1>4, <1>5 DEF Jobs
<1> HIDE DEF longer
<1>7. Jobs(n + 1, r) = longer
    BY <1>1, <1>2, <1>3, <1>6
<1> QED BY <1>2, <1>7 DEF longer

LEMMA JobsTail ==
    ASSUME NEW n \in Nat, n > 0, NEW r \in Nat
    PROVE  /\ Jobs(n, r) # <<>> /\ Head(Jobs(n, r)) = <<"w", r + 1>>
           /\ Tail(Jobs(n, r)) = Jobs(n - 1, r + 1)
<1> DEFINE S == {"w"} \X Nat
           longer == Jobs(n, r)
           rest == Jobs(n - 1, r + 1)
<1>1. longer \in Seq(S) /\ rest \in Seq(S)
    BY DEF Jobs
<1>2. Len(longer) = n /\ Len(rest) = n - 1
    BY DEF Jobs
<1>3. longer[1] = <<"w", r + 1>> /\ \A k \in 1 .. n - 1 : longer[k + 1] = rest[k]
    BY DEF Jobs
<1> HIDE DEF longer, rest, S
<1>4. longer # <<>> /\ Head(longer) = <<"w", r + 1>>
    BY <1>1, <1>2, <1>3
<1>5. Tail(longer) \in Seq(S) /\ Len(Tail(longer)) = n - 1
    BY <1>1, <1>2, <1>4
<1>6. \A k \in 1 .. n - 1 : Tail(longer)[k] = longer[k + 1]
    BY <1>1, <1>2, <1>4
<1>7. Tail(longer) = rest
    BY <1>1, <1>2, <1>3, <1>5, <1>6
<1> QED BY <1>4, <1>7 DEF longer, rest

(* The three variables of the channel, as the ring holds them. *)
InRing == [k \in 1 .. Pending |-> <<"w", elements[(head + k - 1) % max_length]>>]
SentBy == [w \in {"w"} |-> removed + Pending]
ReceivedFrom == [w \in {"w"} |-> removed]

(* What the reader can see between its head and its view of tail are the   *)
(* jobs that follow the last one it took. *)
InRingAreJobs == Pending \in Nat /\ Pending < max_length /\ InRing = Jobs(Pending, removed)

LEMMA RingJobs == RingInv => InRingAreJobs
<1> SUFFICES ASSUME RingInv PROVE InRingAreJobs
    OBVIOUS
<1>0. max_length \in Nat /\ max_length > 1
    BY RingLength
<1>a. head \in Slots /\ seen_head \in Slots /\ tail \in Slots /\ seen_tail \in Slots /\ removed \in Nat
    BY DEF RingInv, TypeOK
<1>1. Pending \in Nat /\ Pending < max_length
    BY <1>0, <1>a, AheadFacts DEF Pending, Slots
<1>2. Pending <= Ahead(head, tail)
    BY <1>0, <1>a DEF RingInv, EndsInOrder, Pending, Ahead, Slots
<1>3. ASSUME NEW k \in 1 .. Pending
      PROVE  elements[(head + k - 1) % max_length] = removed + k
    <2> DEFINE d == k - 1
               i == (head + d) % max_length
    <2>1. d \in Slots /\ k - 1 < Pending /\ head + k - 1 = head + d
        BY <1>0, <1>1, <1>a DEF Slots
    <2>2. i \in Slots /\ Ahead(head, i) = d
        BY <2>1, <1>a, SlotAt
    <2>3. Ahead(head, i) < Ahead(head, tail)
        <3>1. Ahead(head, tail) \in Nat
            BY <1>a, AheadFacts DEF Slots
        <3> QED BY <2>1, <2>2, <1>1, <1>2, <3>1 DEF Slots
    <2> HIDE DEF i
    <2>4. elements[i] = removed + d + 1
        BY <2>2, <2>3 DEF RingInv, Contents
    <2>5. removed + d + 1 = removed + k
        BY <1>a
    <2> QED BY <2>1, <2>4, <2>5 DEF i
<1>4. InRing = Jobs(Pending, removed)
    BY <1>3 DEF InRing, Jobs
<1> QED BY <1>1, <1>4 DEF InRingAreJobs

LEMMA InitChannel == Init => Channel!Init
<1> SUFFICES ASSUME Init PROVE Channel!Init
    OBVIOUS
<1>1. Pending = 0 /\ removed = 0
    BY DEF Init, Pending, Ahead
<1> QED BY <1>1 DEF Channel!Init

(* A job is sent when its tail becomes visible, and received when the      *)
(* reader advances head; no other step changes the channel.                *)
LEMMA StepChannel ==
    RingInv /\ AddsBounded /\ [Next]_vars => [Channel!Next]_<<InRing, SentBy, ReceivedFrom>>
<1> SUFFICES ASSUME RingInv, AddsBounded, [Next]_vars
             PROVE  Channel!Next \/ UNCHANGED <<InRing, SentBy, ReceivedFrom>>
    OBVIOUS
<1>0. max_length \in Nat /\ max_length > 1
    BY RingLength
<1>1. RingInv'
    BY NextRingInv
<1>2. Pending \in Nat /\ InRing = Jobs(Pending, removed)
    BY RingJobs DEF InRingAreJobs
<1>3. Pending' \in Nat /\ Pending' < max_length /\ InRing' = Jobs(Pending', removed')
    <2>1. InRingAreJobs'
        BY <1>1, RingJobs, PTL
    <2> QED BY <2>1 DEF InRingAreJobs
<1>a. /\ head \in Slots /\ seen_head \in Slots /\ seen_tail \in Slots /\ tail \in Slots
      /\ added \in Nat /\ removed \in Nat /\ MaxAdds \in Nat
    BY AddBound DEF RingInv, TypeOK
<1>4. CASE DrainTail
    <2>1. seen_tail # tail /\ Pending' = Ahead(head, tail) /\ removed' = removed
        BY <1>4 DEF DrainTail, Pending, Ahead
    <2>2. Pending' = Pending + 1
        <3>1. Ahead(seen_tail, tail) = 1
            <4>1. Ahead(seen_tail, tail) \in Nat /\ Ahead(seen_tail, tail) # 0
                BY <2>1, <1>a, AheadFacts DEF Slots
            <4> QED BY <4>1 DEF RingInv, EndsInOrder
        <3> QED BY <3>1, <2>1, <1>0, <1>a DEF RingInv, EndsInOrder, Pending, Ahead, Slots
    <2>3. Pending < max_length - 1 /\ removed + Pending < MaxAdds
        BY <2>1, <2>2, <1>0, <1>2, <1>3, <1>a DEF RingInv, AddsBounded
    <2>4. Len(InRing) < max_length - 1 /\ InRing' = Append(InRing, <<"w", removed + Pending + 1>>)
        BY <2>1, <2>2, <2>3, <1>2, <1>3, <1>a, JobsAppend
    <2>5. SentBy["w"] = removed + Pending /\ SentBy' = [SentBy EXCEPT !["w"] = @ + 1]
        BY <2>1, <2>2, <1>2, <1>a DEF SentBy
    <2>6. UNCHANGED ReceivedFrom
        BY <2>1 DEF ReceivedFrom
    <2>7. Channel!Send("w")
        BY <2>3, <2>4, <2>5, <2>6 DEF Channel!Send, InRing, SentBy, ReceivedFrom
    <2> QED BY <2>7 DEF Channel!Next
<1>5. CASE RemoveAdvance
    <2>1. /\ rpc = "advance" /\ head' = Succ(head) /\ removed' = removed + 1
          /\ UNCHANGED <<elements, seen_tail>>
        BY <1>5 DEF RemoveAdvance
    <2>2. Pending > 0 /\ head # seen_tail
        <3>1. Pending > 0
            BY <2>1 DEF RingInv, ReaderKnows, Pending
        <3> QED BY <3>1, <1>a, AheadFacts DEF Pending
    <2>3. Pending' = Pending - 1
        BY <2>1, <2>2, <1>a, AheadFacts DEF Pending, Ahead
    <2>4. InRing # <<>> /\ Head(InRing) = <<"w", removed + 1>> /\ InRing' = Tail(InRing)
        BY <2>1, <2>2, <2>3, <1>2, <1>3, <1>a, JobsTail
    <2>5. UNCHANGED SentBy
        BY <2>1, <2>3, <1>2, <1>a DEF SentBy
    <2>6. ReceivedFrom' = [ReceivedFrom EXCEPT ![Head(InRing)[1]] = Head(InRing)[2]]
        BY <2>1, <2>4 DEF ReceivedFrom
    <2>7. Channel!Receive
        BY <2>4, <2>5, <2>6 DEF Channel!Receive, InRing, SentBy, ReceivedFrom
    <2> QED BY <2>7 DEF Channel!Next
<1>6. CASE UNCHANGED <<head, seen_tail, removed>>
    <2>1. Pending' = Pending
        BY <1>6 DEF Pending, Ahead
    <2> QED BY <2>1, <1>2, <1>3, <1>6 DEF SentBy, ReceivedFrom
<1> QED BY <1>4, <1>5, <1>6
        DEF Next, Writer, Reader, AddFull, AddBegin, AddStore, AddPublish, RemoveEmpty, RemoveBegin,
            RemoveRead, DrainHead, vars, ringVars

(* The ring is a job channel of max_length - 1 jobs, whatever the order in *)
(* which the two threads run and their stores become visible: no job is    *)
(* received before it was sent, twice or out of order.  (The fairness of   *)
(* the channel is left to the model checker.)                              *)
THEOREM RingIsAChannel == Spec => Channel!SafeSpec
<1>1. Init => AddsBounded
    BY AddBound DEF Init, AddsBounded
<1>2. RingInv => TypeOK
    BY DEF RingInv
<1> QED BY <1>1, <1>2, InitRingInv, NextRingInv, NextAddsBounded, InitChannel, StepChannel, PTL
        DEF Spec, Channel!SafeSpec, Channel!channelVars, InRing, SentBy, ReceivedFrom
=============================================================================
