-------------------------- MODULE DataLabelsProofs --------------------------
(***************************************************************************)
(* Proofs about DataLabels, for any set of threads, any labels and any     *)
(* number of slots.                                                        *)
(***************************************************************************)
EXTENDS DataLabels, FiniteSetTheorems, TLAPS

(* The slots handed out in this life of the data. *)
Taken == label_len + Cardinality(Adding)

(* The slots of the threads that add lie between label_len and Taken, and  *)
(* a slot that was stored to holds its thread's label.                     *)
SlotsTaken ==
    /\ \A t \in Adding : label_len <= tmp[t] /\ tmp[t] < Taken
    /\ \A t, u \in Adding : t # u => tmp[t] # tmp[u]

Stored ==
    /\ \A t \in Threads : pc[t] = "store" => label[t] \in Labels
    /\ \A t \in Threads : pc[t] = "wait" => labels[tmp[t]] = label[t] /\ label[t] \in Labels

(* Below label_len every slot is filled. *)
Filled == \A i \in Slots : i < label_len => labels[i] \in Labels

LabelInv ==
    /\ TypeOK
    /\ CountExact
    /\ Taken <= WSDATA_MAX_LABELS
    /\ RefusedOnlyFull
    /\ SlotsTaken
    /\ Stored
    /\ Filled

(* Adding and Over are finite. *)
LEMMA SetsFinite ==
    /\ IsFiniteSet(Adding) /\ Cardinality(Adding) \in Nat
    /\ IsFiniteSet(Over) /\ Cardinality(Over) \in Nat
<1>1. Adding \in SUBSET Threads /\ Over \in SUBSET Threads
    BY DEF Adding, Over
<1>2. IsFiniteSet(Adding) /\ IsFiniteSet(Over)
    BY <1>1, SomeThreads, FS_Subset
<1> QED BY <1>2, FS_CardinalityType

(* Before the first call nothing is taken. *)
LEMMA InitLabelInv == Init => LabelInv
<1> SUFFICES ASSUME Init PROVE LabelInv
    OBVIOUS
<1>1. Adding = {} /\ Over = {}
    BY DEF Init, Adding, Over
<1>2. Cardinality(Adding) = 0 /\ Cardinality(Over) = 0
    BY <1>1, FS_EmptySet
<1>3. TypeOK
    BY <1>1, LabelLimit DEF Init, TypeOK, Slots
<1> QED BY <1>1, <1>2, <1>3, LabelLimit
        DEF Init, LabelInv, CountExact, Taken, RefusedOnlyFull, SlotsTaken, Stored, Filled, Slots

(* How a step of one thread changes the sets of threads that add and of    *)
(* threads that were refused.                                              *)
LEMMA SetsAfterStep ==
    ASSUME NEW t \in Threads, NEW x, pc' = [pc EXCEPT ![t] = x], TypeOK
    PROVE  /\ x \in {"store", "wait"} /\ t \in Adding => Adding' = Adding
           /\ x \in {"store", "wait"} /\ t \notin Adding => Adding' = Adding \cup {t}
           /\ x \notin {"store", "wait"} /\ t \in Adding => Adding' = Adding \ {t}
           /\ x \notin {"store", "wait"} /\ t \notin Adding => Adding' = Adding
           /\ x = "undo" => Over' = Over \cup {t}
           /\ x # "undo" /\ t \in Over => Over' = Over \ {t}
           /\ x # "undo" /\ t \notin Over => Over' = Over
BY DEF Adding, Over, TypeOK

(* ... and their numbers, when it enters or leaves one of them. *)
LEMMA JoinAdding ==
    ASSUME NEW t \in Threads, pc' = [pc EXCEPT ![t] = "store"], TypeOK, t \notin Adding, t \notin Over
    PROVE  Adding' = Adding \cup {t} /\ Cardinality(Adding') = Cardinality(Adding) + 1 /\ Over' = Over
<1>1. Adding' = Adding \cup {t} /\ Over' = Over
    BY SetsAfterStep
<1>2. Cardinality(Adding \cup {t}) = Cardinality(Adding) + 1
    BY SetsFinite, FS_AddElement
<1> QED BY <1>1, <1>2

LEMMA LeaveAdding ==
    ASSUME NEW t \in Threads, pc' = [pc EXCEPT ![t] = "idle"], TypeOK, t \in Adding, t \notin Over
    PROVE  Adding' = Adding \ {t} /\ Cardinality(Adding') = Cardinality(Adding) - 1 /\ Over' = Over
<1>1. Adding' = Adding \ {t} /\ Over' = Over
    BY SetsAfterStep
<1>2. Cardinality(Adding \ {t}) = Cardinality(Adding) - 1
    BY SetsFinite, FS_RemoveElement
<1> QED BY <1>1, <1>2

LEMMA JoinOver ==
    ASSUME NEW t \in Threads, pc' = [pc EXCEPT ![t] = "undo"], TypeOK, t \notin Adding, t \notin Over
    PROVE  Adding' = Adding /\ Cardinality(Over') = Cardinality(Over) + 1
<1>1. Adding' = Adding /\ Over' = Over \cup {t}
    BY SetsAfterStep
<1>2. Cardinality(Over \cup {t}) = Cardinality(Over) + 1
    BY SetsFinite, FS_AddElement
<1> QED BY <1>1, <1>2

LEMMA LeaveOver ==
    ASSUME NEW t \in Threads, pc' = [pc EXCEPT ![t] = "idle"], TypeOK, t \notin Adding, t \in Over
    PROVE  Adding' = Adding /\ Cardinality(Over') = Cardinality(Over) - 1
<1>1. Adding' = Adding
    BY SetsAfterStep
<1>2. Over' = Over \ {t}
    BY DEF Over, TypeOK
<1>3. Cardinality(Over \ {t}) = Cardinality(Over) - 1
    BY SetsFinite, FS_RemoveElement
<1> QED BY <1>1, <1>2, <1>3

(* A slot is handed out: it is the first one not taken. *)
LEMMA ReserveInv ==
    ASSUME LabelInv, NEW t \in Threads, NEW l \in Labels, Reserve(t, l)
    PROVE  LabelInv'
<1> USE DEF LabelInv
<1>1. pc' = [pc EXCEPT ![t] = "store"] /\ t \notin Adding /\ t \notin Over
    BY DEF Reserve, Step, Adding, Over
<1>2. Cardinality(Adding') = Cardinality(Adding) + 1 /\ Over' = Over
    BY <1>1, JoinAdding
<1>3. Adding' = Adding \cup {t}
    BY <1>1, SetsAfterStep
<1>4. Cardinality(Adding) \in Nat /\ Cardinality(Over) \in Nat
    BY SetsFinite
<1>5. Over = {} /\ Cardinality(Over) = 0 /\ writer_label_len = Taken
    <2>1. Over = {}
        BY <1>4, LabelLimit DEF Reserve, Fits, RefusedOnlyFull, CountExact, TypeOK
    <2> QED BY <2>1, <1>4, FS_EmptySet DEF CountExact, Taken, TypeOK
<1>6. writer_label_len \in Slots /\ writer_label_len' = writer_label_len + 1
    BY LabelLimit DEF Reserve, Fits, Slots, TypeOK
<1>7. tmp' = [tmp EXCEPT ![t] = writer_label_len] /\ label' = [label EXCEPT ![t] = l]
      /\ labels' = labels /\ label_len' = label_len
    BY DEF Reserve
<1>8. TypeOK'
    BY <1>1, <1>3, <1>6, <1>7 DEF TypeOK, Slots
<1>9. CountExact' /\ (Taken <= WSDATA_MAX_LABELS)' /\ RefusedOnlyFull'
    BY <1>2, <1>4, <1>5, <1>6, <1>7, LabelLimit
       DEF CountExact, Taken, RefusedOnlyFull, TypeOK, Slots
<1>10. SlotsTaken'
    <2>1. Taken' = Taken + 1 /\ Taken \in Nat /\ label_len \in Nat
        BY <1>2, <1>4, <1>7 DEF Taken, TypeOK
    <2>2. tmp'[t] = Taken /\ \A u \in Adding : tmp'[u] = tmp[u] /\ tmp[u] \in Nat /\ u # t
        BY <1>1, <1>5, <1>7 DEF TypeOK, Adding
    <2>3. label_len <= Taken
        BY <1>4 DEF Taken, TypeOK
    <2>4. \A u \in Adding : label_len <= tmp[u] /\ tmp[u] < Taken
        BY DEF SlotsTaken
    <2>5. \A u, v \in Adding : u # v => tmp[u] # tmp[v]
        BY DEF SlotsTaken
    <2>6. \A u \in Adding' : label_len' <= tmp'[u] /\ tmp'[u] < Taken'
        BY <2>1, <2>2, <2>3, <2>4, <1>3, <1>7
    <2>7. \A u, v \in Adding' : u # v => tmp'[u] # tmp'[v]
        BY <2>1, <2>2, <2>4, <2>5, <1>3
    <2> QED BY <2>6, <2>7 DEF SlotsTaken
<1>11. Stored' /\ Filled'
    BY <1>1, <1>7 DEF Stored, Filled, TypeOK
<1> QED BY <1>8, <1>9, <1>10, <1>11

(* A thread is refused: all slots are taken. *)
LEMMA ReserveOverInv ==
    ASSUME LabelInv, NEW t \in Threads, ReserveOver(t)
    PROVE  LabelInv'
<1> USE DEF LabelInv
<1>1. pc' = [pc EXCEPT ![t] = "undo"] /\ t \notin Adding /\ t \notin Over
    BY DEF ReserveOver, Step, Adding, Over
<1>2. Adding' = Adding /\ Cardinality(Over') = Cardinality(Over) + 1
    BY <1>1, JoinOver
<1>3. Cardinality(Adding) \in Nat /\ Cardinality(Over) \in Nat
    BY SetsFinite
<1>4. Taken = WSDATA_MAX_LABELS
    <2>1. CASE Over = {}
        <3>1. Cardinality(Over) = 0
            BY <2>1, FS_EmptySet
        <3> QED BY <3>1, <1>3, LabelLimit DEF ReserveOver, Fits, CountExact, Taken, TypeOK
    <2>2. CASE Over # {}
        BY <2>2 DEF RefusedOnlyFull, Taken
    <2> QED BY <2>1, <2>2
<1>5. writer_label_len' = writer_label_len + 1 /\ UNCHANGED <<labels, label_len, tmp, label>>
    BY DEF ReserveOver
<1>6. TypeOK'
    BY <1>1, <1>2, <1>5 DEF TypeOK
<1>7. CountExact' /\ (Taken <= WSDATA_MAX_LABELS)' /\ RefusedOnlyFull'
    BY <1>2, <1>3, <1>4, <1>5, LabelLimit DEF CountExact, Taken, RefusedOnlyFull, TypeOK
<1>8. SlotsTaken' /\ Stored' /\ Filled'
    BY <1>1, <1>2, <1>5 DEF SlotsTaken, Taken, Stored, Filled, TypeOK
<1> QED BY <1>6, <1>7, <1>8

LEMMA UndoInv ==
    ASSUME LabelInv, NEW t \in Threads, Undo(t)
    PROVE  LabelInv'
<1> USE DEF LabelInv
<1>1. pc' = [pc EXCEPT ![t] = "idle"] /\ t \notin Adding /\ t \in Over
    BY DEF Undo, Step, Adding, Over
<1>2. Adding' = Adding /\ Cardinality(Over') = Cardinality(Over) - 1
    BY <1>1, LeaveOver
<1>3. Cardinality(Adding) \in Nat /\ Cardinality(Over) \in Nat
    BY SetsFinite
<1>4. Cardinality(Over) > 0 /\ Taken = WSDATA_MAX_LABELS
    <2>1. Cardinality(Over) # 0
        BY <1>1, SetsFinite, FS_EmptySet
    <2> QED BY <2>1, <1>1, <1>3 DEF RefusedOnlyFull, Taken
<1>5. writer_label_len' = writer_label_len - 1 /\ UNCHANGED <<labels, label_len, tmp, label>>
    BY DEF Undo
<1>6. writer_label_len' \in Nat
    BY <1>3, <1>4, <1>5 DEF CountExact, TypeOK
<1>7. TypeOK'
    BY <1>1, <1>2, <1>5, <1>6 DEF TypeOK
<1>8. CountExact' /\ (Taken <= WSDATA_MAX_LABELS)' /\ RefusedOnlyFull'
    BY <1>2, <1>3, <1>4, <1>5, LabelLimit DEF CountExact, Taken, RefusedOnlyFull, TypeOK
<1>9. SlotsTaken' /\ Stored' /\ Filled'
    BY <1>1, <1>2, <1>5 DEF SlotsTaken, Taken, Stored, Filled, TypeOK
<1> QED BY <1>7, <1>8, <1>9

(* The slot that is filled is at label_len or above: readers do not see it.*)
LEMMA StoreInv ==
    ASSUME LabelInv, NEW t \in Threads, Store(t)
    PROVE  LabelInv'
<1> USE DEF LabelInv
<1>1. pc' = [pc EXCEPT ![t] = "wait"] /\ t \in Adding /\ t \notin Over
    BY DEF Store, Step, Adding, Over
<1>2. Adding' = Adding /\ Over' = Over
    BY <1>1, SetsAfterStep
<1>3. labels' = [labels EXCEPT ![tmp[t]] = label[t]]
      /\ UNCHANGED <<label_len, writer_label_len, tmp, label>>
    BY DEF Store
<1>4. label[t] \in Labels /\ tmp[t] \in Slots /\ label_len <= tmp[t]
    BY <1>1 DEF Store, Step, Stored, TypeOK, SlotsTaken
<1>5. TypeOK'
    BY <1>1, <1>2, <1>3, <1>4 DEF TypeOK
<1>6. CountExact' /\ (Taken <= WSDATA_MAX_LABELS)' /\ RefusedOnlyFull' /\ SlotsTaken'
    BY <1>2, <1>3 DEF CountExact, Taken, RefusedOnlyFull, SlotsTaken
<1>7. Stored'
    <2>1. \A u \in Threads : pc'[u] = "store" => label'[u] \in Labels
        BY <1>1, <1>3 DEF Stored, TypeOK
    <2>2. \A u \in Threads : pc'[u] = "wait" => labels'[tmp'[u]] = label'[u] /\ label'[u] \in Labels
        <3> TAKE u \in Threads
        <3> HAVE pc'[u] = "wait"
        <3>1. CASE u = t
            BY <3>1, <1>3, <1>4 DEF TypeOK
        <3>2. CASE u # t
            <4>1. pc[u] = "wait" /\ u \in Adding
                BY <3>2, <1>1 DEF TypeOK, Adding
            <4>2. tmp[u] # tmp[t]
                BY <4>1, <3>2, <1>1 DEF SlotsTaken
            <4> QED BY <4>1, <4>2, <1>3 DEF Stored, TypeOK
        <3> QED BY <3>1, <3>2
    <2> QED BY <2>1, <2>2 DEF Stored
<1>8. Filled'
    BY <1>3, <1>4 DEF Filled, TypeOK, Slots
<1> QED BY <1>5, <1>6, <1>7, <1>8

(* label_len grows past the slot of the only thread that had it. *)
LEMMA PublishInv ==
    ASSUME LabelInv, NEW t \in Threads, Publish(t)
    PROVE  LabelInv'
<1> USE DEF LabelInv
<1>1. pc' = [pc EXCEPT ![t] = "idle"] /\ t \in Adding /\ t \notin Over /\ pc[t] = "wait"
    BY DEF Publish, Step, Adding, Over
<1>2. Cardinality(Adding') = Cardinality(Adding) - 1 /\ Over' = Over
    BY <1>1, LeaveAdding
<1>3. Adding' = Adding \ {t}
    BY <1>1, SetsAfterStep
<1>4. Cardinality(Adding) \in Nat /\ Cardinality(Over) \in Nat
    BY SetsFinite
<1>5. label_len' = label_len + 1 /\ label_len = tmp[t]
      /\ UNCHANGED <<labels, writer_label_len, tmp, label>>
    BY DEF Publish
<1>6. label_len \in Slots /\ labels[label_len] \in Labels
    BY <1>1, <1>5 DEF TypeOK, Stored
<1>7. TypeOK'
    BY <1>1, <1>3, <1>5, <1>6, LabelLimit DEF TypeOK, Slots
<1>8. Taken' = Taken
    BY <1>2, <1>4, <1>5 DEF Taken, TypeOK
<1>9. CountExact' /\ (Taken <= WSDATA_MAX_LABELS)' /\ RefusedOnlyFull'
    BY <1>2, <1>4, <1>5, <1>8 DEF CountExact, Taken, RefusedOnlyFull, TypeOK
<1>10. SlotsTaken'
    <2>1. \A u \in Adding' : label_len' <= tmp'[u] /\ tmp'[u] < Taken'
        <3> TAKE u \in Adding'
        <3>1. u \in Adding /\ u # t
            BY <1>3
        <3>2. label_len <= tmp[u] /\ tmp[u] < Taken /\ tmp[u] # label_len
            BY <3>1, <1>1, <1>5 DEF SlotsTaken
        <3>3. tmp[u] \in Nat /\ label_len \in Nat
            BY <3>1 DEF TypeOK, Adding
        <3> QED BY <3>2, <3>3, <1>5, <1>8
    <2> QED BY <2>1, <1>3, <1>5 DEF SlotsTaken
<1>11. Stored' /\ Filled'
    BY <1>1, <1>5, <1>6 DEF Stored, Filled, TypeOK, Slots
<1> QED BY <1>7, <1>9, <1>10, <1>11

(* A check changes nothing that others see. *)
LEMMA CheckInv ==
    ASSUME LabelInv, NEW t \in Threads, Check(t)
    PROVE  LabelInv'
<1> USE DEF LabelInv
<1>1. PICK x \in {"idle", "check"} : pc' = [pc EXCEPT ![t] = x]
    BY DEF Check, CheckBegin, CheckNext, CheckEnd, Step
<1>2. t \notin Adding /\ t \notin Over
    BY DEF Check, CheckBegin, CheckNext, CheckEnd, Step, Adding, Over
<1>3. Adding' = Adding /\ Over' = Over
    BY <1>1, <1>2, SetsAfterStep
<1>4. /\ UNCHANGED <<labels, label_len, writer_label_len, label>>
      /\ tmp' \in [Threads -> Nat] /\ \A u \in Threads : u # t => tmp'[u] = tmp[u]
    BY DEF Check, CheckBegin, CheckNext, CheckEnd, TypeOK
<1>5. TypeOK'
    BY <1>1, <1>2, <1>3, <1>4 DEF TypeOK, Adding
<1>6. CountExact' /\ (Taken <= WSDATA_MAX_LABELS)' /\ RefusedOnlyFull' /\ Filled'
    BY <1>3, <1>4 DEF CountExact, Taken, RefusedOnlyFull, Filled
<1>7. SlotsTaken'
    BY <1>2, <1>3, <1>4 DEF SlotsTaken, Taken, Adding
<1>8. Stored'
    BY <1>1, <1>2, <1>4 DEF Stored, TypeOK, Adding
<1> QED BY <1>5, <1>6, <1>7, <1>8

LEMMA RecycleInv ==
    ASSUME LabelInv, Recycle
    PROVE  LabelInv'
<1> USE DEF LabelInv
<1>1. Adding' = {} /\ Over' = {}
    BY DEF Recycle, Adding, Over
<1>2. Cardinality(Adding') = 0 /\ Cardinality(Over') = 0
    BY <1>1, FS_EmptySet
<1>3. TypeOK'
    BY <1>1, LabelLimit DEF Recycle, TypeOK
<1> QED BY <1>1, <1>2, <1>3, LabelLimit
        DEF Recycle, CountExact, Taken, RefusedOnlyFull, SlotsTaken, Stored, Filled, Slots, TypeOK

LEMMA NextLabelInv == LabelInv /\ [Next]_vars => LabelInv'
<1> SUFFICES ASSUME LabelInv, [Next]_vars PROVE LabelInv'
    OBVIOUS
<1>1. CASE Recycle
    BY <1>1, RecycleInv
<1>2. ASSUME NEW t \in Threads, Add(t) PROVE LabelInv'
    <2>1. CASE \E l \in Labels : Reserve(t, l)
        BY <2>1, ReserveInv
    <2>2. CASE ReserveOver(t)
        BY <2>2, ReserveOverInv
    <2>3. CASE Undo(t)
        BY <2>3, UndoInv
    <2>4. CASE Store(t)
        BY <2>4, StoreInv
    <2>5. CASE Publish(t)
        BY <2>5, PublishInv
    <2> QED BY <1>2, <2>1, <2>2, <2>3, <2>4, <2>5 DEF Add
<1>3. ASSUME NEW t \in Threads, Check(t) PROVE LabelInv'
    BY <1>3, CheckInv
<1>4. CASE UNCHANGED vars
    BY <1>4 DEF LabelInv, vars, TypeOK, CountExact, Taken, RefusedOnlyFull, SlotsTaken, Stored,
                Filled, Adding, Over
<1> QED BY <1>1, <1>2, <1>3, <1>4 DEF Next

(* wsdata_add_label, for any number of threads and slots: the types hold,  *)
(* no two threads fill one slot or one that readers look at, and the two   *)
(* counts differ by exactly the adds under way.                            *)
THEOREM LabelsSafe == Spec => [](TypeOK /\ SlotsExclusive /\ CountExact)
<1>1. LabelInv => TypeOK /\ SlotsExclusive /\ CountExact
    BY DEF LabelInv, SlotsTaken, SlotsExclusive
<1> QED BY <1>1, InitLabelInv, NextLabelInv, PTL DEF Spec

(* wsdata_add_label returns 0 only to a thread that came when every slot   *)
(* was taken: a slot that is lost to an add taken back is handed out again.*)
THEOREM LabelsNotRefused == Spec => []RefusedOnlyFull
<1>1. LabelInv => RefusedOnlyFull
    BY DEF LabelInv
<1> QED BY <1>1, InitLabelInv, NextLabelInv, PTL DEF Spec

(* The list that the published slots hold. *)
Published == [i \in 1 .. label_len |-> labels[i - 1]]

LEMMA PublishAppends ==
    ASSUME LabelInv, NEW t \in Threads, Publish(t)
    PROVE  List!Next
<1>1. label_len \in Nat /\ label_len < WSDATA_MAX_LABELS /\ label_len' = label_len + 1
    <2>1. t \in Adding
        BY DEF Publish, Step, Adding
    <2>2. tmp[t] \in Slots /\ label_len = tmp[t] /\ label_len' = tmp[t] + 1
        BY <2>1 DEF LabelInv, TypeOK, Publish
    <2> QED BY <2>2, LabelLimit DEF Slots
<1>2. labels[label_len] = label[t] /\ label[t] \in Labels /\ labels' = labels
    BY DEF LabelInv, Stored, Publish, Step
<1>3. \A i \in 1 .. label_len : labels[i - 1] \in Labels
    <2> TAKE i \in 1 .. label_len
    <2>1. i - 1 \in Slots /\ i - 1 < label_len
        BY <1>1, LabelLimit DEF Slots
    <2> QED BY <2>1 DEF LabelInv, Filled
<1>4. Published \in Seq(Labels) /\ Len(Published) = label_len
    BY <1>1, <1>3 DEF Published
<1>5. Published' = Append(Published, label[t])
    <2>1. Append(Published, label[t]) \in Seq(Labels)
          /\ Len(Append(Published, label[t])) = label_len + 1
        BY <1>2, <1>4
    <2>2. \A i \in 1 .. label_len + 1 :
            Append(Published, label[t])[i] = IF i <= label_len THEN labels[i - 1] ELSE label[t]
        BY <1>1, <1>4 DEF Published
    <2>3. Published' = [i \in 1 .. label_len + 1 |-> labels[i - 1]]
        BY <1>1, <1>2 DEF Published
    <2>4. \A i \in 1 .. label_len + 1 : labels[i - 1] = Append(Published, label[t])[i]
        <3> TAKE i \in 1 .. label_len + 1
        <3>1. CASE i <= label_len
            BY <3>1, <2>2
        <3>2. CASE ~(i <= label_len)
            <4>1. i = label_len + 1 /\ i - 1 = label_len
                BY <3>2, <1>1
            <4> QED BY <4>1, <3>2, <2>2, <1>2
        <3> QED BY <3>1, <3>2
    <2> QED BY <2>1, <2>3, <2>4, <1>1
<1> QED BY <1>1, <1>2, <1>4, <1>5 DEF List!Next, List!Add, Published

(* Every step is an Add or a Reset of LabelList or leaves the list alone:  *)
(* only Publish and Recycle change what readers see.                       *)
LEMMA StepList == LabelInv /\ [Next]_vars => [List!Next]_Published
<1> SUFFICES ASSUME LabelInv, [Next]_vars PROVE List!Next \/ Published' = Published
    OBVIOUS
<1>1. CASE Recycle
    <2>1. Published' = <<>>
        BY <1>1 DEF Recycle, Published
    <2> QED BY <2>1 DEF List!Next, List!Reset, Published
<1>2. ASSUME NEW t \in Threads, Add(t) PROVE List!Next \/ Published' = Published
    <2>1. CASE (\E l \in Labels : Reserve(t, l)) \/ ReserveOver(t) \/ Undo(t)
        BY <2>1 DEF Reserve, ReserveOver, Undo, Published
    <2>2. CASE Store(t)
        <3>1. label_len' = label_len /\ labels' = [labels EXCEPT ![tmp[t]] = label[t]]
            BY <2>2 DEF Store
        <3>2. t \in Adding /\ label_len <= tmp[t] /\ tmp[t] \in Slots
            BY <2>2 DEF Store, Step, Adding, LabelInv, SlotsTaken, TypeOK
        <3>3. \A i \in 1 .. label_len : labels'[i - 1] = labels[i - 1]
            BY <3>1, <3>2 DEF LabelInv, TypeOK, Slots
        <3> QED BY <3>1, <3>3 DEF Published
    <2>3. CASE Publish(t)
        BY <2>3, PublishAppends
    <2> QED BY <1>2, <2>1, <2>2, <2>3 DEF Add
<1>3. ASSUME NEW t \in Threads, Check(t) PROVE Published' = Published
    BY <1>3 DEF Check, CheckBegin, CheckNext, CheckEnd, Published
<1>4. CASE UNCHANGED vars
    BY <1>4 DEF vars, Published
<1> QED BY <1>1, <1>2, <1>3, <1>4 DEF Next

(* The labels implement the list: whatever the order in which threads take,*)
(* fill and publish slots, a reader sees a list that grows by one label    *)
(* at a time.                                                              *)
THEOREM LabelsAreAList == Spec => ImplementsList
<1>1. Init => List!Init
    BY DEF Init, List!Init
<1> QED BY <1>1, InitLabelInv, NextLabelInv, StepList, PTL
        DEF Spec, ImplementsList, List!Spec, Published

(* Where the label is that a thread has added: among the published ones,   *)
(* and not below the place its check has come to.                          *)
OwnLabelThere ==
    \A t \in Threads :
        /\ pc[t] \in {"idle", "undo"} /\ label[t] # NULL =>
                \E i \in Slots : i < label_len /\ labels[i] = label[t]
        /\ pc[t] = "check" =>
                \E i \in Slots : tmp[t] <= i /\ i < label_len /\ labels[i] = label[t]

LEMMA NextOwnLabel == LabelInv /\ OwnLabelThere /\ [Next]_vars => OwnLabelThere'
<1> SUFFICES ASSUME LabelInv, OwnLabelThere, [Next]_vars PROVE OwnLabelThere'
    OBVIOUS
<1> USE DEF OwnLabelThere
<1>0. TypeOK
    BY DEF LabelInv
<1>1. CASE Recycle
    BY <1>0, <1>1 DEF Recycle, TypeOK
<1>2. ASSUME NEW t \in Threads, Add(t) PROVE OwnLabelThere'
    <2>1. CASE \E l \in Labels : Reserve(t, l)
        BY <1>0, <2>1 DEF Reserve, Step, TypeOK
    <2>2. CASE ReserveOver(t)
        BY <1>0, <2>2 DEF ReserveOver, Step, TypeOK
    <2>3. CASE Undo(t)
        BY <1>0, <2>3 DEF Undo, Step, TypeOK
    <2>4. CASE Store(t)
        <3>1. /\ pc' = [pc EXCEPT ![t] = "wait"]
              /\ labels' = [labels EXCEPT ![tmp[t]] = label[t]]
              /\ UNCHANGED <<label_len, tmp, label>>
            BY <2>4 DEF Store, Step
        <3>2. label_len <= tmp[t] /\ tmp[t] \in Slots
            BY <2>4 DEF Store, Step, Adding, LabelInv, SlotsTaken, TypeOK
        <3>3. \A i \in Slots : i < label_len => labels'[i] = labels[i]
            BY <1>0, <3>1, <3>2, LabelLimit DEF TypeOK, Slots
        <3> QED BY <1>0, <3>1, <3>3 DEF TypeOK
    <2>5. CASE Publish(t)
        <3>1. /\ pc' = [pc EXCEPT ![t] = "idle"] /\ pc[t] = "wait"
              /\ label_len = tmp[t] /\ label_len' = label_len + 1
              /\ UNCHANGED <<labels, tmp, label>>
            BY <2>5 DEF Publish, Step
        <3>2. tmp[t] \in Slots /\ labels[tmp[t]] = label[t]
            BY <3>1 DEF LabelInv, Stored, TypeOK, Adding
        <3>3. \A i \in Slots : i < label_len => i < label_len'
            BY <1>0, <3>1, LabelLimit DEF TypeOK, Slots
        <3>4. tmp[t] < label_len'
            BY <3>1, <3>2, LabelLimit DEF Slots
        <3> QED BY <1>0, <3>1, <3>2, <3>3, <3>4 DEF TypeOK
    <2> QED BY <1>2, <2>1, <2>2, <2>3, <2>4, <2>5 DEF Add
<1>3. ASSUME NEW t \in Threads, Check(t) PROVE OwnLabelThere'
    <2>1. CASE CheckBegin(t)
        <3>1. \A i \in Slots : 0 <= i
            BY LabelLimit DEF Slots
        <3> QED BY <1>0, <2>1, <3>1 DEF CheckBegin, Step, TypeOK
    <2>2. CASE CheckNext(t)
        <3>1. /\ pc[t] = "check" /\ pc' = [pc EXCEPT ![t] = "check"]
              /\ tmp' = [tmp EXCEPT ![t] = tmp[t] + 1] /\ labels[tmp[t]] # label[t]
              /\ UNCHANGED <<labels, label_len, label>>
            BY <2>2 DEF CheckNext, Step
        <3>2. \A i \in Slots : tmp[t] <= i /\ i # tmp[t] => tmp[t] + 1 <= i
            BY <1>0, LabelLimit DEF Slots, TypeOK
        <3>3. \E i \in Slots : tmp[t] + 1 <= i /\ i < label_len /\ labels[i] = label[t]
            BY <3>1, <3>2
        <3> QED BY <1>0, <3>1, <3>3 DEF TypeOK
    <2>3. CASE CheckEnd(t)
        BY <1>0, <2>3 DEF CheckEnd, Step, TypeOK
    <2> QED BY <1>3, <2>1, <2>2, <2>3 DEF Check
<1>4. CASE UNCHANGED vars
    BY <1>4 DEF vars
<1> QED BY <1>1, <1>2, <1>3, <1>4 DEF Next

(* A label that was added is found as long as the data is in use.          *)
THEOREM OwnLabelsFound == Spec => []OwnLabelFound
<1>1. Init => OwnLabelThere
    BY DEF Init, OwnLabelThere
<1>2. OwnLabelThere => OwnLabelFound
    BY DEF OwnLabelThere, OwnLabelFound
<1> QED BY <1>1, <1>2, InitLabelInv, NextLabelInv, NextOwnLabel, PTL DEF Spec
=============================================================================
