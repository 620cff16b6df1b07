----------------------------- MODULE DataLabels -----------------------------
(***************************************************************************)
(* The labels of a piece of data that several threads hold a reference to  *)
(* (wsdata_add_label and wsdata_check_label in                             *)
(* src/src/include/waterslide.h, in the USE_ATOMICS build): a thread takes *)
(* the next slot by an atomic increment of writer_label_len, fills it, and *)
(* waits until label_len says that all slots below it are filled.  When    *)
(* the data is handed out again (wsdata_core_init) both counts are cleared,*)
(* the labels of its former life stay in the slots.                        *)
(***************************************************************************)
EXTENDS Naturals, FiniteSets, Sequences

CONSTANTS Threads, Labels, WSDATA_MAX_LABELS, NULL

ASSUME SomeThreads == IsFiniteSet(Threads)
ASSUME LabelLimit == WSDATA_MAX_LABELS \in Nat
ASSUME NullIsNoLabel == NULL \notin Labels

VARIABLES
    labels, label_len, writer_label_len,    \* the fields of the data
    pc,         \* where each thread is in its call
    tmp,        \* its slot, or the index it has come to in a check
    label       \* the label it adds, or has added to this data

vars == <<labels, label_len, writer_label_len, pc, tmp, label>>

Slots == 0 .. WSDATA_MAX_LABELS - 1

Init ==
    /\ labels = [i \in Slots |-> NULL]
    /\ label_len = 0 /\ writer_label_len = 0
    /\ pc = [t \in Threads |-> "idle"]
    /\ tmp = [t \in Threads |-> 0]
    /\ label = [t \in Threads |-> NULL]

Step(t, from, to) ==
    /\ pc[t] = from
    /\ pc' = [pc EXCEPT ![t] = to]

-----------------------------------------------------------------------------
(* wsdata_add_label.                                                       *)

(* A plausible error: the last slot is never used. *)
FitsOneLess == writer_label_len + 1 < WSDATA_MAX_LABELS

Fits == writer_label_len < WSDATA_MAX_LABELS

(* A plausible error: the slot is the one after the last filled one. *)
ReserveFilled(t, l) ==
    /\ Fits
    /\ Step(t, "idle", "store")
    /\ writer_label_len' = writer_label_len + 1
    /\ tmp' = [tmp EXCEPT ![t] = label_len]
    /\ label' = [label EXCEPT ![t] = l]
    /\ UNCHANGED <<labels, label_len>>

(* The fetch-and-add that got a slot. *)
Reserve(t, l) ==
    /\ Fits
    /\ Step(t, "idle", "store")
    /\ writer_label_len' = writer_label_len + 1
    /\ tmp' = [tmp EXCEPT ![t] = writer_label_len]
    /\ label' = [label EXCEPT ![t] = l]
    /\ UNCHANGED <<labels, label_len>>

(* The fetch-and-add beyond the limit, which is taken back: 0 is returned. *)
ReserveOver(t) ==
    /\ ~Fits
    /\ Step(t, "idle", "undo")
    /\ writer_label_len' = writer_label_len + 1
    /\ UNCHANGED <<labels, label_len, tmp, label>>

Undo(t) ==
    /\ Step(t, "undo", "idle")
    /\ writer_label_len' = writer_label_len - 1
    /\ UNCHANGED <<labels, label_len, tmp, label>>

Store(t) ==
    /\ Step(t, "store", "wait")
    /\ labels' = [labels EXCEPT ![tmp[t]] = label[t]]
    /\ UNCHANGED <<label_len, writer_label_len, tmp, label>>

(* A plausible error: no wait for the slots below. *)
PublishAtOnce(t) ==
    /\ Step(t, "wait", "idle")
    /\ label_len' = tmp[t] + 1
    /\ UNCHANGED <<labels, writer_label_len, tmp, label>>

(* A plausible error: a thread moves on without raising label_len. *)
PublishForgotten(t) ==
    /\ label_len = tmp[t]
    /\ Step(t, "wait", "idle")
    /\ UNCHANGED <<labels, label_len, writer_label_len, tmp, label>>

(* The spin until all slots below are filled, and its end. *)
Publish(t) ==
    /\ label_len = tmp[t]
    /\ Step(t, "wait", "idle")
    /\ label_len' = tmp[t] + 1
    /\ UNCHANGED <<labels, writer_label_len, tmp, label>>

-----------------------------------------------------------------------------
(* wsdata_check_label, for the label this thread has added before.         *)

CheckBegin(t) ==
    /\ label[t] # NULL
    /\ Step(t, "idle", "check")
    /\ tmp' = [tmp EXCEPT ![t] = 0]
    /\ UNCHANGED <<labels, label_len, writer_label_len, label>>

CheckNext(t) ==
    /\ tmp[t] < label_len /\ labels[tmp[t]] # label[t]
    /\ Step(t, "check", "check")
    /\ tmp' = [tmp EXCEPT ![t] = @ + 1]
    /\ UNCHANGED <<labels, label_len, writer_label_len, label>>

(* The loop ends: the label was found, or there are no more. *)
CheckEnd(t) ==
    /\ ~(tmp[t] < label_len /\ labels[tmp[t]] # label[t])
    /\ Step(t, "check", "idle")
    /\ UNCHANGED <<labels, label_len, writer_label_len, tmp, label>>

-----------------------------------------------------------------------------
(* wsdata_core_init, when no thread has a reference any more. *)
Recycle ==
    /\ \A t \in Threads : pc[t] = "idle"
    /\ label_len' = 0 /\ writer_label_len' = 0
    /\ label' = [t \in Threads |-> NULL]
    /\ UNCHANGED <<labels, pc, tmp>>

Add(t) ==
    \/ \E l \in Labels : Reserve(t, l)
    \/ ReserveOver(t) \/ Undo(t) \/ Store(t) \/ Publish(t)
Check(t) == CheckBegin(t) \/ CheckNext(t) \/ CheckEnd(t)

Next == Recycle \/ \E t \in Threads : Add(t) \/ Check(t)

(* A thread in the middle of an add keeps running. *)
Finish(t) == Undo(t) \/ Store(t) \/ Publish(t)
Fairness == \A t \in Threads : WF_vars(Finish(t))

Spec == Init /\ [][Next]_vars
FairSpec == Spec /\ Fairness

-----------------------------------------------------------------------------
Adding == {t \in Threads : pc[t] \in {"store", "wait"}}
Over == {t \in Threads : pc[t] = "undo"}

TypeOK ==
    /\ labels \in [Slots -> Labels \cup {NULL}]
    /\ label_len \in 0 .. WSDATA_MAX_LABELS /\ writer_label_len \in Nat
    /\ pc \in [Threads -> {"idle", "store", "wait", "undo", "check"}]
    /\ tmp \in [Threads -> Nat]
    /\ \A t \in Adding : tmp[t] \in Slots
    /\ label \in [Threads -> Labels \cup {NULL}]

(* No two threads fill the same slot, and none fills a slot that readers   *)
(* already look at.                                                        *)
SlotsExclusive ==
    /\ \A t, u \in Adding : t # u => tmp[t] # tmp[u]
    /\ \A t \in Adding : label_len <= tmp[t]

(* The two counts differ by the adds that are under way, so that, once all *)
(* adds are over, refused ones included, the next add gets the slot that   *)
(* label_len waits for.                                                    *)
CountExact == writer_label_len = label_len + Cardinality(Adding) + Cardinality(Over)

(* A label is refused only if all slots are taken. *)
RefusedOnlyFull == Over # {} => label_len + Cardinality(Adding) = WSDATA_MAX_LABELS

(* A thread whose add returned 1 finds its label in a check, even while   *)
(* other threads add theirs.                                               *)
OwnLabelFound ==
    \A t \in Threads : pc[t] = "check" =>
        \E i \in Slots : tmp[t] <= i /\ i < label_len /\ labels[i] = label[t]

(* An add that got a slot ends: the threads below it fill theirs. *)
AddEnds == \A t \in Threads : pc[t] \in {"store", "wait"} ~> pc[t] = "idle"

(* The labels below label_len are a list that grows by one label at a      *)
(* time: a reader never sees a slot before it is filled, nor a label left  *)
(* over from the former life of the data.                                  *)
List == INSTANCE LabelList WITH list <- [i \in 1 .. label_len |-> labels[i - 1]]
ImplementsList == List!Spec
=============================================================================
