----------------------------- MODULE LabelList ------------------------------
(***************************************************************************)
(* What the labels of a piece of data promise the kids that share it: a    *)
(* list of at most WSDATA_MAX_LABELS labels that only grows, one label at  *)
(* a time, until the data is handed out afresh.  DataLabels implements it. *)
(***************************************************************************)
EXTENDS Naturals, Sequences

CONSTANTS Labels, WSDATA_MAX_LABELS

VARIABLE list

Init == list = <<>>

Add(l) ==
    /\ Len(list) < WSDATA_MAX_LABELS
    /\ list' = Append(list, l)

Reset == list' = <<>>

Next == Reset \/ \E l \in Labels : Add(l)

Spec == Init /\ [][Next]_list
=============================================================================
