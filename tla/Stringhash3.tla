---------------------------- MODULE Stringhash3 ----------------------------
(* The table of strings with a limit on its records, include/stringhash3.h:  *)
(* chains of records by hash, one list of all records in the order they are  *)
(* thrown out, and a list of freed records to use again.  A chain holds the  *)
(* records of a hash, newest first; a record stands for its string.          *)
EXTENDS Integers, Sequences, FiniteSets, SequencesExt

CONSTANTS Keys, MaxRecords, Chains, HashOf

stringhash3_create_table == [chain |-> [c \in 1..Chains |-> <<>>],
                             order |-> <<>>, free |-> 0]

sh3_present(t) == {k \in Keys : Contains(t.chain[HashOf[k]], k)}

Result(t, found, told, dropped) ==
    [t |-> t, found |-> found, told |-> told, dropped |-> dropped]

\* One record is taken out of a list.
Unlink(list, k) == RemoveAt(list, CHOOSE i \in DOMAIN list : list[i] = k)

\* A find leaves the order alone: the caller refreshes a record if it wants to.
stringhash3_find(t, k) == Result(t, k \in sh3_present(t), {}, 0)
stringhash3_update_sort(t, k) == [t EXCEPT !.order = Append(Unlink(t.order, k), k)]

sht3_tableremove(t, k) == [t EXCEPT !.chain[HashOf[k]] = Unlink(t.chain[HashOf[k]], k)]

\* The oldest record makes room for a new one and is used again for it.
Evict(t) == LET old == Head(t.order)
            IN  [sht3_tableremove(t, old) EXCEPT !.order = Tail(t.order)]

stringhash3_find_attach(t, k) ==
    LET full == Len(t.order) >= MaxRecords
        room == CASE full -> Evict(t)
                  [] ~full -> [t EXCEPT !.free = IF t.free > 0 THEN t.free - 1 ELSE 0]
    IN  IF k \in sh3_present(t) THEN Result(t, TRUE, {}, 0)
        ELSE Result([room EXCEPT !.chain[HashOf[k]] = <<k>> \o room.chain[HashOf[k]],
                                 !.order = Append(room.order, k)],
                    FALSE, IF full THEN {Head(t.order)} ELSE {}, IF full THEN 1 ELSE 0)

stringhash3_prune(t, k) ==
    [sht3_tableremove(t, k) EXCEPT !.order = Unlink(t.order, k), !.free = t.free + 1]

stringhash3_flush(t) == [chain |-> [c \in 1..Chains |-> <<>>], order |-> <<>>,
                         free |-> t.free + Len(t.order)]
=============================================================================
