---------------------------- MODULE Stringhash5 ----------------------------
(* The expiring table of records, include/stringhash5.h (also reached under  *)
(* the names of include/existdata_table.h).  A bucket is an array of words;  *)
(* a word holds a digest (NoKey when the slot is free), the number of the    *)
(* data bin the slot owns, and one bit stolen for the bucket's epoch.  Words *)
(* are kept in order of use, most recent first.  Two keys with equal digests *)
(* and buckets are one key to the table, so a key stands for its digests.    *)
EXTENDS Integers, FiniteSets

CONSTANTS Keys, NoKey,
          Depth,        \* SH5_DEPTH: words of a bucket (16)
          EpochBits,    \* words at the end of a bucket that lend a bit (8)
          EinsertMax,   \* einsert_max: inserts before the epoch moves on
          Rows,         \* all_index_size: buckets of the table
          Home          \* sh5_gethash: key -> <<h1, h2>>, one in each half

TwoTo[n \in 0..EpochBits] == IF n = 0 THEN 1 ELSE 2 * TwoTo[n - 1]
Epochs == TwoTo[EpochBits]
Word == [digest : Keys \cup {NoKey}, bin : 1..Depth, bit : {0, 1}]
NewBucket == [i \in 1..Depth |-> [digest |-> NoKey, bin |-> i, bit |-> 0]]

\* A table: its buckets, the owner of each data bin (the record a kid keeps
\* there), and the clock that ages buckets.
sh5_create == [buckets |-> [h \in 1..Rows |-> NewBucket],
               data |-> [h \in 1..Rows |-> [b \in 1..Depth |-> NoKey]],
               epoch |-> 1 % Epochs, einserts |-> 0]

sh5_present(t) == {k \in Keys : \E h \in 1..Rows, i \in 1..Depth :
                                   t.buckets[h][i].digest = k}

HasBit(i) == i > Depth - EpochBits

\* The word that lends bit n of the epoch, from 1, and that bit of epoch e.
Lender(n) == Depth - EpochBits + n
EpochBit(e, n) == (e \div TwoTo[n - 1]) % 2

\* A plausible error: the words move with the epoch bits they carry.
sh5_sort_lruWithBits(b, mru) ==
    [i \in 1..Depth |-> CASE i = 1 -> b[mru] [] i > mru -> b[i] [] i \in 2..mru -> b[i-1]]

\* Move word mru to the front; the epoch bits stay where they are.
sh5_sort_lru(b, mru) ==
    [i \in 1..Depth |->
        CASE i = 1               -> b[mru]
          [] i > mru             -> b[i]
          [] i \in 2..mru        -> IF HasBit(i) THEN [b[i-1] EXCEPT !.bit = b[i].bit]
                                                 ELSE b[i-1]]

sh5_sort_lru_noepoch(b, mru) ==
    [i \in 1..Depth |-> CASE i = 1 -> b[mru] [] i > mru -> b[i] [] i \in 2..mru -> b[i-1]]

\* Take word item out of the order and put it, freed, at the end: its bin is
\* the next one to be used.
sh5_delete_lru(b, item) ==
    [i \in 1..Depth |->
        CASE i < item     -> b[i]
          [] i = Depth    -> [b[item] EXCEPT !.digest = NoKey, !.bit = b[Depth].bit]
          [] i \in item..(Depth-1) -> [b[i+1] EXCEPT !.bit = b[i].bit]]

\* The epoch written in the stolen bits, and the bucket's age by it.
sh5_bucket_epoch(b) ==
    LET low[n \in 0..EpochBits] ==
            IF n = 0 THEN 0 ELSE low[n - 1] + b[Lender(n)].bit * TwoTo[n - 1]
    IN  low[EpochBits]
sh5_get_epoch(t, b) == (t.epoch - sh5_bucket_epoch(b)) % Epochs

\* An insert: the clock may move on, and the bucket is stamped with it.
sh5_set_epoch(t, h) ==
    LET over == t.einserts + 1 > EinsertMax
        e == IF over THEN (t.epoch + 1) % Epochs ELSE t.epoch
    IN  [t EXCEPT !.epoch = e, !.einserts = IF over THEN 0 ELSE t.einserts + 1,
                  !.buckets[h] = [i \in 1..Depth |->
                      IF HasBit(i) THEN [t.buckets[h][i] EXCEPT
                                             !.bit = EpochBit(e, i - (Depth - EpochBits))]
                                   ELSE t.buckets[h][i]]]

sh5_depth(b) ==
    LET used == {i \in 1..Depth : b[i].digest # NoKey}
    IN  IF used = {} THEN 0 ELSE CHOOSE i \in used : \A j \in used : j <= i

\* The bucket to insert into: the shallower one, the older one if both are full.
sh5_find_best_bucket(t, k) ==
    LET h1 == Home[k][1]  h2 == Home[k][2]
        d1 == sh5_depth(t.buckets[h1])  d2 == sh5_depth(t.buckets[h2])
        older2 == sh5_get_epoch(t, t.buckets[h2]) > sh5_get_epoch(t, t.buckets[h1])
    IN  IF d2 < d1 \/ (d1 = d2 /\ d1 = Depth /\ older2) THEN h2 ELSE h1

\* Where a key is: the first bucket is looked at before the second.
sh5_lookup_bucket(b, k) == {i \in 1..Depth : b[i].digest = k}
sh5_where(t, k) ==
    LET in == {h \in {Home[k][1], Home[k][2]} : sh5_lookup_bucket(t.buckets[h], k) # {}}
    IN  IF Home[k][1] \in in THEN {Home[k][1]} ELSE in
FirstOf(S) == CHOOSE i \in S : \A j \in S : i <= j

\* Results: the table after, whether the key was found, the record returned,
\* the records the callback was told of, by how much drops went up.
Result(t, found, data, told, dropped) ==
    [t |-> t, found |-> found, data |-> data, told |-> told, dropped |-> dropped]

FoundAt(t, h, k) ==
    LET i == FirstOf(sh5_lookup_bucket(t.buckets[h], k))
    IN  Result([t EXCEPT !.buckets[h] = sh5_sort_lru(t.buckets[h], i)], TRUE,
               t.data[h][t.buckets[h][i].bin], {}, 0)

stringhash5_find(t, k) ==
    IF sh5_where(t, k) = {} THEN Result(t, FALSE, NoKey, {}, 0)
    ELSE FoundAt(t, CHOOSE h \in sh5_where(t, k) : TRUE, k)

\* Insert into bucket h over its last word.  The kid fills the record it gets.
AttachAt(t, h, k) ==
    LET old  == t.buckets[h][Depth]
        full == \A i \in {1, 2} : sh5_depth(t.buckets[Home[k][i]]) = Depth
        told == IF old.digest # NoKey THEN {t.data[h][old.bin]} ELSE {}
        new  == [t EXCEPT !.data[h][old.bin] = k,
                          !.buckets[h] = sh5_sort_lru_noepoch(
                              [t.buckets[h] EXCEPT ![Depth].digest = k], Depth)]
    IN  Result(sh5_set_epoch(new, h), FALSE, k, told, IF full THEN 1 ELSE 0)

\* A plausible error: only the first bucket is searched before the insert.
stringhash5_find_attachFirstOnly(t, k) ==
    IF Home[k][1] \in sh5_where(t, k) THEN FoundAt(t, Home[k][1], k)
    ELSE AttachAt(t, sh5_find_best_bucket(t, k), k)

stringhash5_find_attach(t, k) ==
    IF sh5_where(t, k) # {} THEN FoundAt(t, CHOOSE h \in sh5_where(t, k) : TRUE, k)
    ELSE AttachAt(t, sh5_find_best_bucket(t, k), k)

stringhash5_delete(t, k) ==
    IF sh5_where(t, k) = {} THEN Result(t, FALSE, NoKey, {}, 0)
    ELSE LET h == CHOOSE h \in sh5_where(t, k) : TRUE
             i == FirstOf(sh5_lookup_bucket(t.buckets[h], k))
         IN  Result([t EXCEPT !.buckets[h] = sh5_delete_lru(t.buckets[h], i)],
                    TRUE, NoKey, {}, 0)

\* Straight to a record whose bucket and bin a kid has kept, free or not.
stringhash5_mark_as_used(t, h, bin) ==
    LET i == CHOOSE j \in 1..Depth : t.buckets[h][j].bin = bin
    IN  [t EXCEPT !.buckets[h] = sh5_sort_lru(t.buckets[h], i)]

\* One row of a walk: the visit deletes the keys in gone by clearing their
\* digests, without moving their words to the end of the order.
stringhash5_walker_next(t, h, gone) ==
    [t EXCEPT !.buckets[h] = [i \in 1..Depth |->
        IF t.buckets[h][i].digest \in gone THEN [t.buckets[h][i] EXCEPT !.digest = NoKey]
                                           ELSE t.buckets[h][i]]]

\* All buckets anew; the records and the clock are left as they are.
stringhash5_flush(t) == [t EXCEPT !.buckets = [h \in 1..Rows |-> NewBucket]]

\* The records a scour visits.
stringhash5_scour(t) ==
    UNION {{t.data[h][t.buckets[h][i].bin] :
                i \in {j \in 1..Depth : t.buckets[h][j].digest # NoKey}} : h \in 1..Rows}

\* Written to a file and read back by the next run of the program: buckets,
\* records and epoch survive; the count of inserts starts again.
stringhash5_dump(t) == [buckets |-> t.buckets, data |-> t.data, epoch |-> t.epoch]
stringhash5_read(f) == [buckets |-> f.buckets, data |-> f.data, epoch |-> f.epoch,
                        einserts |-> 0]
=============================================================================
