---------------------------- MODULE Stringhash9a ---------------------------
(* The expiring table of keys, include/stringhash9a.h (also reached under    *)
(* the names of include/existonly_table.h).  A bucket has Lower words whose  *)
(* upper bits are digests; the spare byte of each word but the last holds a  *)
(* part of one of Upper more digests, Bytes words to a digest, and the spare *)
(* byte of the last word holds the bucket's epoch.                           *)
EXTENDS Integers, Sequences, FiniteSets

CONSTANTS Keys, NoKey, Garbage,
          Upper, Bytes,     \* 5 digests in the spare bytes, 3 bytes to a digest
          Epochs,           \* 256: values of the epoch byte
          MaxInsertCnt,     \* max_insert_cnt
          Rows, Home        \* buckets of the table; sh9a_gethash

Lower == Upper * Bytes + 1      \* SH9A_DEPTH, 16 words
Slots == 1..(Lower + Upper)     \* 21 digests, most recently used first

NewBucket == [slot |-> [i \in Slots |-> NoKey], epoch |-> 0]

sh9a_create_ibits == [buckets |-> [h \in 1..Rows |-> NewBucket],
                      epoch |-> 1 % Epochs, insert_cnt |-> 0]

sh9a_present(t) == {k \in Keys : \E h \in 1..Rows, i \in Slots :
                                    t.buckets[h].slot[i] = k}

\* A plausible error: the digest of the last word does not fall into the first
\* spare slot when a digest of the spare bytes moves to the front.
sh9a_sort_lruDropsWord(b, mru) ==
    [b EXCEPT !.slot = [i \in Slots |-> CASE i = 1 -> b.slot[mru]
                                          [] i > mru -> b.slot[i]
                                          [] i = Lower + 1 -> b.slot[mru]
                                          [] i \in (2..mru) \ {Lower + 1} -> b.slot[i-1]]]

\* Move the digest in slot mru to the front, words and spare bytes alike.
sh9a_sort_lru(b, mru) ==
    [b EXCEPT !.slot = [i \in Slots |-> CASE i = 1 -> b.slot[mru]
                                          [] i > mru -> b.slot[i]
                                          [] i \in 2..mru -> b.slot[i-1]]]

\* Put a new digest in front; the last one falls out.
sh9a_shift_new(b, k) ==
    [b EXCEPT !.slot = [i \in Slots |-> IF i = 1 THEN k ELSE b.slot[i-1]]]

sh9a_lookup_bucket(b, k) == {i \in Slots : b.slot[i] = k}
FirstOf(S) == CHOOSE i \in S : \A j \in S : i <= j
sh9a_zeros(b) == Cardinality(sh9a_lookup_bucket(b, NoKey))

sh9a_where(t, k) ==
    LET in == {h \in {Home[k][1], Home[k][2]} : sh9a_lookup_bucket(t.buckets[h], k) # {}}
    IN  IF Home[k][1] \in in THEN {Home[k][1]} ELSE in

Result(t, found, dropped) == [t |-> t, found |-> found, dropped |-> dropped]

FoundAt(t, h, k) ==
    Result([t EXCEPT !.buckets[h] = sh9a_sort_lru(t.buckets[h],
                         FirstOf(sh9a_lookup_bucket(t.buckets[h], k)))], TRUE, 0)

stringhash9a_check(t, k) ==
    IF sh9a_where(t, k) = {} THEN Result(t, FALSE, 0)
    ELSE FoundAt(t, CHOOSE h \in sh9a_where(t, k) : TRUE, k)

\* The age of a bucket by its epoch byte.  A tie goes to the second bucket: the
\* bit that was to decide it is one of the digest's zero bits.
sh9a_age(t, h) == (t.epoch - t.buckets[h].epoch) % Epochs
sh9a_cmp_epoch(t, h1, h2) == sh9a_age(t, h1) > sh9a_age(t, h2)

sh9a_update_bucket_epoch(t, h) ==
    LET over == t.insert_cnt + 1 > MaxInsertCnt
        e == IF over THEN (t.epoch + 1) % Epochs ELSE t.epoch
    IN  [t EXCEPT !.epoch = e, !.insert_cnt = IF over THEN 0 ELSE t.insert_cnt + 1,
                  !.buckets[h].epoch = e]

\* A plausible error: the fuller bucket takes the key.
stringhash9a_setFuller(t, k) ==
    LET h1 == Home[k][1]  h2 == Home[k][2]
        z1 == sh9a_zeros(t.buckets[h1])  z2 == sh9a_zeros(t.buckets[h2])
        h == IF z1 >= z2 THEN h2 ELSE h1
    IN  IF sh9a_where(t, k) # {}
        THEN FoundAt(t, CHOOSE g \in sh9a_where(t, k) : TRUE, k)
        ELSE Result(sh9a_update_bucket_epoch(
                        [t EXCEPT !.buckets[h] = sh9a_shift_new(t.buckets[h], k)], h),
                    FALSE, IF z1 = 0 /\ z2 = 0 THEN 1 ELSE 0)

\* The emptier bucket takes the key; if both are full the older one loses one.
stringhash9a_set(t, k) ==
    LET h1 == Home[k][1]  h2 == Home[k][2]
        z1 == sh9a_zeros(t.buckets[h1])  z2 == sh9a_zeros(t.buckets[h2])
        full == z1 = 0 /\ z2 = 0
        h == IF full THEN (IF sh9a_cmp_epoch(t, h1, h2) THEN h1 ELSE h2)
                     ELSE (IF z1 >= z2 THEN h1 ELSE h2)
    IN  IF sh9a_where(t, k) # {}
        THEN FoundAt(t, CHOOSE g \in sh9a_where(t, k) : TRUE, k)
        ELSE Result(sh9a_update_bucket_epoch(
                        [t EXCEPT !.buckets[h] = sh9a_shift_new(t.buckets[h], k)], h),
                    FALSE, IF full THEN 1 ELSE 0)

\* What is left of spare slot s when the spare bytes of the words from item to
\* the last but one have been cleared.
AfterClear(b, item, s) ==
    LET words == (Bytes * (s - 1) + 1)..(Bytes * s)
        kept  == {w \in words : w < item}
    IN  CASE b.slot[Lower + s] = NoKey -> NoKey
          [] kept = words -> b.slot[Lower + s]
          [] kept = {}    -> NoKey
          [] kept # words /\ kept # {} -> Garbage

\* The delete of word item: each word moved down is assigned, spare byte and
\* all, the last word gets the first spare digest, and the spares move down.
sh9a_delete_lru(b, item) ==
    LET spare(s) == IF s > Upper THEN NoKey ELSE AfterClear(b, item, s)
    IN  [slot |-> [i \in Slots |->
                     CASE i < item -> b.slot[i]
                       [] i \in item..(Lower-1) -> b.slot[i+1]
                       [] i = Lower -> spare(1)
                       [] i > Lower -> spare(i - Lower + 1)],
         epoch |-> 0]

\* Only a digest in a word is found: the spare digests are put together from
\* the key that is looked for, whose spare bits are zero, and never match it.
sh9a_delete_bucket(b, k) == {i \in 1..Lower : b.slot[i] = k}

stringhash9a_delete(t, k) ==
    LET at == {h \in {Home[k][1], Home[k][2]} : sh9a_delete_bucket(t.buckets[h], k) # {}}
        h  == IF Home[k][1] \in at THEN Home[k][1] ELSE Home[k][2]
    IN  IF at = {} THEN Result(t, FALSE, 0)
        ELSE Result([t EXCEPT !.buckets[h] = sh9a_delete_lru(t.buckets[h],
                         FirstOf(sh9a_delete_bucket(t.buckets[h], k)))], TRUE, 0)

stringhash9a_flush(t) == [t EXCEPT !.buckets = [h \in 1..Rows |-> NewBucket],
                                   !.epoch = 1 % Epochs]

\* A file keeps the buckets; the clock and the counters start again.
stringhash9a_dump(t) == t.buckets
stringhash9a_read(f) == [sh9a_create_ibits EXCEPT !.buckets = f]
=============================================================================
