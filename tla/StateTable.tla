----------------------------- MODULE StateTable ----------------------------
(* The tables in which kids keep state by key: one table of any of the three *)
(* kinds under every sequence of calls, beside the order in which its keys   *)
(* were last used.  A kid that gets a new record writes its key into it.     *)
EXTENDS Integers, Sequences, FiniteSets, SequencesExt

CONSTANTS Keys, NoKey, Garbage, Rows, Home,
          Depth, EpochBits, EinsertMax,          \* stringhash5
          Upper, Bytes, EpochValues, MaxInsertCnt,    \* stringhash9a
          MaxRecords, Chains, HashOf,            \* stringhash3
          Kinds, Deletable      \* kinds of table, and those keys are deleted from

ASSUME TableAssumption ==
    /\ NoKey \notin Keys /\ Garbage \notin Keys \cup {NoKey}
    /\ Rows \in Nat \ {0} /\ Home \in [Keys -> (1..Rows) \X (1..Rows)]
    /\ Depth \in Nat /\ EpochBits \in 1..(Depth - 1) /\ EinsertMax \in Nat
    /\ {Upper, Bytes, EpochValues} \subseteq Nat \ {0} /\ MaxInsertCnt \in Nat
    /\ MaxRecords \in Nat /\ MaxRecords > 1
    /\ Chains \in Nat \ {0} /\ HashOf \in [Keys -> 1..Chains]
    /\ Kinds \subseteq {"sh5", "sh9a", "sh3"} /\ Deletable \subseteq Kinds

SH5 == INSTANCE Stringhash5
SH9A == INSTANCE Stringhash9a WITH Epochs <- EpochValues
SH3 == INSTANCE Stringhash3

VARIABLES kind,   \* the kind of table
          t,      \* the table
          held,   \* the keys it should hold
          before, \* the pairs of them of which the first was last used earlier
          stamp,  \* stringhash5: the epoch in which each bucket last took a key
          drops   \* by how much the last call raised the table's drop count
vars == <<kind, t, held, before, stamp, drops>>

Present(table) == CASE kind = "sh5"  -> SH5!sh5_present(table)
                    [] kind = "sh9a" -> SH9A!sh9a_present(table)
                    [] kind = "sh3"  -> SH3!sh3_present(table)

Init == /\ kind \in Kinds
        /\ t = CASE kind = "sh5"  -> SH5!sh5_create
                 [] kind = "sh9a" -> SH9A!sh9a_create_ibits
                 [] kind = "sh3"  -> SH3!stringhash3_create_table
        /\ held = {} /\ before = {} /\ stamp = [h \in 1..Rows |-> 0] /\ drops = 0

Without(gone) == {p \in before : p[1] \notin gone /\ p[2] \notin gone}
Drop(gone) == held' = held \ gone /\ before' = Without(gone)

\* Key k is used now, and the keys in gone are thrown out.
Use(k, gone) ==
    LET rest == held \ (gone \cup {k})
    IN  /\ held' = rest \cup {k}
        /\ before' = Without(gone \cup {k}) \cup {<<v, k>> : v \in rest}

\* A find-or-insert: stringhash5 and stringhash3 tell a callback which records
\* they throw out; stringhash9a only counts.
Attach5(k) ==
    LET r == SH5!stringhash5_find_attach(t, k)
        h == CHOOSE g \in 1..Rows : \E i \in 1..Depth : r.t.buckets[g][i].digest = k
    IN  /\ kind = "sh5"
        /\ t' = r.t /\ drops' = r.dropped
        /\ Use(k, r.told)
        /\ stamp' = IF r.found THEN stamp ELSE [stamp EXCEPT ![h] = r.t.epoch]

Set9a(k) ==
    LET r == SH9A!stringhash9a_set(t, k)
        lost == Present(t) \ Present(r.t)
    IN  /\ kind = "sh9a"
        /\ t' = r.t /\ drops' = r.dropped
        /\ Use(k, lost)
        /\ UNCHANGED stamp

\* The kid may refresh the record it found; a new one is at the end already.
Attach3(k, refresh) ==
    LET r == SH3!stringhash3_find_attach(t, k)
    IN  /\ kind = "sh3"
        /\ t' = IF refresh THEN SH3!stringhash3_update_sort(r.t, k) ELSE r.t
        /\ drops' = r.dropped
        /\ IF r.found /\ ~refresh THEN UNCHANGED <<held, before>> ELSE Use(k, r.told)
        /\ UNCHANGED stamp

Attach(k) == Attach5(k) \/ Set9a(k) \/ \E refresh \in BOOLEAN : Attach3(k, refresh)

Touched(k) == IF k \in held THEN Use(k, {}) ELSE UNCHANGED <<held, before>>

Find5(k) == /\ kind = "sh5"
            /\ t' = SH5!stringhash5_find(t, k).t
            /\ Touched(k) /\ drops' = 0 /\ UNCHANGED stamp

Check9a(k) == /\ kind = "sh9a"
              /\ t' = SH9A!stringhash9a_check(t, k).t
              /\ Touched(k) /\ drops' = 0 /\ UNCHANGED stamp

\* A kid that kept the place of a record uses it again, whoever owns it now.
Jump(h, bin) ==
    LET i == CHOOSE j \in 1..Depth : t.buckets[h][j].bin = bin
    IN  /\ kind = "sh5"
        /\ t' = SH5!stringhash5_mark_as_used(t, h, bin)
        /\ Touched(t.buckets[h][i].digest)
        /\ drops' = 0 /\ UNCHANGED stamp

Delete(k) ==
    /\ kind \in Deletable
    /\ kind = "sh3" => k \in Present(t)
    /\ t' = CASE kind = "sh5"  -> SH5!stringhash5_delete(t, k).t
              [] kind = "sh9a" -> SH9A!stringhash9a_delete(t, k).t
              [] kind = "sh3"  -> SH3!stringhash3_prune(t, k)
    /\ Drop({k}) /\ drops' = 0 /\ UNCHANGED stamp

\* One row of a walk, whose visit has some of the records deleted.
Walk(h, gone) ==
    LET here == {t.buckets[h][i].digest : i \in 1..Depth} \ {NoKey}
    IN  /\ kind = "sh5" /\ gone \in SUBSET here
        /\ t' = SH5!stringhash5_walker_next(t, h, gone)
        /\ Drop(gone) /\ drops' = 0 /\ UNCHANGED stamp

Flush ==
    /\ \/ kind = "sh5" /\ t' = SH5!stringhash5_flush(t)
       \/ kind = "sh9a" /\ t' = SH9A!stringhash9a_flush(t)
       \/ kind = "sh3" /\ t' = SH3!stringhash3_flush(t)
    /\ held' = {} /\ before' = {} /\ stamp' = [h \in 1..Rows |-> 0] /\ drops' = 0

\* The program ends, the table is written to a file, and the next run reads it.
Restart ==
    /\ \/ kind = "sh5" /\ t' = SH5!stringhash5_read(SH5!stringhash5_dump(t))
       \/ kind = "sh9a" /\ t' = SH9A!stringhash9a_read(SH9A!stringhash9a_dump(t))
    /\ drops' = 0 /\ UNCHANGED <<held, before, stamp>>

Next == \/ \E k \in Keys : Attach(k) \/ Find5(k) \/ Check9a(k) \/ Delete(k)
        \/ \E h \in 1..Rows, bin \in 1..Depth : Jump(h, bin)
        \/ \E h \in 1..Rows, gone \in SUBSET Keys : kind = "sh5" /\ Walk(h, gone)
        \/ Flush \/ Restart

Spec == Init /\ [][Next /\ UNCHANGED kind]_vars
-----------------------------------------------------------------------------
(* The table holds exactly the keys put into it and not since deleted,        *)
(* flushed, or reported as thrown out, and a record found under a key is the  *)
(* one that was filled for that key - through moves within a bucket, holes    *)
(* left by a walk, evictions and a restart.                                   *)
AnswersRight ==
    /\ held = Present(t)
    /\ kind = "sh5" => \A k \in held : /\ SH5!stringhash5_find(t, k).found
                                       /\ SH5!stringhash5_find(t, k).data = k
    /\ kind = "sh5" => SH5!stringhash5_scour(t) = held

(* The bits stolen from the digests spell the epoch of the bucket's last     *)
(* insert, whatever is moved about between the words that carry them.        *)
EpochKept == kind = "sh5" =>
    \A h \in 1..Rows : SH5!sh5_bucket_epoch(t.buckets[h]) = stamp[h]

(* The keys that share a limit with a key: its bucket, or the whole table.   *)
Neighbours(v) ==
    CASE kind = "sh5"  -> UNION {{t.buckets[h][i].digest : i \in 1..Depth} :
                                 h \in {g \in 1..Rows : \E i \in 1..Depth : t.buckets[g][i].digest = v}}
      [] kind = "sh9a" -> UNION {Range(t.buckets[h].slot) :
                                 h \in {g \in 1..Rows : v \in Range(t.buckets[g].slot)}}
      [] kind = "sh3"  -> held

Lost == held \ held'

(* What an insert throws out is the least recently used key of its bucket    *)
(* (of the table, for stringhash3), after any calls in any order.            *)
VictimIsOldest == [][\A k \in Keys : Attach(k) =>
    \A v \in Lost : \A w \in (Neighbours(v) \cap held) \ {v} : <<v, w>> \in before]_vars

(* Inserts lose one key for each drop they count and none otherwise, so that *)
(* the expire count printed at the end is the number of keys lost.           *)
LossCounted == [][\A k \in Keys : Attach(k) => Cardinality(Lost) = drops']_vars

(* A delete takes out its key and no other: "delete record at hashkey"       *)
(* (stringhash9a.h:1386).                                                    *)
DeleteForgetsOne == [][\A k \in Keys : Delete(k) => Present(t)' = Present(t) \ {k}]_vars
=============================================================================
