------------------------------ MODULE SortKids ------------------------------
(* Kids that keep tuples by a value: sort, rbsort, top and heavyhitters, with *)
(* the heap of include/wsheap.h and the counters of include/heavyhitters.h.  *)
EXTENDS RbTree

\* -------- sort: maxlen tuples at a time, sorted by quicksort (include/quicksort.h),
\* which parts a list around its first element.
sort_cfgs == [maxlen : {2, 4}, reverse : BOOLEAN]
sort_init(c) == KidInit @@ [buf |-> <<>>]
Swapped(q, i, j) == [q EXCEPT ![i] = q[j], ![j] = q[i]]
\* compar(x, y) > 0: y comes before x.
SortsBefore(c, y, x) == IF c.reverse THEN y.value < x.value ELSE y.value > x.value
\* Parts q: a.i elements come before the first one, those from a.k after it.
Parted(c, q) ==
    LET Round(a) ==
            LET j == a.j + 1   next == a.j + 2
            IN  CASE SortsBefore(c, a.q[next], a.q[j]) ->
                        [q |-> Swapped(a.q, a.i + 2, next), i |-> a.i + 1, j |-> a.j + 1, k |-> a.k]
                  [] SortsBefore(c, a.q[j], a.q[next]) -> [a EXCEPT !.q = Swapped(@, next, a.k), !.k = @ - 1]
                  [] OTHER -> [a EXCEPT !.j = @ + 1]
    IN  While(LAMBDA a : a.j < a.k - 1, Round, [q |-> q, i |-> -1, j |-> 0, k |-> Len(q)], 2 * Len(q))
RECURSIVE quicksort(_, _)
quicksort(c, q) ==
    LET a == Parted(c, q)
    IN  CASE Len(q) < 2 -> q
          [] Len(q) = 2 -> IF SortsBefore(c, q[2], q[1]) THEN <<q[2], q[1]>> ELSE q
          [] Len(q) > 2 -> quicksort(c, SubSeq(a.q, 1, a.i + 1)) \o SubSeq(a.q, a.i + 2, a.k)
                           \o quicksort(c, SubSeq(a.q, a.k + 1, Len(q)))
sort_dump(c, s) ==
    Each(LAMBDA x, e : wsdata_delete(ws_set_outdata(x, e.wsd), <<e.wsd, 0>>), [s EXCEPT !.buf = <<>>],
         quicksort(c, s.buf))
sort_input_set(c, s, port, id) ==
    LET v == First(s, id, "V")
        a == [Hold(s, Tuple(s, id)) EXCEPT !.buf = Append(@, [wsd |-> id, value |-> IF v.d = "uint" THEN v.v ELSE -1])]
    IN  CASE port = "FLUSH" -> sort_dump(c, s)
          [] port # "FLUSH" /\ ~Has(s, id, "V") -> s
          [] port # "FLUSH" /\ Has(s, id, "V") -> IF Len(a.buf) = c.maxlen THEN sort_dump(c, a) ELSE a

\* -------- rbsort: a window of maxlen tuples, of which the least is passed on when
\* another comes.
rbsort_cfgs == [maxlen : {1, 3, 5}, reverse : BOOLEAN]
rbsort_init(c) == KidInit @@ [tree |-> RBTreeCreate]
sort_emit(s) ==
    LET wsd == s.tree.wsd[RBGetMinimum(s.tree)]
    IN  [wsdata_delete(ws_set_outdata(s, wsd), <<wsd, 0>>) EXCEPT !.tree = RBDelete(@, RBGetMinimum(@))]
rbsort_proc_tuple(c, s, id, value) ==
    LET t == s.tree
        full == t.num = c.maxlen
        held == Hold(s, Tuple(s, id))
    IN  CASE full /\ value < t.key[t.min] -> ws_set_outdata(s, id)
          [] full /\ value >= t.key[t.min] -> sort_emit([held EXCEPT !.tree = RBTreeInsert(@, value, id)])
          [] ~full -> [held EXCEPT !.tree = RBTreeInsert_initial(@, value, id)]
rbsort_input_set(c, s, port, id) ==
    LET v == First(s, id, "V").v
    IN  CASE port = "FLUSH" -> While(LAMBDA x : x.tree.num > 0, sort_emit, s, Cardinality(RbNodes))
          [] port # "FLUSH" /\ (~Has(s, id, "V") \/ First(s, id, "V").d # "uint") -> s
          [] port # "FLUSH" /\ Has(s, id, "V") /\ First(s, id, "V").d = "uint" ->
                rbsort_proc_tuple(c, s, id, IF c.reverse THEN -v ELSE v)

\* -------- wsheap: the places of a heap, from 0, hold slots of a buffer; the slot at
\* 0 has the least record.
wsheap_init(max, zero) == [heap |-> [p \in 0..max - 1 |-> p], buf |-> [i \in 0..max - 1 |-> zero], count |-> 0]
Lesser(h, Lt(_, _), a, b) == Lt(h.buf[h.heap[a]], h.buf[h.heap[b]])
wsheap_swap(h, a, b) == [h EXCEPT !.heap[a] = h.heap[b], !.heap[b] = h.heap[a]]
wsheap_promote(h, Lt(_, _), pos) ==
    LET Parent(p) == ((p + 1) \div 2) - 1
    IN  While(LAMBDA u : u.p > 0 /\ Lesser(u.h, Lt, u.p, Parent(u.p)),
              LAMBDA u : [h |-> wsheap_swap(u.h, u.p, Parent(u.p)), p |-> Parent(u.p)],
              [h |-> h, p |-> pos], h.count).h
wsheap_demote(h, Lt(_, _), pos) ==
    LET Child(u) == LET c1 == 2 * u.p + 1
                    IN  IF c1 + 1 < u.h.count /\ Lesser(u.h, Lt, c1 + 1, c1) THEN c1 + 1 ELSE c1
    IN  While(LAMBDA u : 2 * u.p + 1 < u.h.count /\ Lesser(u.h, Lt, Child(u), u.p),
              LAMBDA u : [h |-> wsheap_swap(u.h, u.p, Child(u)), p |-> Child(u)],
              [h |-> h, p |-> pos], h.count).h
\* A record for a full heap takes the place of the least one, whatever its value.
\* at: the slot it is in; Replace: what becomes of the slot.
wsheap_insert_replace(h, Lt(_, _), Replace(_), max) ==
    LET pos == IF h.count < max THEN h.count ELSE 0
        a == [h EXCEPT !.buf[h.heap[pos]] = Replace(h.buf[h.heap[pos]])]
    IN  [at |-> h.heap[pos],
         h |-> IF h.count < max THEN wsheap_promote([a EXCEPT !.count = @ + 1], Lt, pos) ELSE wsheap_demote(a, Lt, 0)]
\* The record in slot i has changed; what is looked at is place i.
wsheap_update(h, Lt(_, _), i) == wsheap_demote(h, Lt, i)
wsheap_sort_inplace(h, Lt(_, _)) ==
    LET Round(x) == LET y == [x EXCEPT !.count = @ - 1] IN wsheap_demote(wsheap_swap(y, 0, y.count), Lt, 0)
    IN  [While(LAMBDA x : x.count > 1, Round, h, h.count) EXCEPT !.count = h.count]
InPlaces(h) == [i \in 1..h.count |-> h.buf[h.heap[i - 1]]]

\* -------- top: max tuples, by the first number found.
top_cfgs == [max : {1, 2, 3}, reverse : BOOLEAN, paths : {<<<<"V">>>>, <<<<"T", "V">>>>}]
NoEvent == [wsd |-> 0, value |-> 0]
top_init(c) == KidInit @@ [heap |-> wsheap_init(c.max, NoEvent)]
proc_compair(c, a, b) == IF c.reverse THEN a.value > b.value ELSE a.value < b.value
top_proc_tuple(c, s, id, value) ==
    LET r == wsheap_insert_replace(s.heap, LAMBDA a, b : proc_compair(c, a, b),
                                   LAMBDA rec : [wsd |-> id, value |-> value], c.max)
        old == s.heap.buf[r.at].wsd
        a == IF old # 0 THEN wsdata_delete(s, <<old, 0>>) ELSE s
    IN  [wsdata_add_reference(a, <<id, 0>>) EXCEPT !.heap = r.h]
top_proc_flush(c, s) ==
    [Each(LAMBDA x, e : wsdata_delete(ws_set_outdata(x, e.wsd), <<e.wsd, 0>>), s,
          InPlaces(wsheap_sort_inplace(s.heap, LAMBDA a, b : proc_compair(c, a, b))))
        EXCEPT !.heap = wsheap_init(c.max, NoEvent)]
top_input_set(c, s, port, id) ==
    LET found == SelectSeq(Objects(s, tuple_nested_search_ext(s, id, c.paths)), LAMBDA m : m.d = "uint")
    IN  CASE port = "FLUSH" -> top_proc_flush(c, s)
          [] port # "FLUSH" /\ found = <<>> -> s
          [] port # "FLUSH" /\ found # <<>> -> top_proc_tuple(c, s, id, Head(found).v)

\* -------- heavyhitters: counters of max_buffers keys; a new key takes over the
\* counter at the head of the heap and its value.
heavyhitters_cfgs == [max_buffers : {1, 2}, max_out : {1}, swap_lastkey : BOOLEAN, flush_once : BOOLEAN,
                      keep_key : BOOLEAN]
NoCounter == [wsd |-> 0, q |-> <<>>, key |-> 0, value |-> 0]
heavyhitters_init(c) == KidInit @@ [heap |-> wsheap_init(c.max_buffers, NoCounter), flushes |-> 0]
hh_node_compair(a, b) == a.value < b.value
\* What a counter holds: the tuple, or the key.
kdata_release(s, n) == Each(Release, s, n.q)
heavyhitters_increment(c, s, key, value) ==
    LET h == s.heap
        known == {i \in 0..h.count - 1 : h.buf[i].key = key}
        i == CHOOSE j \in known : TRUE
        r == wsheap_insert_replace(h, hh_node_compair,
                 LAMBDA n : [NoCounter EXCEPT !.key = key, !.value = n.value + value], c.max_buffers)
    IN  IF known # {}
        THEN [at |-> i, s |-> [s EXCEPT !.heap = wsheap_update([h EXCEPT !.buf = (i :> [@[i] EXCEPT !.value = @ + value]) @@ @], hh_node_compair, i)]]
        ELSE [at |-> r.at, s |-> [kdata_release(s, h.buf[r.at]) EXCEPT !.heap = r.h]]
HoldAt(c, r, held) ==
    LET q == r.s.heap.buf[r.at].q
        a == IF c.swap_lastkey THEN Each(Release, r.s, q) ELSE r.s
    IN  IF q # <<>> /\ ~c.swap_lastkey THEN r.s
        ELSE [Hold(a, held) EXCEPT !.heap.buf = (r.at :> [@[r.at] EXCEPT !.q = <<held>>]) @@ @]
heavyhitters_add_member(c, s, id, key, value) ==
    IF value = 0 THEN s
    ELSE HoldAt(c, heavyhitters_increment(c, s, key.v, value), IF c.keep_key THEN key ELSE Tuple(s, id))
heavyhitters_proc_tuple(c, s, id) ==
    LET values == SelectSeq(tuple_find_label(s, id, "V"), LAMBDA m : m.d = "uint")
    IN  Each(LAMBDA x, m : heavyhitters_add_member(c, x, id, m, IF values = <<>> THEN 1 ELSE Head(values).v),
             s, tuple_find_label(s, id, "K"))
heavyhitters_reset(c, s) ==
    [Each(LAMBDA x, n : kdata_release(x, n), s, InPlaces(s.heap)) EXCEPT !.heap = wsheap_init(c.max_buffers, NoCounter)]
heavyhitters_give(c, s, n) ==
    LET new == wsdata_alloc(s, n.q)
        o == IF c.keep_key THEN Newest(new) ELSE n.q[1].v
    IN  ws_set_outdata(add_tuple_member(IF c.keep_key THEN new ELSE s, o, Member("ACC", "uint64", n.value)), o)
heavyhitters_proc_flush(c, s) ==
    LET sorted == InPlaces(wsheap_sort_inplace(s.heap, hh_node_compair))
        count == IF Len(sorted) < c.max_out THEN Len(sorted) ELSE c.max_out
        a == [s EXCEPT !.flushes = @ + 1]
        given == Each(LAMBDA x, n : heavyhitters_give(c, x, n), a, SubSeq(sorted, 1, count))
    IN  heavyhitters_reset(c, IF c.flush_once /\ a.flushes > 1 THEN a ELSE given)
heavyhitters_input_set(c, s, port, id) ==
    IF port = "FLUSH" THEN heavyhitters_proc_flush(c, s) ELSE heavyhitters_proc_tuple(c, s, id)
=============================================================================
