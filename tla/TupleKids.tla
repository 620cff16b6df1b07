------------------------------ MODULE TupleKids -----------------------------
(* Kids that make tuples of the members of others: subtuple, mergetuple,     *)
(* jointuple, splittuple, dupetuple, mknest, denest, bundle, unbundle,       *)
(* removefromtuple, fillmissing, mklabelset, data2label, tuplehash, flush.   *)
EXTENDS KidBase

AddAll(s, id, ms) == Each(LAMBDA x, m : add_tuple_member(x, id, m), s, ms)
wsdata_duplicate_labels(s, from, to) == [s EXCEPT !.mem[to].l = @ \cup s.mem[from].l]
\* A new tuple that is given out if it has members.
GiveUnlessEmpty(s, id) == IF Members(s, id) = <<>> THEN s ELSE ws_set_outdata(s, id)

\* -------- subtuple: a new tuple of the members found, at most one for each label if
\* only_one, with a NULL for a label that is not there if add_nullstr.
subtuple_cfgs == [paths : {<<>>, <<<<"K">>, <<"V">>>>, <<<<"T", "V">>, <<"K">>>>}, only_one : BOOLEAN,
                  reset_label : BOOLEAN, add_nullstr : BOOLEAN, container : BOOLEAN]
subtuple_init(c) == KidInit
RECURSIVE add_searchlabels(_, _, _, _, _)
add_searchlabels(c, s, new, t, path) ==
    LET ms == tuple_find_label(s, t, Head(path))
        taken == IF c.only_one THEN <<Head(ms)>> ELSE ms
        AddOne(x, m) == IF c.reset_label THEN tuple_member_add_ptr(x, new, m, Head(path)) ELSE add_tuple_member(x, new, m)
    IN  CASE ms = <<>> -> IF c.add_nullstr THEN add_tuple_member(s, new, Member(Head(path), "str", <<>>)) ELSE s
          [] ms # <<>> /\ Len(path) = 1 -> Each(AddOne, s, taken)
          [] ms # <<>> /\ Len(path) > 1 -> Each(LAMBDA x, m : add_searchlabels(c, x, new, m.v, Tail(path)), s, ms)
subtuple_input_set(c, s, port, id) ==
    LET a == wsdata_alloc(s, <<>>)
        new == Newest(a)
        b == IF c.container THEN wsdata_duplicate_labels(a, id, new) ELSE a
    IN  CASE port = "FLUSH" -> s
          [] port # "FLUSH" /\ c.paths = <<>> -> ws_set_outdata(AddAll(b, new, Members(s, id)), new)
          [] port # "FLUSH" /\ c.paths # <<>> ->
                GiveUnlessEmpty(Each(LAMBDA x, path : add_searchlabels(c, x, new, id, path), b, c.paths), new)

\* -------- mergetuple: the members that belong to a key, from several tuples in one,
\* given out when there are maxcnt of them.  One that expires is lost.
mergetuple_cfgs == [merge : {<<"V", "W">>}, carry : {<<>>, <<"T">>}, maxcnt : {1, 2}, distinct : BOOLEAN]
mergetuple_init(c) == KeyedInit(<<>>)
NoTuple == [wsd |-> 0, cnt |-> 0]
tuple_destroy(s, r) == IF r.wsd # 0 THEN wsdata_delete(s, <<r.wsd, 0>>) ELSE s
mergetuple_get_keydata(c, s, id, key) ==
    LET f == find_attach(s.tab, key.v, NoTuple)
        a == Expire(s, f.tab, f.old, tuple_destroy)
        b == AddAll(wsdata_alloc(a, <<key>>), Newest(a) + 1, tuple_search_labelset(s, id, c.carry))
    IN  IF Rec(a.tab, key.v).wsd # 0 THEN a
        ELSE [Hold(b, Tuple(b, Newest(b))) EXCEPT !.tab = Put(@, key.v, [wsd |-> Newest(b), cnt |-> 0])]
merge_key(c, s, k, label, m) ==
    LET r == Rec(s.tab, k)
    IN  IF c.distinct /\ Has(s, r.wsd, label) THEN s
        ELSE [add_tuple_member(s, r.wsd, m) EXCEPT !.tab = Put(@, k, [r EXCEPT !.cnt = @ + 1])]
mergetuple_output_kdata(s, k) ==
    LET r == Rec(s.tab, k)
    IN  [wsdata_delete(ws_set_outdata(s, r.wsd), <<r.wsd, 0>>) EXCEPT !.tab = Put(@, k, NoTuple)]
mergetuple_input_set(c, s, port, id) ==
    LET key == First(s, id, "K")
        a == mergetuple_get_keydata(c, s, id, key)
        merged == Each(LAMBDA x, label : Each(LAMBDA y, m : merge_key(c, y, key.v, label, m), x, tuple_find_label(s, id, label)),
                       a, c.merge)
        found == Rec(merged.tab, key.v).cnt > Rec(a.tab, key.v).cnt
    IN  CASE port = "FLUSH" \/ ~Has(s, id, "K") -> s
          [] port # "FLUSH" /\ Has(s, id, "K") ->
                IF found /\ Rec(merged.tab, key.v).cnt >= c.maxcnt THEN mergetuple_output_kdata(merged, key.v) ELSE merged

\* -------- jointuple: a tuple waits in the table of its port, under each of its keys,
\* for one with such a key on the other port.  tab: the left table, tab2: the right
\* one.  rm: the members left out of a copy, kept from one call to the next.
jointuple_cfgs == [left : {{}, {"V"}}, right : {{}, {"W"}}]
jointuple_init(c) == KeyedInit([tab2 |-> <<>>, rm |-> {}])
TableOf(s, side) == IF side = "LEFT" THEN s.tab ELSE s.tab2
SetTable(s, side, tab) == IF side = "LEFT" THEN [s EXCEPT !.tab = tab] ELSE [s EXCEPT !.tab2 = tab]
Opposite(side) == IF side = "LEFT" THEN "RIGHT" ELSE "LEFT"
\* The labels that are taken from the tuples of one side only.
Only(c, side) == IF side = "LEFT" THEN c.left ELSE c.right
copy_members_except(s, from, to, omit) ==
    LET a == wsdata_duplicate_labels(s, from, to)
        rm == s.rm \cup {m.o : m \in {n \in ToSet(Members(s, from)) : n.l \cap omit # {}}}
    IN  [AddAll(a, to, SelectSeq(Members(s, from), LAMBDA m : m.o \notin rm)) EXCEPT !.rm = rm]
store_keydata(c, s, side, id) ==
    LET a == wsdata_alloc(s, <<>>)
        new == Newest(a)
        b == copy_members_except([a EXCEPT !.rm = {}], id, new, Only(c, Opposite(side)))
        Store(x, k) ==
            LET f == find_attach(TableOf(x, side), k, [wsd |-> 0])
                y == Each(tuple_destroy, SetTable(x, side, f.tab), [i \in 1..Len(f.old) |-> f.old[i].r])
                z == tuple_destroy(y, Rec(f.tab, k))
            IN  SetTable(wsdata_add_reference(z, <<new, 0>>), side, Put(f.tab, k, [wsd |-> new]))
    IN  Each(LAMBDA x, m : Store(x, m.v), b, tuple_find_label(s, id, "K"))
\* Called for the other keys of a tuple that has found its match; but it is given the
\* key that matched, whose record is gone.  What it would delete is not the key.
remove_keydata(s, k, side) ==
    IF Keyed(TableOf(s, side), k) THEN wsdata_delete(s, <<Rec(TableOf(s, side), k).wsd, 0>>) ELSE s
JoinWith(c, s, side, id, m) ==
    LET other == Opposite(side)
        wsd == Rec(TableOf(s, other), m.v).wsd
        a == SetTable(s, other, Drop(TableOf(s, other), m.v))
        b == [a EXCEPT !.rm = IF m.o \notin @ THEN {m.o} ELSE {}]
        d == copy_members_except(b, id, wsd, Only(c, other))
        others == SelectSeq(tuple_find_label(d, wsd, "K"), LAMBDA n : n.o # m.o)
        e == Each(LAMBDA x, n : remove_keydata(x, m.v, other), d, others)
    IN  wsdata_delete(ws_set_outdata(e, wsd), <<wsd, 0>>)
jointuple_input_set(c, s, port, id) ==
    LET matches == SelectSeq(tuple_find_label(s, id, "K"), LAMBDA m : Keyed(TableOf(s, Opposite(port)), m.v))
    IN  CASE port = "FLUSH" -> s
          [] port # "FLUSH" /\ matches # <<>> -> JoinWith(c, s, port, id, Head(matches))
          [] port # "FLUSH" /\ matches = <<>> -> IF Has(s, id, "K") THEN store_keydata(c, s, port, id) ELSE s

\* -------- splittuple: a tuple for each member found, with the carried members.
splittuple_cfgs == [paths : {<<<<"V">>>>, <<<<"T", "V">>, <<"V">>>>}, carry : {<<>>, <<<<"K">>>>}]
splittuple_init(c) == KidInit
splittuple_input_set(c, s, port, id) ==
    LET carry == Objects(s, tuple_nested_search_ext(s, id, c.carry))
        found == Objects(s, tuple_nested_search_ext(s, id, c.paths))
    IN  IF port = "FLUSH" THEN s
        ELSE Each(LAMBDA x, m : ws_set_outdata(wsdata_alloc(x, Append(carry, m)), Newest(x) + 1), s, found)

\* -------- dupetuple: a copy of the tuple and of the tuples in it, of the same members
\* (depth 1) or of copies of those (depth 2).
dupetuple_cfgs == [depth : {1, 2}]
dupetuple_init(c) == KidInit
RECURSIVE tuple_deep_full_copy(_, _, _, _)
tuple_deep_full_copy(s, src, dst, depth) ==
    LET Sub(x, m) ==
            LET a == wsdata_alloc(x, <<>>)
                b == tuple_deep_full_copy(a, m.v, Newest(a), depth)
            IN  add_tuple_member(b, dst, Tuple(b, Newest(a)))
        CopyOf(m) == [l |-> m.l, d |-> m.d, v |-> m.v]
    IN  Each(LAMBDA x, m : IF m.d = "tuple" THEN Sub(x, m)
                           ELSE add_tuple_member(x, dst, IF depth = 1 THEN m ELSE CopyOf(m)),
             wsdata_duplicate_labels(s, src, dst), Members(s, src))
dupetuple_input_set(c, s, port, id) ==
    LET a == wsdata_alloc(s, <<>>)
    IN  IF port = "FLUSH" THEN s ELSE ws_set_outdata(tuple_deep_full_copy(a, id, Newest(a), c.depth), Newest(a))

\* -------- mknest: the members found, in a new tuple that becomes a member too.
mknest_cfgs == [paths : {<<<<"V">>>>, <<<<"T", "V">>, <<"K">>>>}]
mknest_init(c) == KidInit
mknest_input_set(c, s, port, id) ==
    LET a == wsdata_alloc(s, Objects(s, tuple_nested_search_ext(s, id, c.paths)))
        b == wsdata_add_label(a, Newest(a), "NEST")
        new == IF Members(a, Newest(a)) = <<>> THEN a ELSE add_tuple_member(b, id, Tuple(b, Newest(b)))
    IN  IF port = "FLUSH" THEN s ELSE ws_set_outdata(new, id)

\* -------- denest: the members of the tuples found, in one tuple (append: in this one).
denest_cfgs == [paths : {<<<<"T">>>>, <<<<"T">>, <<"V">>>>}, append : BOOLEAN, apply : BOOLEAN]
denest_init(c) == KidInit
denest_input_set(c, s, port, id) ==
    LET a == IF c.append THEN s ELSE wsdata_alloc(s, <<>>)
        to == IF c.append THEN id ELSE Newest(a)
        With(m) == IF c.apply THEN [m EXCEPT !.l = @ \cup {"L"}] ELSE m
        Op(x, e) ==
            LET m == At(x, e)
            IN  Hit(CASE m.d = "tuple" -> AddAll(x, to, [i \in 1..Len(Members(x, m.v)) |-> With(Members(x, m.v)[i])])
                      [] m.d # "tuple" -> IF c.apply THEN tuple_member_add_ptr(x, to, m, "L") ELSE add_tuple_member(x, to, m),
                    TRUE)
        b == NestedSearch(Op, a, id, c.paths).s
    IN  CASE port = "FLUSH" -> s
          [] port # "FLUSH" /\ c.append -> ws_set_outdata(b, id)
          [] port # "FLUSH" /\ ~c.append -> GiveUnlessEmpty(b, to)

\* -------- bundle: max data at a time as the members of one; a flush that is not the one at
\* exit is bundled like other data.  unbundle gives them out again.
bundle_cfgs == [max : {1, 2}]
bundle_init(c) == KidInit @@ [buf |-> <<>>]
GiveBundle(s) == LET o == s.buf[1].wsd IN [wsdata_delete(ws_set_outdata(s, o), <<o, 0>>) EXCEPT !.buf = <<>>]
bundle_proc_process(c, s, id) ==
    LET new == wsdata_alloc(s, <<>>)
        a == IF s.buf # <<>> THEN s
             ELSE [wsdata_add_reference(new, <<Newest(new), 0>>) EXCEPT !.buf = <<[wsd |-> Newest(new)]>>]
        b == add_tuple_member(a, a.buf[1].wsd, Tuple(s, id))
    IN  IF Len(Members(b, b.buf[1].wsd)) >= c.max THEN GiveBundle(b) ELSE b
bundle_input_set(c, s, port, id) ==
    CASE port = "EXIT" -> IF s.buf # <<>> THEN GiveBundle(s) ELSE s
      [] port # "EXIT" -> bundle_proc_process(c, s, id)
unbundle_cfgs == [x : {0}]
unbundle_init(c) == KidInit
unbundle_input_set(c, s, port, id) ==
    IF port = "FLUSH" THEN s ELSE Each(LAMBDA x, m : ws_set_outdata(x, m.v), s, Members(s, id))

\* -------- removefromtuple: a new tuple without the members that have the labels.
removefromtuple_cfgs == [labels : {<<"K">>, <<"K", "V">>}]
removefromtuple_init(c) == KidInit
removefromtuple_input_set(c, s, port, id) ==
    LET rm == {m.o : m \in ToSet(tuple_search_labelset(s, id, c.labels))}
        a == wsdata_alloc(s, SelectSeq(Members(s, id), LAMBDA m : m.o \notin rm))
    IN  IF port = "FLUSH" THEN s ELSE GiveUnlessEmpty(wsdata_duplicate_labels(a, id, Newest(a)), Newest(a))

\* -------- fillmissing: a member for each label that is not there, with a value of its
\* own or that of another label.
fillmissing_cfgs == [labels : {<<"V", "W">>}, replicate : BOOLEAN, as_string : BOOLEAN]
fillmissing_init(c) == KidInit
Fill(c, s, id, label) ==
    LET from == First(s, id, "K")
    IN  CASE Has(s, id, label) -> s
          [] ~Has(s, id, label) /\ ~c.replicate -> tuple_member_add_ptr(s, id, [d |-> "str", v |-> <<>>], label)
          [] ~Has(s, id, label) /\ c.replicate ->
                IF ~Has(s, id, "K") \/ (c.as_string /\ from.d # "str") THEN s ELSE tuple_member_add_ptr(s, id, from, label)
fillmissing_input_set(c, s, port, id) ==
    IF port = "FLUSH" THEN s ELSE ws_set_outdata(Each(LAMBDA x, label : Fill(c, x, id, label), s, c.labels), id)

\* -------- mklabelset: the labels of members, or of the tuple, as a member.
mklabelset_cfgs == [labels : {<<"K", "V">>}, container : BOOLEAN, out_string : BOOLEAN]
mklabelset_init(c) == KidInit
mklabelset_input_set(c, s, port, id) ==
    LET Others(label) == LET ms == tuple_find_label(s, id, label) IN [i \in 1..Len(ms) |-> ms[i].l \ {label}]
        found == FlattenSeq([i \in 1..Len(c.labels) |-> Others(c.labels[i])])
        names == IF c.container THEN <<s.mem[id].l>> ELSE SelectSeq(found, LAMBDA ls : ls # {})
        a == add_tuple_member(s, id, Member("LABELSET", IF c.out_string THEN "str" ELSE "labelset", names))
        none == \A i \in 1..Len(names) : names[i] = {}
    IN  IF port = "FLUSH" THEN s
        ELSE ws_set_outdata(IF none /\ (c.container \/ c.out_string) THEN s ELSE a, id)

\* -------- data2label: the label of a member and its value as one more label of it.  Of a
\* string the last two characters are lost.
data2label_cfgs == [labels : {<<"K">>, <<"K", "V">>}]
data2label_init(c) == KidInit
LabelFor(label, m) ==
    label \o (IF m.d = "str" THEN (IF Len(m.v) < 2 THEN "" ELSE "=" \o ToString(SubSeq(m.v, 1, Len(m.v) - 2)))
              ELSE "=" \o ToString(m.v))
data2label_input_set(c, s, port, id) ==
    LET Mark(x, label) == Each(LAMBDA y, p : IF Members(s, id)[p].d \notin {"str", "uint"} THEN y
                                             ELSE tuple_add_member_label(y, id, p, LabelFor(label, Members(s, id)[p])),
                               x, Positions(x, id, <<label>>))
    IN  IF port = "FLUSH" THEN s ELSE ws_set_outdata(Each(Mark, s, c.labels), id)

\* -------- tuplehash: a hash of the members found, in any order, or (ordered) each with
\* the place of its path; of a tuple all its members are hashed, however deep.
tuplehash_cfgs == [paths : {<<<<"K">>, <<"V">>>>, <<<<"T">>, <<"T", "V">>>>}, first_el : BOOLEAN, ordered : BOOLEAN]
tuplehash_init(c) == KidInit
RECURSIVE local_hash_tuple(_, _)
local_hash_tuple(s, t) ==
    FlattenSeq([i \in 1..Len(Members(s, t)) |->
        LET m == Members(s, t)[i] IN IF m.d = "tuple" THEN local_hash_tuple(s, m.v) ELSE <<m.v>>])
\* The hash: how often each value at each offset is in it.
Spread(c, s, i, ms) ==
    LET taken == IF c.first_el /\ ms # <<>> THEN <<Head(ms)>> ELSE ms
        all == FlattenSeq([j \in 1..Len(taken) |->
                   IF taken[j].d = "tuple" THEN local_hash_tuple(s, taken[j].v) ELSE <<taken[j].v>>])
    IN  [j \in 1..Len(all) |-> [at |-> IF c.ordered THEN i ELSE 0, v |-> all[j]]]
tuplehash_input_set(c, s, port, id) ==
    LET found(i) == Objects(s, tuple_nested_search(s, id, c.paths[i]))
        hashed == FlattenSeq([i \in 1..Len(c.paths) |-> Spread(c, s, i, found(i))])
        hash == [e \in ToSet(hashed) |-> Cardinality({j \in 1..Len(hashed) : hashed[j] = e})]
        any == \E i \in 1..Len(c.paths) : found(i) # <<>>
    IN  CASE port = "FLUSH" -> s
          [] port # "FLUSH" -> ws_set_outdata(IF any THEN add_tuple_member(s, id, Member("TUPLEHASH", "uint64", hash)) ELSE s, id)

\* -------- flush: passes tuples, and after limit of them, or past a time, a flush: one
\* datum that it holds.
flush_cfgs == [flush_time : BOOLEAN, nopassthrough : BOOLEAN, limit : {2}, inc : {4}]
flush_init(c) == [wsdata_add_reference(wsdata_alloc(KidInit, <<>>), <<1, 0>>) EXCEPT !.mem[1].l = {"FLUSH"}]
                 @@ [buf |-> <<[wsd |-> 1]>>, counter |-> 0, boundary |-> 0]
flush_input_set(c, s, port, id) ==
    LET now == TimeOf(s, id)
        due == test_time_boundary(s.boundary, now)
        passed == Pass(s, 1, due /\ s.boundary # 0)
        timed == IF due THEN [passed EXCEPT !.boundary = next_time_boundary(c.inc, now)] ELSE s
        given == Pass(IF c.flush_time THEN timed ELSE s, id, ~c.nopassthrough)
        full == s.counter + 1 >= c.limit
    IN  CASE port = "FLUSH" -> s
          [] port # "FLUSH" /\ c.flush_time -> given
          [] port # "FLUSH" /\ ~c.flush_time ->
                [Pass(given, 1, full) EXCEPT !.counter = IF full THEN 0 ELSE @ + 1]
=============================================================================
