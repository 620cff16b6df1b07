----------------------------- MODULE WindowKids -----------------------------
(* Kids that keep, for each key, some of the tuples or members they were     *)
(* given: firstn, untiln, keepn, keeplast, lastn, appendlast and             *)
(* appendfirstitem.                                                          *)
EXTENDS KidBase

\* -------- firstn: passes a tuple while one of its keys came fewer than max_cnt
\* times; untiln: once none of them did.  A count starts again after a while.
firstn_cfgs == [labels : {<<"K">>}, max_cnt : {1, 2}, expire_offset : {0, 3}, count : BOOLEAN]
firstn_init(c) == KeyedInit(<<>>)
NewSeen == [expire |-> 0, cnt |-> 0]

\* One key: a.pass is raised when it is below the limit, a.cnt is its count.
CountKey(c, s, k, now) ==
    LET tab == find_attach(s.tab, k, NewSeen).tab
        r == Rec(tab, k)
        again == c.expire_offset > 0 /\ (r.expire = 0 \/ now >= r.expire)
        cnt == IF again /\ r.expire # 0 THEN 0 ELSE r.cnt
        new == [expire |-> IF again THEN now + c.expire_offset ELSE r.expire, cnt |-> cnt + 1]
    IN  [s EXCEPT !.tab = Put(tab, k, new), !.cnt = cnt + 1, !.pass = @ \/ cnt < c.max_cnt]
Counted(c, s, id) ==
    Each(LAMBDA x, m : CountKey(c, x, m.v, TimeOf(s, id)), s @@ [pass |-> FALSE, cnt |-> 0],
         tuple_search_labelset(s, id, c.labels))

firstn_pass(c, a, s, id) ==
    LET told == IF c.count THEN add_tuple_member(a, id, Member("COUNT", "uint", a.cnt)) ELSE a
    IN  Return(IF a.pass THEN ws_set_outdata(told, id) ELSE a, s)
firstn_proc_tuple(c, s, id) == firstn_pass(c, Counted(c, s, id), s, id)
firstn_input_set(c, s, port, id) ==
    IF port = "FLUSH" THEN [s EXCEPT !.tab = <<>>] ELSE firstn_proc_tuple(c, s, id)

untiln_cfgs == [labels : {<<"K">>}, max_cnt : {1, 2}, expire_offset : {0, 3}]
untiln_init(c) == KeyedInit(<<>>)
untiln_proc_tuple(c, s, id) ==
    LET a == Counted(c, s, id)
    IN  Return(Pass(a, id, ~a.pass), s)
untiln_input_set(c, s, port, id) ==
    IF port = "FLUSH" THEN [s EXCEPT !.tab = <<>>] ELSE untiln_proc_tuple(c, s, id)

\* -------- keepn: the key and the last (keepfirst: the first) n values of each
\* key, in a tuple when the key expires, or (hitemit) whenever there are n.
keepn_cfgs == [path : {<<"V">>, <<"T", "V">>}, n : {1, 2}, keepfirst : BOOLEAN,
               hitemit : BOOLEAN, count : BOOLEAN]
keepn_init(c) == KeyedInit(<<>>)
KeepNothing == [q |-> <<>>]

keepn_rec_erase(s, r) == Each(Release, s, r.q)
\* Gives out what r holds, and lets go of it from the position from on.
keepn_last_destroy_from(c, s, r, from) ==
    LET a == wsdata_alloc(s, r.q)
        b == Each(Release, a, SubSeq(r.q, from + 1, Len(r.q)))
        d == IF c.count THEN add_tuple_member(b, Newest(b), Member("KEEPCOUNT", "uint", Len(r.q) - 1))
             ELSE b
    IN  IF r.q = <<>> THEN s ELSE ws_set_outdata(d, Newest(d))
keepn_destroy(c, s, r) == IF c.hitemit THEN keepn_rec_erase(s, r) ELSE keepn_last_destroy_from(c, s, r, 0)

keepn_proc_add_value(c, s, k, value) ==
    LET q == Rec(s.tab, k).q
        Keep(x, new) == [x EXCEPT !.tab = Put(@, k, [q |-> new])]
        more == Keep(Hold(s, value), Append(q, value))
    IN  CASE Len(q) < c.n + 1 /\ ~(c.hitemit /\ Len(q) = c.n) -> more
          [] Len(q) = c.n /\ c.hitemit ->
                Keep(keepn_last_destroy_from(c, more, Rec(more.tab, k), 1), <<q[1]>>)
          [] Len(q) = c.n + 1 /\ c.keepfirst  -> s
          [] Len(q) = c.n + 1 /\ ~c.keepfirst ->
                Keep(Hold(Release(s, q[2]), value), <<q[1]>> \o SubSeq(q, 3, Len(q)) \o <<value>>)

keepn_proc_tuple(c, s, id) ==
    LET key == First(s, id, "K")
        f == find_attach(s.tab, key.v, KeepNothing)
        a == Expire(s, f.tab, f.old, LAMBDA x, r : keepn_destroy(c, x, r))
        b == IF Rec(a.tab, key.v).q # <<>> THEN a
             ELSE [Hold(a, key) EXCEPT !.tab = Put(@, key.v, [q |-> <<key>>])]
    IN  IF Has(s, id, "K")
        THEN Each(LAMBDA x, v : keepn_proc_add_value(c, x, key.v, v), b, Objects(s, tuple_nested_search(s, id, c.path)))
        ELSE s
keepn_input_set(c, s, port, id) ==
    IF port = "FLUSH" THEN ScourAndFlush(s, LAMBDA x, r : keepn_destroy(c, x, r))
    ELSE keepn_proc_tuple(c, s, id)

\* -------- keeplast: the last tuple (or value of it) of each key; given out when
\* the key expires, if the default port is in use, and appended to queries.
keeplast_cfgs == [labels : {<<"K">>}, value : BOOLEAN,
                  ports : {{"TUPLE", "QUERYAPPEND"}, {"ADD", "QUERYAPPEND"}}]
keeplast_init(c) == KeyedInit(<<>>)

keeplast_last_destroy(c, s, r) ==
    LET m == Head(r.q)
        a == IF m.d = "tuple" THEN ws_set_outdata(s, m.v)
             ELSE LET b == wsdata_alloc(s, <<m>>) IN ws_set_outdata(b, Newest(b))
    IN  IF r.q = <<>> THEN s ELSE Release(IF "TUPLE" \in c.ports THEN a ELSE s, m)

keeplast_add_member(c, s, value, key) ==
    LET f == find_attach(s.tab, key.v, KeepNothing)
        a == Expire(s, f.tab, f.old, LAMBDA x, r : keeplast_last_destroy(c, x, r))
        b == Each(Release, a, Rec(a.tab, key.v).q)
    IN  [Hold(b, value) EXCEPT !.tab = Put(@, key.v, [q |-> <<value>>])]
keeplast_proc_tuple(c, s, id) ==
    LET value == IF c.value THEN First(s, id, "V") ELSE Tuple(s, id)
    IN  IF c.value /\ ~Has(s, id, "V") THEN s
        ELSE Each(LAMBDA x, m : keeplast_add_member(c, x, value, m), s, tuple_search_labelset(s, id, c.labels))

keeplast_query_append_key(s, id, key) ==
    LET q == Rec(s.tab, key.v).q
        last == Head(q)
        found == IF last.d = "tuple" THEN Members(s, last.v) ELSE <<last>>
        a == [s EXCEPT !.tab = Touch(@, key.v)]
    IN  IF ~Keyed(s.tab, key.v) THEN s
        ELSE Each(LAMBDA x, m : add_tuple_member(x, id, m), a, IF q = <<>> THEN <<>> ELSE found)
keeplast_proc_tuple_query(c, s, id) ==
    ws_set_outdata(Each(LAMBDA x, m : keeplast_query_append_key(x, id, m), s,
                        tuple_search_labelset(s, id, c.labels)), id)
keeplast_input_set(c, s, port, id) ==
    CASE port = "FLUSH" -> ScourAndFlush(s, LAMBDA x, r : keeplast_last_destroy(c, x, r))
      [] port = "QUERYAPPEND" -> keeplast_proc_tuple_query(c, s, id)
      [] port \in {"TUPLE", "ADD"} -> keeplast_proc_tuple(c, s, id)

\* -------- lastn: the last n rows of values of each key, in a ring that next
\* runs around; a query is given pointers to them, newest first.
lastn_cfgs == [values : {<<"V">>, <<"V", "W">>}, n : {1, 2}, original_labels : BOOLEAN]
lastn_init(c) == KeyedInit(<<>>)
NewRing == [q |-> <<>>, len |-> 0, next |-> 0]

lastn_last_destroy(s, r) == Each(Release, s, r.q)
lastn_set_outlabels(c, j, k) == IF c.original_labels THEN c.values[k] ELSE <<"LASTN", j, c.values[k]>>

lastn_do_insert(c, s, k, values) ==
    LET f == find_attach(s.tab, k, NewRing)
        a == Expire(s, f.tab, f.old, lastn_last_destroy)
        r == Rec(a.tab, k)
        at == r.next * Len(c.values)
        old == IF r.len < c.n THEN <<>> ELSE SubSeq(r.q, at + 1, at + Len(c.values))
        q == SubSeq(r.q, 1, at) \o values \o SubSeq(r.q, at + Len(values) + 1, Len(r.q))
    IN  [Each(Hold, Each(Release, a, old), values) EXCEPT !.tab =
            Put(@, k, [q |-> q, next |-> (r.next + 1) % c.n, len |-> IF r.len < c.n THEN r.len + 1 ELSE r.len])]

lastn_do_append(c, s, id, k) ==
    LET r == Rec(s.tab, k)
        nv == Len(c.values)
        row(j) == IF r.len < c.n THEN r.len - 1 - j ELSE (r.next + c.n - 1 - j) % c.n
        list == FlattenSeq([j \in 1..r.len |-> [i \in 1..nv |->
                    [m |-> r.q[row(j-1) * nv + i], l |-> lastn_set_outlabels(c, j - 1, i)]]])
    IN  IF Keyed(s.tab, k)
        THEN Each(LAMBDA x, e : tuple_member_add_ptr(x, id, e.m, e.l), [s EXCEPT !.tab = Touch(@, k)], list)
        ELSE s

lastn_delete(s, k) ==
    IF Keyed(s.tab, k) THEN [lastn_last_destroy(s, Rec(s.tab, k)) EXCEPT !.tab = Drop(@, k)] ELSE s

\* A value is needed for every label.
lastn_input_set(c, s, port, id) ==
    LET keyed == Has(s, id, "K")
        k == First(s, id, "K").v
        all == \A i \in 1..Len(c.values) : Has(s, id, c.values[i])
        values == [i \in 1..Len(c.values) |-> First(s, id, c.values[i])]
        asked == ws_set_outdata(lastn_do_append(c, s, id, k), id)
    IN  CASE port = "FLUSH" -> Each(LAMBDA x, e : [lastn_last_destroy(x, e.r) EXCEPT !.tab = Put(@, e.k, NewRing)],
                                    s, s.tab)
          [] port = "INSERT"   -> IF keyed /\ all THEN lastn_do_insert(c, s, k, values) ELSE s
          [] port = "QUERY"    -> IF keyed THEN asked ELSE s
          [] port = "FILTER"   -> IF keyed THEN (IF Keyed(s.tab, k) THEN asked ELSE s) ELSE s
          [] port = "ADDQUERY" -> IF ~keyed THEN ws_set_outdata(s, id)
                                  ELSE IF all THEN lastn_do_insert(c, asked, k, values) ELSE asked
          [] port = "DELETE"   -> IF keyed THEN lastn_delete(s, k) ELSE s

\* -------- appendlast: the last value of a key, appended to the next tuple.
appendlast_cfgs == [pass_all : BOOLEAN]
appendlast_init(c) == KeyedInit(<<>>)
appendlast_last_destroy(s, r) == Each(Release, s, r.q)

appendlast_check_append(c, s, id, k, values) ==
    LET f == find_attach(s.tab, k, KeepNothing)
        a == Expire(s, f.tab, f.old, appendlast_last_destroy)
        q == Rec(a.tab, k).q
        b == Each(LAMBDA x, m : tuple_member_add_ptr(x, id, m, "LAST"), a, q)
        new == [Each(Hold, Each(Release, b, q), values) EXCEPT !.tab = Put(@, k, [q |-> values])]
        d == IF values = <<>> THEN b ELSE new
    IN  IF q # <<>> \/ c.pass_all THEN ws_set_outdata(d, id) ELSE d
appendlast_input_set(c, s, port, id) ==
    LET v == tuple_find_label(s, id, "V")
    IN  CASE port = "FLUSH" -> s
          [] port # "FLUSH" /\ Has(s, id, "K") ->
                appendlast_check_append(c, s, id, First(s, id, "K").v, IF v = <<>> THEN v ELSE <<Head(v)>>)
          [] port # "FLUSH" /\ ~Has(s, id, "K") -> IF c.pass_all THEN ws_set_outdata(s, id) ELSE s

\* -------- appendfirstitem: the first value of a key, appended to all later
\* tuples.  The label FIRST goes to the value alone: it is not found under it in
\* the tuple it came in.
appendfirstitem_cfgs == [x : {0}]
appendfirstitem_init(c) == KeyedInit(<<>>)
appendfirstitem_last_destroy(s, r) == Each(Release, s, r.q)

appendfirstitem_check_append(s, id, k, pos) ==
    LET f == find_attach(s.tab, k, KeepNothing)
        a == Expire(s, f.tab, f.old, appendfirstitem_last_destroy)
        q == Rec(a.tab, k).q
        b == add_tuple_member(a, id, Head(q))
        next == IF pos # <<>> THEN tuple_add_member_label(b, id, Head(pos), "NEXT") ELSE b
        v == [Members(s, id)[Head(pos)] EXCEPT !.l = @ \cup {"FIRST"}]
    IN  [hit |-> q # <<>>,
         s |-> CASE q # <<>> -> next
                 [] q = <<>> /\ pos = <<>> -> a
                 [] q = <<>> /\ pos # <<>> -> [Hold(a, v) EXCEPT !.tab = Put(@, k, [q |-> <<v>>])]]
appendfirstitem_input_set(c, s, port, id) ==
    LET f == appendfirstitem_check_append(s, id, First(s, id, "K").v, Positions(s, id, <<"V">>))
    IN  CASE port = "FLUSH" -> ScourAndFlush(s, appendfirstitem_last_destroy)
          [] port # "FLUSH" /\ ~Has(s, id, "K") -> IF port = "TAG" THEN ws_set_outdata(s, id) ELSE s
          [] port = "ADD" /\ Has(s, id, "K") -> f.s
          [] port = "TAG" /\ Has(s, id, "K") -> ws_set_outdata(f.s, id)
          [] port = "TUPLE" /\ Has(s, id, "K") -> IF f.hit THEN ws_set_outdata(f.s, id) ELSE f.s
=============================================================================
