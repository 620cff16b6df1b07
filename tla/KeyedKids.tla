------------------------------ MODULE KeyedKids -----------------------------
(* Kids that keep numbers by key: keycount, keyaverage, keyvariance, keyrate *)
(* (through lib/wsprockeystate.c), keyflow, keytime, labelstat, cntquery.    *)
(* <kid>_cfgs: the options of its command line; <kid>_init: its new state;   *)
(* <kid>_input_set: the handler of a port, applied to the tuple id.          *)
EXTENDS KidBase

\* -------- keycount: a count for each key, and the first tuple that had it, or
\* (only, option -R) its key alone; a record holds a reference to either (q).
keycount_cfgs == [labels : {<<"K">>}, pct : BOOLEAN, only : BOOLEAN]
keycount_init(c) == KeyedInit([total |-> 0])
keycount_send(c, s, o, r) ==
    LET cnt == add_tuple_member(s, o, Member("COUNT", "uint", r.cnt))
        pct == IF c.pct THEN add_tuple_member(cnt, o, Member("PCT", "ratio", <<r.cnt, s.total>>))
                        ELSE cnt
    IN  ws_set_outdata(pct, o)

\* A plausible error: a key that was counted once is not given out.
keycount_last_destroyLost(c, s, r) ==
    LET new == Release(wsdata_alloc(s, r.q), r.q[1])
    IN  CASE r.q = <<>> -> s
          [] r.q # <<>> /\ c.only  -> keycount_send(c, new, Newest(new), r)
          [] r.q # <<>> /\ ~c.only -> Release(IF r.cnt = 1 THEN s ELSE keycount_send(c, s, r.q[1].v, r), r.q[1])

\* A plausible error: the new tuple is taken to own the record's reference to the key.
keycount_last_destroyKeeps(c, s, r) ==
    LET new == wsdata_alloc(s, r.q)
    IN  CASE r.q = <<>> -> s
          [] r.q # <<>> /\ c.only  -> keycount_send(c, new, Newest(new), r)
          [] r.q # <<>> /\ ~c.only -> Release(keycount_send(c, s, r.q[1].v, r), r.q[1])

\* The key is released as soon as it is a member of the new tuple, the tuple
\* after it was given out.
keycount_last_destroy(c, s, r) ==
    LET new == Release(wsdata_alloc(s, r.q), r.q[1])
    IN  CASE r.q = <<>> -> s
          [] r.q # <<>> /\ c.only  -> keycount_send(c, new, Newest(new), r)
          [] r.q # <<>> /\ ~c.only -> Release(keycount_send(c, s, r.q[1].v, r), r.q[1])

keycount_count(c, s, id, m) ==
    LET r == Rec(s.tab, m.v)
        held == IF c.only THEN m ELSE Tuple(s, id)
        new == [q |-> IF r.q = <<>> THEN <<held>> ELSE r.q, cnt |-> r.cnt + 1]
    IN  [(IF r.q = <<>> THEN Hold(s, held) ELSE s) EXCEPT !.tab = Put(@, m.v, new), !.total = @ + 1]
keycount_add_member(c, s, id, m) ==
    LET f == find_attach(s.tab, m.v, [q |-> <<>>, cnt |-> 0])
    IN  keycount_count(c, Expire(s, f.tab, f.old, LAMBDA x, r : keycount_last_destroy(c, x, r)), id, m)

keycount_proc_tuple(c, s, id) ==
    Each(LAMBDA x, m : keycount_add_member(c, x, id, m), s, tuple_search_labelset(s, id, c.labels))

\* The count is added once for each key of the query that is in the table.
keycount_proc_tuple_query(c, s, id) ==
    LET hits == SelectSeq(tuple_search_labelset(s, id, c.labels), LAMBDA m : Keyed(s.tab, m.v))
        a == Each(LAMBDA x, m : [add_tuple_member(x, id, Member("ANSWER", "uint", Rec(x.tab, m.v).cnt))
                                    EXCEPT !.tab = Touch(@, m.v)], s, hits)
    IN  IF hits = <<>> THEN s ELSE ws_set_outdata(a, id)

keycount_proc_flush(c, s) ==
    [ScourAndFlush(s, LAMBDA x, r : keycount_last_destroy(c, x, r)) EXCEPT !.total = 0]

keycount_input_set(c, s, port, id) ==
    CASE port = "FLUSH" -> keycount_proc_flush(c, s)
      [] port = "QUERYAPPEND" -> keycount_proc_tuple_query(c, s, id)
      [] port \notin {"FLUSH", "QUERYAPPEND"} -> keycount_proc_tuple(c, s, id)

\* -------- keyaverage: sum and number of the values of each key; its table has
\* no callback, so a record that expires is overwritten.
Numeric == {"uint", "int", "uint64", "double"}
keyaverage_cfgs == [full : BOOLEAN]
keyaverage_init(c) == KeyedInit(<<>>)

keyaverage_add_member(c, s, id, key, value) ==
    LET f == find_attach(s.tab, key.v, [wsd |-> 0, sum |-> 0, cnt |-> 0])
        r == Rec(f.tab, key.v)
        a == [s EXCEPT !.tab = f.tab]
        b == IF r.wsd = 0 THEN wsdata_add_reference(a, <<id, 0>>) ELSE a
        n == IF value.d \in Numeric THEN [r EXCEPT !.sum = @ + value.v, !.cnt = @ + 1] ELSE r
    IN  [b EXCEPT !.tab = Put(@, key.v, [n EXCEPT !.wsd = IF @ = 0 THEN id ELSE @])]

keyaverage_proc_tuple(c, s, id) ==
    IF Has(s, id, "K") /\ Has(s, id, "V")
    THEN keyaverage_add_member(c, s, id, First(s, id, "K"), First(s, id, "V")) ELSE s

keyaverage_last_destroy(c, s, r) ==
    LET a == add_tuple_member(s, r.wsd, Member("AVG", "ratio", <<r.sum, r.cnt>>))
        b == add_tuple_member(add_tuple_member(a, r.wsd, Member("SUM", "double", r.sum)),
                              r.wsd, Member("CNT", "double", r.cnt))
    IN  IF r.wsd = 0 THEN s
        ELSE wsdata_delete(ws_set_outdata(IF c.full THEN b ELSE a, r.wsd), <<r.wsd, 0>>)

keyaverage_input_set(c, s, port, id) ==
    IF port = "FLUSH" THEN ScourAndFlush(s, LAMBDA x, r : keyaverage_last_destroy(c, x, r))
    ELSE keyaverage_proc_tuple(c, s, id)

\* -------- keyvariance: moments of the last window values of each key (of all
\* values, when window is 0), as lib/variance.c keeps them.
keyvariance_cfgs == [full : BOOLEAN, skew : BOOLEAN, window : {0, 2}]
keyvariance_init(c) == KeyedInit(<<>>)
NewVariance == [wsd |-> 0, items |-> <<>>, start |-> 0, count |-> 0, sum |-> 0,
                sumofsquares |-> 0, sumcubed |-> 0]

var_hit(c, r, x) ==
    LET full == c.window > 0 /\ r.count >= c.window
        gone == IF full THEN r.items[r.start + 1] ELSE 0
        kept == CASE c.window = 0 -> <<>>
                  [] full -> [r.items EXCEPT ![r.start + 1] = x]
                  [] c.window > 0 /\ ~full -> Append(r.items, x)
    IN  [r EXCEPT !.items = kept, !.start = IF c.window > 0 THEN (@ + 1) % c.window ELSE @,
                  !.count = @ + 1, !.sum = @ - gone + x, !.sumofsquares = @ - gone * gone + x * x,
                  !.sumcubed = @ + x * x * x]
var_window(c, r) == IF c.window > 0 /\ r.count > c.window THEN c.window ELSE r.count
\* n * (n - 1) times the variance of the n values of the window.
var_getVariance(c, r) == IF r.count > 1 THEN var_window(c, r) * r.sumofsquares - r.sum * r.sum ELSE 0

keyvariance_last_destroy(c, s, r) ==
    LET a == add_tuple_member(s, r.wsd, Member("VARIANCE", "moments",
                                 <<var_window(c, r), r.sum, r.sumofsquares, var_getVariance(c, r)>>))
        b == add_tuple_member(add_tuple_member(a, r.wsd, Member("AVERAGE", "ratio", <<r.sum, var_window(c, r)>>)),
                              r.wsd, Member("CNT", "double", r.count))
        full == IF c.full THEN b ELSE a
        all == IF c.skew THEN add_tuple_member(full, r.wsd, Member("SKEWNESS", "moments",
                                 <<var_window(c, r), r.sum, r.sumofsquares, r.sumcubed>>)) ELSE full
    IN  IF r.wsd = 0 THEN s ELSE wsdata_delete(ws_set_outdata(all, r.wsd), <<r.wsd, 0>>)

keyvariance_hit(c, s, id, key, value) ==
    LET r == Rec(s.tab, key.v)
        a == IF r.wsd = 0 THEN wsdata_add_reference(s, <<id, 0>>) ELSE s
        n == IF value.d \in Numeric THEN var_hit(c, r, value.v) ELSE r
    IN  [a EXCEPT !.tab = Put(@, key.v, [n EXCEPT !.wsd = IF @ = 0 THEN id ELSE @])]
keyvariance_add_member(c, s, id, key, value) ==
    LET f == find_attach(s.tab, key.v, NewVariance)
    IN  keyvariance_hit(c, Expire(s, f.tab, f.old, LAMBDA x, r : keyvariance_last_destroy(c, x, r)), id, key, value)

keyvariance_input_set(c, s, port, id) ==
    CASE port = "FLUSH" -> ScourAndFlush(s, LAMBDA x, r : keyvariance_last_destroy(c, x, r))
      [] port # "FLUSH" /\ Has(s, id, "K") /\ Has(s, id, "V") ->
            keyvariance_add_member(c, s, id, First(s, id, "K"), First(s, id, "V"))
      [] port # "FLUSH" /\ ~(Has(s, id, "K") /\ Has(s, id, "V")) -> s

\* -------- keyrate, a kid of the framework lib/wsprockeystate.c: the count (or
\* the sum of values) of each key in each epoch, told when the next one begins.
keyrate_cfgs == [value : BOOLEAN, min : {1, 2}, max : {0, 2}, inc : {4}]
keyrate_init(c) == KeyedInit([boundary |-> 0, epoch |-> 0])
NewRate == [epoch |-> 0, cnt |-> 0]

update_epoch(c, s, id) ==
    LET now == TimeOf(s, id)
    IN  IF test_time_boundary(s.boundary, now)
        THEN [s EXCEPT !.boundary = next_time_boundary(c.inc, now), !.epoch = @ + 1] ELSE s

report_key_rate(c, s, id, r) ==
    add_tuple_member(add_tuple_member(add_tuple_member(s, id,
        Member("ACC", "uint64", r.cnt)), id, Member("EPOCH_ID", "uint", r.epoch)),
        id, Member("RATE", "ratio", <<r.cnt, c.inc>>))

\* prockeystate_update, and prockeystate_update_value: add is what is counted.
\* rtn counts the reports in this call: the tuple goes on if there are any.
keyrate_update(c, s, id, k, add) ==
    LET u == update_epoch(c, s, id)
        r == Rec(u.tab, k)
        told == ~(r.cnt < c.min \/ (c.max > 0 /\ r.cnt > c.max))
        new == IF u.epoch = r.epoch THEN [r EXCEPT !.cnt = @ + add]
                                    ELSE [epoch |-> u.epoch, cnt |-> add]
        a == IF u.epoch # r.epoch /\ told THEN report_key_rate(c, u, id, r) ELSE u
    IN  [a EXCEPT !.tab = Put(@, k, new), !.rtn = IF u.epoch # r.epoch /\ told THEN @ + 1 ELSE @]
\* The framework: Update is the kid's, for a key (a member) and what it adds; Expired
\* is called for a record that leaves the table (NoExpire for a kid without such a call).
NoExpire(s, r) == s
wsprockeystate_attach(s, k, zero, Expired(_, _)) ==
    LET f == find_attach(s.tab, k, zero) IN Expire(s, f.tab, f.old, Expired)
\* Without a value label each key is updated; with one, the first key is, once
\* for each of its values, and it enters the table even if there are none.
wsprockeystate_process_key(Update(_, _, _), Expired(_, _), s, id, zero) ==
    Each(LAMBDA x, m : Update(wsprockeystate_attach(x, m.v, zero, Expired), m, 1), s,
         tuple_find_label(s, id, "K"))
wsprockeystate_process_keyvalue(Update(_, _, _), Expired(_, _), s, id, zero) ==
    LET key == First(s, id, "K")
        numbers == SelectSeq(tuple_find_label(s, id, "V"), LAMBDA m : m.d \in Numeric)
    IN  IF ~Has(s, id, "K") THEN s
        ELSE Each(LAMBDA x, m : Update(x, key, m.v), wsprockeystate_attach(s, key.v, zero, Expired), numbers)
wsprockeystate_delete_key(Expired(_, _), s, id) ==
    Each(LAMBDA x, m : IF Keyed(x.tab, m.v) THEN [Expired(x, Rec(x.tab, m.v)) EXCEPT !.tab = Drop(@, m.v)] ELSE x,
         s, tuple_find_label(s, id, "K"))
wsprockeystate_input_set(Update(_, _, _), Expired(_, _), value, zero, s, port, id) ==
    LET counting == s @@ [rtn |-> 0]
        a == IF value THEN wsprockeystate_process_keyvalue(Update, Expired, counting, id, zero)
                      ELSE wsprockeystate_process_key(Update, Expired, counting, id, zero)
    IN  CASE port = "FLUSH"  -> ScourAndFlush(s, Expired)
          [] port = "REMOVE" -> wsprockeystate_delete_key(Expired, s, id)
          [] port \notin {"FLUSH", "REMOVE"} -> Pass(Return(a, s), id, a.rtn > 0)
keyrate_input_set(c, s, port, id) ==
    wsprockeystate_input_set(LAMBDA x, m, add : keyrate_update(c, x, id, m.v, add), NoExpire, c.value, NewRate, s, port, id)

\* -------- keyadd: the sum of the values of each key (or how often it came), told with
\* the first tuple, or the key, when the record leaves the table.
keyadd_cfgs == [value : BOOLEAN, keep_only_key : BOOLEAN, do_pct : BOOLEAN]
keyadd_init(c) == KeyedInit([totalcnt |-> 0])
NoSum == [q |-> <<>>, cnt |-> 0]
add_scores(c, s, o, n) ==
    LET a == add_tuple_member(s, o, Member("COUNT", "uint", n))
        b == IF c.do_pct THEN add_tuple_member(a, o, Member("PCT", "ratio", <<n, s.totalcnt>>)) ELSE a
    IN  ws_set_outdata(b, o)
keyadd_expire(c, s, r) ==
    LET new == wsdata_alloc(s, r.q)
        a == IF c.keep_only_key THEN add_scores(c, new, Newest(new), r.cnt) ELSE add_scores(c, s, r.q[1].v, r.cnt)
    IN  IF r.q = <<>> THEN s ELSE Release(a, r.q[1])
keyadd_update(c, s, id, m, add) ==
    LET r == Rec(s.tab, m.v)
        held == IF c.keep_only_key THEN m ELSE Tuple(s, id)
        new == [q |-> IF r.q = <<>> THEN <<held>> ELSE r.q, cnt |-> r.cnt + add]
    IN  [(IF r.q = <<>> THEN Hold(s, held) ELSE s) EXCEPT !.tab = Put(@, m.v, new), !.totalcnt = @ + add]
keyadd_input_set(c, s, port, id) ==
    LET a == wsprockeystate_input_set(LAMBDA x, m, add : keyadd_update(c, x, id, m, add),
                 LAMBDA x, r : keyadd_expire(c, x, r), c.value, NoSum, s, port, id)
    IN  IF port = "FLUSH" THEN [a EXCEPT !.totalcnt = 0] ELSE a

\* -------- keyadd_initial: the sum of the first limit_cnt values of each key, told with
\* the last of them.
keyadd_initial_cfgs == [limit_cnt : {1, 2}]
keyadd_initial_init(c) == KeyedInit(<<>>)
NoInitial == [cnt |-> 0, value |-> 0]
keyadd_initial_update_value(c, s, id, m, add) ==
    LET r == Rec(s.tab, m.v)
        new == [cnt |-> r.cnt + 1, value |-> r.value + add]
        a == [s EXCEPT !.tab = Put(@, m.v, new)]
        told == add_tuple_member(add_tuple_member(a, id, Member("COUNT", "uint", new.cnt)), id, Member("ACC", "uint", new.value))
    IN  CASE r.cnt >= c.limit_cnt -> s
          [] r.cnt < c.limit_cnt -> IF new.cnt = c.limit_cnt THEN [told EXCEPT !.rtn = @ + 1] ELSE a
keyadd_initial_input_set(c, s, port, id) ==
    wsprockeystate_input_set(LAMBDA x, m, add : keyadd_initial_update_value(c, x, id, m, add), NoExpire, TRUE, NoInitial, s, port, id)

\* -------- keyflow: a tag for each key, renewed when the key was not seen for
\* timeout seconds, or (seq_max > 0) for seq_max other events.
keyflow_cfgs == [labels : {<<"K">>}, seq_max : {0, 1}, timeout : {2}]
keyflow_init(c) == KeyedInit([seq |-> 0])
NewFlow == [last |-> 0, hash |-> <<0, 0>>]

\* The tag is a hash of the key and the time (or the number of the event).
keyflow_add_member(c, s, id, m, ts) ==
    LET tab == find_attach(s.tab, m.v, NewFlow).tab
        r == Rec(tab, m.v)
        now == IF c.seq_max > 0 THEN s.seq ELSE ts
        renew == IF c.seq_max > 0 THEN r.last = 0 \/ now - r.last > c.seq_max
                                  ELSE r.last = 0 \/ (ts > r.last /\ c.timeout <= ts - r.last)
        later == c.seq_max > 0 \/ r.last = 0 \/ ts > r.last
        new == [last |-> IF later THEN now ELSE r.last,
                hash |-> IF renew THEN <<m.v, now>> ELSE r.hash]
    IN  add_tuple_member([s EXCEPT !.tab = Put(tab, m.v, new),
                                   !.seq = IF c.seq_max > 0 THEN @ + 1 ELSE @],
                         id, Member("KEYFLOW", "tag", new.hash))

keyflow_input_set(c, s, port, id) ==
    LET times == SelectSeq(tuple_find_label(s, id, "DATETIME"), LAMBDA m : m.d = "ts")
    IN  IF port = "FLUSH" \/ times = <<>> THEN s
        ELSE ws_set_outdata(Each(LAMBDA x, m : keyflow_add_member(c, x, id, m, Head(times).v), s,
                                 tuple_search_labelset(s, id, c.labels)), id)

\* -------- keytime: marks each key as new, recent or old by its first time.  A
\* key that its table expires, or a flush clears, is old from then on.
keytime_cfgs == [labels : {<<"K">>}, recent : {1}, old : {3}]
keytime_init(c) == KeyedInit([aged |-> {}])
keytime_last_destroy(s, r) == [s EXCEPT !.aged = @ \cup {r.key}]

keytime_add_member(c, s, id, pos, ts) ==
    LET k == s.mem[id].m[pos].v
        f == find_attach(s.tab, k, [key |-> 0, first |-> 0])
        a == Expire(s, f.tab, f.old, keytime_last_destroy)
        r == Rec(a.tab, k)
        diff == IF ts < r.first THEN 0 ELSE ts - r.first
        Mark(x, label) == tuple_add_member_label(x, id, pos, label)
        known == [a EXCEPT !.tab = Put(@, k, [key |-> k, first |-> ts])]
        grown == [a EXCEPT !.tab = Drop(@, k), !.aged = @ \cup {k}]
    IN  IF k \in s.aged THEN Mark(s, "OLD")
        ELSE IF r.key = 0 THEN Mark(known, "NEW")
        ELSE IF ts # 0 /\ diff <= c.recent THEN Mark(a, "NEW")
        ELSE IF ts # 0 /\ diff > c.old THEN Mark(grown, "OLD") ELSE Mark(a, "RECENT")

\* The last time of the tuple counts; 0 stands for a tuple without one.
keytime_input_set(c, s, port, id) ==
    LET times == SelectSeq(tuple_find_label(s, id, "DATETIME"), LAMBDA m : m.d = "ts")
        ts == IF times = <<>> THEN 0 ELSE Last(times).v
    IN  IF port = "FLUSH" THEN ScourAndFlush(s, keytime_last_destroy)
        ELSE ws_set_outdata(Each(LAMBDA x, p : keytime_add_member(c, x, id, p, ts), s,
                                 Positions(s, id, c.labels)), id)

\* -------- labelstat: counts the labels of members; a count that its table
\* expires, or a flush, goes out in a tuple of its own.
labelstat_cfgs == [labels : {<<>>, <<"K">>}, all : BOOLEAN]
labelstat_init(c) == KeyedInit(<<>>)
labelstat_last_destroy(s, r) ==
    LET a == wsdata_alloc(s, <<Member("LABEL", "label", r.label), Member("COUNT", "uint", r.cnt)>>)
    IN  IF r.cnt = 0 THEN s ELSE ws_set_outdata(a, Newest(a))
labelstat_add_label(s, label) ==
    LET f == find_attach(s.tab, label, [label |-> label, cnt |-> 0])
        a == Expire(s, f.tab, f.old, labelstat_last_destroy)
    IN  [a EXCEPT !.tab = Put(@, label, [Rec(a.tab, label) EXCEPT !.cnt = @ + 1])]
labelstat_add_member(s, labels) == Each(labelstat_add_label, s, SetToSeq(labels))
labelstat_input_set(c, s, port, id) ==
    LET own == IF c.all /\ c.labels = <<>> THEN labelstat_add_member(s, s.mem[id].l) ELSE s
        members == IF c.labels = <<>> THEN s.mem[id].m ELSE tuple_search_labelset(s, id, c.labels)
    IN  IF port = "FLUSH" THEN ScourAndFlush(s, labelstat_last_destroy)
        ELSE Each(LAMBDA x, m : labelstat_add_member(x, m.l), own, members)

\* -------- cntquery: a counter for each key, raised and lowered on its own
\* ports; a query goes on while the counter is at least min.  With an expiry a
\* counter starts again when it is used in a later epoch.
MAX_EVENT_CNT == 2
cntquery_cfgs == [labels : {<<"K">>}, min : {1, 2}, expire : BOOLEAN, inc : {4}, count : BOOLEAN]
cntquery_init(c) == KeyedInit([boundary |-> 0, epoch |-> 0])
NewEvent == [epoch |-> 0, cnt |-> 0]

\* The record of the last label found; a search that fails leaves the one before.
get_edata(c, s, id, create) ==
    LET ks == [i \in 1..Len(c.labels) |-> tuple_find_label(s, id, c.labels[i])]
        hit == SelectSeq(ks, LAMBDA q : q # <<>>)
        k == Head(Last(hit)).v
        tab == IF create THEN find_attach(s.tab, k, NewEvent).tab ELSE Touch(s.tab, k)
        a == [s EXCEPT !.tab = tab]
        now == First(s, id, "DATETIME")
        u == IF Has(s, id, "DATETIME") /\ now.d = "ts" /\ test_time_boundary(s.boundary, now.v)
             THEN [a EXCEPT !.boundary = next_time_boundary(c.inc, now.v), !.epoch = @ + 1] ELSE a
        r == Rec(tab, k)
    IN  IF hit = <<>> \/ ~Keyed(tab, k) THEN [ok |-> FALSE, s |-> s, k |-> 0]
        ELSE [ok |-> TRUE, k |-> k,
              s |-> IF ~c.expire THEN a
                    ELSE IF r.epoch = u.epoch THEN u
                    ELSE [u EXCEPT !.tab = Put(@, k, [epoch |-> u.epoch, cnt |-> 0])]]

cntquery_count(s, k, by) ==
    LET n == Rec(s.tab, k).cnt + by
    IN  IF n > MAX_EVENT_CNT \/ n < -MAX_EVENT_CNT THEN s
        ELSE [s EXCEPT !.tab = Put(@, k, [Rec(s.tab, k) EXCEPT !.cnt = n])]
cntquery_answer(c, s, id, k) ==
    LET n == Rec(s.tab, k).cnt
        a == IF c.count THEN add_tuple_member(s, id, Member("CNT", "uint", n)) ELSE s
    IN  IF n >= c.min THEN ws_set_outdata(a, id) ELSE s

cntquery_event(c, e, port, id) ==
    CASE ~e.ok                         -> e.s
      [] e.ok /\ port = "INCREMENT"    -> cntquery_count(e.s, e.k, 1)
      [] e.ok /\ port = "DECREMENT"    -> cntquery_count(e.s, e.k, -1)
      [] e.ok /\ port = "ADDQUERY"     -> cntquery_answer(c, cntquery_count(e.s, e.k, 1), id, e.k)
      [] e.ok /\ port = "QUERY"        -> cntquery_answer(c, e.s, id, e.k)
cntquery_input_set(c, s, port, id) ==
    IF port = "FLUSH" THEN s
    ELSE cntquery_event(c, get_edata(c, s, id, port \in {"INCREMENT", "DECREMENT", "ADDQUERY"}), port, id)
=============================================================================
