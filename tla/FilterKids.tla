----------------------------- MODULE FilterKids -----------------------------
(* Kids that pass some of their tuples on: uniq, uniqexpire, bloom, sample,  *)
(* haslabel, equal, countlabels, stateclimb, bandwidth.                      *)
EXTENDS KidBase

\* -------- uniq: a table of keys that were there (stringhash9a).  A key is the
\* member found, or the sum of the hashes of several, in order or not.
uniq_cfgs == [ordered_hash : BOOLEAN, ignore_flush : BOOLEAN, do_heartbeat : {FALSE, TRUE}, tstr : {FALSE, TRUE}]
uniq_init(c) == KeyedInit([coin |-> FALSE])
Tally(list) == [e \in ToSet(list) |-> Cardinality({i \in 1..Len(list) : list[i] = e})]
get_hashdata(c, s, id) ==
    LET From(i, label) == LET ms == tuple_find_label(s, id, label)
                          IN  [j \in 1..Len(ms) |-> [i |-> IF c.ordered_hash THEN i ELSE 0, v |-> ms[j].v]]
        all == From(1, "K") \o From(2, "V")
    IN  Tally(IF Len(all) = 1 THEN <<[all[1] EXCEPT !.i = 0]>> ELSE all)
set(s, key) == [s EXCEPT !.tab = find_attach(@, key, [set |-> TRUE]).tab]
check(s, key) == [s EXCEPT !.tab = Touch(@, key)]

check_heartbeat(c, s, id) == IF c.do_heartbeat /\ s.coin THEN wsdata_add_label(s, id, "HEARTBEAT") ELSE s
uniq_process_tuple(c, s, id, key) ==
    IF Keyed(s.tab, key) THEN Pass(check_heartbeat(c, set(s, key), id), id, c.do_heartbeat /\ s.coin)
    ELSE ws_set_outdata(set(s, key), id)
uniq_tag_tuple(c, s, id, key) ==
    LET tag == [l |-> {"UNIQ"}, d |-> "str", v |-> 0, o |-> <<0, 1>>]
        a == IF c.tstr THEN add_tuple_member(s, id, tag) ELSE wsdata_add_label(s, id, "UNIQ")
    IN  check(IF Keyed(s.tab, key) THEN a ELSE s, key)
uniq_input_set(c, s, port, id) ==
    LET key == get_hashdata(c, s, id)
        in == Keyed(s.tab, key)
    IN  CASE port = "FLUSH" -> IF c.ignore_flush THEN s ELSE [s EXCEPT !.tab = <<>>]
          [] port = "EXIT"  -> s
          [] port \notin {"FLUSH", "EXIT"} /\ DOMAIN key = {} -> Pass(s, id, port = "TAG")
          [] port = "SET"   /\ DOMAIN key # {} -> set(s, key)
          [] port = "REMOVE" /\ DOMAIN key # {} -> [s EXCEPT !.tab = Drop(@, key)]
          [] port \in {"QUERY", "ISNOTSET"} /\ DOMAIN key # {} -> Pass(check(s, key), id, ~in)
          [] port \in {"INVQUERY", "ISSET"} /\ DOMAIN key # {} -> Pass(check(s, key), id, in)
          [] port = "DUPES" /\ DOMAIN key # {} -> Pass(set(s, key), id, in)
          [] port = "TAG"   /\ DOMAIN key # {} -> ws_set_outdata(uniq_tag_tuple(c, s, id, key), id)
          [] port = "TUPLE" /\ DOMAIN key # {} -> uniq_process_tuple(c, s, id, key)

\* -------- uniqexpire: a key passes again expire_time after it passed.  The
\* handlers of REMOVE remove nothing: they do so only when the key has no hash.
uniqexpire_cfgs == [expire_time : {0, 2}]
uniqexpire_init(c) == KeyedInit(<<>>)
Seconds(s, id) == LET ts == SelectSeq(Members(s, id), LAMBDA m : m.d = "ts")
                  IN  IF ts = <<>> THEN Clock(s) ELSE Head(ts).v
check_hash(c, s, key, sec) ==
    LET tab == find_attach(s.tab, key, [sec |-> 0]).tab
        due == Rec(tab, key).sec = 0 \/ Rec(tab, key).sec < sec
    IN  Hit([s EXCEPT !.tab = IF due THEN Put(tab, key, [sec |-> sec + c.expire_time]) ELSE tab], due)
uniqexpire_input_set(c, s, port, id) ==
    LET r == check_hash(c, s, First(s, id, "K").v, Seconds(s, id))
    IN  CASE port = "FLUSH" -> s
          [] port # "FLUSH" /\ ~Has(s, id, "K") -> s
          [] port \in {"REMOVE", "DELETE"} /\ Has(s, id, "K") -> s
          [] port = "TUPLE" /\ Has(s, id, "K") -> Pass(r.s, id, r.found)

\* -------- bloom: keys that were there, as bits at a few hashes of each.
BloomBits == 4
bloom_cfgs == [rounds : {1, 2}, do_heartbeat : BOOLEAN]
bloom_init(c) == KidInit @@ [bits |-> {}, coin |-> FALSE]
bf_calc(c, key) == {(key * i) % BloomBits : i \in 1..c.rounds}
bloom_input_set(c, s, port, id) ==
    LET hvals == bf_calc(c, First(s, id, "K").v)
        in == hvals \subseteq s.bits
        wanted == IF port = "QUERY" THEN in ELSE ~in
        a == IF port = "TUPLE" THEN [s EXCEPT !.bits = @ \cup hvals] ELSE s
    IN  IF port = "FLUSH" \/ ~Has(s, id, "K") THEN s
        ELSE IF wanted THEN ws_set_outdata(a, id)
        ELSE Pass(check_heartbeat(c, a, id), id, c.do_heartbeat /\ s.coin)

\* -------- sample: one in a number of tuples, or one in a length of time.
sample_cfgs == [heartbeat_time : {0, 2}, fwdflush : BOOLEAN]
sample_init(c) == KidInit @@ [nexttime |-> 0, coin |-> FALSE]
sample_input_set(c, s, port, id) ==
    LET due == IF c.heartbeat_time = 0 THEN s.coin ELSE Clock(s) >= s.nexttime
        a == IF c.heartbeat_time # 0 /\ due THEN [s EXCEPT !.nexttime = Clock(s) + c.heartbeat_time] ELSE s
    IN  CASE port = "FLUSH" -> Pass(s, id, c.fwdflush)
          [] port = "EXIT" -> s
          [] port = "TUPLE" -> Pass(a, id, due)

\* -------- haslabel: tuples with all of the labels, or any.  It counts what it
\* finds, so that a label found in two inner tuples stands for two labels.
haslabel_cfgs == {c \in [paths : {<<<<"K">>, <<"V">>>>, <<<<"T", "V">>, <<"K">>>>}, any_match : BOOLEAN,
                         do_not : BOOLEAN, multicnt : {0, 2}] : c.do_not => c.multicnt = 0 /\ ~c.any_match}
haslabel_init(c) == KidInit
\* The tuples in which a path's last label is found, and how often.
local_nested_search(s, id, path, least) ==
    Cardinality({t \in ToSet(Inner(s, <<id>>, Front(path))) : Len(tuple_find_label(s, t, Last(path))) >= least})
container_search(c, s, id) ==
    Cardinality({i \in 1..Len(c.paths) : Len(c.paths[i]) = 1 /\ c.paths[i][1] \in s.mem[id].l})
haslabel_input_set(c, s, port, id) ==
    LET need == Len(c.paths)
        found == FoldLeft(LAMBDA n, path : n + local_nested_search(s, id, path, IF c.multicnt = 0 THEN 1 ELSE c.multicnt),
                          0, c.paths)
        all == IF c.multicnt = 0 /\ found < need THEN found + container_search(c, s, id) ELSE found
        none == container_search(c, s, id) = 0 /\ found = 0
    IN  CASE port = "FLUSH" -> s
          [] port # "FLUSH" /\ c.multicnt = 0 /\ (c.do_not \/ port = "NOT") -> Pass(s, id, none)
          [] port # "FLUSH" /\ (c.multicnt # 0 \/ ~(c.do_not \/ port = "NOT")) ->
                Pass(s, id, (c.any_match /\ all > 0) \/ all >= need)

\* -------- equal: passes a tuple on (or tells with a member) unless two of the
\* values differ.  The inner loop uses the index of the loop over the labels: when n
\* values have been compared, that loop goes on, or back, to the label after the n-th.
equal_cfgs == [labels : {<<"K", "V", "W">>}]
equal_init(c) == KidInit
\* a.i: the place in the list of labels, a.cmp: how many values were compared.
NextLabel(c, s, id, a) ==
    LET ms == tuple_find_label(s, id, c.labels[a.i])
        vs == a.vs \o [j \in 1..Len(ms) |-> ms[j].v]
    IN  [vs |-> vs, i |-> IF ms = <<>> THEN a.i + 1 ELSE Len(vs) + 1]
Compared(c, s, id) ==
    FoldLeft(LAMBDA a, n : IF a.i > Len(c.labels) THEN a ELSE NextLabel(c, s, id, a), [vs |-> <<>>, i |-> 1],
             [n \in 1..Len(c.labels) * Len(c.labels) |-> n]).vs
equal_input_set(c, s, port, id) ==
    LET same == Cardinality(ToSet(Compared(c, s, id))) <= 1
        told == add_tuple_member(s, id, Member("EQUALRESULT", "uint", IF same THEN 1 ELSE 0))
    IN  CASE port = "FLUSH" -> s
          [] port = "TAGASMEMBER" -> ws_set_outdata(told, id)
          [] port = "TUPLE" -> Pass(s, id, same)

\* -------- countlabels: how many members have the labels, on a condition.
countlabels_cfgs == [paths : {<<<<"K">>, <<"V">>>>, <<<<"T", "V">>>>}, condition : {"none", "equal", "less", "greater"},
                     condition_value : {1}, num_members : BOOLEAN]
countlabels_init(c) == KidInit
countlabels_input_set(c, s, port, id) ==
    LET val == Len(tuple_nested_search_ext(s, id, c.paths))
        pass == CASE c.condition = "none" -> TRUE  [] c.condition = "equal" -> val = c.condition_value
                  [] c.condition = "less" -> val < c.condition_value
                  [] c.condition = "greater" -> val > c.condition_value
        a == add_tuple_member(s, id, Member("LABELCNT", "uint", val))
        b == IF c.num_members THEN add_tuple_member(a, id, Member("MEMBERCNT", "uint", Len(Members(a, id)))) ELSE a
    IN  IF port = "FLUSH" \/ ~pass THEN s ELSE ws_set_outdata(b, id)

\* -------- stateclimb: a value for each key that goes up and down with the labels
\* a tuple has, and the tuples which bring it over a threshold.
stateclimb_cfgs == [reset : BOOLEAN, container : BOOLEAN, threshold : {1}, max : {2}, min : {-1}]
stateclimb_init(c) == KeyedInit(<<>>)
Climb == <<[l |-> "V", by |-> 1], [l |-> "W", by |-> -1]>>
lookup_tuple_cond(c, s, id) ==
    LET key == First(s, id, "K").v
        tab == find_attach(s.tab, key, [value |-> 0]).tab
        On(l) == IF c.container THEN l \in s.mem[id].l ELSE Has(s, id, l)
        value == FoldLeft(LAMBDA n, e : IF On(e.l) THEN n + e.by ELSE n, Rec(tab, key).value, Climb)
        over == value > c.threshold
        left == IF over /\ c.reset THEN 0 ELSE value
        clamped == IF left > c.max THEN c.max ELSE IF left < c.min THEN c.min ELSE left
        a == [s EXCEPT !.tab = Put(tab, key, [value |-> clamped])]
    IN  IF ~Has(s, id, "K") THEN Hit(s, FALSE)
        ELSE Hit(IF over THEN wsdata_add_label(a, id, "STATECLIMB") ELSE a, over)
stateclimb_input_set(c, s, port, id) ==
    LET r == lookup_tuple_cond(c, s, id)
    IN  IF port = "FLUSH" THEN s ELSE Pass(r.s, id, r.found \/ port = "TAG")

\* -------- bandwidth: how many tuples came between two flushes.
bandwidth_cfgs == [subscribed : BOOLEAN]
bandwidth_init(c) == KidInit @@ [event_cnt |-> 0]
bandwidth_proc_flush(c, s) ==
    LET a == wsdata_alloc(s, <<Member("EVENT_CNT", "uint64", s.event_cnt)>>)
    IN  CASE s.event_cnt = 0 -> s
          [] s.event_cnt > 0 /\ c.subscribed  -> [ws_set_outdata(a, Newest(a)) EXCEPT !.event_cnt = 0]
          [] s.event_cnt > 0 /\ ~c.subscribed -> [s EXCEPT !.event_cnt = 0]
bandwidth_input_set(c, s, port, id) ==
    IF port = "FLUSH" THEN bandwidth_proc_flush(c, s) ELSE [s EXCEPT !.event_cnt = @ + 1]
=============================================================================
