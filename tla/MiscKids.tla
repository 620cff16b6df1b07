------------------------------- MODULE MiscKids -------------------------------
(* loadbalance and keyadd_initial_custom.                                    *)
EXTENDS KidBase

\* -------- loadbalance: a label for one of so many channels, by a hash of the members under
\* the labels lset, the same in whatever order they come, or in turn.
loadbalance_cfgs == [lset : {<<>>, <<"K", "V">>}, ordered_hash : BOOLEAN, seed : {1, 2}, channels : {2}]
loadbalance_init(c) == KidInit @@ [meta_process_cnt |-> 0]
lb_labels == <<"LB0", "LB1">>
\* Some hash of a value under a seed.
evahash(v, seed) == (v + 1) * (seed + 3)
lb_label_data(c, hash) == evahash(hash, c.seed) % c.channels
Ordered(c, i) == IF ~c.ordered_hash THEN c.seed ELSE IF c.seed = 1 THEN (i - 1) % 2 ELSE 0   \* i & seed
loadbalance_get_hashdata(c, s, id) ==
    LET Hashes(i) == LET ms == tuple_find_label(s, id, c.lset[i])
                     IN  [j \in 1..Len(ms) |-> [v |-> ms[j].v, id |-> Ordered(c, i)]]
        all == FlattenSeq([i \in 1..Len(c.lset) |-> Hashes(i)])
        Sum(n, m) == n + evahash(m.v, m.id)
    IN  CASE all = <<>> -> <<>>
          [] Len(all) = 1 -> <<all[1].v>>
          [] Len(all) > 1 -> <<FoldLeft(Sum, 0, all)>>
loadbalance_input_set(c, s, port, id) ==
    LET a == [s EXCEPT !.meta_process_cnt = @ + 1]
        hash == loadbalance_get_hashdata(c, s, id)
        channel == IF hash = <<>> THEN a.meta_process_cnt % c.channels ELSE lb_label_data(c, hash[1])
    IN  IF port = "FLUSH" THEN s ELSE ws_set_outdata(wsdata_add_label(a, id, lb_labels[channel + 1]), id)

\* -------- keyadd_initial_custom: lines of keys with a value and a bias.  The first
\* target_cnt values of a key decide whether it is anomalous, the bias whether that is
\* so.  With two levels a key comes in four parts, and its value and bias in a fifth,
\* each on a line of its own, under an outer key and numbered by pos.  A tuple stands for
\* a buffer here, a member for a line: v is <<key, value, bias or pos, bias>>.
keyadd_initial_custom_cfgs == [twolevel : BOOLEAN, target_cnt : {2}, threshold_value : {1, 2}]
Outcomes == [positive |-> 0, negative |-> 0, tp |-> 0, fp |-> 0, tn |-> 0, fn |-> 0]
keyadd_initial_custom_init(c) ==
    KeyedInit(Outcomes @@ [outer |-> <<>>, keys |-> 0, outerkeys |-> 0, datums |-> 0])
NoCount == [cnt |-> 0, value |-> 0]
NoOuter == [pos |-> 0, key |-> <<>>]
Outcome(c, s, kd, bias) ==
    LET anomaly == kd.value < c.threshold_value
        Count(x) == CASE anomaly /\ bias -> [x EXCEPT !.positive = @ + 1, !.tp = @ + 1]
                      [] anomaly /\ ~bias -> [x EXCEPT !.positive = @ + 1, !.fp = @ + 1]
                      [] ~anomaly /\ bias -> [x EXCEPT !.negative = @ + 1, !.fn = @ + 1]
                      [] ~anomaly /\ ~bias -> [x EXCEPT !.negative = @ + 1, !.tn = @ + 1]
    IN  IF kd.cnt = c.target_cnt THEN Count(s) ELSE s
AddToKey(c, s, key, value, bias) ==
    LET a == [s EXCEPT !.tab = find_attach(@, key, NoCount).tab]
        kd == [cnt |-> Rec(a.tab, key).cnt + 1, value |-> Rec(a.tab, key).value + (IF value THEN 1 ELSE 0)]
        b == [a EXCEPT !.tab = Put(@, key, kd), !.keys = IF kd.cnt = 1 THEN @ + 1 ELSE @]
    IN  IF kd.cnt = 1 THEN b ELSE Outcome(c, b, kd, bias)
proc_string(c, s, line) == AddToKey(c, [s EXCEPT !.datums = @ + 1], <<line[1]>>, line[2] = 1, line[3] = 1)
\* A part out of turn makes the outer key void until its first part comes again; a
\* part of no known number counts for what there is of the key.
parse_two_level_datum(c, s, line) ==
    LET pos == line[3]
        a == [s EXCEPT !.outer = find_attach(@, line[1], NoOuter).tab, !.datums = @ + 1]
        od == Rec(a.outer, line[1])
        valid == od.pos = pos - 1 /\ (pos = 5 => line[2] \in 0..1)
    IN  CASE pos = 1 -> [a EXCEPT !.outer = Put(@, line[1], [pos |-> 1, key |-> <<line[2]>>]), !.outerkeys = @ + 1]
          [] pos \in 2..5 /\ ~valid -> [a EXCEPT !.outer = Put(@, line[1], [od EXCEPT !.pos = 0])]
          [] pos \in 2..4 /\ valid -> [a EXCEPT !.outer = Put(@, line[1], [pos |-> pos, key |-> Append(od.key, line[2])])]
          [] pos \notin 1..5 \/ (pos = 5 /\ valid) ->
                [AddToKey(c, a, od.key, line[4] = 1, line[2] = 1) EXCEPT !.outer = Drop(@, line[1])]
keyadd_initial_custom_input_set(c, s, port, id) ==
    LET Datum(x, m) == IF c.twolevel THEN parse_two_level_datum(c, x, m.v) ELSE proc_string(c, x, m.v)
    IN  IF port = "FLUSH" THEN s ELSE Each(Datum, s, Members(s, id))
=============================================================================
