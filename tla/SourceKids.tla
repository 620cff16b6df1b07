------------------------------ MODULE SourceKids ------------------------------
(* Kids that bring data in: exec_in, csv_in, file_in, source_keygen.  A call *)
(* of a source has what the world outside holds for it as its tuple.         *)
EXTENDS KidBase

\* -------- exec_in: the output of a command, cut at a separator.  The bytes of a call POLL
\* have come through the pipe; at EXITED the command is gone.  A buffer is a tuple here;
\* a node of the list of active buffers has the bytes that are not yet given out, and
\* the room that is left behind them.
EXEC_BUF_MAX == 3
exec_in_cfgs == [sep : {<<10>>, <<13, 10>>}, include_sep : BOOLEAN]
exec_in_init(c) == KidInit @@ [buf |-> <<>>, pipe |-> <<>>, isdone |-> FALSE]
IsTail(s, wsd) == s.buf # <<>> /\ Last(s.buf).wsd = wsd
add_to_active(s, wsd, v, remainder) ==
    LET node == [wsd |-> wsd, v |-> v, remainder |-> remainder]
    IN  [s EXCEPT !.buf = Append(IF IsTail(s, wsd) THEN Front(@) ELSE @, node)]
\* What all buffers hold, and then v, is a record, unless it is empty; all buffers but
\* wsd are released.
aggregate_output(c, s, wsd, v) ==
    LET others == SelectSeq(s.buf, LAMBDA n : n.wsd # wsd)
        agg == FlattenSeq([i \in 1..Len(others) |-> others[i].v]) \o v
        recycle_cursor(x, n) == wsdata_delete(x, <<n.wsd, 0>>)
        a == [Each(recycle_cursor, s, others) EXCEPT !.buf = SelectSeq(@, LAMBDA n : n.wsd = wsd)]
    IN  IF agg = <<>> THEN a ELSE ws_set_outdata(wsdata_alloc(a, <<Member("EXEC", "bin", agg)>>), Newest(a) + 1)
FindSep(sep, v) ==
    LET at == {i \in 1..Len(v) : i + Len(sep) - 1 <= Len(v) /\ SubSeq(v, i, i + Len(sep) - 1) = sep}
    IN  IF at = {} THEN 0 ELSE Min(at)
\* The loop of local_detect_sep: rest is what is not yet looked at.
NextRecord(c, wsd, a) ==
    LET at == FindSep(c.sep, a.rest)
        skip == at - 1 + Len(c.sep)
    IN  [s |-> aggregate_output(c, a.s, wsd, SubSeq(a.rest, 1, IF c.include_sep THEN skip ELSE at - 1)),
         rest |-> SubSeq(a.rest, skip + 1, Len(a.rest))]
local_detect_sep(c, s, wsd, v, remainder) ==
    LET reset == IF IsTail(s, wsd) THEN add_to_active(s, wsd, v, remainder) ELSE s
        a == While(LAMBDA x : FindSep(c.sep, x.rest) # 0, LAMBDA x : NextRecord(c, wsd, x), [s |-> reset, rest |-> v], Len(v))
        freed == wsdata_delete(a.s, <<wsd, 0>>)
    IN  CASE a.rest # <<>> -> add_to_active(a.s, wsd, a.rest, remainder)
          [] a.rest = <<>> -> IF IsTail(a.s, wsd) THEN [freed EXCEPT !.buf = Front(@)] ELSE freed
\* A full buffer is followed by one that starts with the end of it, as a separator may be
\* cut in two.
\* A plausible error: a separator that is cut in two is not looked for.
rolloverNone(c, s) == 0

rollover(c, s) == IF s.buf = <<>> THEN 0 ELSE Min({Len(c.sep) - 1, Len(Last(s.buf).v)})
NewBuffer(c, s) ==
    LET kept == rollover(c, s)
        v == IF s.buf = <<>> THEN <<>> ELSE Last(s.buf).v
        a == wsdata_alloc(s, <<>>)
        b == wsdata_add_reference(a, <<Newest(a), 0>>)
    IN  [s |-> IF s.buf = <<>> THEN b ELSE [b EXCEPT !.buf[Len(s.buf)].v = SubSeq(v, 1, Len(v) - kept)],
         wsd |-> Newest(a), v |-> SubSeq(v, Len(v) - kept + 1, Len(v)), room |-> EXEC_BUF_MAX - kept]
ReadBuffer(c, s) ==
    IF s.buf # <<>> /\ Last(s.buf).remainder > 0
    THEN [s |-> s, wsd |-> Last(s.buf).wsd, v |-> Last(s.buf).v, room |-> Last(s.buf).remainder]
    ELSE NewBuffer(c, s)
data_source_exec(c, s) ==
    LET b == ReadBuffer(c, s)
        rlen == Min({b.room, Len(s.pipe)})
        a == [b.s EXCEPT !.pipe = SubSeq(@, rlen + 1, Len(@))]
    IN  local_detect_sep(c, a, b.wsd, b.v \o SubSeq(s.pipe, 1, rlen), b.room - rlen)
\* Once the command is gone a poll reports that too, and nothing more is read.
exec_in_input_set(c, s, port, id) ==
    LET a == [s EXCEPT !.pipe = @ \o (IF Members(s, id) = <<>> THEN <<>> ELSE Members(s, id)[1].v)]
    IN  CASE s.isdone \/ port = "FLUSH" -> s
          [] ~s.isdone /\ port = "POLL" -> IF a.pipe = <<>> THEN a ELSE data_source_exec(c, a)
          [] ~s.isdone /\ port = "EXITED" -> aggregate_output(c, [s EXCEPT !.isdone = TRUE], 0, <<>>)

\* -------- csv_in: lines of tokens, from the files of a list (all of them in the first call
\* for preload), from one file, or from a file that is polled.  A token has its text (v),
\* what that looks like (d) and the labels it has in brackets (l).
MAX_INLINE_LABELS == 16
Token(d, v, l) == [d |-> d, v |-> v, l |-> l]
Line1 == <<Token("str", "a", <<>>), Token("", "", <<>>), Token("uint", "1", <<"A", "B">>)>>
Line2 == <<Token("date", "d", <<"A">>), Token("time", "t", <<>>), Token("str", "b", <<"C">>)>>
Line3 == <<Token("date", "d", <<>>), Token("uint", "2", <<>>), Token("date", "d", <<>>)>>
Comment == <<Token("#", "#", <<>>)>>
CsvFile(lines) == [exists |-> TRUE, lines |-> lines]
Missing == [exists |-> FALSE, lines |-> <<>>]
csv_in_cfgs == [files : {<<CsvFile(<<Line1, Comment, Line2>>), Missing, CsvFile(<<<<>>, Line3>>)>>, <<CsvFile(<<Line3>>), CsvFile(<<>>), CsvFile(<<Line1>>)>>},
                source : {"list", "preload", "file", "poll"}, inline_labels : BOOLEAN,
                first_el_label : BOOLEAN, no_autodatatyping : BOOLEAN, lset : {<<>>, <<"A", "K">>}]
\* fp: the lines left of the open file; in: the files behind it; ended: the source has said
\* that it has no more; index: the labels that are registered; coin: the time of a poll.
local_scour_stdin(s) ==
    CASE s.done \/ s.in = <<>> -> [s EXCEPT !.open = FALSE, !.done = TRUE, !.fp = <<>>]
      [] ~s.done /\ s.in # <<>> -> [s EXCEPT !.open = TRUE, !.fp = Head(s.in).lines, !.in = Tail(@)]
csv_in_init(c) ==
    LET s == KidInit @@ [in |-> SelectSeq(c.files, LAMBDA f : f.exists), fp |-> <<>>, open |-> FALSE, done |-> FALSE,
                         ended |-> FALSE, index |-> ToSet(c.lset), coin |-> FALSE]
    IN  IF c.source = "poll" THEN s ELSE local_scour_stdin(s)
detect_strtype(c, s, id, t, labels) ==
    LET plain == t.d \in {"str", "date", "time", "#"} \/ (t.l # <<>> /\ ~c.inline_labels) \/ c.no_autodatatyping
    IN  IF t.d = "" THEN s ELSE add_tuple_member(s, id, [l |-> labels, d |-> IF plain THEN "str" ELSE t.d, v |-> t.v])
add_tup_labels(s, id, t) == wsdata_add_label([s EXCEPT !.index = @ \cup {t.v}], id, t.v)
get_inline_labels(c, t, rec) ==
    IF c.inline_labels /\ t.l # <<>> THEN ToSet(SubSeq(t.l, 1, Min({MAX_INLINE_LABELS, Len(t.l)})))
    ELSE IF rec < Len(c.lset) THEN {c.lset[rec + 1]} ELSE {}
\* The first token may be labels of the tuple; a date takes the token behind it, which is
\* its time, or a field of its own with the labels of the date.
NextToken(c, id, x) ==
    LET t == Head(x.rest)
        later == Tail(x.rest)
        labels == get_inline_labels(c, t, x.rec)
        a == IF c.inline_labels THEN [x.s EXCEPT !.index = @ \cup ToSet(t.l)] ELSE x.s
        b == detect_strtype(c, a, id, t, labels)
        istuplabel == /\ x.rec = 0 /\ ~x.tuplabels /\ t.d # ""
                      /\ IF c.inline_labels THEN t.l = <<>> ELSE c.first_el_label
        isdate == t.d = "date" /\ (c.inline_labels \/ t.l = <<>>)
        istime == later # <<>> /\ Head(later).d = "time"
    IN  CASE istuplabel -> [x EXCEPT !.s = add_tup_labels(x.s, id, t), !.tuplabels = TRUE, !.rest = later]
          [] ~istuplabel /\ isdate /\ istime ->
                [x EXCEPT !.s = add_tuple_member(a, id, [l |-> labels, d |-> "ts", v |-> t.v]), !.rec = @ + 1, !.rest = Tail(later)]
          [] ~istuplabel /\ isdate /\ ~istime /\ later # <<>> ->
                [x EXCEPT !.s = detect_strtype(c, b, id, Head(later), IF c.inline_labels THEN labels ELSE get_inline_labels(c, Head(later), x.rec + 1)),
                          !.rec = @ + 2, !.rest = Tail(later)]
          [] ~istuplabel /\ (isdate => later = <<>>) -> [x EXCEPT !.s = b, !.rec = @ + 1, !.rest = later]
read_csv_buffer(c, s, id, line) ==
    While(LAMBDA x : x.rest # <<>>, LAMBDA x : NextToken(c, id, x), [s |-> s, rec |-> 0, tuplabels |-> FALSE, rest |-> line], Len(line)).s
ReadLine(s) == [s EXCEPT !.fp = Tail(@)]
\* At the end of a file the next one is opened; if that is empty there is no more.
read_csv_file(c, s, id) ==
    LET a == IF s.fp = <<>> /\ c.source # "file" THEN local_scour_stdin(s) ELSE s
        skips == Head(a.fp) = <<>> \/ Head(a.fp)[1].d = "#"
    IN  CASE a.fp = <<>> -> [a EXCEPT !.ended = TRUE]
          [] a.fp # <<>> -> IF skips THEN ReadLine(a) ELSE read_csv_buffer(c, ReadLine(a), id, Head(a.fp))
\* A tuple made while labels were registered is too small for them: a copy of its members
\* is given out, without the labels of the tuple.
GiveLine(a, index, id) ==
    CASE a.ended \/ Members(a, id) = <<>> -> a
      [] ~a.ended /\ Members(a, id) # <<>> ->
            IF a.index = index THEN ws_set_outdata(a, id)
            ELSE ws_set_outdata(wsdata_alloc(a, Members(a, id)), Newest(a) + 1)
csv_in_data_source(c, s, id) == GiveLine(read_csv_file(c, s, id), s.index, id)
data_source_preload(c, s, id) ==
    LET Next1(x) == LET a == wsdata_alloc(x, <<>>) IN csv_in_data_source(c, a, Newest(a))
        lines == FoldLeft(LAMBDA n, f : n + Len(f.lines), 0, c.files)
    IN  [While(LAMBDA x : ~x.ended, Next1, csv_in_data_source(c, s, id), lines + 1) EXCEPT !.done = TRUE, !.ended = TRUE]
GiveTuple(s, id) == Pass(s, id, Members(s, id) # <<>>)
data_source_filepoll(c, s, id) ==
    LET a == IF ~s.open /\ s.coin THEN [s EXCEPT !.open = TRUE, !.fp = c.files[1].lines] ELSE s
    IN  CASE ~a.open -> a
          [] a.open /\ a.fp = <<>> -> [a EXCEPT !.open = FALSE]
          [] a.open /\ a.fp # <<>> ->
                IF Head(a.fp) = <<>> THEN ReadLine(a) ELSE GiveTuple(read_csv_buffer(c, ReadLine(a), id, Head(a.fp)), id)
csv_in_input_set(c, s, port, id) ==
    CASE s.ended \/ port = "FLUSH" -> s
      [] ~s.ended /\ port = "SOURCE" ->
            CASE c.source \in {"list", "file"} -> csv_in_data_source(c, s, id)
              [] c.source = "preload" -> data_source_preload(c, s, id)
              [] c.source = "poll" -> data_source_filepoll(c, s, id)

\* -------- file_in: the files of a list, each as one member of a tuple.
file_in_cfgs == [files : {<<CsvFile(<<1>>), Missing, CsvFile(<<2>>)>>}, singlefile : BOOLEAN, extra_meta : BOOLEAN]
\* filename: the file that is next, or <<>>.
file_in_init(c) == KidInit @@ [filename |-> <<Head(c.files)>>, in |-> IF c.singlefile THEN <<>> ELSE Tail(c.files), ended |-> FALSE]
add_extra_metadata(c, s, id, len) ==
    LET a == add_tuple_member(s, id, Member("FILENAME", "str", 0))
        b == IF len > 0 THEN add_tuple_member(a, id, Member("LENGTH", "uint64", len)) ELSE a
    IN  IF c.extra_meta THEN add_tuple_member(b, id, [l |-> {"DATETIME", "LAST_MODIFICATION"}, d |-> "ts", v |-> 0]) ELSE s
file_in_input_set(c, s, port, id) ==
    LET names == s.filename \o s.in
        a == [s EXCEPT !.filename = <<>>, !.in = IF s.filename # <<>> \/ @ = <<>> THEN @ ELSE Tail(@)]
        buf == add_tuple_member(a, id, Member("DATA", "bin", Head(names).lines))
        made == add_extra_metadata(c, wsdata_add_label(buf, id, "FILE"), id, Len(Head(names).lines))
    IN  CASE s.ended \/ port = "FLUSH" -> s
          [] ~s.ended /\ port = "SOURCE" /\ names = <<>> -> [s EXCEPT !.ended = TRUE]
          [] ~s.ended /\ port = "SOURCE" /\ names # <<>> -> IF Head(names).exists THEN ws_set_outdata(made, id) ELSE a

\* -------- source_keygen: random keys below a limit, to which a base that grows is added.
source_keygen_cfgs == [add : {0, 2}, mask : {3}, max : {0, 2}]
source_keygen_init(c) == KidInit @@ [base |-> 0, sent |-> 0, coin |-> FALSE]
source_keygen_input_set(c, s, port, id) ==
    LET rand == IF s.coin THEN 6 ELSE 1
        key == (rand % (c.mask + 1)) + s.base
        a == add_tuple_member(wsdata_add_label(s, id, "KEYGEN"), id, Member("KEY", "uint64", key))
    IN  IF port = "FLUSH" \/ (c.max # 0 /\ s.sent >= c.max) THEN s
        ELSE ws_set_outdata([a EXCEPT !.base = @ + c.add, !.sent = @ + 1], id)
=============================================================================
