----------------------------- MODULE StringKids -----------------------------
(* Kids that work on the bytes of strings: splitstring, combinestrings,      *)
(* base64; and those of the framework lib/wsprocbuffer.c: substring, strlen, *)
(* strings, charcnt, asciihex, encodebase64, dupestring, tr, sed.            *)
EXTENDS KidBase

\* A buffer is a sequence of bytes; the type of a member says whether it has one.
Buffered(m) == m.d \in {"str", "bin"}
MatchesAt(x, buf, i) == i + Len(x) - 1 <= Len(buf) /\ SubSeq(buf, i, i + Len(x) - 1) = x
\* Where x is found, each time behind the last one.
Occurrences(x, buf) ==
    FoldLeft(LAMBDA found, i : IF MatchesAt(x, buf, i) /\ (found = <<>> \/ i >= Last(found) + Len(x))
                               THEN Append(found, i) ELSE found,
             <<>>, [i \in 1..Len(buf) |-> i])

\* -------- wsprocbuffer: decodes each string that is found; a tuple is given out if one
\* of them says so, or (pass_not_found) if there is none.
wsprocbuffer_input_set(procbuffer_decode(_, _, _), pass_not_found, paths, s, port, id) ==
    LET Decode(x, e) == IF Buffered(At(x, e)) THEN procbuffer_decode(x, e.t, At(x, e)) ELSE Hit(x, FALSE)
        a == NestedSearch(Decode, s, id, paths)
        found == \E e \in ToSet(tuple_nested_search_ext(s, id, paths)) : Buffered(At(s, e))
    IN  CASE port = "FLUSH" -> s
          [] port # "FLUSH" -> Pass(a.s, id, a.found \/ (paths # <<>> /\ ~found /\ pass_not_found))
BufferPaths == {<<>>, <<<<"S">>, <<"T", "S">>>>}
Decoded(s, t, label, d, buf) == Hit(add_tuple_member(s, t, Member(label, d, buf)), TRUE)
SameType(m) == IF m.d = "str" THEN "str" ELSE "bin"

\* -------- substring: len bytes from an offset, counted from the end if at_end.
substring_cfgs == [paths : BufferPaths, at_end : BOOLEAN, offset : {0, 1}, len : {2}]
substring_init(c) == KidInit
substring_procbuffer_decode(c, s, t, m) ==
    LET trimlen == Min({c.len, Len(m.v) - c.offset})
        start == IF c.at_end THEN Len(m.v) - trimlen - c.offset ELSE c.offset
    IN  IF c.offset >= Len(m.v) THEN Hit(s, TRUE)
        ELSE Decoded(s, t, "SUBSTRING", IF m.d = "bin" THEN "bin" ELSE "str", SubSeq(m.v, start + 1, start + trimlen))
substring_input_set(c, s, port, id) ==
    wsprocbuffer_input_set(LAMBDA x, t, m : substring_procbuffer_decode(c, x, t, m), TRUE, c.paths, s, port, id)

\* -------- strlen: the length, if it meets a condition.
strlen_cfgs == [paths : BufferPaths, condition : {"none", "LT", "GT", "EQ"}, value : {2}]
strlen_init(c) == KidInit
strlen_procbuffer_decode(c, s, t, m) ==
    LET n == Len(m.v)
        met == CASE c.condition = "LT" -> n < c.value [] c.condition = "GT" -> n > c.value
                 [] c.condition = "EQ" -> n = c.value [] c.condition = "none" -> TRUE
    IN  IF met THEN Decoded(s, t, "STRLEN", "uint", n) ELSE Hit(s, FALSE)
strlen_input_set(c, s, port, id) ==
    wsprocbuffer_input_set(LAMBDA x, t, m : strlen_procbuffer_decode(c, x, t, m), TRUE, c.paths, s, port, id)

\* -------- strings: the runs of printable bytes that are long enough, with a separator,
\* as far as they fit in the length of the input.
strings_cfgs == [paths : BufferPaths, minrun : {1, 2}, sep : {<<10>>}]
strings_init(c) == KidInit
Printable == 32..126
RunsOf(buf) ==
    LET Starts(i) == buf[i] \in Printable /\ (i = 1 \/ buf[i - 1] \notin Printable)
        EndOf(i) == Min({j \in i..Len(buf) : j = Len(buf) \/ buf[j + 1] \notin Printable})
        starts == SelectSeq([i \in 1..Len(buf) |-> i], Starts)
    IN  [i \in 1..Len(starts) |-> SubSeq(buf, starts[i], EndOf(starts[i]))]
strings_procbuffer_decode(c, s, t, m) ==
    LET Join(out, run) ==
            LET sep == IF out = <<>> THEN <<>> ELSE c.sep
            IN  IF Len(run) >= c.minrun /\ Len(m.v) >= Len(out) + Len(sep) + Len(run) THEN out \o sep \o run ELSE out
    IN  Decoded(s, t, "STRINGS", "str", FoldLeft(Join, <<>>, RunsOf(m.v)))
strings_input_set(c, s, port, id) ==
    wsprocbuffer_input_set(LAMBDA x, t, m : strings_procbuffer_decode(c, x, t, m), TRUE, c.paths, s, port, id)

\* -------- charcnt: how many bytes are of a set.
charcnt_cfgs == [paths : BufferPaths, cset : {{61}, {61, 65}}, extra : {{}, {"L"}}]
charcnt_init(c) == KidInit
charcnt_procbuffer_decode(c, s, t, m) ==
    LET cnt == Len(SelectSeq(m.v, LAMBDA b : b \in c.cset))
    IN  Hit(add_tuple_member(s, t, [l |-> {"CHARCNT"} \cup c.extra, d |-> "uint", v |-> cnt]), TRUE)
charcnt_input_set(c, s, port, id) ==
    wsprocbuffer_input_set(LAMBDA x, t, m : charcnt_procbuffer_decode(c, x, t, m), TRUE, c.paths, s, port, id)

\* -------- asciihex: two hex digits make a byte; other bytes are dropped, or passed if
\* pass_all, and a string to ignore is skipped.
asciihex_cfgs == [paths : BufferPaths, ignore : {<<>>, <<58, 58>>}, pass_all : BOOLEAN]
asciihex_init(c) == KidInit
isxdigit(b) == b \in 48..57 \cup 65..70 \cup 97..102
get_xdigit(b) == CASE b \in 48..57 -> b - 48 [] b \in 65..70 -> b - 55 [] b \in 97..102 -> b - 87
asciihex_procbuffer_decode(c, s, t, m) ==
    LET buf == m.v
        pair(i) == i < Len(buf) /\ isxdigit(buf[i]) /\ isxdigit(buf[i + 1])
        ignored(i) == c.ignore # <<>> /\ MatchesAt(c.ignore, buf, i)
        Byte(x, i) ==
            CASE i <= x.done -> x
              [] i > x.done /\ ignored(i) -> [x EXCEPT !.done = i + Len(c.ignore) - 1]
              [] i > x.done /\ ~ignored(i) /\ pair(i) ->
                    [done |-> i + 1, out |-> Append(x.out, 16 * get_xdigit(buf[i]) + get_xdigit(buf[i + 1]))]
              [] i > x.done /\ ~ignored(i) /\ ~pair(i) -> IF c.pass_all THEN [x EXCEPT !.out = Append(@, buf[i])] ELSE x
    IN  Decoded(s, t, "HEXDECODE", "bin", FoldLeft(Byte, [done |-> 0, out |-> <<>>], [i \in 1..Len(buf) |-> i]).out)
asciihex_input_set(c, s, port, id) ==
    wsprocbuffer_input_set(LAMBDA x, t, m : asciihex_procbuffer_decode(c, x, t, m), TRUE, c.paths, s, port, id)

\* -------- dupestring: a copy of a string.
dupestring_cfgs == [paths : BufferPaths]
dupestring_init(c) == KidInit
dupestring_input_set(c, s, port, id) ==
    wsprocbuffer_input_set(LAMBDA x, t, m : Decoded(x, t, "DUPE", SameType(m), m.v), TRUE, c.paths, s, port, id)

\* -------- tr: each byte by another, or removed; one that becomes a zero is removed too.
tr_cfgs == [paths : BufferPaths, lower : {FALSE}, from : {<<65>>, <<65, 66>>}, to : {<<>>, <<67>>}]
           \cup [paths : BufferPaths, lower : {TRUE}, from : {<<>>}, to : {<<>>}]
tr_init(c) == KidInit
tolower(b) == IF b \in 65..90 THEN b + 32 ELSE b
Translate(c, b) ==
    CASE c.lower -> tolower(b)
      [] ~c.lower /\ ~Contains(c.from, b) -> b
      [] ~c.lower /\ Contains(c.from, b) ->
            IF c.to = <<>> THEN 0 ELSE IF Len(c.to) = 1 THEN c.to[1] ELSE c.to[Max({i \in 1..Len(c.from) : c.from[i] = b})]
tr_procbuffer_decode(c, s, t, m) ==
    LET out == [i \in 1..Len(m.v) |-> Translate(c, m.v[i])]
        removes == ~c.lower /\ c.to = <<>>
    IN  Decoded(s, t, "TRBUFFER", SameType(m), IF removes THEN SelectSeq(out, LAMBDA b : b # 0) ELSE out)
tr_input_set(c, s, port, id) ==
    wsprocbuffer_input_set(LAMBDA x, t, m : tr_procbuffer_decode(c, x, t, m), TRUE, c.paths, s, port, id)

\* -------- sed: s/original/replace/ or y/original/replace/.  The length of the result is
\* that of all matches replaced, global or not; and after a match the count reads on past
\* the end of the buffer, where one more may be found (coin), as what is past the bytes
\* of the result may be anything.
sed_cfgs == [paths : BufferPaths, sedop : {"s"}, original : {<<65>>, <<65, 66>>}, replace : {<<>>, <<67, 67>>}, global : BOOLEAN]
            \cup [paths : BufferPaths, sedop : {"y"}, original : {<<65, 66>>}, replace : {<<66, 65>>}, global : {FALSE}]
sed_init(c) == KidInit @@ [coin |-> FALSE]
Replaced(c, buf, at) ==
    FlattenSeq([i \in 1..Len(buf) |->
        CASE Contains(at, i) -> c.replace
          [] \E k \in 1..Len(at) : i \in at[k] + 1..at[k] + Len(c.original) - 1 -> <<>>
          [] OTHER -> <<buf[i]>>])
substituted(c, buf, coin) ==
    LET at == Occurrences(c.original, buf)
        count == Len(at) + (IF at # <<>> /\ coin THEN 1 ELSE 0)
        resultlen == Len(buf) + (Len(c.replace) - Len(c.original)) * count
        result == Replaced(c, buf, IF c.global THEN at ELSE SubSeq(at, 1, Min({1, Len(at)})))
    IN  [i \in 1..Max({0, resultlen}) |-> IF i <= Len(result) THEN result[i] ELSE IF coin THEN 1 ELSE 0]
xlate(c, b) == IF Contains(c.original, b) THEN c.replace[Max({i \in 1..Len(c.original) : c.original[i] = b})] ELSE b
sed_procbuffer_decode(c, s, t, m) ==
    Decoded(s, t, "SED", SameType(m), IF c.sedop = "s" THEN substituted(c, m.v, s.coin)
                                      ELSE [i \in 1..Len(m.v) |-> xlate(c, m.v[i])])
sed_input_set(c, s, port, id) ==
    wsprocbuffer_input_set(LAMBDA x, t, m : sed_procbuffer_decode(c, x, t, m), TRUE, c.paths, s, port, id)

\* -------- encodebase64 and base64: three bytes are four characters of the alphabet, which
\* are their numbers here; then come the padding, '-' and '_' (of rfc4648), and noise.
Padding == 64
Alternative == [x \in {66, 67} |-> x - 4]
encodebase64_cfgs == [paths : BufferPaths]
encodebase64_init(c) == KidInit
wsbase64_encodeblock(b, len) ==
    <<b[1] \div 4, (b[1] % 4) * 16 + b[2] \div 16,
      IF len > 1 THEN (b[2] % 16) * 4 + b[3] \div 64 ELSE Padding, IF len > 2 THEN b[3] % 64 ELSE Padding>>
wsbase64_encode(buf) ==
    LET left == Len(buf) % 3
        whole == FlattenSeq([i \in 1..Len(buf) \div 3 |-> wsbase64_encodeblock(SubSeq(buf, 3 * i - 2, 3 * i), 3)])
        rest == SubSeq(buf, Len(buf) - left + 1, Len(buf)) \o [i \in 1..3 - left |-> 0]
    IN  whole \o (IF left = 0 THEN <<>> ELSE wsbase64_encodeblock(rest, left))
encodebase64_input_set(c, s, port, id) ==
    wsprocbuffer_input_set(LAMBDA x, t, m : Decoded(x, t, "BASE64", "str", wsbase64_encode(m.v)), FALSE, c.paths, s, port, id)

base64_cfgs == [labels : {<<>>, <<"S">>}, rfc4648 : BOOLEAN]
base64_init(c) == KidInit
wsbase64_decode_block(in) ==
    <<(in[1] * 4 + in[2] \div 16) % 256, (in[2] * 16 + in[3] \div 4) % 256, (in[3] % 4) * 64 + in[4]>>
\* Of the last block what is missing is zero, and all three bytes are given.
wsbase64_decode_buffer(rfc4648, buf) ==
    LET same == [i \in 1..Len(buf) |-> IF rfc4648 /\ buf[i] \in DOMAIN Alternative THEN Alternative[buf[i]] ELSE buf[i]]
        in == SelectSeq(same, LAMBDA x : x < 64)
        blocks == (Len(in) + 3) \div 4
        padded == in \o [i \in 1..4 * blocks - Len(in) |-> 0]
        fit == {n \in 0..blocks : 3 * n <= Len(buf)}
    IN  FlattenSeq([i \in 1..Max(fit) |-> wsbase64_decode_block(SubSeq(padded, 4 * i - 3, 4 * i))])
base64_input_set(c, s, port, id) ==
    LET labelled == SelectSeq(Members(s, id), LAMBDA m : m.l # {} /\ m.l # {"DECODE64"})
        found == IF c.labels = <<>> THEN labelled ELSE tuple_search_labelset(s, id, c.labels)
        decode_str(x, m) == add_tuple_member(x, id, Member("DECODE64", "bin", wsbase64_decode_buffer(c.rfc4648, m.v)))
    IN  IF port = "FLUSH" THEN s ELSE ws_set_outdata(Each(decode_str, s, SelectSeq(found, Buffered)), id)

\* -------- splitstring: the pieces of a string between delimiters, with a label by their
\* number; as members, or each in a tuple of its own with the carried members.
splitstring_cfgs == [labels : {<<>>, <<"S">>}, delim : {<<0>>, <<1, 1>>}, onlylast : BOOLEAN, split : BOOLEAN,
                     skip : {0, 1}, occurances : {0, 2}, carry : {<<"K">>}, names : {<<"A", "B">>}]
splitstring_init(c) == KidInit
\* Where a delimiter ends: after a match the search goes on with what it has matched,
\* so that delimiters overlap.
ac_singlesearch(delim, buf) ==
    SelectSeq([i \in 1..Len(buf) |-> i], LAMBDA i : i >= Len(delim) /\ MatchesAt(delim, buf, i - Len(delim) + 1))
get_substring_label(c, cnt) == c.names[Min({cnt, Len(c.names)})]
\* A piece: its number and its bytes; those of a length below one are counted only.
AddPiece(x, buf, from, len) == [x EXCEPT !.cnt = @ + 1, !.pieces =
    IF len <= 0 THEN @ ELSE Append(@, [cnt |-> x.cnt + 1, v |-> SubSeq(buf, from + 1, from + len)])]
SplitAt(c, x, buf, end) ==
    LET mval == Len(c.delim)
        plen == Len(buf) - x.at
        piece == IF end - mval # x.at THEN AddPiece(x, buf, x.at, end - mval - x.at) ELSE x
        enough == c.occurances # 0 /\ piece.cnt >= c.occurances
    IN  CASE x.done -> x
          [] ~x.done /\ end = Len(buf) ->
                [(IF plen - mval # 0 THEN AddPiece(x, buf, x.at, plen - mval) ELSE x) EXCEPT !.done = TRUE]
          [] ~x.done /\ end < Len(buf) /\ c.onlylast -> [x EXCEPT !.at = end]
          [] ~x.done /\ end < Len(buf) /\ ~c.onlylast ->
                [(IF enough /\ c.split THEN AddPiece(piece, buf, end, Len(buf) - end) ELSE piece) EXCEPT !.at = end, !.done = enough]
add_substring(c, buf) ==
    LET start == [at |-> 0, cnt |-> 0, pieces |-> <<>>, done |-> FALSE]
        a == FoldLeft(LAMBDA x, end : SplitAt(c, x, buf, end), start, ac_singlesearch(c.delim, buf))
        all == IF a.done THEN a ELSE AddPiece(a, buf, a.at, Len(buf) - a.at)
    IN  SelectSeq(all.pieces, LAMBDA p : p.cnt > c.skip)
splitstring_input_set(c, s, port, id) ==
    LET found == IF c.labels = <<>> THEN Members(s, id) ELSE tuple_search_labelset(s, id, c.labels)
        carry == tuple_search_labelset(s, id, c.carry)
        Part(m, p) == Member(get_substring_label(c, p.cnt), SameType(m), p.v)
        Add(m, x, p) == IF c.split THEN ws_set_outdata(wsdata_alloc(x, Append(carry, Part(m, p))), Newest(x) + 1)
                        ELSE add_tuple_member(x, id, Part(m, p))
        Split(x, m) == Each(LAMBDA y, p : Add(m, y, p), x, add_substring(c, m.v))
    IN  IF port = "FLUSH" THEN s ELSE Pass(Each(Split, s, SelectSeq(found, Buffered)), id, ~c.split)

\* -------- combinestrings: the strings found, with a delimiter before each member found
\* but the first ones that are empty; cut at the length counted for the strings alone.
combinestrings_cfgs == [labels : {<<"S", "K">>}, delim : {<<>>, <<44>>}]
combinestrings_init(c) == KidInit
combinestrings_input_set(c, s, port, id) ==
    LET found == tuple_search_labelset(s, id, c.labels)
        filled == SelectSeq(found, LAMBDA m : Buffered(m) /\ m.v # <<>>)
        Length(n, m) == n + Len(m.v) + (IF n > 0 THEN Len(c.delim) ELSE 0)
        olen == FoldLeft(Length, 0, filled)
        Combine(buf, m) == (IF buf = <<>> THEN <<>> ELSE buf \o c.delim) \o (IF Buffered(m) THEN m.v ELSE <<>>)
        d == IF \E i \in 1..Len(filled) : filled[i].d # "str" THEN "bin" ELSE "str"
        a == add_tuple_member(s, id, Member("COMBINE", d, SubSeq(FoldLeft(Combine, <<>>, found), 1, olen)))
    IN  IF port = "FLUSH" THEN s ELSE ws_set_outdata(IF olen > 0 THEN a ELSE s, id)
=============================================================================
