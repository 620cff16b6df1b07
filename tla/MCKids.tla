------------------------------- MODULE MCKids -------------------------------
(* Each kid with a few kinds of tuples, chosen so that keys repeat, a table  *)
(* of Cap records expires some, and times pass a boundary.                   *)
EXTENDS Kids

K(k) == Member("K", "str", k)
W(v) == Member("W", "uint", v)
V(v) == Member("V", "uint", v)
T(t) == Member("DATETIME", "ts", t)
On(port, tuples) == {[port |-> port, m |-> ms] : ms \in tuples}

MCKidNames == {"firstn", "untiln", "keepn", "keeplast", "lastn", "appendlast", "appendfirstitem",
    "keycount", "keyaverage", "keyvariance", "keyrate", "keyflow", "keytime", "labelstat", "cntquery",
    "uniq", "uniqexpire", "bloom", "sample", "haslabel", "equal", "countlabels", "stateclimb", "bandwidth",
    "match", "match_uint", "exactmatch", "fixedmatch", "label", "addlabelmember", "labelmultiple",
    "sort", "rbsort", "top", "heavyhitters", "keyadd", "keyadd_initial", "subtuple", "mergetuple",
    "jointuple", "splittuple", "dupetuple", "mknest", "denest", "bundle", "unbundle", "removefromtuple",
    "fillmissing", "mklabelset", "data2label", "tuplehash", "flush",
    "substring", "strlen", "strings", "charcnt", "asciihex", "encodebase64", "dupestring", "tr", "sed", "base64",
    "splitstring", "combinestrings", "exec_in", "csv_in", "file_in", "source_keygen",
    "tcpthrow", "tcpcatch", "udpgen_in", "udpgen_in_buf",
    "print", "metadice", "writebuffer", "loadbalance", "keyadd_initial_custom"}
Seen == {<<K(1)>>, <<K(1), K(2)>>, <<K(2), T(3)>>, <<K(1), T(5)>>, <<>>}
Values == {<<K(1), V(1), V(2)>>, <<K(2), V(1)>>, <<K(1)>>, <<V(1)>>}
Keys2 == {<<K(1)>>, <<K(2)>>, <<K(1), V(2)>>, <<K(2), V(1)>>, <<>>}
Deep == {<<K(1)>>, <<K(1), V(2), V(3)>>, <<K(1), Bare("uint", 2), Nest("T", <<V(1), K(2)>>)>>, <<Nest("T", <<V(2)>>), Nest("T", <<V(1), V(3)>>)>>}
Alike == {<<K(1), V(1), W(1)>>, <<K(1), V(1), W(2)>>, <<K(1), K(1), V(2)>>, <<V(1), W(1)>>, <<V(1), W(2)>>, <<>>}
Str(l, v) == Member(l, "str", v)
Texts == {<<Str("S", <<1, 2>>)>>, <<Str("S", <<2>>), Str("K", <<1, 2, 1>>)>>, <<Nest("T", <<Str("S", <<1, 2, 3>>), Str("K", <<3>>)>>)>>}
Ranks == {<<V(1)>>, <<V(2)>>, <<V(3)>>, <<Member("V", "str", 0)>>}
Twice == {<<[K(1) EXCEPT !.l = @ \cup {"M"}], V(2)>>, <<[K(1) EXCEPT !.l = @ \cup {"V", "M"}], V(2)>>, <<K(1)>>, <<>>}
B(l, v) == Member(l, "bin", v)
Bytes == {<<Str("S", <<65, 66, 0, 65>>)>>, <<B("S", <<65>>), Str("S", <<>>)>>, <<Nest("T", <<Str("S", <<49, 65, 58, 58, 61, 71>>)>>)>>,
          <<Str("S", <<9, 65, 66>>), B("K", <<65, 66, 65, 66>>), V(1)>>}
Split == {<<Str("S", <<0, 5, 0, 0, 6>>), Str("K", <<7>>)>>, <<B("S", <<5, 1, 1, 1, 6, 0>>), V(0), Str("K", <<1, 1>>)>>, <<Str("S", <<>>)>>}
Frames == {<<Member("FRAME", "uint", 1), Member("LINE", "str", <<1, 0, 1>>)>>, <<Member("FRAME", "uint", 3), Member("LINE", "str", <<2, 1, 0>>), Member("LINE", "str", <<1, 1, 1>>)>>,
           <<Member("ODD", "str", 0)>>, <<>>}
Lines(ls) == [i \in 1..Cardinality(ls) |-> Bare("str", SetToSortSeq(ls, LAMBDA a, b : a[3] < b[3])[i] \o <<1>>)]
Wire(v) == <<Bare("bin", v)>>
MCInputs ==
    [firstn |-> On("TUPLE", Seen), untiln |-> On("TUPLE", Seen), keepn |-> On("TUPLE", Values),
     keeplast |-> On("TUPLE", Values) \cup On("ADD", {<<K(1), V(1), K(2)>>}) \cup On("QUERYAPPEND", {<<K(1)>>, <<K(1), K(2)>>}),
     lastn |-> On("INSERT", Values \cup {<<K(1), V(1), W(2)>>, <<K(1), V(2), W(1)>>}) \cup On("QUERY", {<<K(1)>>}) \cup On("FILTER", {<<K(1)>>, <<>>})
               \cup On("DELETE", {<<K(1)>>}) \cup On("ADDQUERY", {<<K(1), V(3), W(3)>>, <<K(2)>>, <<>>}),
     appendlast |-> On("TUPLE", Values),
     appendfirstitem |-> On("TUPLE", Values) \cup On("TAG", Values) \cup On("ADD", {<<K(1), V(3)>>}),
     keycount |-> On("TUPLE", {<<K(1)>>, <<K(2)>>, <<K(1), K(2)>>, <<>>}) \cup On("QUERYAPPEND", {<<K(1)>>}),
     keyaverage |-> On("TUPLE", {<<K(1), V(2)>>, <<K(1), V(5)>>, <<K(2), V(1)>>, <<K(1)>>}),
     keyvariance |-> On("TUPLE", {<<K(1), V(2)>>, <<K(1), V(5)>>, <<K(2), V(1)>>, <<K(1)>>}),
     keyrate |-> On("TUPLE", {<<K(1), V(2), T(1)>>, <<K(1), V(1), T(5)>>, <<K(2), V(1), V(3), T(6)>>}) \cup On("REMOVE", {<<K(1)>>}),
     keyflow |-> On("TUPLE", {<<K(1), T(1)>>, <<K(1), K(2), T(2)>>, <<K(1), T(4)>>, <<K(1)>>}),
     keytime |-> On("TUPLE", {<<K(1), T(1)>>, <<K(1), K(2), T(2)>>, <<K(1), T(5)>>, <<K(1)>>}),
     labelstat |-> On("TUPLE", {<<K(1)>>, <<K(2), V(2)>>, <<V(1), V(2)>>}),
     cntquery |-> On("INCREMENT", {<<K(1)>>, <<K(1), T(1)>>}) \cup On("DECREMENT", {<<K(1)>>})
                  \cup On("QUERY", {<<K(1)>>, <<K(1), T(6)>>}) \cup On("ADDQUERY", {<<K(2)>>, <<K(1), T(6)>>}),
     uniq |-> On("TUPLE", Keys2) \cup On("EXIT", {<<>>}) \cup UNION {On(p, {<<K(1)>>}) : p \in {"SET", "REMOVE", "QUERY", "INVQUERY", "DUPES", "TAG"}},
     uniqexpire |-> On("TUPLE", {<<K(1)>>, <<K(1), T(2)>>, <<K(1), T(6)>>, <<K(2)>>}) \cup On("REMOVE", {<<K(1)>>}),
     bloom |-> On("TUPLE", Keys2 \cup {<<K(3)>>}) \cup On("QUERY", {<<K(1)>>, <<K(3)>>}) \cup On("INVQUERY", {<<K(1)>>}),
     sample |-> On("TUPLE", {<<>>}) \cup On("EXIT", {<<>>}),
     haslabel |-> On("TUPLE", Deep) \cup On("NOT", Deep),
     equal |-> On("TUPLE", Alike) \cup On("TAGASMEMBER", Alike),
     countlabels |-> On("TUPLE", Deep),
     stateclimb |-> On("TUPLE", {<<K(1)>>, <<K(1), V(1)>>, <<K(1), W(1)>>, <<K(2), V(1)>>, <<V(1)>>}) \cup On("TAG", {<<K(1), V(1), W(1)>>}),
     bandwidth |-> On("TUPLE", {<<>>}),
     match |-> On("TUPLE", Texts) \cup On("TAG", Texts) \cup On("INVERSE", Texts),
     match_uint |-> On("TUPLE", Deep) \cup On("TAG", Deep) \cup On("INVERSE", Deep),
     exactmatch |-> On("TUPLE", Texts) \cup On("TAG", Texts) \cup On("INVERSE", Texts),
     fixedmatch |-> On("TUPLE", Texts) \cup On("TAG", Texts) \cup On("INVERSE", Texts),
     label |-> On("TUPLE", Deep), addlabelmember |-> On("TUPLE", Deep), labelmultiple |-> On("TUPLE", Deep),
     sort |-> On("TUPLE", Ranks), rbsort |-> On("TUPLE", Ranks), top |-> On("TUPLE", Ranks \cup {<<Nest("T", <<V(2)>>)>>}),
     heavyhitters |-> On("TUPLE", {<<K(1)>>, <<K(2)>>, <<K(3), V(2)>>, <<K(1), K(2)>>}),
     keyadd |-> On("TUPLE", Values) \cup On("REMOVE", {<<K(1)>>}),
     keyadd_initial |-> On("TUPLE", Values) \cup On("REMOVE", {<<K(1)>>}),
     subtuple |-> On("TUPLE", Deep), splittuple |-> On("TUPLE", Deep), dupetuple |-> On("TUPLE", Deep), mknest |-> On("TUPLE", Deep),
     denest |-> On("TUPLE", Deep), tuplehash |-> On("TUPLE", Deep), unbundle |-> On("TUPLE", {<<Nest("T", <<K(1)>>), Nest("T", <<V(2)>>)>>, <<>>}),
     mergetuple |-> On("TUPLE", Values \cup {<<K(1), W(3), Nest("T", <<>>)>>}),
     jointuple |-> On("LEFT", {<<K(1), K(2)>>, <<K(2), V(1), W(1)>>}) \cup On("RIGHT", {<<K(1), W(2)>>, <<K(2), V(2)>>, <<V(3)>>}),
     bundle |-> On("TUPLE", {<<>>}) \cup On("EXIT", {<<>>}),
     removefromtuple |-> On("TUPLE", Values), fillmissing |-> On("TUPLE", Texts \cup {<<V(1), W(1), W(1)>>, <<Member("K", "uint", 1), V(1), V(2), V(3)>>}), mklabelset |-> On("TUPLE", Twice),
     data2label |-> On("TUPLE", Texts \cup {<<Str("K", <<1>>), V(1), Member("K", "labelset", <<>>)>>}),
     substring |-> On("TUPLE", Bytes), strlen |-> On("TUPLE", Bytes), strings |-> On("TUPLE", Bytes), charcnt |-> On("TUPLE", Bytes),
     asciihex |-> On("TUPLE", Bytes), encodebase64 |-> On("TUPLE", Bytes), dupestring |-> On("TUPLE", Bytes), tr |-> On("TUPLE", Bytes),
     sed |-> On("TUPLE", Bytes), combinestrings |-> On("TUPLE", Bytes), splitstring |-> On("TUPLE", Split),
     base64 |-> On("TUPLE", {<<Str("S", wsbase64_encode(<<1, 2, 3, 4>>)), B("DECODE64", <<1>>)>>, <<Str("S", <<66, 1, 65, 67>>)>>}),
     exec_in |-> On("POLL", {<<Bare("bin", b)>> : b \in {<<65>>, <<13>>, <<10, 66>>, <<13, 10, 13, 10>>}}) \cup On("EXITED", {<<>>}),
     csv_in |-> On("SOURCE", {<<>>}), file_in |-> On("SOURCE", {<<>>}), source_keygen |-> On("SOURCE", {<<>>}),
     tcpthrow |-> On("BINARY", {Wire(<<7>>), Wire(<<8, 9>>)}) \cup On("CONNECT", {<<>>}) \cup On("LISTEN", {<<>>}) \cup On("RESET", {<<>>}) \cup On("EXIT", {<<>>}) \cup On("ROOM", {Wire(<<1>>), Wire(<<3>>)}),
     tcpcatch |-> On("ARRIVE", {Wire(SubSeq(Message(<<8, 9>>), 1, n)) : n \in {1, 4}} \cup {Wire(<<2, 8, 9>>)}) \cup On("CLOSE", {<<>>}) \cup On("SOURCE", {<<>>}),
     udpgen_in |-> On("SOURCE", Frames), udpgen_in_buf |-> On("SOURCE", Frames \cup {<<Member("SHUT", "uint", g)>> : g \in 0..2}),
     loadbalance |-> On("TUPLE", {<<K(1), V(2)>>, <<V(1), K(2)>>, <<V(2)>>, <<>>}),
     keyadd_initial_custom |-> On("TUPLE", {Lines({<<1, 1, 1>>, <<1, 1, 2>>, <<1, 1, 3>>, <<1, 1, 4>>}), Lines({<<1, 1, 5>>}), Lines({<<1, 0, 3>>, <<2, 1, 1>>}), Lines({<<1, 0, 6>>})}),
     print |-> On("TUPLE", {<<Member("FS", "uint", 1)>>, <<>>}) \cup On("EXIT", {<<>>}),
     metadice |-> On("TUPLE", {<<>>, <<Member("LABEL", "uint", 1)>>, <<Member("LABEL", "uint", 1), T(12)>>, <<T(16)>>}) \cup On("EXIT", {<<>>}),
     writebuffer |-> On("TUPLE", {<<Str("V", <<1>>), Str("K", <<1>>)>>, <<Str("V", <<1>>), B("V", <<2>>), B("K", <<1>>), B("K", <<>>), Str("K", <<2>>)>>, <<[Str("K", <<1>>) EXCEPT !.l = @ \cup {"M"}], Str("K", <<2>>)>>}),
     flush |-> On("TUPLE", {<<>>, <<T(3)>>, <<T(9)>>})]
Single == {"haslabel", "equal", "countlabels", "match", "match_uint", "exactmatch", "fixedmatch", "label",
           "addlabelmember", "labelmultiple", "subtuple", "splittuple", "dupetuple", "mknest", "denest", "tuplehash", "unbundle",
           "removefromtuple", "fillmissing", "mklabelset", "data2label", "substring", "strlen", "strings", "charcnt", "asciihex",
           "encodebase64", "dupestring", "tr", "sed", "base64", "splitstring", "combinestrings"}
MCMaxCalls == [k \in Kids |-> IF k \in Single THEN 1 ELSE IF k \in {"sort", "exec_in", "tcpthrow", "tcpcatch"} THEN 5
                            ELSE IF k \in {"print", "metadice", "keyadd_initial_custom"} THEN 4 ELSE IF k = "rbsort" THEN 6 ELSE 3]
MCLastFlush == {"rbsort"}
=============================================================================
