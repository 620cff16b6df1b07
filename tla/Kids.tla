-------------------------------- MODULE Kids --------------------------------
(* One kid of the graph under every sequence of calls of its ports, and what *)
(* it must keep to whatever those are.                                       *)
EXTENDS KeyedKids, WindowKids, FilterKids, MatchKids, SortKids, TupleKids, StringKids, MiscKids, SourceKids, SocketKids, FileKids

CONSTANTS Kids,       \* the kids, by name
          Inputs,     \* for each kid: the calls, a port and the members given
          MaxCalls,   \* for each kid: how many calls
          LastFlush   \* kids that are flushed at exit only

Cfgs == [keycount |-> keycount_cfgs, keyaverage |-> keyaverage_cfgs, keyvariance |-> keyvariance_cfgs,
         keyrate |-> keyrate_cfgs, keyadd |-> keyadd_cfgs, keyadd_initial |-> keyadd_initial_cfgs,
         keyflow |-> keyflow_cfgs, keytime |-> keytime_cfgs, labelstat |-> labelstat_cfgs,
         cntquery |-> cntquery_cfgs, firstn |-> firstn_cfgs, untiln |-> untiln_cfgs,
         keepn |-> keepn_cfgs, keeplast |-> keeplast_cfgs, lastn |-> lastn_cfgs,
         appendlast |-> appendlast_cfgs, appendfirstitem |-> appendfirstitem_cfgs, uniq |-> uniq_cfgs,
         uniqexpire |-> uniqexpire_cfgs, bloom |-> bloom_cfgs, sample |-> sample_cfgs,
         haslabel |-> haslabel_cfgs, equal |-> equal_cfgs, countlabels |-> countlabels_cfgs,
         stateclimb |-> stateclimb_cfgs, bandwidth |-> bandwidth_cfgs, match |-> match_cfgs,
         match_uint |-> match_uint_cfgs, exactmatch |-> exactmatch_cfgs, fixedmatch |-> fixedmatch_cfgs,
         label |-> label_cfgs, addlabelmember |-> addlabelmember_cfgs, labelmultiple |-> labelmultiple_cfgs,
         sort |-> sort_cfgs, rbsort |-> rbsort_cfgs, top |-> top_cfgs,
         heavyhitters |-> heavyhitters_cfgs, subtuple |-> subtuple_cfgs, mergetuple |-> mergetuple_cfgs,
         jointuple |-> jointuple_cfgs, splittuple |-> splittuple_cfgs, dupetuple |-> dupetuple_cfgs,
         mknest |-> mknest_cfgs, denest |-> denest_cfgs, bundle |-> bundle_cfgs,
         unbundle |-> unbundle_cfgs, removefromtuple |-> removefromtuple_cfgs, fillmissing |-> fillmissing_cfgs,
         mklabelset |-> mklabelset_cfgs, data2label |-> data2label_cfgs, tuplehash |-> tuplehash_cfgs,
         flush |-> flush_cfgs, substring |-> substring_cfgs, strlen |-> strlen_cfgs,
         strings |-> strings_cfgs, charcnt |-> charcnt_cfgs, asciihex |-> asciihex_cfgs,
         dupestring |-> dupestring_cfgs, tr |-> tr_cfgs, sed |-> sed_cfgs,
         encodebase64 |-> encodebase64_cfgs, base64 |-> base64_cfgs, splitstring |-> splitstring_cfgs,
         combinestrings |-> combinestrings_cfgs, loadbalance |-> loadbalance_cfgs, keyadd_initial_custom |-> keyadd_initial_custom_cfgs,
         exec_in |-> exec_in_cfgs, csv_in |-> csv_in_cfgs, file_in |-> file_in_cfgs,
         source_keygen |-> source_keygen_cfgs, tcpthrow |-> tcpthrow_cfgs, tcpcatch |-> tcpcatch_cfgs,
         udpgen_in |-> udpgen_in_cfgs, udpgen_in_buf |-> udpgen_in_buf_cfgs, print |-> print_cfgs,
         metadice |-> metadice_cfgs, writebuffer |-> writebuffer_cfgs]

VARIABLES kid, cfg,   \* the kid and the options it was started with
          s,          \* its state, and that of all tuples
          hist,       \* the calls so far
          sent        \* what each call gave out: tuples as they were then
vars == <<kid, cfg, s, hist, sent>>

StateOf(c) ==
    CASE kid = "keycount" -> keycount_init(c)  [] kid = "keyaverage" -> keyaverage_init(c)
      [] kid = "keyvariance" -> keyvariance_init(c)  [] kid = "keyrate" -> keyrate_init(c)
      [] kid = "keyadd" -> keyadd_init(c)  [] kid = "keyadd_initial" -> keyadd_initial_init(c)
      [] kid = "keyflow" -> keyflow_init(c)  [] kid = "keytime" -> keytime_init(c)
      [] kid = "labelstat" -> labelstat_init(c)  [] kid = "cntquery" -> cntquery_init(c)
      [] kid = "firstn" -> firstn_init(c)  [] kid = "untiln" -> untiln_init(c)
      [] kid = "keepn" -> keepn_init(c)  [] kid = "keeplast" -> keeplast_init(c)
      [] kid = "lastn" -> lastn_init(c)  [] kid = "appendlast" -> appendlast_init(c)
      [] kid = "appendfirstitem" -> appendfirstitem_init(c)  [] kid = "uniq" -> uniq_init(c)
      [] kid = "uniqexpire" -> uniqexpire_init(c)  [] kid = "bloom" -> bloom_init(c)
      [] kid = "sample" -> sample_init(c)  [] kid = "haslabel" -> haslabel_init(c)
      [] kid = "equal" -> equal_init(c)  [] kid = "countlabels" -> countlabels_init(c)
      [] kid = "stateclimb" -> stateclimb_init(c)  [] kid = "bandwidth" -> bandwidth_init(c)
      [] kid = "match" -> match_init(c)  [] kid = "match_uint" -> match_uint_init(c)
      [] kid = "exactmatch" -> exactmatch_init(c)  [] kid = "fixedmatch" -> fixedmatch_init(c)
      [] kid = "label" -> label_init(c)  [] kid = "addlabelmember" -> addlabelmember_init(c)
      [] kid = "labelmultiple" -> labelmultiple_init(c)  [] kid = "sort" -> sort_init(c)
      [] kid = "rbsort" -> rbsort_init(c)  [] kid = "top" -> top_init(c)
      [] kid = "heavyhitters" -> heavyhitters_init(c)  [] kid = "subtuple" -> subtuple_init(c)
      [] kid = "mergetuple" -> mergetuple_init(c)  [] kid = "jointuple" -> jointuple_init(c)
      [] kid = "splittuple" -> splittuple_init(c)  [] kid = "dupetuple" -> dupetuple_init(c)
      [] kid = "mknest" -> mknest_init(c)  [] kid = "denest" -> denest_init(c)
      [] kid = "bundle" -> bundle_init(c)  [] kid = "unbundle" -> unbundle_init(c)
      [] kid = "removefromtuple" -> removefromtuple_init(c)  [] kid = "fillmissing" -> fillmissing_init(c)
      [] kid = "mklabelset" -> mklabelset_init(c)  [] kid = "data2label" -> data2label_init(c)
      [] kid = "tuplehash" -> tuplehash_init(c)  [] kid = "flush" -> flush_init(c)
      [] kid = "substring" -> substring_init(c)  [] kid = "strlen" -> strlen_init(c)
      [] kid = "strings" -> strings_init(c)  [] kid = "charcnt" -> charcnt_init(c)
      [] kid = "asciihex" -> asciihex_init(c)  [] kid = "dupestring" -> dupestring_init(c)
      [] kid = "tr" -> tr_init(c)  [] kid = "sed" -> sed_init(c)
      [] kid = "encodebase64" -> encodebase64_init(c)  [] kid = "base64" -> base64_init(c)
      [] kid = "splitstring" -> splitstring_init(c)  [] kid = "combinestrings" -> combinestrings_init(c)
      [] kid = "loadbalance" -> loadbalance_init(c)  [] kid = "keyadd_initial_custom" -> keyadd_initial_custom_init(c)
      [] kid = "exec_in" -> exec_in_init(c)  [] kid = "csv_in" -> csv_in_init(c)
      [] kid = "file_in" -> file_in_init(c)  [] kid = "source_keygen" -> source_keygen_init(c)
      [] kid = "tcpthrow" -> tcpthrow_init(c)  [] kid = "tcpcatch" -> tcpcatch_init(c)
      [] kid = "udpgen_in" -> udpgen_in_init(c)  [] kid = "udpgen_in_buf" -> udpgen_in_buf_init(c)
      [] kid = "print" -> print_init(c)  [] kid = "metadice" -> metadice_init(c)
      [] kid = "writebuffer" -> writebuffer_init(c)

input_set(c, x, port, id) ==
    CASE kid = "keycount" -> keycount_input_set(c, x, port, id)
      [] kid = "keyaverage" -> keyaverage_input_set(c, x, port, id)
      [] kid = "keyvariance" -> keyvariance_input_set(c, x, port, id)
      [] kid = "keyrate" -> keyrate_input_set(c, x, port, id)
      [] kid = "keyadd" -> keyadd_input_set(c, x, port, id)
      [] kid = "keyadd_initial" -> keyadd_initial_input_set(c, x, port, id)
      [] kid = "keyflow" -> keyflow_input_set(c, x, port, id)
      [] kid = "keytime" -> keytime_input_set(c, x, port, id)
      [] kid = "labelstat" -> labelstat_input_set(c, x, port, id)
      [] kid = "cntquery" -> cntquery_input_set(c, x, port, id)
      [] kid = "firstn" -> firstn_input_set(c, x, port, id)
      [] kid = "untiln" -> untiln_input_set(c, x, port, id)
      [] kid = "keepn" -> keepn_input_set(c, x, port, id)
      [] kid = "keeplast" -> keeplast_input_set(c, x, port, id)
      [] kid = "lastn" -> lastn_input_set(c, x, port, id)
      [] kid = "appendlast" -> appendlast_input_set(c, x, port, id)
      [] kid = "appendfirstitem" -> appendfirstitem_input_set(c, x, port, id)
      [] kid = "uniq" -> uniq_input_set(c, x, port, id)
      [] kid = "uniqexpire" -> uniqexpire_input_set(c, x, port, id)
      [] kid = "bloom" -> bloom_input_set(c, x, port, id)
      [] kid = "sample" -> sample_input_set(c, x, port, id)
      [] kid = "haslabel" -> haslabel_input_set(c, x, port, id)
      [] kid = "equal" -> equal_input_set(c, x, port, id)
      [] kid = "countlabels" -> countlabels_input_set(c, x, port, id)
      [] kid = "stateclimb" -> stateclimb_input_set(c, x, port, id)
      [] kid = "bandwidth" -> bandwidth_input_set(c, x, port, id)
      [] kid = "match" -> match_input_set(c, x, port, id)
      [] kid = "match_uint" -> match_uint_input_set(c, x, port, id)
      [] kid = "exactmatch" -> exactmatch_input_set(c, x, port, id)
      [] kid = "fixedmatch" -> fixedmatch_input_set(c, x, port, id)
      [] kid = "label" -> label_input_set(c, x, port, id)
      [] kid = "addlabelmember" -> addlabelmember_input_set(c, x, port, id)
      [] kid = "labelmultiple" -> labelmultiple_input_set(c, x, port, id)
      [] kid = "sort" -> sort_input_set(c, x, port, id)
      [] kid = "rbsort" -> rbsort_input_set(c, x, port, id)
      [] kid = "top" -> top_input_set(c, x, port, id)
      [] kid = "heavyhitters" -> heavyhitters_input_set(c, x, port, id)
      [] kid = "subtuple" -> subtuple_input_set(c, x, port, id)
      [] kid = "mergetuple" -> mergetuple_input_set(c, x, port, id)
      [] kid = "jointuple" -> jointuple_input_set(c, x, port, id)
      [] kid = "splittuple" -> splittuple_input_set(c, x, port, id)
      [] kid = "dupetuple" -> dupetuple_input_set(c, x, port, id)
      [] kid = "mknest" -> mknest_input_set(c, x, port, id)
      [] kid = "denest" -> denest_input_set(c, x, port, id)
      [] kid = "bundle" -> bundle_input_set(c, x, port, id)
      [] kid = "unbundle" -> unbundle_input_set(c, x, port, id)
      [] kid = "removefromtuple" -> removefromtuple_input_set(c, x, port, id)
      [] kid = "fillmissing" -> fillmissing_input_set(c, x, port, id)
      [] kid = "mklabelset" -> mklabelset_input_set(c, x, port, id)
      [] kid = "data2label" -> data2label_input_set(c, x, port, id)
      [] kid = "tuplehash" -> tuplehash_input_set(c, x, port, id)
      [] kid = "flush" -> flush_input_set(c, x, port, id)
      [] kid = "substring" -> substring_input_set(c, x, port, id)
      [] kid = "strlen" -> strlen_input_set(c, x, port, id)
      [] kid = "strings" -> strings_input_set(c, x, port, id)
      [] kid = "charcnt" -> charcnt_input_set(c, x, port, id)
      [] kid = "asciihex" -> asciihex_input_set(c, x, port, id)
      [] kid = "dupestring" -> dupestring_input_set(c, x, port, id)
      [] kid = "tr" -> tr_input_set(c, x, port, id)
      [] kid = "sed" -> sed_input_set(c, x, port, id)
      [] kid = "encodebase64" -> encodebase64_input_set(c, x, port, id)
      [] kid = "base64" -> base64_input_set(c, x, port, id)
      [] kid = "splitstring" -> splitstring_input_set(c, x, port, id)
      [] kid = "combinestrings" -> combinestrings_input_set(c, x, port, id)
      [] kid = "loadbalance" -> loadbalance_input_set(c, x, port, id)
      [] kid = "keyadd_initial_custom" -> keyadd_initial_custom_input_set(c, x, port, id)
      [] kid = "exec_in" -> exec_in_input_set(c, x, port, id)
      [] kid = "csv_in" -> csv_in_input_set(c, x, port, id)
      [] kid = "file_in" -> file_in_input_set(c, x, port, id)
      [] kid = "source_keygen" -> source_keygen_input_set(c, x, port, id)
      [] kid = "tcpthrow" -> tcpthrow_input_set(c, x, port, id)
      [] kid = "tcpcatch" -> tcpcatch_input_set(c, x, port, id)
      [] kid = "udpgen_in" -> udpgen_in_input_set(c, x, port, id)
      [] kid = "udpgen_in_buf" -> udpgen_in_buf_input_set(c, x, port, id)
      [] kid = "print" -> print_input_set(c, x, port, id)
      [] kid = "metadice" -> metadice_input_set(c, x, port, id)
      [] kid = "writebuffer" -> writebuffer_input_set(c, x, port, id)

Init == /\ kid \in Kids /\ cfg \in Cfgs[kid]
        /\ s = StateOf(cfg) /\ hist = <<>> /\ sent = <<>>

\* A call with a new tuple; its members are ms.  Where a kid tosses a coin, or reads
\* a clock that may have run on, coin says what it finds.
Call(port, ms, coin) ==
    LET x == IF "coin" \in DOMAIN s THEN [s EXCEPT !.coin = coin] ELSE s
        a == Made([x EXCEPT !.out = <<>>], ms)
    IN  /\ s' = input_set(cfg, a, port, Newest(a))
        /\ hist' = Append(hist, [port |-> port, m |-> ms])
        /\ sent' = Append(sent, [i \in 1..Len(s'.out) |->
                       [id |-> s'.out[i], m |-> s'.mem[s'.out[i]].m, l |-> s'.mem[s'.out[i]].l]])
        /\ UNCHANGED <<kid, cfg>>

More == /\ Len(hist) < MaxCalls[kid]
        /\ kid \in LastFlush => \A i \in 1..Len(hist) : hist[i].port # "FLUSH"
Coins == IF "coin" \in DOMAIN s THEN BOOLEAN ELSE {FALSE}
\* The ports that are in use, where a kid asks for that when it is connected; any kid is
\* flushed, once or several times (kids that tell the flush at exit from others have a
\* port EXIT for that).
Connected(port) == port # "FLUSH" /\ "ports" \in DOMAIN cfg => port \in cfg.ports
Flush == [port |-> "FLUSH", m |-> <<>>]
Next == More /\ \E in \in Inputs[kid] \cup {Flush}, coin \in Coins :
                   Connected(in.port) /\ Call(in.port, in.m, coin)
Spec == Init /\ [][Next]_vars
-----------------------------------------------------------------------------
\* The places in the kid's state that hold a tuple (wsd) or members (q): the records
\* of its table, its buffer, its heap and its tree.
Field(x, f, none) == IF f \in DOMAIN x THEN x[f] ELSE none
Records(x) ==
    LET tab == Field(x, "tab", <<>>) \o Field(x, "tab2", <<>>)
        heap == Field(x, "heap", [buf |-> <<>>]).buf
        tree == Field(x, "tree", [wsd |-> <<>>]).wsd
    IN  [i \in 1..Len(tab) |-> tab[i].r] \o Field(x, "buf", <<>>)
        \o [i \in 1..Cardinality(DOMAIN heap) |-> heap[i - 1]]
        \o (IF tree = <<>> THEN <<>> ELSE [n \in RbNodes |-> [wsd |-> tree[n]]])
InRecord(r, o) == (IF Field(r, "wsd", 0) # 0 /\ o = <<Field(r, "wsd", 0), 0>> THEN 1 ELSE 0)
                  + Len(SelectSeq(Field(r, "q", <<>>), LAMBDA m : m.o = o))
Held(x, o) == FoldLeft(LAMBDA n, r : n + InRecord(r, o), 0, Records(x))

(* References and the places that hold a tuple agree after every call,       *)
(* expiry, query and flush: none is leaked, none is used after its release.  *)
(* (Not so for keyaverage, whose table has no callback, and for what was     *)
(* partly sent to a client of tcpthrow that is gone.)                        *)
Leaks == kid = "keyaverage" \/ Field(s, "broken", {}) # {}
RefsBalanced == ~Leaks =>
    \A id \in 1..Len(s.mem) : \A pos \in 0..Len(s.mem[id].m) :
        Refs(s, <<id, pos>>) = Held(s, <<id, pos>>)

\* What has come in at a port, and what was given out, in their order.
Calls(ports) == SelectSeq([i \in 1..Len(hist) |-> i], LAMBDA i : hist[i].port \in ports)
Given == FlattenSeq(sent)
Times(q, P(_)) == Len(SelectSeq(q, P))

(* sort and rbsort give out every tuple once, or hold it; what a call gives  *)
(* out is in order, and rbsort gives out no tuple while it holds a lesser    *)
(* one.  Its window stays a red-black tree whose least node is known, and an *)
(* insertion comes to an end.                                                *)
Rank(m) == LET v == SelectSeq(m, LAMBDA x : "V" \in x.l)[1]
               n == IF v.d = "uint" THEN v.v ELSE -1
           IN  IF cfg.reverse = (kid = "sort") THEN n ELSE -n
Ranked(m) == \E i \in 1..Len(m) : "V" \in m[i].l /\ (kid = "rbsort" => m[i].d = "uint")
Ascending(ms) == \A i \in 1..Len(ms) - 1 : Rank(ms[i]) <= Rank(ms[i + 1])
LeastFirst(ms) == \A id \in 1..Len(s.mem), i \in 1..Len(ms) :
                      Held(s, <<id, 0>>) > 0 => Rank(ms[i]) <= Rank(s.mem[id].m)
RedBlackKept == RedBlack(s.tree)
InsertEnds == ~s.tree.spins
SortedWhole == kid \in {"sort", "rbsort"} =>
    /\ \A id \in 1..Len(s.mem) : Ranked(s.mem[id].m) => Times(Given, LAMBDA x : x.id = id) + Held(s, <<id, 0>>) = 1
    /\ sent # <<>> => LET ms == [i \in 1..Len(Last(sent)) |-> Last(sent)[i].m] IN Ascending(ms) /\ LeastFirst(ms)
    /\ kid = "rbsort" => RedBlackKept /\ InsertEnds

(* keycount: what it has given out for its keys and what it holds is what    *)
(* it has seen, however often its table was full or flushed.  uniq and bloom *)
(* pass no tuple twice; uniq, unless it has seen another key since, as its   *)
(* table is full then, or was told to forget.                                *)
SumOf(q, F(_)) == FoldLeft(LAMBDA n, x : n + F(x), 0, q)
CountsOf(m) == SumOf(SelectSeq(m, LAMBDA x : "COUNT" \in x.l), LAMBDA x : x.v)
CountsKept == kid = "keycount" =>
    SumOf(s.mem, LAMBDA t : CountsOf(t.m)) + SumOf(s.tab, LAMBDA e : e.r.cnt)
        = SumOf(Calls({"TUPLE"}), LAMBDA i : Times(hist[i].m, LAMBDA m : "K" \in m.l))
PassedAsNew(i) == \E n \in 1..Len(sent[i]) : "HEARTBEAT" \notin sent[i][n].l
Forgets(call, key) ==
    kid = "uniq" /\ CASE call.port = "FLUSH" -> ~cfg.ignore_flush
                      [] call.port = "REMOVE" -> call.m = key
                      [] call.port \in {"TUPLE", "SET", "DUPES"} -> call.m # key /\ call.m # <<>>
                      [] OTHER -> FALSE
NeverTwice == kid \in {"uniq", "bloom"} =>
    \A i, j \in ToSet(Calls({"TUPLE"})) : i < j /\ hist[i].m = hist[j].m /\ PassedAsNew(i) /\ PassedAsNew(j) =>
        \E n \in i + 1..j - 1 : Forgets(hist[n], hist[i].m)
KeysExact == CountsKept /\ NeverTwice

(* exec_in gives out the bytes of its pipe, cut at every separator wherever  *)
(* its buffers end, and holds the rest; tcpthrow writes whole messages to    *)
(* every client, in their order, the last one perhaps in part so far; after  *)
(* a client is gone the rest of its message may go to another one.           *)
Cut(sep, include_sep, bytes) ==
    LET Take(x, b) ==
            LET cur == Append(x.cur, b)
                ends == Len(cur) >= Len(sep) /\ SubSeq(cur, Len(cur) - Len(sep) + 1, Len(cur)) = sep
                rec == IF include_sep THEN cur ELSE SubSeq(cur, 1, Len(cur) - Len(sep))
            IN  IF ~ends THEN [x EXCEPT !.cur = cur]
                ELSE [done |-> IF rec = <<>> THEN x.done ELSE Append(x.done, rec), cur |-> <<>>]
    IN  FoldLeft(Take, [done |-> <<>>, cur |-> <<>>], bytes)
RecordsExact == kid = "exec_in" =>
    LET exits == Calls({"EXITED"})
        polls == SelectSeq(Calls({"POLL"}), LAMBDA i : exits = <<>> \/ i < exits[1])
        bytes == FlattenSeq([n \in 1..Len(polls) |-> hist[polls[n]].m[1].v])
        cut == Cut(cfg.sep, cfg.include_sep, SubSeq(bytes, 1, Len(bytes) - Len(s.pipe)))
        rest == IF cut.cur = <<>> THEN <<>> ELSE <<cut.cur>>
    IN  /\ [n \in 1..Len(Given) |-> Given[n].m[1].v] = cut.done \o (IF s.isdone THEN rest ELSE <<>>)
        /\ ~s.isdone => FlattenSeq([n \in 1..Len(s.buf) |-> s.buf[n].v]) = cut.cur
FramesWhole == kid = "tcpthrow" /\ s.broken = {} =>
    LET thrown == Calls({"BINARY"})
        Frames(I) == FlattenSeq([n \in 1..Len(thrown) |-> IF n \in I THEN Message(hist[thrown[n]].m[1].v) ELSE <<>>])
        Written(idx) == s.wire[s.fds[idx]] \o (IF s.buf[idx].wsd = 0 THEN <<>> ELSE Rest(s, idx))
    IN  \A idx \in 1..Len(s.fds) : \E I \in SUBSET (1..Len(thrown)) : Written(idx) = Frames(I)
StreamsWhole == RecordsExact /\ FramesWhole

(* Every record that a kid has written is on disk once, in a file of its own *)
(* name, whatever files were closed, moved and opened again since.           *)
FilesHold == \A r \in DOMAIN s.written :
    LET holders == {n \in DOMAIN s.disk : r \in ToSet(s.disk[n])}
    IN  \E n \in holders : /\ holders = {n} /\ n[2][1] = s.written[r]
                           /\ Cardinality({i \in 1..Len(s.disk[n]) : s.disk[n][i] = r}) = 1
RecordsKept == "disk" \in DOMAIN s /\ ~(kid = "print" /\ Overwrites(cfg)) => FilesHold
=============================================================================
