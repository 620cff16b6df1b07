------------------------------ MODULE MatchKids -----------------------------
(* Kids that look at values and put labels on what they find: match,         *)
(* match_uint, exactmatch, fixedmatch, label, addlabelmember, labelmultiple. *)
(* A string is the sequence of its characters.                               *)
EXTENDS KidBase

Strings == {"str", "bin"}
\* The labels an inverse search puts on nothing: mark says whether to.
LabelIf(s, mark, e, label) == IF mark THEN AddLabelAt(s, e, label) ELSE s

\* -------- match: patterns with a label each, anywhere in a string.
match_cfgs == [paths : {<<>>, <<<<"S">>>>, <<<<"T", "S">>>>}, tag_parent_tuple : BOOLEAN]
match_init(c) == KidInit
Patterns == {[str |-> <<1, 2>>, label |-> "MATCH"], [str |-> <<2>>, label |-> "P"]}
Occurs(pat, str) == \E i \in 0..Len(str) - Len(pat) : SubSeq(str, i + 1, i + Len(pat)) = pat
match_find_match(c, s, root, e, mark) ==
    LET m == At(s, e)
        labels == {p.label : p \in {q \in Patterns : m.d \in Strings /\ Occurs(q.str, m.v)}}
        Mark(x, label) ==
            LET a == AddLabelAt(x, e, label)
            IN  IF c.tag_parent_tuple THEN LabelContainer(a, root, e.t, label) ELSE a
    IN  Hit(IF mark THEN Each(Mark, s, SetToSeq(labels)) ELSE s, labels # {})
match_input_set(c, s, port, id) ==
    LET mark == port \notin {"INVERSE", "NOT"}
        r == NestedSearch(LAMBDA x, e : match_find_match(c, x, id, e, mark), s, id, c.paths)
        tagged == IF r.found THEN wsdata_add_label(r.s, id, "MATCH") ELSE r.s
    IN  CASE port = "FLUSH" -> s
          [] port = "TAG" -> ws_set_outdata(tagged, id)
          [] port \in {"INVERSE", "NOT"} -> Pass(s, id, ~r.found)
          [] port = "TUPLE" -> Pass(r.s, id, r.found)

\* -------- match_uint: numbers in a range; with a list of labels the inverse search
\* labels the members too.
match_uint_cfgs == [paths : {<<>>, <<<<"V">>>>, <<<<"T", "V">>>>}, label_match : BOOLEAN,
                    match_type : {{"EQ", "LT"}, {"NE"}, {"LT"}, {"LT", "GT"}, {"GT"}}]
match_uint_init(c) == KidInit
uint_find_match(c, v) ==
    LET lt == "LT" \in c.match_type => v < 3
        gt == "GT" \in c.match_type => v > 1
    IN  IF "EQ" \in c.match_type THEN v = 2 ELSE IF "NE" \in c.match_type THEN v # 2 ELSE lt /\ gt
match_uint_input_set(c, s, port, id) ==
    LET mark == c.label_match /\ (port = "INVERSE" => c.paths # <<>>)
        Op(x, e) == LET found == At(x, e).d = "uint" /\ uint_find_match(c, At(x, e).v)
                    IN  Hit(LabelIf(x, mark /\ found, e, "MATCH"), found)
        r == NestedSearch(Op, s, id, c.paths)
        tagged == IF r.found /\ c.label_match THEN wsdata_add_label(r.s, id, "MATCH") ELSE r.s
    IN  CASE port = "FLUSH" -> s
          [] port = "TAG" -> ws_set_outdata(tagged, id)
          [] port = "INVERSE" -> Pass(r.s, id, ~r.found)
          [] port = "TUPLE" -> Pass(r.s, id, r.found)

\* -------- exactmatch: strings that are in a table.  A label for the others makes
\* them count as found; the inverse search over all members labels, and counts
\* them, as well.
exactmatch_cfgs == [paths : {<<>>, <<<<"S">>>>, <<<<"T", "S">>>>}, label_unmatch : BOOLEAN]
exactmatch_init(c) == KidInit
Table == {<<1, 2>>, <<3>>}
exactmatch_member_match(c, s, root, e) ==
    LET in == At(s, e).d \in Strings /\ At(s, e).v \in Table
        With(label) == Hit(LabelContainer(AddLabelAt(s, e, label), root, e.t, label), TRUE)
    IN  IF in THEN With("EXACTMATCH") ELSE IF c.label_unmatch THEN With("UNMATCH") ELSE Hit(s, FALSE)
exactmatch_input_set(c, s, port, id) ==
    LET r == NestedSearch(LAMBDA x, e : exactmatch_member_match(c, x, id, e), s, id, c.paths)
        only == NestedSearch(LAMBDA x, e : Hit(x, At(x, e).d \in Strings /\ At(x, e).v \in Table), s, id, c.paths)
        inverse == IF c.paths = <<>> THEN r ELSE only
    IN  CASE port = "FLUSH" -> s
          [] port = "TAG" -> ws_set_outdata(r.s, id)
          [] port \in {"INVERSE", "NOT"} -> Pass(inverse.s, id, ~inverse.found)
          [] port = "TUPLE" -> Pass(r.s, id, r.found)

\* -------- fixedmatch: a string at a fixed place of the member, from its start or
\* its end; neighbours of the member may be given its label too.
fixedmatch_cfgs == {c \in [paths : {<<>>, <<<<"S">>>>, <<<<"T", "S">>>>}, container : BOOLEAN, label_unmatch : BOOLEAN,
                           maxlength : {0, 2}, prior : {0, 1}, after : {0, 1}] :
                       ~(c.container /\ c.label_unmatch)}
fixedmatch_init(c) == KidInit
SearchCams == <<[offset |-> 0, str |-> <<2>>, atend |-> FALSE, label |-> "FMATCH"],
                [offset |-> 0, str |-> <<3>>, atend |-> TRUE, label |-> "END"]>>
fixed_match_search(str) ==
    LET Matches(cam) == /\ Len(str) >= cam.offset + Len(cam.str)
                        /\ LET from == IF cam.atend THEN Len(str) - Len(cam.str) - cam.offset ELSE cam.offset
                           IN  SubSeq(str, from + 1, from + Len(cam.str)) = cam.str
        hits == SelectSeq(SearchCams, Matches)
    IN  IF hits = <<>> THEN "" ELSE Head(hits).label
local_apply_labels(c, s, e, label) ==
    LET near == {p \in e.p - c.prior .. e.p + c.after : p \in 1..Len(Members(s, e.t)) /\ p # e.p}
    IN  Each(LAMBDA x, p : AddLabelAt(x, [t |-> e.t, p |-> p], label), s, SetToSeq(near))
LabelMatch(c, s, root, e, label) ==
    LET a == local_apply_labels(c, AddLabelAt(s, e, label), e, label)
    IN  IF c.container THEN LabelContainer(a, root, e.t, label) ELSE a
\* s.last: the label found last; mark is not set in an inverse search.
LabelFound(c, s, root, e, label, mark) ==
    LET a == [s EXCEPT !.last = IF label # "" THEN label ELSE IF c.label_unmatch THEN "UNMATCH" ELSE @]
    IN  CASE label # "" -> Hit(IF mark THEN LabelMatch(c, a, root, e, label) ELSE a, TRUE)
          [] label = "" -> Hit(LabelIf(a, mark /\ c.label_unmatch, e, "UNMATCH"), c.label_unmatch)
fixedmatch_member_match(c, s, root, e, mark) ==
    LET m == At(s, e)
    IN  IF m.d \notin Strings \/ (c.maxlength # 0 /\ Len(m.v) > c.maxlength) \/ m.v = <<>> THEN Hit(s, FALSE)
        ELSE LabelFound(c, s, root, e, fixed_match_search(m.v), mark)
GiveMatch(s, r, port, id) ==
    LET a == Return(r.s, s)
    IN  CASE port = "TAG" -> ws_set_outdata(IF r.found THEN wsdata_add_label(a, id, r.s.last) ELSE a, id)
          [] port \in {"INVERSE", "NOT"} -> Pass(s, id, ~r.found)
          [] port = "TUPLE" -> Pass(a, id, r.found)
fixedmatch_input_set(c, s, port, id) ==
    LET mark == port \notin {"INVERSE", "NOT"}
    IN  IF port = "FLUSH" THEN s
        ELSE GiveMatch(s, NestedSearch(LAMBDA x, e : fixedmatch_member_match(c, x, id, e, mark), s @@ [last |-> ""], id, c.paths), port, id)

\* -------- label: a label for the tuple, for members without one, or for those
\* found under others; relabel gives it to a new pointer instead.
label_cfgs == [paths : {<<>>, <<<<"V">>>>, <<<<"T", "V">>>>}, add2empty : BOOLEAN, relabel : BOOLEAN]
label_init(c) == KidInit
label_add_to_empty(s, id) ==
    Each(LAMBDA x, e : LabelIf(x, At(x, e).l = {}, e, "L"), s, Everywhere(s, id))
label_process_tuple(c, s, id) ==
    LET Op(x, e) == Hit(IF c.relabel THEN tuple_member_add_ptr(x, e.t, At(x, e), "L") ELSE AddLabelAt(x, e, "L"), TRUE)
    IN  NestedSearch(Op, s, id, c.paths).s
\* A pointer to the tuple, with its members and a label of its own.
wsdata_ptr(s, id) == LET a == wsdata_alloc(s, Members(s, id)) IN wsdata_add_label(a, Newest(a), "L")
label_input_set(c, s, port, id) ==
    CASE port = "FLUSH" -> s
      [] port # "FLUSH" /\ c.paths # <<>> -> ws_set_outdata(label_process_tuple(c, s, id), id)
      [] port # "FLUSH" /\ c.paths = <<>> /\ c.add2empty -> ws_set_outdata(label_add_to_empty(s, id), id)
      [] port # "FLUSH" /\ c.paths = <<>> /\ ~c.add2empty /\ c.relabel ->
            ws_set_outdata(wsdata_ptr(s, id), Newest(s) + 1)
      [] port # "FLUSH" /\ c.paths = <<>> /\ ~c.add2empty /\ ~c.relabel ->
            ws_set_outdata(wsdata_add_label(s, id, "L"), id)

\* -------- addlabelmember: one value, shared by all tuples it is added to.
addlabelmember_cfgs == [new_value : {7}]
addlabelmember_init(c) == KidInit
addlabelmember_input_set(c, s, port, id) ==
    IF port = "FLUSH" THEN s
    ELSE ws_set_outdata(tuple_member_add_ptr(s, id, [d |-> "uint", v |-> c.new_value], "L"), id)

\* -------- labelmultiple: a label with a number for each member found, or for a new
\* pointer to it, up to maxindex of them.
labelmultiple_cfgs == [paths : {<<<<"V">>>>, <<<<"T", "V">>, <<"K">>>>}, relabel : BOOLEAN, maxindex : {1, 3}]
labelmultiple_init(c) == KidInit
MULTI == <<"MULTI_0", "MULTI_1", "MULTI_2">>
labelmultiple_input_set(c, s, port, id) ==
    LET Op(x, e) ==
            LET a == IF c.relabel THEN tuple_member_add_ptr(x, e.t, At(x, e), MULTI[x.lcnt + 1])
                     ELSE AddLabelAt(x, e, MULTI[x.lcnt + 1])
            IN  IF x.lcnt >= c.maxindex THEN Hit(x, FALSE) ELSE Hit([a EXCEPT !.lcnt = @ + 1], TRUE)
        a == NestedSearch(Op, s @@ [lcnt |-> 0], id, c.paths).s
    IN  IF port = "FLUSH" THEN s ELSE ws_set_outdata(Return(a, s), id)
=============================================================================
