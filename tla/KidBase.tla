------------------------------- MODULE KidBase ------------------------------
(* What a kid (a processor of the graph, src/procs) works with: tuples and   *)
(* their labelled members (datatypes/wsdt_tuple.h), references to them, the  *)
(* output of a call, and a table of records by key.  A kid's state is a      *)
(* record with the fields below and its own; a handler maps it to the next.  *)
EXTENDS Integers, Sequences, FiniteSets, TLC, SequencesExt, FiniteSetsExt

CONSTANT Cap     \* records of a kid's state table

\* A member has the labels it is found under, a type and a value; o tells one
\* member from all others: the tuple it was made in and its place there.
Member(label, d, v) == [l |-> {label}, d |-> d, v |-> v]
Bare(d, v) == [l |-> {}, d |-> d, v |-> v]
Stamp(id, pos, m) == IF "o" \in DOMAIN m THEN m ELSE [o |-> <<id, pos>>] @@ m

\* mem: all tuples of the run, each with its members and labels of its own;
\* refs: the references this kid holds to members and tuples (o); out: the
\* tuples it gave to ws_set_outdata in this call.
KidInit == [mem |-> <<>>, refs |-> <<>>, out |-> <<>>]

wsdata_alloc(s, ms) == [s EXCEPT !.mem =
    Append(@, [m |-> [i \in 1..Len(ms) |-> Stamp(Len(@) + 1, i, ms[i])], l |-> {}])]
Newest(s) == Len(s.mem)
\* A tuple as something that is held, or is a member of another.
Tuple(s, id) == [l |-> s.mem[id].l, d |-> "tuple", v |-> id, o |-> <<id, 0>>]
Members(s, id) == s.mem[id].m

add_tuple_member(s, id, m) == [s EXCEPT !.mem[id].m = Append(@, Stamp(id, Len(@) + 1, m))]
tuple_member_add_ptr(s, id, m, label) == add_tuple_member(s, id, Member(label, m.d, m.v))
Refs(s, o) == IF o \in DOMAIN s.refs THEN s.refs[o] ELSE 0
wsdata_add_reference(s, o) == [s EXCEPT !.refs = (o :> Refs(s, o) + 1) @@ @]
wsdata_delete(s, o) == [s EXCEPT !.refs = (o :> Refs(s, o) - 1) @@ @]
Hold(s, m) == wsdata_add_reference(s, m.o)
Release(s, m) == wsdata_delete(s, m.o)
ws_set_outdata(s, id) == [s EXCEPT !.out = Append(@, id)]
wsdata_add_label(s, id, label) == [s EXCEPT !.mem[id].l = @ \cup {label}]

\* The members that carry a label, and those of a list of labels.
tuple_find_label(s, id, label) == SelectSeq(s.mem[id].m, LAMBDA m : label \in m.l)
tuple_search_labelset(s, id, labels) ==
    FlattenSeq([i \in 1..Len(labels) |-> tuple_find_label(s, id, labels[i])])
Has(s, id, label) == tuple_find_label(s, id, label) # <<>>
First(s, id, label) == Head(tuple_find_label(s, id, label))

tuple_add_member_label(s, id, pos, label) == [s EXCEPT !.mem[id].m[pos].l = @ \cup {label}]
Positions(s, id, labels) ==
    FlattenSeq([i \in 1..Len(labels) |->
        SelectSeq([p \in 1..Len(s.mem[id].m) |-> p],
                  LAMBDA p : labels[i] \in s.mem[id].m[p].l)])

\* Places of members: e.p in the tuple e.t.  A path is a list of labels to follow
\* through tuples that are members; the empty path stands for all members.
At(s, e) == s.mem[e.t].m[e.p]
Everywhere(s, id) == [p \in 1..Len(s.mem[id].m) |-> [t |-> id, p |-> p]]
NestedIn(s, ids, label) ==
    LET here == FlattenSeq([i \in 1..Len(ids) |-> tuple_find_label(s, ids[i], label)])
        nested == SelectSeq(here, LAMBDA m : m.d = "tuple")
    IN  [i \in 1..Len(nested) |-> nested[i].v]
PlacesIn(s, t, label) == [i \in 1..Len(Positions(s, t, <<label>>)) |-> [t |-> t, p |-> Positions(s, t, <<label>>)[i]]]
PlacesOf(s, ids, label) == FlattenSeq([i \in 1..Len(ids) |-> PlacesIn(s, ids[i], label)])
RECURSIVE Inner(_, _, _)
Inner(s, ids, path) == IF path = <<>> THEN ids ELSE Inner(s, NestedIn(s, ids, Head(path)), Tail(path))
tuple_nested_search(s, id, path) ==
    IF path = <<>> THEN Everywhere(s, id) ELSE PlacesOf(s, Inner(s, <<id>>, Front(path)), Last(path))
tuple_nested_search_ext(s, id, paths) ==
    FlattenSeq([i \in 1..Len(paths) |-> tuple_nested_search(s, id, paths[i])])
Objects(s, es) == [i \in 1..Len(es) |-> At(s, es[i])]

\* A search with a handler for each place: Op gives the state and whether it hit.
Hit(s, found) == [s |-> s, found |-> found]
Also(r, a) == Hit(r.s, a.found \/ r.found)
RECURSIVE SearchAt(_, _, _)
SearchAt(Op(_, _), a, es) ==
    IF es = <<>> THEN a ELSE SearchAt(Op, Also(Op(a.s, Head(es)), a), Tail(es))
RECURSIVE SearchPaths(_, _, _, _)
SearchPaths(Op(_, _), a, id, paths) ==
    IF paths = <<>> THEN a
    ELSE SearchPaths(Op, SearchAt(Op, a, tuple_nested_search(a.s, id, Head(paths))), id, Tail(paths))
NestedSearch(Op(_, _), s, id, paths) ==
    SearchPaths(Op, Hit(s, FALSE), id, IF paths = <<>> THEN << <<>> >> ELSE paths)
Pass(s, id, cond) == IF cond THEN ws_set_outdata(s, id) ELSE s

\* A label for the member at a place; one that is a tuple is labelled itself too.
AddLabelAt(s, e, label) ==
    LET a == tuple_add_member_label(s, e.t, e.p, label)
    IN  IF At(s, e).d = "tuple" THEN wsdata_add_label(a, At(s, e).v, label) ELSE a
\* A label for a tuple t that a search from root has reached.
LabelContainer(s, root, t, label) ==
    LET holders == {e \in UNION {{[t |-> i, p |-> p] : p \in 1..Len(s.mem[i].m)} : i \in 1..Len(s.mem)} :
                       At(s, e).d = "tuple" /\ At(s, e).v = t}
    IN  IF t = root THEN wsdata_add_label(s, t, label) ELSE AddLabelAt(s, CHOOSE e \in holders : TRUE, label)
\* A tuple of the input, the tuples that are its members included.
Nest(label, ms) == [l |-> {label}, d |-> "tuple", sub |-> ms]
Made(s, ms) ==
    LET AddTo(x, m) ==
            LET a == wsdata_alloc(x.s, m.sub)
                b == [a EXCEPT !.mem[Newest(a)].l = m.l]
            IN  IF "sub" \in DOMAIN m THEN [s |-> b, made |-> Append(x.made, Tuple(b, Newest(b)))]
                ELSE [x EXCEPT !.made = Append(@, m)]
        a == FoldLeft(AddTo, [s |-> s, made |-> <<>>], ms)
    IN  wsdata_alloc(a.s, a.made)

\* A state table: records with their keys, least recently used first.  Its
\* keys share their buckets, so that a full table expires the first of them
\* (VictimIsOldest of StateTable).
Keyed(tab, k) == \E i \in 1..Len(tab) : tab[i].k = k
Rec(tab, k) == tab[CHOOSE i \in 1..Len(tab) : tab[i].k = k].r
Drop(tab, k) == SelectSeq(tab, LAMBDA e : e.k # k)
Put(tab, k, r) == [i \in 1..Len(tab) |-> IF tab[i].k = k THEN [k |-> k, r |-> r] ELSE tab[i]]

\* Find or insert with a zeroed record: the table and the records expired.
find_attach(tab, k, zero) ==
    CASE Keyed(tab, k) -> [tab |-> Append(Drop(tab, k), [k |-> k, r |-> Rec(tab, k)]), old |-> <<>>]
      [] ~Keyed(tab, k) /\ Len(tab) < Cap -> [tab |-> Append(tab, [k |-> k, r |-> zero]), old |-> <<>>]
      [] ~Keyed(tab, k) /\ Len(tab) >= Cap ->
            [tab |-> Append(Tail(tab), [k |-> k, r |-> zero]), old |-> <<Head(tab)>>]
Touch(tab, k) == IF Keyed(tab, k) THEN find_attach(tab, k, 0).tab ELSE tab

\* A loop of a handler over a list; the callback of a table for the records that
\* it throws out, and for all of them at a flush.
RECURSIVE Each(_, _, _)
Each(Op(_, _), s, list) == IF list = <<>> THEN s ELSE Each(Op, Op(s, Head(list)), Tail(list))
Return(a, s) == [f \in DOMAIN s |-> a[f]]   \* without the locals of a handler
Expire(s, tab, old, Op(_, _)) == Each(Op, [s EXCEPT !.tab = tab], [i \in 1..Len(old) |-> old[i].r])
ScourAndFlush(s, Op(_, _)) == Expire(s, <<>>, s.tab, Op)
KeyedInit(fields) == KidInit @@ [tab |-> <<>>] @@ fields

\* A loop of the code, for at most most rounds.
RECURSIVE While(_, _, _, _)
While(Cond(_), Body(_), x, most) ==
    IF most = 0 \/ ~Cond(x) THEN x ELSE While(Cond, Body, Body(x), most - 1)

\* The time of a tuple: its first member DATETIME, or else the time of day, which
\* moves on with every new tuple.
Clock(s) == Len(s.mem)
TimeOf(s, id) == IF Has(s, id, "DATETIME") /\ First(s, id, "DATETIME").d = "ts"
                 THEN First(s, id, "DATETIME").v ELSE Clock(s)

\* A clock's boundary: whether a time is past it, and the next one, from the
\* bottom of the hour in steps of increment_ts.
Hour == 12
next_time_boundary(inc, now) ==
    LET base == now - (now % Hour)
    IN  base + ((now - base) \div inc + 1) * inc
test_time_boundary(b, now) == b = 0 \/ now >= b
=============================================================================
