---------------------------- MODULE MCFlushGraph ----------------------------
(* A few graphs without cycles that are flushed: a chain, a diamond, a kid *)
(* reached by a short and a long way, and the same with a longer tail,     *)
(* where the kid at the end of the tail comes first in the flush order.    *)
EXTENDS FlushGraph

MCKids == {"s", "a", "b", "c", "d", "e"}
MCAccepts == {<<k, 1>> : k \in MCKids \ {"s"}} \cup {<<"a", 2>>}

To(ks) == [n \in 1 .. Len(ks) |-> <<ks[n], 1>>]
Graph(s, a, b, c, d) ==
    [edges |-> [k \in MCKids |-> CASE k = "s" -> To(s) [] k = "a" -> To(a) [] k = "b" -> To(b)
                                   [] k = "c" -> To(c) [] k = "d" -> To(d) [] OTHER -> <<>>],
     thread_id |-> [k \in MCKids |-> IF k = "b" THEN 1 ELSE 0],
     sources |-> <<"s">>, flushers |-> MCKids \ {"s"}, no_flush_on_exit |-> FALSE]

Chain == Graph(<<"a">>, <<"b">>, <<"c">>, <<"d">>, <<>>)
Diamond == Graph(<<"a">>, <<"b", "c">>, <<"d">>, <<"d">>, <<"e">>)
ShortAndLong == Graph(<<"a", "b">>, <<"d">>, <<"c">>, <<"a">>, <<>>)
ShortAndLongTail == Graph(<<"a", "b">>, <<"d">>, <<"c">>, <<"a">>, <<"e">>)
FlushedGraphs == {Chain, Diamond, ShortAndLong, ShortAndLongTail}

ASSUME GraphsAreAcyclic == FlushedAcyclic /\ TableLen + 1 < MAX_FLUSHES
=============================================================================
