------------------------------ MODULE MCGraphs ------------------------------
(* The graphs of MCFlushGraph, and all graphs of a source and two kids on  *)
(* one to three threads with up to two edges out of each kid: cycles,      *)
(* parallel edges and edges into the source included.  a has two ports, b  *)
(* one, and s takes no input.  Graphs with cycles are not flushed.         *)
EXTENDS MCFlushGraph

Ports == {<<"s", 1>>, <<"a", 1>>, <<"a", 2>>, <<"b", 1>>}
Lists == UNION {[1 .. n -> Ports] : n \in 0 .. 2}
EdgeLists == {x \in [{"s", "a", "b"} -> Lists] : Len(x["s"]) = 2 \/ x["b"] = <<>>}
AllOn(t) == [k \in MCKids |-> t]
Variants == {[thread_id |-> AllOn(0), flushers |-> {"a", "b"}],
             [thread_id |-> [AllOn(0) EXCEPT !["a"] = 1], flushers |-> {"b"}],
             [thread_id |-> [AllOn(0) EXCEPT !["a"] = 1, !["b"] = 2], flushers |-> {"a", "b"}]}
SmallGraphs ==
    {[edges |-> [k \in MCKids |-> IF k \in {"s", "a", "b"} THEN e[k] ELSE <<>>],
      thread_id |-> v.thread_id, sources |-> <<"s">>, flushers |-> v.flushers,
      no_flush_on_exit |-> TRUE] : e \in EdgeLists, v \in Variants}
MCGraphs == FlushedGraphs \cup SmallGraphs
=============================================================================
