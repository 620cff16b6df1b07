----------------------------- MODULE MCPipeline -----------------------------
(* Three threads in a row: source s on thread 0, kids a and l on thread 1, *)
(* b and d on thread 2.  What s reads goes to a, a emits to l, b and d, l *)
(* to b, and b to d.                                                       *)
EXTENDS ExitProtocol

MCKids == {"s", "a", "l", "b", "d"}
MCThreadId == [k \in MCKids |-> CASE k = "s" -> 0 [] k \in {"a", "l"} -> 1 [] OTHER -> 2]
MCEdges == [k \in MCKids |->
    CASE k = "s" -> <<"a">> [] k = "a" -> <<"l", "b", "d">> [] k = "l" -> <<"b">>
      [] k = "b" -> <<"d">> [] OTHER -> <<>>]
MCLocal == [k \in MCKids |-> SelectSeq(MCEdges[k], LAMBDA s : MCThreadId[s] = MCThreadId[k])]
MCExt == [k \in MCKids |-> SelectSeq(MCEdges[k], LAMBDA s : MCThreadId[s] # MCThreadId[k])]
MCOutputs == [k \in MCKids |-> IF k = "d" THEN 0 ELSE 1]
MCSources == <<"s">>
MCInput == [k \in {"s"} |-> 1]
NoCycles == <<>>

ASSUME ThreadsAscend == Forward
=============================================================================
