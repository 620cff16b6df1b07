------------------------------ MODULE MCFanOut ------------------------------
(* Four threads in a row: source s on thread 3, then the kids a, b and c   *)
(* on threads 2, 1 and 0; b emits two pieces of data per input.            *)
EXTENDS ExitProtocol

MCKids == {"s", "a", "b", "c"}
MCThreadId == [k \in MCKids |-> CASE k = "s" -> 3 [] k = "a" -> 2 [] k = "b" -> 1 [] k = "c" -> 0]
MCEdges == [k \in MCKids |->
    CASE k = "s" -> <<"a">> [] k = "a" -> <<"b">> [] k = "b" -> <<"c">> [] k = "c" -> <<>>]
MCLocal == [k \in MCKids |-> SelectSeq(MCEdges[k], LAMBDA s : MCThreadId[s] = MCThreadId[k])]
MCExt == [k \in MCKids |-> SelectSeq(MCEdges[k], LAMBDA s : MCThreadId[s] # MCThreadId[k])]
MCOutputs == [k \in MCKids |-> CASE k = "s" -> 1 [] k = "a" -> 1 [] k = "b" -> 2 [] k = "c" -> 0]
MCSources == <<"s">>
MCInput == [k \in {"s"} |-> 1]
NoCycles == <<>>
=============================================================================
