----------------------------- MODULE MCRecovery -----------------------------
(* Two threads that write to each other: source s on thread 0 emits three  *)
(* times per item to a on thread 1, and a twice per input to b on thread 0.*)
EXTENDS ExitProtocol

MCKids == {"s", "a", "b"}
MCThreadId == [k \in MCKids |-> IF k = "a" THEN 1 ELSE 0]
MCEdges == [k \in MCKids |-> CASE k = "s" -> <<"a">> [] k = "a" -> <<"b">> [] k = "b" -> <<>>]
MCLocal == [k \in MCKids |-> SelectSeq(MCEdges[k], LAMBDA s : MCThreadId[s] = MCThreadId[k])]
MCExt == [k \in MCKids |-> SelectSeq(MCEdges[k], LAMBDA s : MCThreadId[s] # MCThreadId[k])]
MCOutputs == [k \in MCKids |-> CASE k = "s" -> 3 [] k = "a" -> 2 [] k = "b" -> 0]
MCSources == <<"s">>
MCInput == [k \in {"s"} |-> 1]
OneCycle == <<{0, 1}>>

ASSUME TheCycleIsARing == Ring
=============================================================================
