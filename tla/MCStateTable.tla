---------------------------- MODULE MCStateTable ---------------------------
(* Tables of few small buckets, brought near their limit by a first run of   *)
(* inserts, then every sequence of MaxCalls - Len(Warm[kind]) calls.         *)
EXTENDS StateTable
CONSTANTS MaxCalls
VARIABLE calls

MCKeys == 1..7
MCHome == [k \in Keys |-> <<1, 2>>]
MCHash == [k \in Keys |-> (k % 2) + 1]
Warm == [sh5 |-> <<1, 2, 3>>, sh9a |-> <<1, 2, 3, 4, 5>>, sh3 |-> <<1, 2>>]
MCDeletable == {"sh5", "sh3"}

MCInit == Init /\ calls = 0
MCNext == /\ calls < MaxCalls + Len(Warm[kind]) /\ calls' = calls + 1
          /\ UNCHANGED kind
          /\ IF calls < Len(Warm[kind]) THEN Attach(Warm[kind][calls + 1]) ELSE Next
MCSpec == MCInit /\ [][MCNext]_<<vars, calls>>
=============================================================================
