-------------------------- MODULE WorkShareProofs ---------------------------
(***************************************************************************)
(* Proofs about the work-sharing queue of module WorkShare, for any number *)
(* of balancers, receivers and jobs.                                       *)
(***************************************************************************)
EXTENDS WorkShare, FiniteSetTheorems, TLAPS

BalancerPlaces == {"new", "idle", "remove", "hasdata", "removed", "give", "gone"}
ReceiverPlaces == {"new", "idle", "add", "added", "work", "gone"}

PlacesOK ==
    /\ pc \in [Kids -> BalancerPlaces \cup ReceiverPlaces]
    /\ \A b \in Balancers : pc[b] \in BalancerPlaces
    /\ \A i \in Receivers : pc[i] \in ReceiverPlaces

DataOK ==
    /\ sq \in Seq(Receivers)
    /\ id \in [Balancers -> 0 .. Channels]
    /\ \A b \in Balancers : pc[b] \in {"removed", "give"} => id[b] \in Receivers
    /\ wire \in [Receivers -> Seq(Balancers \X Int)]
    /\ todo \in [Balancers -> Int]

(* Nothing runs before all kids are initialised; the first one, which is a *)
(* balancer, fills the queue.                                              *)
Filled == \E t \in Kids : pc[t] # "new"
SetUp ==
    /\ ~Running => \A t \in Kids : pc[t] \in {"new", "idle"}
    /\ ~Filled => sq = <<>> /\ \A i \in Receivers : wire[i] = <<>>

(* The places the number of a receiver can be in. *)
Queued(i) == \E n \in 1 .. Len(sq) : sq[n] = i
Held(i) == \E b \in Balancers : Has(b, i)
Sent(i) == wire[i] # <<>>
Returning(i) == pc[i] = "add"

OnePlace(i) ==
    \/ Queued(i) /\ ~Held(i) /\ ~Sent(i) /\ ~Returning(i)
    \/ ~Queued(i) /\ Held(i) /\ ~Sent(i) /\ ~Returning(i)
    \/ ~Queued(i) /\ ~Held(i) /\ Sent(i) /\ ~Returning(i)
    \/ ~Queued(i) /\ ~Held(i) /\ ~Sent(i) /\ Returning(i)

OnceThere ==
    /\ \A m, n \in 1 .. Len(sq) : sq[m] = sq[n] => m = n
    /\ \A b, c \in Balancers : \A i \in Receivers : Has(b, i) /\ Has(c, i) => b = c
    /\ \A i \in Receivers : Len(wire[i]) <= 1

Tokens == OnceThere /\ (Filled => \A i \in Receivers : OnePlace(i))

(* A number that is there while a balancer waits is about to be announced. *)
Announced ==
    (\E b \in Balancers : pc[b] = "hasdata") /\ sq # <<>> => \E i \in Receivers : pc[i] = "added"

(* The label counts the kids that use the queue. *)
Sharers == {t \in Kids : pc[t] \notin {"new", "gone"}}
Counted ==
    /\ cnt = Cardinality(Sharers)
    /\ freed \in BOOLEAN
    /\ freed <=> \A t \in Kids : pc[t] = "gone"

ShareInv == PlacesOK /\ DataOK /\ SetUp /\ Tokens /\ Announced /\ Counted

LEMMA Constants ==
    /\ Channels \in Nat /\ Channels > 0 /\ Receivers \cap Balancers = {}
    /\ Balancers \subseteq Kids /\ Receivers \subseteq Kids
    /\ IsFiniteSet(Kids) /\ Balancers # {} /\ 0 \notin Receivers
<1>1. Channels \in Nat /\ Channels > 0 /\ Balancers \cap Int = {}
    BY ChannelsAssumption
<1>2. Receivers \subseteq Int /\ 0 \notin Receivers
    BY <1>1 DEF Receivers
<1>3. IsFiniteSet(1 .. Channels)
    BY <1>1, FS_Interval
<1>4. IsFiniteSet(Balancers \cup Receivers)
    BY <1>3, SomeBalancers, FS_Union DEF Receivers
<1> QED BY <1>1, <1>2, <1>4, SomeBalancers DEF Kids

(* No number is queued twice, so the queue has room for all of them.       *)
LEMMA QueueHasRoom ==
    ASSUME DataOK, OnceThere
    PROVE  Len(sq) \in Nat /\ Len(sq) <= Channels /\ Len(sq) # max_length
<1> PICK n \in Nat : n = Len(sq)
    BY DEF DataOK
<1>1. sq \in [1 .. n -> Receivers]
    <2>1. sq \in Seq(Receivers)
        BY DEF DataOK
    <2> QED BY <2>1
<1>2. /\ IsFiniteSet(1 .. n) /\ Cardinality(1 .. n) = n
      /\ IsFiniteSet(Receivers) /\ Cardinality(Receivers) = Channels
    <2>1. \A m \in Nat : IsFiniteSet(1 .. m) /\ Cardinality(1 .. m) = m
        <3> TAKE m \in Nat
        <3>1. IsFiniteSet(1 .. m) /\ Cardinality(1 .. m) = IF 1 > m THEN 0 ELSE m - 1 + 1
            <4>1. 1 \in Int /\ m \in Int
                OBVIOUS
            <4> QED BY <4>1, FS_Interval
        <3> QED BY <3>1
    <2> QED BY <2>1, Constants DEF Receivers
<1>3. ~(Channels < n)
    <2> SUFFICES ASSUME Channels < n PROVE FALSE
        OBVIOUS
    <2>1. \E x, y \in 1 .. n : x # y /\ sq[x] = sq[y]
        <3>1. Cardinality(Receivers) < Cardinality(1 .. n)
            BY <1>2
        <3>2. PICK S : S = 1 .. n
            OBVIOUS
        <3>3. /\ IsFiniteSet(S) /\ IsFiniteSet(Receivers) /\ Cardinality(Receivers) < Cardinality(S)
              /\ sq \in [S -> Receivers]
            BY <1>1, <1>2, <3>1, <3>2
        <3>4. \E x, y \in S : x # y /\ sq[x] = sq[y]
            BY <3>3, FS_PigeonHole, Zenon
        <3> QED BY <3>2, <3>4
    <2> QED BY <2>1 DEF OnceThere
<1> QED BY <1>3, Constants DEF max_length

LEMMA InitShareInv == Init => ShareInv
<1> SUFFICES ASSUME Init PROVE ShareInv
    OBVIOUS
<1>1. /\ sq = <<>> /\ cnt = 0 /\ freed = FALSE /\ pc = [t \in Kids |-> "new"]
      /\ id = [b \in Balancers |-> 0] /\ todo = [b \in Balancers |-> Jobs]
      /\ wire = [i \in Receivers |-> <<>>]
    BY DEF Init
<1>2. /\ \A b \in Balancers : pc[b] = "new"
      /\ \A i \in Receivers : pc[i] = "new"
      /\ \E t \in Kids : pc[t] # "gone"
    BY <1>1, Constants
<1>3. PlacesOK
    BY <1>1, <1>2 DEF PlacesOK, BalancerPlaces, ReceiverPlaces
<1>4. DataOK
    BY <1>1, <1>2, Constants, ChannelsAssumption DEF DataOK
<1>5. SetUp
    BY <1>1 DEF SetUp
<1>6. Tokens
    <2>1. ~Filled
        BY <1>1 DEF Filled
    <2>2. OnceThere
        BY <1>1, <1>2 DEF OnceThere, Has
    <2> QED BY <2>1, <2>2 DEF Tokens
<1>7. Announced
    BY <1>1 DEF Announced
<1>8. Counted
    <2>1. Sharers = {}
        BY <1>1 DEF Sharers
    <2> QED BY <2>1, <1>1, <1>2, FS_EmptySet DEF Counted
<1> QED BY <1>3, <1>4, <1>5, <1>6, <1>7, <1>8 DEF ShareInv

-----------------------------------------------------------------------------
(* A step of a thread that runs: the sharers stay who they are. *)
LEMMA RunningStep ==
    ASSUME ShareInv, NEW t \in Kids, Running, pc[t] # "gone",
           \A u \in Kids : pc'[u] # pc[u] => {pc[u], pc'[u]} \cap {"new", "gone"} = {},
           UNCHANGED <<cnt, freed>>
    PROVE  SetUp' /\ Counted' /\ Filled
<1>1. Running' /\ Filled' /\ Filled
    BY DEF Running, Filled
<1>2. SetUp'
    BY <1>1 DEF SetUp
<1>3. Sharers' = Sharers
    BY DEF Sharers
<1>4. pc'[t] # "gone"
    OBVIOUS
<1>5. Counted'
    BY <1>3, <1>4 DEF ShareInv, Counted
<1> QED BY <1>1, <1>2, <1>5

(* Who is not idle runs. *)
LEMMA BusyRuns ==
    ASSUME SetUp, NEW t \in Kids, pc[t] \notin {"new", "idle"}
    PROVE  Running
BY DEF SetUp

(* A step that moves no number. *)
LEMMA QuietStep ==
    ASSUME ShareInv, NEW t \in Kids, Running, pc[t] # "gone",
           PlacesOK', Announced',
           \A u \in Kids : pc'[u] # pc[u] =>
                /\ {pc[u], pc'[u]} \cap {"new", "gone", "add"} = {}
                /\ pc[u] \in {"removed", "give"} <=> pc'[u] \in {"removed", "give"},
           UNCHANGED <<sq, cnt, freed, id, todo, wire>>
    PROVE  ShareInv'
<1>1. SetUp' /\ Counted' /\ Filled
    <2>1. \A u \in Kids : pc'[u] # pc[u] => {pc[u], pc'[u]} \cap {"new", "gone"} = {}
        OBVIOUS
    <2> QED BY <2>1, RunningStep
<1>2. /\ \A b \in Balancers : pc[b] \in {"removed", "give"} <=> pc'[b] \in {"removed", "give"}
      /\ \A i \in Receivers : pc[i] = "add" <=> pc'[i] = "add"
    BY Constants
<1>3. DataOK'
    BY <1>2 DEF ShareInv, DataOK
<1>4. \A i \in Receivers : /\ \A b \in Balancers : Has(b, i)' <=> Has(b, i)
                           /\ Queued(i)' <=> Queued(i)
                           /\ Held(i)' <=> Held(i)
                           /\ Sent(i)' <=> Sent(i)
                           /\ Returning(i)' <=> Returning(i)
    BY <1>2 DEF Has, Queued, Held, Sent, Returning
<1>5. Tokens'
    <2>1. OnceThere'
        BY <1>4 DEF ShareInv, Tokens, OnceThere
    <2>2. \A i \in Receivers : OnePlace(i)'
        BY <1>1, <1>4 DEF ShareInv, Tokens, OnePlace
    <2> QED BY <2>1, <2>2 DEF Tokens
<1> QED BY <1>1, <1>3, <1>5 DEF ShareInv

(* Where a thread goes on. *)
LEMMA GotoFacts ==
    ASSUME PlacesOK, NEW t \in Kids, NEW place, Goto(t, place)
    PROVE  /\ pc'[t] = place
           /\ \A u \in Kids : u # t => pc'[u] = pc[u]
           /\ t \in Balancers /\ place \in BalancerPlaces => PlacesOK'
           /\ t \in Receivers /\ place \in ReceiverPlaces => PlacesOK'
<1>1. pc' = [pc EXCEPT ![t] = place] /\ pc \in [Kids -> BalancerPlaces \cup ReceiverPlaces]
    BY DEF Goto, PlacesOK
<1>2. pc'[t] = place /\ \A u \in Kids : u # t => pc'[u] = pc[u]
    BY <1>1
<1>3. place \in BalancerPlaces \cup ReceiverPlaces => pc' \in [Kids -> BalancerPlaces \cup ReceiverPlaces]
    BY <1>1
<1>4. t \in Balancers /\ place \in BalancerPlaces => PlacesOK'
    BY <1>2, <1>3, Constants DEF PlacesOK
<1>5. t \in Receivers /\ place \in ReceiverPlaces => PlacesOK'
    BY <1>2, <1>3, Constants DEF PlacesOK
<1> QED BY <1>2, <1>4, <1>5

(* What a broadcast does to the places. *)
LEMMA BroadcastFacts ==
    ASSUME PlacesOK, NEW t \in Kids, NEW place, NEW cond, NEW again, Broadcast(t, place, cond, again)
    PROVE  /\ pc' \in [Kids -> {place, again} \cup {pc[u] : u \in Kids}]
           /\ pc'[t] = place
           /\ \A u \in Kids : u # t => pc'[u] = IF pc[u] = cond THEN again ELSE pc[u]
BY DEF Broadcast

-----------------------------------------------------------------------------
(* The steps of a balancer. *)
LEMMA BeginShareInv ==
    ASSUME ShareInv, NEW b \in Balancers, pc[b] = "idle", Running, Goto(b, "remove"),
           UNCHANGED <<sq, cnt, freed, id, todo, wire>>
    PROVE  ShareInv'
<1>1. b \in Kids /\ PlacesOK /\ Announced /\ b \notin Receivers
    BY Constants DEF ShareInv
<1>2. pc'[b] = "remove" /\ \A u \in Kids : u # b => pc'[u] = pc[u]
    BY <1>1, GotoFacts
<1>3. PlacesOK'
    BY <1>1, GotoFacts DEF BalancerPlaces
<1>4. Announced'
    BY <1>1, <1>2, Constants DEF Announced
<1> QED BY <1>1, <1>2, <1>3, <1>4, QuietStep

LEMMA LookShareInv ==
    ASSUME ShareInv, NEW b \in Balancers, pc[b] = "remove", mwmr_queue_remove(b)
    PROVE  ShareInv'
<1>1. /\ b \in Kids /\ PlacesOK /\ DataOK /\ SetUp /\ Tokens /\ OnceThere /\ Announced
      /\ b \notin Receivers /\ UNCHANGED <<cnt, freed, todo, wire>> /\ Running
    BY Constants, BusyRuns DEF ShareInv, Tokens, mwmr_queue_remove
<1>2. CASE sq = <<>>
    <2>1. Goto(b, "hasdata") /\ UNCHANGED <<sq, id>>
        BY <1>2 DEF mwmr_queue_remove
    <2>2. pc'[b] = "hasdata" /\ \A u \in Kids : u # b => pc'[u] = pc[u]
        BY <1>1, <2>1, GotoFacts
    <2>3. PlacesOK'
        BY <1>1, <2>1, GotoFacts DEF BalancerPlaces
    <2>4. Announced'
        BY <1>2, <2>1 DEF Announced
    <2> QED BY <1>1, <2>1, <2>2, <2>3, <2>4, QuietStep
<1>3. CASE sq # <<>>
    <2>c. PICK i : i = Head(sq)
        OBVIOUS
    <2>1. Goto(b, "removed") /\ id' = [id EXCEPT ![b] = i] /\ sq' = Tail(sq)
        BY <1>3, <2>c DEF mwmr_queue_remove
    <2>2. pc'[b] = "removed" /\ \A u \in Kids : u # b => pc'[u] = pc[u]
        BY <1>1, <2>1, GotoFacts
    <2>3. PlacesOK'
        BY <1>1, <2>1, GotoFacts DEF BalancerPlaces
    <2>4. SetUp' /\ Counted' /\ Filled
        BY <1>1, <2>2, RunningStep
    <2>5. PICK n \in Nat : n = Len(sq) /\ n > 0
        BY <1>1, <1>3 DEF DataOK
    <2>6. /\ sq' \in Seq(Receivers) /\ Len(sq') = n - 1 /\ i \in Receivers /\ sq[1] = i
          /\ \A m \in 1 .. n - 1 : sq'[m] = sq[m + 1]
        BY <1>1, <1>3, <2>1, <2>5, <2>c DEF DataOK
    <2>7. /\ \A c \in Balancers : \A j \in Receivers : c # b => (Has(c, j)' <=> Has(c, j))
          /\ \A j \in Receivers : Has(b, j)' <=> j = i
          /\ \A j \in Receivers : ~Has(b, j)
        <3>1. id'[b] = i /\ \A c \in Balancers : c # b => id'[c] = id[c]
            BY <1>1, <2>1 DEF DataOK
        <3> QED BY <3>1, <2>2, Constants DEF Has
    <2>8. Queued(i) /\ ~Queued(i)' /\ \A j \in Receivers : j # i => (Queued(j)' <=> Queued(j))
        <3>1. 1 \in 1 .. n
            BY <2>5
        <3>2. \A m \in 1 .. n : sq[m] = i => m = 1
            BY <1>1, <2>5, <2>6, <3>1 DEF OnceThere
        <3>3. Queued(i)
            BY <2>5, <2>6, <3>1 DEF Queued
        <3>4. ~Queued(i)'
            <4> SUFFICES ASSUME NEW m \in 1 .. n - 1, sq'[m] = i PROVE FALSE
                BY <2>6 DEF Queued
            <4>1. m + 1 \in 1 .. n /\ m + 1 # 1 /\ sq[m + 1] = i
                BY <2>5, <2>6
            <4> QED BY <4>1, <3>2
        <3>5. ASSUME NEW j \in Receivers, j # i PROVE Queued(j)' <=> Queued(j)
            <4>1. Queued(j)' => Queued(j)
                <5> SUFFICES ASSUME NEW m \in 1 .. n - 1, sq'[m] = j PROVE Queued(j)
                    BY <2>6 DEF Queued
                <5>1. m + 1 \in 1 .. n /\ sq[m + 1] = j
                    BY <2>5, <2>6
                <5> QED BY <5>1, <2>5 DEF Queued
            <4>2. Queued(j) => Queued(j)'
                <5> SUFFICES ASSUME NEW m \in 1 .. n, sq[m] = j PROVE Queued(j)'
                    BY <2>5 DEF Queued
                <5>1. m # 1
                    BY <2>6, <3>5
                <5>2. m - 1 \in 1 .. n - 1 /\ (m - 1) + 1 = m
                    BY <2>5, <5>1
                <5>3. sq'[m - 1] = j
                    BY <2>6, <5>2
                <5> QED BY <5>2, <5>3, <2>6 DEF Queued
            <4> QED BY <4>1, <4>2
        <3> QED BY <3>3, <3>4, <3>5
    <2>9. OnePlace(i) /\ \A j \in Receivers : OnePlace(j)
        BY <1>1, <2>4, <2>6 DEF Tokens
    <2>10. /\ \A j \in Receivers : (Sent(j)' <=> Sent(j)) /\ (Returning(j)' <=> Returning(j))
           /\ \A j \in Receivers : j # i => (Held(j)' <=> Held(j))
           /\ Held(i)'
        <3>1. \A j \in Receivers : (Sent(j)' <=> Sent(j)) /\ (Returning(j)' <=> Returning(j))
            BY <1>1, <2>2, Constants DEF Sent, Returning
        <3>2. \A j \in Receivers : j # i => (Held(j)' <=> Held(j))
            BY <2>7 DEF Held
        <3>3. Held(i)'
            BY <2>6, <2>7 DEF Held
        <3> QED BY <3>1, <3>2, <3>3
    <2>11. DataOK'
        <3>1. id' \in [Balancers -> 0 .. Channels] /\ id'[b] = i
            BY <1>1, <2>1, <2>6 DEF DataOK, Receivers
        <3>2. \A c \in Balancers : c # b => id'[c] = id[c] /\ pc'[c] = pc[c]
            BY <1>1, <2>1, <2>2, Constants DEF DataOK
        <3> QED BY <1>1, <2>2, <2>6, <3>1, <3>2 DEF DataOK
    <2>12. Tokens'
        <3>1. OnceThere'
            <4>1. \A k, m \in 1 .. n - 1 : sq'[k] = sq'[m] => k = m
                <5> SUFFICES ASSUME NEW k \in 1 .. n - 1, NEW m \in 1 .. n - 1, sq'[k] = sq'[m]
                             PROVE  k = m
                    OBVIOUS
                <5>1. k + 1 \in 1 .. n /\ m + 1 \in 1 .. n /\ sq[k + 1] = sq[m + 1]
                    BY <2>5, <2>6
                <5>2. k + 1 = m + 1
                    BY <5>1, <1>1, <2>5 DEF OnceThere
                <5> QED BY <5>2
            <4>2. ASSUME NEW c \in Balancers, NEW d \in Balancers, NEW j \in Receivers, Has(c, j)', Has(d, j)'
                  PROVE  c = d
                <5>1. CASE j = i
                    <6>1. ~Held(i)
                        BY <2>8, <2>9 DEF OnePlace
                    <6> QED BY <5>1, <6>1, <2>7, <4>2 DEF Held
                <5>2. CASE j # i
                    BY <5>2, <2>7, <4>2, <1>1 DEF OnceThere
                <5> QED BY <5>1, <5>2
            <4> QED BY <4>1, <4>2, <1>1, <2>6 DEF OnceThere
        <3>2. \A j \in Receivers : OnePlace(j)'
            BY <2>8, <2>9, <2>10 DEF OnePlace
        <3> QED BY <3>1, <3>2 DEF Tokens
    <2>13. Announced'
        <3> SUFFICES ASSUME NEW c \in Balancers, pc'[c] = "hasdata", sq' # <<>>
                     PROVE  \E j \in Receivers : pc'[j] = "added"
            BY DEF Announced
        <3>1. pc[c] = "hasdata"
            BY <2>2, Constants
        <3>2. \E j \in Receivers : pc[j] = "added"
            BY <3>1, <1>1, <1>3 DEF Announced
        <3> QED BY <3>2, <1>1, <2>2, Constants
    <2> QED BY <2>3, <2>4, <2>11, <2>12, <2>13 DEF ShareInv
<1> QED BY <1>2, <1>3

LEMMA WakeWritersShareInv ==
    ASSUME ShareInv, NEW b \in Balancers, pc[b] = "removed", WakeWriters(b),
           UNCHANGED <<sq, cnt, freed, id, todo, wire>>
    PROVE  ShareInv'
<1>1. /\ b \in Kids /\ PlacesOK /\ SetUp /\ Announced /\ b \notin Receivers /\ Running
    BY Constants, BusyRuns DEF ShareInv
<1>2. \A u \in Kids : pc[u] # "spaceavail"
    BY DEF PlacesOK, BalancerPlaces, ReceiverPlaces, ShareInv
<1>3. pc'[b] = "give" /\ \A u \in Kids : u # b => pc'[u] = pc[u]
    BY <1>1, <1>2, BroadcastFacts DEF WakeWriters
<1>4. PlacesOK'
    <2>1. pc' \in [Kids -> BalancerPlaces \cup ReceiverPlaces]
        <3>1. DOMAIN pc' = Kids /\ pc' = [u \in Kids |-> pc'[u]]
            BY DEF WakeWriters, Broadcast
        <3>2. \A u \in Kids : pc'[u] \in BalancerPlaces \cup ReceiverPlaces
            BY <1>1, <1>3 DEF PlacesOK, BalancerPlaces
        <3> QED BY <3>1, <3>2
    <2> QED BY <2>1, <1>1, <1>3, Constants DEF PlacesOK, BalancerPlaces
<1>5. Announced'
    BY <1>1, <1>3, Constants DEF Announced
<1> QED BY <1>1, <1>3, <1>4, <1>5, QuietStep

(* The job goes to the thread of the receiver, and the number with it. *)
LEMMA GiveShareInv ==
    ASSUME ShareInv, NEW b \in Balancers, pc[b] = "give", Goto(b, "idle"),
           wire' = [wire EXCEPT ![id[b]] = Append(@, <<b, todo[b]>>)],
           todo' = [todo EXCEPT ![b] = @ - 1], id' = [id EXCEPT ![b] = 0],
           UNCHANGED <<sq, cnt, freed>>
    PROVE  ShareInv'
<1>1. /\ b \in Kids /\ PlacesOK /\ DataOK /\ SetUp /\ Tokens /\ OnceThere /\ Announced
      /\ b \notin Receivers /\ Running
    BY Constants, BusyRuns DEF ShareInv, Tokens
<1>c. PICK i : i = id[b]
    OBVIOUS
<1>2. i \in Receivers /\ i # 0 /\ Has(b, i) /\ id[b] = i
    BY <1>1, <1>c, Constants DEF DataOK, Has
<1>3. pc'[b] = "idle" /\ \A u \in Kids : u # b => pc'[u] = pc[u]
    BY <1>1, GotoFacts
<1>4. PlacesOK'
    BY <1>1, GotoFacts DEF BalancerPlaces
<1>5. SetUp' /\ Counted' /\ Filled
    BY <1>1, <1>3, RunningStep
<1>6. OnePlace(i) /\ \A j \in Receivers : OnePlace(j)
    BY <1>1, <1>2, <1>5 DEF Tokens
<1>7. wire[i] = <<>>
    BY <1>2, <1>6 DEF OnePlace, Held, Sent
<1>8. /\ wire' \in [Receivers -> Seq(Balancers \X Int)]
      /\ wire'[i] = <<<<b, todo[b]>>>> /\ \A j \in Receivers : j # i => wire'[j] = wire[j]
    <2>1. <<b, todo[b]>> \in Balancers \X Int
        BY <1>1 DEF DataOK
    <2>2. PICK job \in Balancers \X Int : job = <<b, todo[b]>>
        BY <2>1
    <2>3. wire' = [wire EXCEPT ![i] = Append(@, job)]
        BY <2>2, <1>c
    <2>4. Append(wire[i], job) = <<job>> /\ <<job>> \in Seq(Balancers \X Int)
        BY <1>7, <2>2
    <2> QED BY <2>2, <2>3, <2>4, <1>1, <1>2 DEF DataOK
<1>9. wire'[i] # <<>> /\ Len(wire'[i]) = 1
    <2>1. \A x : Len(<<x>>) = 1 /\ <<x>> # <<>>
        <3> TAKE x
        <3>1. Len(<<x>>) = 1 /\ Len(<<>>) = 0
            OBVIOUS
        <3> QED BY <3>1
    <2>2. PICK job : wire'[i] = <<job>>
        BY <1>8
    <2> QED BY <2>1, <2>2
<1>10. /\ \A c \in Balancers : \A j \in Receivers : c # b => (Has(c, j)' <=> Has(c, j))
       /\ \A j \in Receivers : ~Has(b, j)' /\ (Has(b, j) <=> j = i)
    <2>1. \A c \in Balancers : c # b => id'[c] = id[c]
        BY <1>1 DEF DataOK
    <2> QED BY <2>1, <1>2, <1>3, Constants DEF Has
<1>11. /\ \A j \in Receivers : (Queued(j)' <=> Queued(j)) /\ (Returning(j)' <=> Returning(j))
       /\ \A j \in Receivers : j # i => (Held(j)' <=> Held(j)) /\ (Sent(j)' <=> Sent(j))
       /\ Held(i) /\ ~Held(i)' /\ Sent(i)'
    <2>1. \A j \in Receivers : (Queued(j)' <=> Queued(j)) /\ (Returning(j)' <=> Returning(j))
        BY <1>1, <1>3, Constants DEF Queued, Returning
    <2>2. \A j \in Receivers : j # i => (Held(j)' <=> Held(j)) /\ (Sent(j)' <=> Sent(j))
        BY <1>8, <1>10 DEF Held, Sent
    <2>3. Held(i)
        BY <1>2 DEF Held
    <2>4. ~Held(i)'
        <3> SUFFICES ASSUME NEW c \in Balancers, Has(c, i)' PROVE FALSE
            BY DEF Held
        <3>1. c # b /\ Has(c, i)
            BY <1>2, <1>10
        <3> QED BY <3>1, <1>1, <1>2 DEF OnceThere
    <2>5. Sent(i)'
        BY <1>9 DEF Sent
    <2> QED BY <2>1, <2>2, <2>3, <2>4, <2>5
<1>12. DataOK'
    <2>1. id' \in [Balancers -> 0 .. Channels] /\ todo' \in [Balancers -> Int]
        BY <1>1, Constants DEF DataOK
    <2>2. \A c \in Balancers : c # b => id'[c] = id[c] /\ pc'[c] = pc[c]
        BY <1>1, <1>3, Constants DEF DataOK
    <2> QED BY <2>1, <2>2, <1>1, <1>3, <1>8 DEF DataOK
<1>13. Tokens'
    <2>1. OnceThere'
        <3>1. \A j \in Receivers : Len(wire'[j]) <= 1
            <4> TAKE j \in Receivers
            <4>1. CASE j = i
                <5>1. \A n : n = 1 => n <= 1
                    OBVIOUS
                <5>2. Len(wire'[j]) = 1
                    BY <4>1, <1>9
                <5> QED BY <5>1, <5>2
            <4>2. CASE j # i
                BY <4>2, <1>1, <1>8 DEF OnceThere
            <4> QED BY <4>1, <4>2
        <3>2. \A c, d \in Balancers : \A j \in Receivers : Has(c, j)' /\ Has(d, j)' => c = d
            BY <1>1, <1>10 DEF OnceThere
        <3>3. \A m, n \in 1 .. Len(sq') : sq'[m] = sq'[n] => m = n
            BY <1>1 DEF OnceThere
        <3> QED BY <3>1, <3>2, <3>3 DEF OnceThere
    <2>2. \A j \in Receivers : OnePlace(j)'
        BY <1>6, <1>11 DEF OnePlace
    <2> QED BY <2>1, <2>2 DEF Tokens
<1>14. Announced'
    BY <1>1, <1>3, Constants DEF Announced
<1> QED BY <1>4, <1>5, <1>12, <1>13, <1>14 DEF ShareInv

LEMMA BalancerShareInv ==
    ASSUME ShareInv, NEW b \in Balancers, ProcessBalance(b)
    PROVE  ShareInv'
<1>1. CASE /\ pc[b] = "idle" /\ Running /\ Goto(b, "remove")
           /\ UNCHANGED <<sq, cnt, freed, id, todo, wire>>
    BY <1>1, BeginShareInv
<1>2. CASE pc[b] = "remove" /\ mwmr_queue_remove(b)
    BY <1>2, LookShareInv
<1>3. CASE pc[b] = "removed" /\ WakeWriters(b) /\ UNCHANGED <<sq, cnt, freed, id, todo, wire>>
    BY <1>3, WakeWritersShareInv
<1>4. CASE /\ pc[b] = "give" /\ Goto(b, "idle")
           /\ wire' = [wire EXCEPT ![id[b]] = Append(@, <<b, todo[b]>>)]
           /\ todo' = [todo EXCEPT ![b] = @ - 1] /\ id' = [id EXCEPT ![b] = 0]
           /\ UNCHANGED <<sq, cnt, freed>>
    BY <1>4, GiveShareInv
<1> QED BY <1>1, <1>2, <1>3, <1>4 DEF ProcessBalance

-----------------------------------------------------------------------------
(* The steps of a receiver. *)
LEMMA TakeUpShareInv ==
    ASSUME ShareInv, NEW i \in Receivers, pc[i] = "idle", wire[i] # <<>>, Running, Goto(i, "add"),
           wire' = [wire EXCEPT ![i] = Tail(@)], UNCHANGED <<sq, cnt, freed, id, todo>>
    PROVE  ShareInv'
<1>1. /\ i \in Kids /\ PlacesOK /\ DataOK /\ SetUp /\ Tokens /\ OnceThere /\ Announced
      /\ i \notin Balancers
    BY Constants DEF ShareInv, Tokens
<1>3. pc'[i] = "add" /\ \A u \in Kids : u # i => pc'[u] = pc[u]
    BY <1>1, GotoFacts
<1>4. PlacesOK'
    BY <1>1, GotoFacts DEF ReceiverPlaces
<1>5. SetUp' /\ Counted' /\ Filled
    BY <1>1, <1>3, RunningStep
<1>6. \A j \in Receivers : OnePlace(j)
    BY <1>1, <1>5 DEF Tokens
<1>7. /\ wire' \in [Receivers -> Seq(Balancers \X Int)]
      /\ wire'[i] = <<>> /\ \A j \in Receivers : j # i => wire'[j] = wire[j]
    <2>1. wire[i] \in Seq(Balancers \X Int) /\ Len(wire[i]) <= 1
        BY <1>1 DEF DataOK, OnceThere
    <2>2. \A S : \A list \in Seq(S) : list # <<>> /\ Len(list) <= 1 => Tail(list) = <<>>
        <3> SUFFICES ASSUME NEW S, NEW list \in Seq(S), list # <<>>, Len(list) <= 1
                     PROVE  Tail(list) = <<>>
            OBVIOUS
        <3>0. Len(list) \in Nat /\ (Len(list) = 0 <=> list = <<>>)
            OBVIOUS
        <3>1. Len(list) = 1
            <4>1. PICK n \in Nat : n = Len(list)
                BY <3>0
            <4>2. n # 0 /\ n <= 1
                BY <3>0, <4>1
            <4>3. n = 1
                BY <4>2
            <4> QED BY <4>1, <4>3
        <3>2. Tail(list) \in Seq(S) /\ Len(Tail(list)) = 0
            BY <3>1
        <3> QED BY <3>2
    <2>3. Tail(wire[i]) = <<>>
        BY <2>1, <2>2
    <2>4. <<>> \in Seq(Balancers \X Int)
        OBVIOUS
    <2> QED BY <2>3, <2>4, <1>1 DEF DataOK
<1>8. \A b \in Balancers : pc'[b] = pc[b]
    BY <1>1, <1>3, Constants
<1>9. \A b \in Balancers : \A j \in Receivers : Has(b, j)' <=> Has(b, j)
    BY <1>8 DEF Has
<1>10. /\ \A j \in Receivers : (Queued(j)' <=> Queued(j)) /\ (Held(j)' <=> Held(j))
       /\ \A j \in Receivers : j # i => (Sent(j)' <=> Sent(j)) /\ (Returning(j)' <=> Returning(j))
       /\ Sent(i) /\ ~Sent(i)' /\ Returning(i)'
    BY <1>3, <1>7, <1>9, Constants DEF Queued, Held, Sent, Returning
<1>11. DataOK'
    BY <1>1, <1>7, <1>8 DEF DataOK
<1>12. Tokens'
    <2>1. OnceThere'
        BY <1>1, <1>7, <1>9 DEF OnceThere
    <2>2. \A j \in Receivers : OnePlace(j)'
        BY <1>6, <1>10 DEF OnePlace
    <2> QED BY <2>1, <2>2 DEF Tokens
<1>13. Announced'
    BY <1>1, <1>3, <1>8, Constants DEF Announced
<1> QED BY <1>4, <1>5, <1>11, <1>12, <1>13 DEF ShareInv

(* The number goes back to the end of the queue, which has room for it. *)
LEMMA PutBackShareInv ==
    ASSUME ShareInv, NEW i \in Receivers, pc[i] = "add", mwmr_queue_add(i, i)
    PROVE  ShareInv'
<1>1. /\ i \in Kids /\ PlacesOK /\ DataOK /\ SetUp /\ Tokens /\ OnceThere /\ Announced
      /\ i \notin Balancers /\ Running /\ UNCHANGED <<cnt, freed, id, todo, wire>>
    BY Constants, BusyRuns DEF ShareInv, Tokens, mwmr_queue_add
<1>2. Goto(i, "added") /\ sq' = Append(sq, i)
    BY <1>1, QueueHasRoom DEF mwmr_queue_add
<1>3. pc'[i] = "added" /\ \A u \in Kids : u # i => pc'[u] = pc[u]
    BY <1>1, <1>2, GotoFacts
<1>4. PlacesOK'
    BY <1>1, <1>2, GotoFacts DEF ReceiverPlaces
<1>5. SetUp' /\ Counted' /\ Filled
    BY <1>1, <1>3, RunningStep
<1>6. \A j \in Receivers : OnePlace(j)
    BY <1>1, <1>5 DEF Tokens
<1>7. PICK n \in Nat : n = Len(sq)
    BY <1>1 DEF DataOK
<1>8. /\ sq' \in Seq(Receivers) /\ Len(sq') = n + 1 /\ sq'[n + 1] = i
      /\ \A m \in 1 .. n : sq'[m] = sq[m] /\ m \in 1 .. n + 1
      /\ \A m \in 1 .. n + 1 : m \in 1 .. n \/ m = n + 1
      /\ n + 1 \in 1 .. n + 1
    BY <1>1, <1>2, <1>7 DEF DataOK
<1>9. ~Queued(i)
    BY <1>6 DEF OnePlace, Returning
<1>10. \A m \in 1 .. n : sq[m] # i
    BY <1>7, <1>9 DEF Queued
<1>11. \A b \in Balancers : pc'[b] = pc[b]
    BY <1>1, <1>3, Constants
<1>12. \A b \in Balancers : \A j \in Receivers : Has(b, j)' <=> Has(b, j)
    BY <1>1, <1>11 DEF Has
<1>13. /\ \A j \in Receivers : (Sent(j)' <=> Sent(j)) /\ (Held(j)' <=> Held(j))
       /\ \A j \in Receivers : j # i => (Returning(j)' <=> Returning(j))
       /\ Returning(i) /\ ~Returning(i)'
    BY <1>1, <1>3, <1>12, Constants DEF Held, Sent, Returning
<1>14. Queued(i)' /\ \A j \in Receivers : j # i => (Queued(j)' <=> Queued(j))
    <2>1. Queued(i)'
        BY <1>8 DEF Queued
    <2>2. \A j \in Receivers : Queued(j) => Queued(j)'
        BY <1>7, <1>8 DEF Queued
    <2>3. \A j \in Receivers : j # i /\ Queued(j)' => Queued(j)
        BY <1>7, <1>8 DEF Queued
    <2> QED BY <2>1, <2>2, <2>3
<1>15. DataOK'
    BY <1>1, <1>8, <1>11 DEF DataOK
<1>16. Tokens'
    <2>1. OnceThere'
        <3>1. \A k, m \in 1 .. n : sq[k] = sq[m] => k = m
            BY <1>1, <1>7 DEF OnceThere
        <3>2. \A k, m \in 1 .. n + 1 : sq'[k] = sq'[m] => k = m
            BY <3>1, <1>8, <1>10
        <3> QED BY <3>2, <1>1, <1>8, <1>12 DEF OnceThere
    <2>2. \A j \in Receivers : OnePlace(j)'
        BY <1>6, <1>13, <1>14 DEF OnePlace
    <2> QED BY <2>1, <2>2 DEF Tokens
<1>17. Announced'
    BY <1>3 DEF Announced
<1> QED BY <1>4, <1>5, <1>15, <1>16, <1>17 DEF ShareInv

LEMMA WakeReadersShareInv ==
    ASSUME ShareInv, NEW i \in Receivers, pc[i] = "added", WakeReaders(i),
           UNCHANGED <<sq, cnt, freed, id, todo, wire>>
    PROVE  ShareInv'
<1>1. i \in Kids /\ PlacesOK /\ SetUp /\ i \notin Balancers /\ Running
    BY Constants, BusyRuns DEF ShareInv
<1>2. /\ pc'[i] = "work"
      /\ \A u \in Kids : u # i => pc'[u] = IF pc[u] = "hasdata" THEN "remove" ELSE pc[u]
    BY <1>1, BroadcastFacts DEF WakeReaders
<1>3. \A j \in Receivers : pc[j] # "hasdata"
    BY <1>1 DEF PlacesOK, ReceiverPlaces
<1>4. PlacesOK'
    <2>1. \A b \in Balancers : pc'[b] \in BalancerPlaces
        BY <1>1, <1>2, Constants DEF PlacesOK, BalancerPlaces
    <2>2. \A j \in Receivers : pc'[j] \in ReceiverPlaces
        BY <1>1, <1>2, <1>3, Constants DEF PlacesOK, ReceiverPlaces
    <2>3. pc' = [u \in Kids |-> pc'[u]]
        BY DEF WakeReaders, Broadcast
    <2>4. \A u \in Kids : pc'[u] \in BalancerPlaces \cup ReceiverPlaces
        BY <2>1, <2>2 DEF Kids
    <2>5. pc' \in [Kids -> BalancerPlaces \cup ReceiverPlaces]
        BY <2>3, <2>4
    <2> QED BY <2>1, <2>2, <2>5 DEF PlacesOK
<1>5. Announced'
    <2>1. \A b \in Balancers : pc'[b] # "hasdata"
        BY <1>1, <1>2, Constants
    <2> QED BY <2>1 DEF Announced
<1>6. \A u \in Kids : pc'[u] # pc[u] =>
          /\ {pc[u], pc'[u]} \cap {"new", "gone", "add"} = {}
          /\ pc[u] \in {"removed", "give"} <=> pc'[u] \in {"removed", "give"}
    BY <1>2
<1> QED BY <1>1, <1>4, <1>5, <1>6, QuietStep

LEMMA EndWorkShareInv ==
    ASSUME ShareInv, NEW i \in Receivers, pc[i] = "work", Goto(i, "idle"),
           UNCHANGED <<sq, cnt, freed, id, todo, wire>>
    PROVE  ShareInv'
<1>1. i \in Kids /\ PlacesOK /\ SetUp /\ i \notin Balancers /\ Running /\ Announced
    BY Constants, BusyRuns DEF ShareInv
<1>2. pc'[i] = "idle" /\ \A u \in Kids : u # i => pc'[u] = pc[u]
    BY <1>1, GotoFacts
<1>3. PlacesOK'
    BY <1>1, GotoFacts DEF ReceiverPlaces
<1>4. Announced'
    BY <1>1, <1>2, Constants DEF Announced
<1> QED BY <1>1, <1>2, <1>3, <1>4, QuietStep

LEMMA ReceiverShareInv ==
    ASSUME ShareInv, NEW i \in Receivers, ProcessReceive(i)
    PROVE  ShareInv'
<1>1. CASE /\ pc[i] = "idle" /\ wire[i] # <<>> /\ Running /\ Goto(i, "add")
           /\ wire' = [wire EXCEPT ![i] = Tail(@)] /\ UNCHANGED <<sq, cnt, freed, id, todo>>
    BY <1>1, TakeUpShareInv
<1>2. CASE pc[i] = "add" /\ mwmr_queue_add(i, my_shared_id(i))
    BY <1>2, PutBackShareInv DEF my_shared_id
<1>3. CASE pc[i] = "added" /\ WakeReaders(i) /\ UNCHANGED <<sq, cnt, freed, id, todo, wire>>
    BY <1>3, WakeReadersShareInv
<1>4. CASE pc[i] = "work" /\ Goto(i, "idle") /\ UNCHANGED <<sq, cnt, freed, id, todo, wire>>
    BY <1>4, EndWorkShareInv
<1> QED BY <1>1, <1>2, <1>3, <1>4 DEF ProcessReceive

-----------------------------------------------------------------------------
(* A thread that wakes up by itself looks again. *)
LEMMA SpuriousShareInv ==
    ASSUME ShareInv, NEW t \in Kids, Spurious(t)
    PROVE  ShareInv'
<1>1. /\ PlacesOK /\ SetUp /\ Announced /\ pc[t] = "hasdata"
      /\ UNCHANGED <<sq, cnt, freed, id, todo, wire>>
    BY DEF ShareInv, Spurious, PlacesOK, BalancerPlaces, ReceiverPlaces
<1>2. Running /\ t \in Balancers /\ t \notin Receivers /\ Goto(t, "remove")
    BY <1>1, Constants, BusyRuns DEF Spurious, PlacesOK, ReceiverPlaces, Kids
<1>3. pc'[t] = "remove" /\ \A u \in Kids : u # t => pc'[u] = pc[u]
    BY <1>1, <1>2, GotoFacts
<1>4. PlacesOK'
    BY <1>1, <1>2, GotoFacts DEF BalancerPlaces
<1>5. Announced'
    BY <1>1, <1>2, <1>3, Constants DEF Announced
<1> QED BY <1>1, <1>2, <1>3, <1>4, <1>5, QuietStep

(* A kid more, and a kid less, that uses the queue. *)
LEMMA OneSharerMore ==
    ASSUME cnt = Cardinality(Sharers), NEW t \in Kids, pc[t] \in {"new", "gone"},
           pc'[t] \notin {"new", "gone"}, \A u \in Kids : u # t => pc'[u] = pc[u], cnt' = cnt + 1
    PROVE  cnt' = Cardinality(Sharers')
<1>1. Sharers' = Sharers \cup {t} /\ t \notin Sharers
    BY DEF Sharers
<1>2. IsFiniteSet(Sharers)
    BY Constants, FS_Subset DEF Sharers
<1>3. Cardinality(Sharers \cup {t}) = IF t \in Sharers THEN Cardinality(Sharers) ELSE Cardinality(Sharers) + 1
    BY <1>2, FS_AddElement
<1> QED BY <1>1, <1>3

LEMMA OneSharerLess ==
    ASSUME cnt = Cardinality(Sharers), NEW t \in Kids, pc[t] \notin {"new", "gone"},
           pc'[t] \in {"new", "gone"}, \A u \in Kids : u # t => pc'[u] = pc[u], cnt' = cnt - 1
    PROVE  cnt' = Cardinality(Sharers') /\ (cnt' = 0 <=> Sharers' = {})
<1>1. Sharers' = Sharers \ {t} /\ t \in Sharers
    BY DEF Sharers
<1>2. IsFiniteSet(Sharers)
    BY Constants, FS_Subset DEF Sharers
<1>3. /\ IsFiniteSet(Sharers \ {t})
      /\ Cardinality(Sharers \ {t}) = IF t \in Sharers THEN Cardinality(Sharers) - 1 ELSE Cardinality(Sharers)
    BY <1>2, FS_RemoveElement
<1>4. cnt' = Cardinality(Sharers')
    BY <1>1, <1>3
<1>5. Cardinality(Sharers') = 0 <=> Sharers' = {}
    BY <1>1, <1>3, FS_EmptySet
<1> QED BY <1>4, <1>5

LEMMA InitBalancerShareInv ==
    ASSUME ShareInv, NEW b \in Balancers, proc_init(b)
    PROVE  ShareInv'
<1>1. /\ b \in Kids /\ b \notin Receivers
      /\ PlacesOK /\ DataOK /\ SetUp /\ Tokens /\ OnceThere /\ Announced /\ Counted
      /\ pc[b] = "new" /\ Goto(b, "idle") /\ cnt' = cnt + 1 /\ UNCHANGED <<freed, id, todo, wire>>
      /\ sq' = IF cnt = 0 THEN [i \in Receivers |-> i] ELSE sq
    BY Constants DEF ShareInv, Tokens, proc_init
<1>2. pc'[b] = "idle" /\ \A u \in Kids : u # b => pc'[u] = pc[u]
    BY <1>1, GotoFacts
<1>3. PlacesOK'
    BY <1>1, GotoFacts DEF BalancerPlaces
<1>4. ~Running /\ \A u \in Kids : pc[u] \in {"new", "idle"} /\ pc'[u] \in {"new", "idle"}
    BY <1>1, <1>2 DEF Running, SetUp
<1>5. SetUp' /\ Filled'
    BY <1>1, <1>2, <1>4 DEF SetUp, Filled
<1>6. Counted'
    <2>1. cnt' = Cardinality(Sharers')
        BY <1>1, <1>2, OneSharerMore DEF Counted
    <2>2. ~(\A u \in Kids : pc[u] = "gone") /\ ~(\A u \in Kids : pc'[u] = "gone")
        BY <1>1, <1>2
    <2> QED BY <2>1, <2>2, <1>1 DEF Counted
<1>7. cnt = 0 <=> ~Filled
    <2>1. IsFiniteSet(Sharers)
        BY Constants, FS_Subset DEF Sharers
    <2>2. cnt = 0 <=> Sharers = {}
        BY <2>1, <1>1, FS_EmptySet DEF Counted
    <2>3. Sharers = {} <=> ~Filled
        BY <1>4 DEF Sharers, Filled
    <2> QED BY <2>2, <2>3
<1>8. /\ \A c \in Balancers : \A i \in Receivers : ~Has(c, i)' /\ ~Has(c, i)
      /\ \A i \in Receivers : ~Returning(i)'
      /\ \A i \in Receivers : ~Returning(i)
    BY <1>4, Constants DEF Has, Returning
<1>9. Announced'
    BY <1>4, Constants DEF Announced
<1>10. \A c \in Balancers : pc'[c] \notin {"removed", "give"}
    BY <1>4, Constants
<1>11. CASE cnt = 0
    <2>1. sq' = [i \in 1 .. Channels |-> i] /\ \A i \in Receivers : wire[i] = <<>> /\ wire'[i] = <<>>
        BY <1>1, <1>7, <1>11 DEF SetUp, Receivers
    <2>2. sq' \in Seq(Receivers) /\ Len(sq') = Channels /\ \A n \in 1 .. Channels : sq'[n] = n
        <3>1. sq' \in [1 .. Channels -> Receivers]
            BY <2>1 DEF Receivers
        <3>2. Len(sq') = Channels
            BY <2>1, Constants
        <3> QED BY <2>1, <3>1, <3>2, Constants
    <2>3. DataOK'
        BY <1>1, <1>10, <2>2 DEF DataOK
    <2>4. OnceThere'
        <3>1. Len(<<>>) <= 1
            OBVIOUS
        <3> QED BY <3>1, <1>8, <2>1, <2>2 DEF OnceThere
    <2>5. \A i \in Receivers : OnePlace(i)'
        <3> TAKE i \in Receivers
        <3>1. Queued(i)'
            BY <2>2 DEF Queued, Receivers
        <3>2. ~Held(i)' /\ ~Sent(i)' /\ ~Returning(i)'
            BY <1>8, <2>1 DEF Held, Sent
        <3> QED BY <3>1, <3>2 DEF OnePlace
    <2>6. Tokens'
        BY <2>4, <2>5 DEF Tokens
    <2> QED BY <1>3, <1>5, <1>6, <1>9, <2>3, <2>6 DEF ShareInv
<1>12. CASE cnt # 0
    <2>1. sq' = sq /\ Filled
        BY <1>1, <1>7, <1>12
    <2>2. DataOK'
        BY <1>1, <1>10, <2>1 DEF DataOK
    <2>3. OnceThere'
        BY <1>1, <1>8, <2>1 DEF OnceThere
    <2>4. \A i \in Receivers : OnePlace(i)'
        <3> TAKE i \in Receivers
        <3>1. OnePlace(i)
            BY <1>1, <2>1 DEF Tokens
        <3>2. (Queued(i)' <=> Queued(i)) /\ (Sent(i)' <=> Sent(i)) /\ ~Held(i)' /\ ~Held(i)
            BY <1>1, <1>8, <2>1 DEF Queued, Sent, Held
        <3> QED BY <3>1, <3>2, <1>8 DEF OnePlace
    <2>5. Tokens'
        BY <2>3, <2>4 DEF Tokens
    <2> QED BY <1>3, <1>5, <1>6, <1>9, <2>2, <2>5 DEF ShareInv
<1> QED BY <1>11, <1>12

LEMMA InitReceiverShareInv ==
    ASSUME ShareInv, NEW i \in Receivers, proc_init_finish(i)
    PROVE  ShareInv'
<1>1. /\ i \in Kids /\ i \notin Balancers
      /\ PlacesOK /\ DataOK /\ SetUp /\ Tokens /\ OnceThere /\ Announced /\ Counted
      /\ pc[i] = "new" /\ Goto(i, "idle") /\ cnt' = cnt + 1 /\ UNCHANGED <<sq, freed, id, todo, wire>>
      /\ \A b \in Balancers : pc[b] # "new"
    BY Constants DEF ShareInv, Tokens, proc_init_finish
<1>2. pc'[i] = "idle" /\ \A u \in Kids : u # i => pc'[u] = pc[u]
    BY <1>1, GotoFacts
<1>3. PlacesOK'
    BY <1>1, GotoFacts DEF ReceiverPlaces
<1>4. /\ ~Running /\ Filled /\ Filled'
      /\ \A u \in Kids : pc[u] \in {"new", "idle"} /\ pc'[u] \in {"new", "idle"}
    BY <1>1, <1>2, Constants DEF Running, SetUp, Filled
<1>5. SetUp'
    BY <1>4 DEF SetUp
<1>6. Counted'
    <2>1. cnt' = Cardinality(Sharers')
        BY <1>1, <1>2, OneSharerMore DEF Counted
    <2>2. ~(\A u \in Kids : pc[u] = "gone") /\ ~(\A u \in Kids : pc'[u] = "gone")
        BY <1>1, <1>2
    <2> QED BY <2>1, <2>2, <1>1 DEF Counted
<1>7. \A b \in Balancers : pc'[b] = pc[b]
    BY <1>1, <1>2, Constants
<1>8. \A j \in Receivers : ~Returning(j)' /\ ~Returning(j)
    BY <1>4, Constants DEF Returning
<1>9. \A b \in Balancers : \A j \in Receivers : Has(b, j)' <=> Has(b, j)
    BY <1>1, <1>7 DEF Has
<1>10. DataOK'
    BY <1>1, <1>7 DEF DataOK
<1>11. OnceThere'
    BY <1>1, <1>9 DEF OnceThere
<1>12. \A j \in Receivers : OnePlace(j)'
    <2> TAKE j \in Receivers
    <2>1. OnePlace(j)
        BY <1>1, <1>4 DEF Tokens
    <2>2. (Queued(j)' <=> Queued(j)) /\ (Sent(j)' <=> Sent(j)) /\ (Held(j)' <=> Held(j))
        BY <1>1, <1>9 DEF Queued, Sent, Held
    <2> QED BY <2>1, <2>2, <1>8 DEF OnePlace
<1>13. Tokens'
    BY <1>11, <1>12 DEF Tokens
<1>14. Announced'
    BY <1>4, Constants DEF Announced
<1> QED BY <1>3, <1>5, <1>6, <1>10, <1>13, <1>14 DEF ShareInv

LEMMA DestroyShareInv ==
    ASSUME ShareInv, NEW t \in Kids, proc_destroy(t)
    PROVE  ShareInv'
<1>1. /\ PlacesOK /\ DataOK /\ SetUp /\ Tokens /\ OnceThere /\ Announced /\ Counted
      /\ pc[t] = "idle" /\ Goto(t, "gone") /\ cnt' = cnt - 1 /\ (freed' <=> (freed \/ cnt' = 0))
      /\ freed' \in BOOLEAN
      /\ UNCHANGED <<sq, id, todo, wire>> /\ \A u \in Kids : pc[u] \in {"idle", "gone"}
    BY DEF ShareInv, Tokens, proc_destroy, Ended, Counted
<1>2. pc'[t] = "gone" /\ \A u \in Kids : u # t => pc'[u] = pc[u]
    BY <1>1, GotoFacts
<1>3. PlacesOK'
    BY <1>1, GotoFacts DEF BalancerPlaces, ReceiverPlaces, Kids
<1>4. /\ Running /\ Running' /\ Filled /\ Filled'
      /\ \A u \in Kids : pc'[u] \in {"idle", "gone"}
    BY <1>1, <1>2 DEF Running, Filled
<1>5. SetUp'
    BY <1>4 DEF SetUp
<1>6. Counted'
    <2>1. cnt' = Cardinality(Sharers') /\ (cnt' = 0 <=> Sharers' = {})
        BY <1>1, <1>2, OneSharerLess DEF Counted
    <2>2. Sharers' = {} <=> \A u \in Kids : pc'[u] = "gone"
        BY <1>4 DEF Sharers
    <2>3. ~freed
        BY <1>1 DEF Counted
    <2> QED BY <2>1, <2>2, <2>3, <1>1 DEF Counted
<1>7. \A j \in Receivers : ~Returning(j)' /\ ~Returning(j)
    BY <1>1, <1>4, Constants DEF Returning
<1>8. \A b \in Balancers : \A j \in Receivers : ~Has(b, j)' /\ ~Has(b, j)
    BY <1>1, <1>4, Constants DEF Has
<1>9. DataOK'
    BY <1>1, <1>4, Constants DEF DataOK
<1>10. OnceThere'
    BY <1>1, <1>8 DEF OnceThere
<1>11. \A j \in Receivers : OnePlace(j)'
    <2> TAKE j \in Receivers
    <2>1. OnePlace(j)
        BY <1>1, <1>4 DEF Tokens
    <2>2. (Queued(j)' <=> Queued(j)) /\ (Sent(j)' <=> Sent(j)) /\ (Held(j)' <=> Held(j))
        BY <1>1, <1>8 DEF Queued, Sent, Held
    <2> QED BY <2>1, <2>2, <1>7 DEF OnePlace
<1>12. Tokens'
    BY <1>10, <1>11 DEF Tokens
<1>13. Announced'
    BY <1>4, Constants DEF Announced
<1> QED BY <1>3, <1>5, <1>6, <1>9, <1>12, <1>13 DEF ShareInv

LEMMA ShareInvIsInductive == ShareInv /\ [Next]_vars => ShareInv'
<1> SUFFICES ASSUME ShareInv, [Next]_vars PROVE ShareInv'
    OBVIOUS
<1>1. CASE UNCHANGED vars
    BY <1>1 DEF ShareInv, vars, PlacesOK, DataOK, SetUp, Tokens, Announced, Counted, OnceThere,
        OnePlace, Queued, Held, Sent, Returning, Has, Sharers, Running, Filled
<1>2. CASE \E b \in Balancers : proc_init(b) \/ ProcessBalance(b)
    BY <1>2, InitBalancerShareInv, BalancerShareInv
<1>3. CASE \E i \in Receivers : proc_init_finish(i) \/ ProcessReceive(i)
    BY <1>3, InitReceiverShareInv, ReceiverShareInv
<1>4. CASE \E t \in Kids : Spurious(t) \/ proc_destroy(t)
    BY <1>4, SpuriousShareInv, DestroyShareInv
<1> QED BY <1>1, <1>2, <1>3, <1>4 DEF Next

(* A receiver's number is in exactly one place, so that no job waits       *)
(* behind another one, no add finds the queue full, and a number that is   *)
(* there is announced to those who wait; the queue is freed by the last.   *)
THEOREM TokensAreConserved == Spec => []TokensConserved
<1>1. ASSUME ShareInv PROVE TokensConserved
    <2>1. /\ PlacesOK /\ DataOK /\ Tokens /\ OnceThere /\ Announced /\ Counted
        BY <1>1 DEF ShareInv, Tokens
    <2>2. ASSUME Running, NEW i \in Receivers
          PROVE  Cardinality(InQueue(i)) + Cardinality({b \in Balancers : Has(b, i)})
                   + Len(wire[i]) + (IF pc[i] = "add" THEN 1 ELSE 0) = 1
        <3>1. OnePlace(i)
            BY <2>1, <2>2, Constants DEF Tokens, Running, Filled
        <3>2. Cardinality(InQueue(i)) = IF Queued(i) THEN 1 ELSE 0
            <4>1. CASE Queued(i)
                <5>1. PICK n \in 1 .. Len(sq) : sq[n] = i
                    BY <4>1 DEF Queued
                <5>2. InQueue(i) = {n}
                    BY <5>1, <2>1 DEF InQueue, OnceThere
                <5> QED BY <4>1, <5>2, FS_Singleton
            <4>2. CASE ~Queued(i)
                <5>1. InQueue(i) = {}
                    BY <4>2 DEF InQueue, Queued
                <5> QED BY <4>2, <5>1, FS_EmptySet
            <4> QED BY <4>1, <4>2
        <3>3. Cardinality({b \in Balancers : Has(b, i)}) = IF Held(i) THEN 1 ELSE 0
            <4>1. CASE Held(i)
                <5>1. PICK c \in Balancers : Has(c, i)
                    BY <4>1 DEF Held
                <5>2. {b \in Balancers : Has(b, i)} = {c}
                    BY <5>1, <2>1 DEF OnceThere
                <5> QED BY <4>1, <5>2, FS_Singleton
            <4>2. CASE ~Held(i)
                <5>1. {b \in Balancers : Has(b, i)} = {}
                    BY <4>2 DEF Held
                <5> QED BY <4>2, <5>1, FS_EmptySet
            <4> QED BY <4>1, <4>2
        <3>4. Len(wire[i]) = IF Sent(i) THEN 1 ELSE 0
            <4>1. wire[i] \in Seq(Balancers \X Int) /\ Len(wire[i]) <= 1
                BY <2>1 DEF DataOK, OnceThere
            <4>2. \A S : \A list \in Seq(S) : /\ Len(list) \in Nat
                                              /\ Len(list) = 0 <=> list = <<>>
                OBVIOUS
            <4> QED BY <4>1, <4>2 DEF Sent
        <3>5. (IF pc[i] = "add" THEN 1 ELSE 0) = IF Returning(i) THEN 1 ELSE 0
            BY DEF Returning
        <3> QED BY <3>1, <3>2, <3>3, <3>4, <3>5 DEF OnePlace
    <2>3. Len(sq) <= Channels
        BY <2>1, QueueHasRoom
    <2>4. \A i \in Receivers : pc[i] # "spaceavail"
        BY <2>1 DEF PlacesOK, ReceiverPlaces
    <2>5. freed <=> \A t \in Kids : pc[t] = "gone"
        BY <2>1 DEF Counted
    <2> QED BY <2>1, <2>2, <2>3, <2>4, <2>5 DEF TokensConserved, Announced
<1>2. ShareInv => TokensConserved
    BY <1>1
<1> QED BY <1>2, InitShareInv, ShareInvIsInductive, PTL DEF Spec
=============================================================================
