------------------------- MODULE ExitProtocolProofs -------------------------
(***************************************************************************)
(* Proofs about module ExitProtocol, for any number of threads, any graph  *)
(* of kids and any queues.  First its barriers and turns; then the jobs    *)
(* and the data of module Dispatch as its threads use them: the reference  *)
(* counts are exact in any graph, no data is left behind, a run of a graph *)
(* whose jobs go from lower to higher threads ends with nothing queued,    *)
(* and the deadlock of a ring is seen.                                     *)
(***************************************************************************)
EXTENDS ExitProtocol, FiniteSetTheorems, Integers, WellFoundedInduction, TLAPS

(* What a thread is at: in a call that runs jobs, what it comes back to. *)
Calling == {"ext", "local", "failover", "refill"}
Where(t) == IF pc[t] \in Calling THEN back[t] ELSE pc[t]

ControlOK ==
    /\ pc \in [Threads -> Places]
    /\ back \in [Threads -> {"top", "recovered", "clear", "gather", "settling", "spun", "mined"}]
    /\ ithread \in [Threads -> Nat]
    /\ ready_to_flush \in Nat /\ ready_to_exit \in Nat
    /\ hop_to_next_thread_locext \in BOOLEAN
    /\ \A t \in Threads : pc[t] = "local" => back[t] \in {"top", "mined"}

(* Nobody goes on to the rounds before all threads have left their loops. *)
Looping == Running \cup {"stopped"}
Late == {t \in Threads : Where(t) \notin Looping}
Gathered ==
    /\ ready_to_flush = Cardinality(Late)
    /\ (\E t \in Late : Where(t) # "gather") => Late = Threads

(* The phases that all threads are in together.                            *)
BeforeRound ==
    /\ ready_to_exit < work_size
    /\ \A t \in Threads :
        /\ Where(t) \in Looping \cup {"gather", "settle", "settling", "round", "bar1"}
        /\ Where(t) = "bar1" => ithread[t] = 0

BeforeTurn(turn) ==
    /\ \A t \in Threads : /\ ithread[t] = turn
                          /\ Where(t) = "bar2" \/ (Where(t) = "setup" /\ t = 0)
    /\ Where(0) = "bar2" => ~hop_to_next_thread_locext

AfterTurn(turn) == IF turn + 1 < work_size THEN "bar1" ELSE "bar3"

Taking(t, turn) ==
    /\ ithread[t] = turn
    /\ \/ Where(t) = "turn"
       \/ Where(t) = "spun" /\ t # turn
       \/ Where(t) \in {"mined", "hop"} /\ t = turn
Through(t, turn) == ithread[t] = turn + 1 /\ Where(t) = AfterTurn(turn)

(* No thread gets through the turn before the one whose turn it is. *)
DuringTurn(turn) ==
    /\ \A t \in Threads : Taking(t, turn) \/ Through(t, turn)
    /\ hop_to_next_thread_locext \/ (\E t \in Threads : Through(t, turn)) => Through(turn, turn)

RoundsOver ==
    /\ ready_to_exit >= work_size
    /\ \A t \in Threads : \/ Where(t) \in {"round", "bar4"}
                          \/ Where(t) \in {"rewire", "flush"} /\ t = 0

Over == \A t \in Threads : Where(t) = "done"

Phase ==
    \/ BeforeRound
    \/ \E turn \in Threads : BeforeTurn(turn) \/ DuringTurn(turn)
    \/ RoundsOver
    \/ Over

ExitInv == ControlOK /\ Gathered /\ Phase

(* What a step of a thread can do to all this.                             *)
Goes(t, from, to) == Where(t) = from /\ Where(t)' = to
Counters == <<ready_to_flush, ready_to_exit, hop_to_next_thread_locext>>
Move(t) ==
    /\ \A u \in Threads \ {t} : Where(u)' = Where(u) /\ ithread'[u] = ithread[u]
    /\ \/ /\ ithread'[t] = ithread[t] /\ UNCHANGED Counters
          /\ \/ Where(t)' = Where(t)
             \/ {Where(t), Where(t)'} \subseteq Looping
             \/ Goes(t, "gather", "settle") /\ ready_to_flush = work_size
             \/ Goes(t, "settle", "round") \/ Goes(t, "settle", "settling") \/ Goes(t, "settling", "settle")
             \/ Goes(t, "round", IF t = 0 THEN "rewire" ELSE "bar4") /\ ready_to_exit >= work_size
             \/ Goes(t, "turn", "mined") /\ ithread[t] = t
             \/ Goes(t, "turn", "spun") /\ ithread[t] # t
             \/ Goes(t, "spun", "turn")
             \/ Goes(t, "rewire", "flush") \/ Goes(t, "flush", "bar4")
       \/ /\ Goes(t, "stopped", "gather") /\ ithread'[t] = ithread[t]
          /\ ready_to_flush' = ready_to_flush + 1
          /\ UNCHANGED <<ready_to_exit, hop_to_next_thread_locext>>
       \/ /\ Goes(t, "round", "bar1") /\ ready_to_exit < work_size
          /\ ithread'[t] = 0 /\ UNCHANGED Counters
       \/ /\ Goes(t, "setup", "bar2") /\ ithread'[t] = ithread[t] /\ ~hop_to_next_thread_locext'
          /\ UNCHANGED <<ready_to_flush, ready_to_exit>>
       \/ /\ Goes(t, "mined", "hop") /\ ithread'[t] = ithread[t]
          /\ UNCHANGED <<ready_to_flush, hop_to_next_thread_locext>>
       \/ /\ Goes(t, "hop", AfterTurn(ithread[t])) /\ ithread'[t] = ithread[t] + 1
          /\ UNCHANGED <<ready_to_flush, ready_to_exit>>
       \/ /\ Goes(t, "turn", AfterTurn(ithread[t])) /\ ithread'[t] = ithread[t] + 1
          /\ ithread[t] # t /\ hop_to_next_thread_locext
          /\ UNCHANGED Counters

Backs == {"top", "recovered", "clear", "gather", "settling", "spun", "mined"}

(* A control step: where the thread comes from and goes to. *)
LEMMA StepFacts ==
    ASSUME ControlOK, NEW t \in Threads, NEW from, NEW to, NEW b, Step(t, from, to),
           (back' = back /\ b = back[t]) \/ (back' = Set(back, t, b) /\ b \in Backs)
    PROVE  /\ pc[t] = from
           /\ Where(t) = (IF from \in Calling THEN back[t] ELSE from)
           /\ Where(t)' = (IF to \in Calling THEN b ELSE to)
           /\ \A u \in Threads \ {t} : Where(u)' = Where(u)
           /\ to \in Places /\ (to = "local" => b \in {"top", "mined"}) =>
                 /\ pc' \in [Threads -> Places] /\ back' \in [Threads -> Backs]
                 /\ \A u \in Threads : pc'[u] = "local" => back'[u] \in {"top", "mined"}
<1>1. /\ pc' = [pc EXCEPT ![t] = to] /\ pc[t] = from
      /\ pc \in [Threads -> Places] /\ back \in [Threads -> Backs]
      /\ \A u \in Threads : pc[u] = "local" => back[u] \in {"top", "mined"}
    BY DEF Step, ControlOK, Backs
<1>2. pc'[t] = to /\ \A u \in Threads \ {t} : pc'[u] = pc[u]
    BY <1>1
<1>3. back'[t] = b /\ (\A u \in Threads \ {t} : back'[u] = back[u]) /\ back' \in [Threads -> Backs]
    BY <1>1 DEF Set
<1>4. /\ Where(t) = (IF from \in Calling THEN back[t] ELSE from)
      /\ Where(t)' = (IF to \in Calling THEN b ELSE to)
      /\ \A u \in Threads \ {t} : Where(u)' = Where(u)
    BY <1>1, <1>2, <1>3 DEF Where
<1>5. to \in Places => pc' \in [Threads -> Places]
    BY <1>1
<1>6. (to = "local" => b \in {"top", "mined"}) =>
          \A u \in Threads : pc'[u] = "local" => back'[u] \in {"top", "mined"}
    BY <1>1, <1>2, <1>3
<1> QED BY <1>1, <1>3, <1>4, <1>5, <1>6

(* A control step that leaves back alone. *)
LEMMA StayFacts ==
    ASSUME ControlOK, NEW t \in Threads, NEW from, NEW to \in Places, Step(t, from, to),
           back' = back, to = "local" => back[t] \in {"top", "mined"}
    PROVE  /\ Where(t) = (IF from \in Calling THEN back[t] ELSE from)
           /\ Where(t)' = (IF to \in Calling THEN back[t] ELSE to)
           /\ \A u \in Threads \ {t} : Where(u)' = Where(u)
           /\ pc' \in [Threads -> Places] /\ back' \in [Threads -> Backs]
           /\ \A u \in Threads : pc'[u] = "local" => back'[u] \in {"top", "mined"}
<1> DEFINE b == back[t]
<1>1. (back' = back /\ b = back[t]) \/ (back' = Set(back, t, b) /\ b \in Backs)
    OBVIOUS
<1> HIDE DEF b
<1>2. /\ Where(t) = (IF from \in Calling THEN back[t] ELSE from)
      /\ Where(t)' = (IF to \in Calling THEN b ELSE to)
      /\ \A u \in Threads \ {t} : Where(u)' = Where(u)
      /\ to \in Places /\ (to = "local" => b \in {"top", "mined"}) =>
            /\ pc' \in [Threads -> Places] /\ back' \in [Threads -> Backs]
            /\ \A u \in Threads : pc'[u] = "local" => back'[u] \in {"top", "mined"}
    BY <1>1, StepFacts
<1> QED BY <1>2 DEF b

(* The steps that leave the turns and the counters alone. *)
LEMMA QuietMove ==
    ASSUME ControlOK, UNCHANGED <<ithread, ready_to_flush, ready_to_exit, hop_to_next_thread_locext>>,
           pc' \in [Threads -> Places], back' \in [Threads -> Backs],
           \A u \in Threads : pc'[u] = "local" => back'[u] \in {"top", "mined"}
    PROVE  ControlOK'
BY DEF ControlOK, Backs

(* A call of the job runner from outside it. *)
LEMMA CallFacts ==
    ASSUME ControlOK, NEW t \in Threads, NEW from, from \notin Calling, NEW b,
           b \in Backs, BeginCall(t, from, b)
    PROVE  /\ Goes(t, from, b)
           /\ \A u \in Threads \ {t} : Where(u)' = Where(u)
           /\ pc' \in [Threads -> Places] /\ back' \in [Threads -> Backs]
           /\ \A u \in Threads : pc'[u] = "local" => back'[u] \in {"top", "mined"}
<1> PICK to : to = IF graph_has_cycle THEN "failover" ELSE IF b = "mined" THEN "local" ELSE "ext"
    OBVIOUS
<1>1. Step(t, from, to) /\ back' = Set(back, t, b)
    BY DEF BeginCall
<1>2. to \in Calling /\ to \in Places /\ (to = "local" => b \in {"top", "mined"})
    BY DEF Calling, Places
<1> QED BY <1>1, <1>2, StepFacts DEF Goes

-----------------------------------------------------------------------------
(* Each step of a thread is such a move. *)
LEMMA JobMoves ==
    ASSUME ControlOK, NEW t \in Threads, JobStep(t) \/ ExtJob(t) \/ LocalJob(t)
    PROVE  ControlOK' /\ Move(t)
<1>1. UNCHANGED <<pc, back, ithread, Counters>>
    BY DEF JobStep, ExtJob, LocalJob, control, exitVars, Counters
<1>2. \A u \in Threads : Where(u)' = Where(u)
    BY <1>1 DEF Where
<1> QED BY <1>1, <1>2 DEF ControlOK, Move, Counters

LEMMA BatchMoves ==
    ASSUME ControlOK, NEW t \in Threads, Batch(t)
    PROVE  ControlOK' /\ Move(t)
<1>b. back[t] \in Backs /\ (pc[t] = "local" => back[t] \in {"top", "mined"})
    BY DEF ControlOK, Backs
<1>1. CASE ExtJob(t) \/ LocalJob(t)
    BY <1>1, JobMoves
<1>2. CASE ExtEnd(t)
    <2>1. Step(t, "ext", back[t]) /\ back' = back /\ UNCHANGED <<ithread, Counters>>
        BY <1>2 DEF ExtEnd, exitVars, Counters
    <2>2. back[t] \in Places /\ back[t] \notin Calling
        BY <1>b DEF Backs, Places, Calling, Running, Turns
    <2>3. /\ Where(t)' = Where(t) /\ \A u \in Threads \ {t} : Where(u)' = Where(u)
          /\ pc' \in [Threads -> Places] /\ back' \in [Threads -> Backs]
          /\ \A u \in Threads : pc'[u] = "local" => back'[u] \in {"top", "mined"}
        BY <2>1, <2>2, StepFacts DEF Calling
    <2> QED BY <2>1, <2>3, QuietMove DEF Move, Counters
<1>3. CASE LocalEnd(t)
    <2>1. Step(t, "local", "ext") /\ back' = Set(back, t, back[t]) /\ UNCHANGED <<ithread, Counters>>
        BY <1>3 DEF LocalEnd, BeginExt, exitVars, Counters
    <2>2. "ext" \in Places
        BY DEF Places
    <2>3. /\ Where(t)' = Where(t) /\ \A u \in Threads \ {t} : Where(u)' = Where(u)
          /\ pc' \in [Threads -> Places] /\ back' \in [Threads -> Backs]
          /\ \A u \in Threads : pc'[u] = "local" => back'[u] \in {"top", "mined"}
        BY <2>1, <2>2, <1>b, StepFacts DEF Calling
    <2> QED BY <2>1, <2>3, QuietMove DEF Move, Counters
<1>4. ASSUME NEW from \in {"failover", "refill"}, NEW took \in BOOLEAN,
             Step(t, from, AfterFailover(t, took)), back' = back, UNCHANGED <<ithread, Counters>>
      PROVE  ControlOK' /\ Move(t)
    <2>1. PICK to : to = AfterFailover(t, took)
        OBVIOUS
    <2>2. /\ to \in Places
          /\ back[t] = "clear" => to \in {"clear", "sources"}
          /\ back[t] = "mined" => to = "local"
          /\ back[t] \notin {"clear", "mined"} => to = "ext"
        BY <2>1, <1>4 DEF AfterFailover, Places, Running, Turns
    <2>3. Step(t, from, to)
        BY <1>4, <2>1
    <2>4. /\ Where(t) = back[t] /\ Where(t)' = (IF to \in Calling THEN back[t] ELSE to)
          /\ \A u \in Threads \ {t} : Where(u)' = Where(u)
          /\ pc' \in [Threads -> Places] /\ back' \in [Threads -> Backs]
          /\ \A u \in Threads : pc'[u] = "local" => back'[u] \in {"top", "mined"}
        <3>1. from \in Calling /\ (to = "local" => back[t] \in {"top", "mined"})
            BY <2>2, <1>4 DEF Calling
        <3>2. back' = back
            BY <1>4
        <3> QED BY <2>2, <2>3, <3>1, <3>2, StayFacts
    <2>5. Where(t)' = Where(t) \/ {Where(t), Where(t)'} \subseteq Looping
        BY <2>2, <2>4 DEF Calling, Looping, Running
    <2>6. UNCHANGED <<ithread, ready_to_flush, ready_to_exit, hop_to_next_thread_locext>>
        BY <1>4 DEF Counters
    <2>7. ControlOK'
        BY <2>4, <2>6, QuietMove
    <2>8. Move(t)
        BY <2>4, <2>5, <2>6 DEF Move, Counters
    <2> QED BY <2>7, <2>8
<1>5. CASE FailoverEmpty(t)
    BY <1>4, <1>5 DEF FailoverEmpty, exitVars, Counters
<1>6. CASE FailoverTake(t)
    <2>1. Step(t, "failover", "refill") /\ back' = back /\ UNCHANGED <<ithread, Counters>>
        BY <1>6 DEF FailoverTake, exitVars, Counters
    <2>2. "refill" \in Places /\ "refill" \in Calling /\ "failover" \in Calling /\ "refill" # "local"
        BY DEF Places, Calling
    <2>b. PICK b : b = back[t]
        OBVIOUS
    <2>3. /\ Where(t)' = Where(t) /\ \A u \in Threads \ {t} : Where(u)' = Where(u)
          /\ pc' \in [Threads -> Places] /\ back' \in [Threads -> Backs]
          /\ \A u \in Threads : pc'[u] = "local" => back'[u] \in {"top", "mined"}
        BY <2>1, <2>2, <2>b, StepFacts
    <2> QED BY <2>1, <2>3, QuietMove DEF Move, Counters
<1>7. CASE Refill(t)
    BY <1>4, <1>7 DEF Refill, exitVars, Counters
<1> QED BY <1>1, <1>2, <1>3, <1>5, <1>6, <1>7 DEF Batch

LEMMA RunMoves ==
    ASSUME ControlOK, NEW t \in Threads, Run(t)
    PROVE  ControlOK' /\ Move(t)
<1>b. back[t] \in Backs /\ t \in Threads
    BY DEF ControlOK, Backs
<1>1. ASSUME NEW from \in Looping, NEW to \in Looping \cup {"ext", "failover", "local"}, NEW b,
             Step(t, from, to), (back' = back /\ b = back[t]) \/ (back' = Set(back, t, b) /\ b \in Backs),
             to \in {"ext", "failover", "local"} => b \in Looping,
             to = "local" => b = "top",
             UNCHANGED <<ithread, Counters>>
      PROVE  ControlOK' /\ Move(t)
    <2>1. from \notin Calling /\ to \in Places /\ (to \in Calling <=> to \notin Looping)
        BY DEF Looping, Running, Calling, Places
    <2>2. to \in Calling => b \in Looping
        BY <1>1 DEF Looping, Calling, Running
    <2>3. /\ Where(t) = from /\ Where(t)' = (IF to \in Calling THEN b ELSE to)
          /\ \A u \in Threads \ {t} : Where(u)' = Where(u)
          /\ pc' \in [Threads -> Places] /\ back' \in [Threads -> Backs]
          /\ \A u \in Threads : pc'[u] = "local" => back'[u] \in {"top", "mined"}
        BY <1>1, <2>1, StepFacts
    <2>4. Where(t) \in Looping /\ Where(t)' \in Looping
        BY <2>1, <2>2, <2>3, <1>1
    <2> QED BY <1>1, <2>3, <2>4, QuietMove DEF Move, Counters
<1>2. CASE TopStop(t)
    BY <1>1, <1>2, <1>b DEF TopStop, exitVars, Counters, Looping, Running
<1>3. CASE TopRun(t)
    BY <1>1, <1>3, <1>b DEF TopRun, exitVars, Counters, Looping, Running
<1>4. CASE TopRecover(t)
    BY <1>1, <1>4 DEF TopRecover, BeginExt, exitVars, Counters, Looping, Running, Backs
<1>5. CASE Recovered(t)
    <2>1. PICK to : to = IF worked[t] THEN "top" ELSE "failover"
        OBVIOUS
    <2>2. to \in Looping \cup {"ext", "failover", "local"} /\ to # "local"
        BY <2>1 DEF Looping, Running
    <2> QED BY <1>1, <1>5, <2>1, <2>2 DEF Recovered, exitVars, Counters, Looping, Running, Backs
<1>6. CASE AllClear(t)
    BY <1>1, <1>6, <1>b DEF AllClear, exitVars, Counters, Looping, Running
<1>7. CASE SourcesShut(t)
    BY <1>1, <1>7, <1>b DEF SourcesShut, exitVars, Counters, Looping, Running
<1>8. CASE SkipSource(t)
    BY <1>1, <1>8, <1>b DEF SkipSource, exitVars, Counters, Looping, Running
<1>9. CASE PollSource(t)
    BY <1>1, <1>9, <1>b DEF PollSource, exitVars, Counters, Looping, Running
<1>10. CASE SourcesEnd(t)
    <2>1. PICK to : to = IF HasSource(t) /\ ~src_out[t] THEN "eos" ELSE "polled"
        OBVIOUS
    <2>2. to \in Looping
        BY <2>1 DEF Looping, Running
    <2> QED BY <1>1, <1>10, <1>b, <2>1, <2>2 DEF SourcesEnd, exitVars, Counters, Looping, Running
<1>11. CASE Polled(t)
    BY <1>1, <1>11 DEF Polled, exitVars, Counters, Looping, Running, Backs
<1>12. CASE EndOfStream(t)
    BY <1>1, <1>12, <1>b DEF EndOfStream, exitVars, Counters, Looping, Running
<1> QED BY <1>2, <1>3, <1>4, <1>5, <1>6, <1>7, <1>8, <1>9, <1>10, <1>11, <1>12 DEF Run

LEMMA ExitMoves ==
    ASSUME ControlOK, NEW t \in Threads, Exit(t)
    PROVE  ControlOK' /\ Move(t)
<1>b. back[t] \in Backs
    BY DEF ControlOK, Backs
<1>t. /\ work_size \in Nat /\ t \in Nat /\ ithread[t] \in Nat
      /\ ithread \in [Threads -> Nat] /\ ready_to_flush \in Nat /\ ready_to_exit \in Nat
      /\ hop_to_next_thread_locext \in BOOLEAN
    BY EngineConstants DEF ControlOK, Threads
(* A step from one control point to another. *)
<1>s. ASSUME NEW from \in Places \ Calling, NEW to \in Places \ Calling, Step(t, from, to), back' = back
      PROVE  /\ Goes(t, from, to) /\ \A u \in Threads \ {t} : Where(u)' = Where(u)
             /\ pc' \in [Threads -> Places] /\ back' \in [Threads -> Backs]
             /\ \A u \in Threads : pc'[u] = "local" => back'[u] \in {"top", "mined"}
    <2>1. to # "local" /\ from \notin Calling /\ to \notin Calling /\ to \in Places
        BY DEF Calling
    <2>2. PICK b : b = back[t]
        OBVIOUS
    <2> QED BY <1>s, <2>1, <2>2, StepFacts DEF Goes
<1>p. /\ {"stopped", "gather", "settle", "settling", "round", "bar1", "setup", "bar2", "turn", "spun",
         "mined", "hop", "bar3", "rewire", "flush", "bar4"} \subseteq Places \ Calling
    BY DEF Places, Calling, Turns
<1>1. CASE ReadyToFlush(t)
    <2>1. Step(t, "stopped", "gather") /\ back' = back
        BY <1>1 DEF ReadyToFlush
    <2>2. /\ ready_to_flush' = ready_to_flush + 1
          /\ UNCHANGED <<ithread, ready_to_exit, hop_to_next_thread_locext>>
        BY <1>1 DEF ReadyToFlush
    <2> QED BY <1>s, <1>t, <1>p, <2>1, <2>2 DEF ControlOK, Move, Backs
<1>2. CASE AllGathered(t)
    <2>1. /\ Step(t, "gather", "settle") /\ back' = back /\ ready_to_flush = work_size
          /\ UNCHANGED <<ithread, Counters>>
        BY <1>2 DEF AllGathered, exitVars, Counters
    <2> QED BY <1>s, <1>p, <2>1, QuietMove DEF Move, Counters
<1>3. CASE Gathering(t)
    <2>1. BeginCall(t, "gather", "gather") /\ UNCHANGED <<ithread, Counters>>
        BY <1>3 DEF Gathering, exitVars, Counters
    <2>2. "gather" \in Backs /\ "gather" \notin Calling
        BY DEF Backs, Calling
    <2> QED BY <2>1, <2>2, CallFacts, QuietMove DEF Move, Counters, Goes
<1>4. CASE Settled(t)
    <2>1. Step(t, "settle", "round") /\ back' = back /\ UNCHANGED <<ithread, Counters>>
        BY <1>4 DEF Settled, exitVars, Counters
    <2> QED BY <1>s, <1>p, <2>1, QuietMove DEF Move, Counters
<1>5. CASE Settling(t)
    <2>1. BeginCall(t, "settle", "settling") /\ UNCHANGED <<ithread, Counters>>
        BY <1>5 DEF Settling, exitVars, Counters
    <2>2. "settling" \in Backs /\ "settle" \notin Calling
        BY DEF Backs, Calling
    <2> QED BY <2>1, <2>2, CallFacts, QuietMove DEF Move, Counters
<1>6. CASE SettleCount(t)
    <2>1. Step(t, "settling", "settle") /\ back' = back /\ UNCHANGED <<ithread, Counters>>
        BY <1>6 DEF SettleCount, CountIdle, Counters
    <2> QED BY <1>s, <1>p, <2>1, QuietMove DEF Move, Counters
<1>7. CASE BeginRound(t)
    <2>1. Step(t, "round", "bar1") /\ back' = back /\ UNCHANGED Counters /\ ready_to_exit < work_size
        BY <1>7 DEF BeginRound, exitVars, Counters
    <2>2. ithread' = [ithread EXCEPT ![t] = 0]
        BY <1>7 DEF BeginRound, Set
    <2>3. ithread' \in [Threads -> Nat] /\ ithread'[t] = 0 /\ \A u \in Threads \ {t} : ithread'[u] = ithread[u]
        BY <2>2, <1>t
    <2> QED BY <1>s, <1>t, <1>p, <2>1, <2>3 DEF ControlOK, Move, Counters, Backs
<1>8. CASE Leave(t)
    <2>1. PICK to : to = IF t = 0 THEN "rewire" ELSE "bar4"
        OBVIOUS
    <2>2. /\ Step(t, "round", to) /\ back' = back /\ UNCHANGED <<ithread, Counters>>
          /\ ready_to_exit >= work_size
        BY <1>8, <2>1 DEF Leave, exitVars, Counters
    <2>3. to \in Places \ Calling
        BY <2>1, <1>p
    <2> QED BY <1>s, <1>p, <2>1, <2>2, <2>3, QuietMove DEF Move, Counters
<1>9. CASE SetupTurn(t)
    <2>1. Step(t, "setup", "bar2") /\ back' = back
        BY <1>9 DEF SetupTurn
    <2>2. /\ hop_to_next_thread_locext' = FALSE /\ UNCHANGED <<ithread, ready_to_flush, ready_to_exit>>
        BY <1>9 DEF SetupTurn
    <2> QED BY <1>s, <1>t, <1>p, <2>1, <2>2 DEF ControlOK, Move, Backs
<1>10. CASE BeginTurn(t)
    <2>1. BeginCall(t, "turn", "mined") /\ UNCHANGED <<ithread, Counters>> /\ ithread[t] = t
        BY <1>10 DEF BeginTurn, exitVars, Counters
    <2>2. "mined" \in Backs /\ "turn" \notin Calling
        BY DEF Backs, Calling
    <2> QED BY <2>1, <2>2, CallFacts, QuietMove DEF Move, Counters
<1>11. CASE Mined(t)
    <2>1. Step(t, "mined", "hop") /\ back' = back
        BY <1>11 DEF Mined
    <2>2. /\ ready_to_exit' \in Nat /\ UNCHANGED <<ithread, ready_to_flush, hop_to_next_thread_locext>>
        BY <1>11, <1>t DEF Mined
    <2> QED BY <1>s, <1>t, <1>p, <2>1, <2>2 DEF ControlOK, Move, Backs
<1>n. ASSUME NEW from \in {"hop", "turn"}, NextTurn(t, from), back' = back
      PROVE  /\ Goes(t, from, AfterTurn(ithread[t])) /\ \A u \in Threads \ {t} : Where(u)' = Where(u)
             /\ pc' \in [Threads -> Places] /\ back' \in [Threads -> Backs]
             /\ \A u \in Threads : pc'[u] = "local" => back'[u] \in {"top", "mined"}
             /\ ithread' \in [Threads -> Nat] /\ ithread'[t] = ithread[t] + 1
             /\ \A u \in Threads \ {t} : ithread'[u] = ithread[u]
    <2>1. PICK to : to = AfterTurn(ithread[t])
        OBVIOUS
    <2>2. Step(t, from, to) /\ ithread' = [ithread EXCEPT ![t] = ithread[t] + 1]
        BY <1>n, <2>1 DEF NextTurn, AfterTurn, Set
    <2>3. to \in Places \ Calling /\ from \in Places \ Calling
        BY <2>1, <1>p DEF AfterTurn
    <2>4. /\ ithread' \in [Threads -> Nat] /\ ithread'[t] = ithread[t] + 1
          /\ \A u \in Threads \ {t} : ithread'[u] = ithread[u]
        BY <2>2, <1>t
    <2>5. /\ Goes(t, from, to) /\ \A u \in Threads \ {t} : Where(u)' = Where(u)
          /\ pc' \in [Threads -> Places] /\ back' \in [Threads -> Backs]
          /\ \A u \in Threads : pc'[u] = "local" => back'[u] \in {"top", "mined"}
        BY <1>n, <1>s, <2>2, <2>3
    <2> QED BY <2>1, <2>4, <2>5
<1>12. CASE EndTurn(t)
    <2>1. NextTurn(t, "hop") /\ back' = back
        BY <1>12 DEF EndTurn
    <2>2. /\ hop_to_next_thread_locext' = TRUE /\ UNCHANGED <<ready_to_flush, ready_to_exit>>
        BY <1>12 DEF EndTurn
    <2> QED BY <1>n, <1>t, <2>1, <2>2 DEF ControlOK, Move, Backs
<1>13. CASE Hop(t)
    <2>1. /\ NextTurn(t, "turn") /\ back' = back /\ UNCHANGED Counters
          /\ ithread[t] # t /\ hop_to_next_thread_locext
        BY <1>13 DEF Hop, exitVars, Counters
    <2> QED BY <1>n, <1>t, <2>1 DEF ControlOK, Move, Counters, Backs
<1>14. CASE Spinning(t)
    <2>1. BeginCall(t, "turn", "spun") /\ UNCHANGED <<ithread, Counters>> /\ ithread[t] # t
        BY <1>14 DEF Spinning, exitVars, Counters
    <2>2. "spun" \in Backs /\ "turn" \notin Calling
        BY DEF Backs, Calling
    <2> QED BY <2>1, <2>2, CallFacts, QuietMove DEF Move, Counters
<1>15. CASE SpinCount(t)
    <2>1. Step(t, "spun", "turn") /\ back' = back /\ UNCHANGED <<ithread, Counters>>
        BY <1>15 DEF SpinCount, CountIdle, Counters
    <2> QED BY <1>s, <1>p, <2>1, QuietMove DEF Move, Counters
<1>16. CASE Rewire(t)
    <2>1. Step(t, "rewire", "flush") /\ back' = back /\ UNCHANGED <<ithread, Counters>>
        BY <1>16 DEF Rewire, exitVars, Counters
    <2> QED BY <1>s, <1>p, <2>1, QuietMove DEF Move, Counters
<1>17. CASE FlushDone(t)
    <2>1. Step(t, "flush", "bar4") /\ back' = back /\ UNCHANGED <<ithread, Counters>>
        BY <1>17 DEF FlushDone, exitVars, Counters
    <2> QED BY <1>s, <1>p, <2>1, QuietMove DEF Move, Counters
<1> QED BY <1>1, <1>2, <1>3, <1>4, <1>5, <1>6, <1>7, <1>8, <1>9, <1>10, <1>11, <1>12, <1>13, <1>14,
           <1>15, <1>16, <1>17 DEF Exit

LEMMA ThreadMoves ==
    ASSUME ControlOK, NEW t \in Threads, Thread(t)
    PROVE  ControlOK' /\ Move(t)
BY JobMoves, BatchMoves, RunMoves, ExitMoves DEF Thread

-----------------------------------------------------------------------------
LEMMA ThreadsFacts ==
    /\ work_size \in Nat /\ work_size > 0 /\ 0 \in Threads
    /\ \A t \in Threads : t \in Nat /\ t < work_size
    /\ \A n \in Nat : n < work_size => n \in Threads
    /\ IsFiniteSet(Threads) /\ Cardinality(Threads) = work_size
<1>1. work_size \in Nat /\ work_size > 0 /\ Threads = 0 .. (work_size - 1)
    BY EngineConstants DEF Threads
<1>2. /\ 0 \in Threads /\ \A t \in Threads : t \in Nat /\ t < work_size
      /\ \A n \in Nat : n < work_size => n \in Threads
    BY <1>1
<1>3. IsFiniteSet(0 .. (work_size - 1)) /\ Cardinality(0 .. (work_size - 1)) = work_size
    BY <1>1, FS_Interval
<1> QED BY <1>1, <1>2, <1>3

LEMMA InitExitInv == Init => ExitInv
<1> SUFFICES ASSUME Init PROVE ExitInv
    OBVIOUS
<1>1. /\ \A t \in Threads : pc[t] = "top" /\ back[t] = "top" /\ ithread[t] = 0 /\ Where(t) = "top"
      /\ ControlOK
    BY DEF Init, ControlOK, Places, Running, Where, Calling
<1>2. "top" \in Looping
    BY DEF Looping, Running
<1>3. Late = {}
    BY <1>1, <1>2 DEF Late
<1>4. Gathered
    BY <1>3, FS_EmptySet DEF Gathered, Init
<1>5. BeforeRound
    BY <1>1, <1>2, ThreadsFacts DEF BeforeRound, Init
<1> QED BY <1>1, <1>4, <1>5 DEF ExitInv, Phase

LEMMA GatheredKept ==
    ASSUME ControlOK, Gathered, NEW t \in Threads, Move(t)
    PROVE  Gathered'
<1>1. Late' = {u \in Threads : Where(u)' \notin Looping}
    BY DEF Late
<1>2. \A u \in Threads \ {t} : Where(u)' = Where(u)
    BY DEF Move
<1>f. IsFiniteSet(Late) /\ (Cardinality(Late) = work_size => Late = Threads)
    BY ThreadsFacts, FS_Subset, Late \in SUBSET Threads DEF Late
<1>3. CASE Goes(t, "stopped", "gather") /\ ready_to_flush' = ready_to_flush + 1
    <2>1. t \notin Late /\ Late' = Late \cup {t}
        BY <1>1, <1>2, <1>3 DEF Late, Goes, Looping, Running
    <2>2. Cardinality(Late') = Cardinality(Late) + 1
        BY <1>f, <2>1, FS_AddElement
    <2>3. ~\E u \in Late' : Where(u)' # "gather"
        BY <1>2, <1>3, <2>1 DEF Gathered, Goes, Late
    <2> QED BY <1>3, <2>2, <2>3 DEF Gathered
<1>4. CASE /\ ready_to_flush' = ready_to_flush
           /\ Where(t) \in Looping <=> Where(t)' \in Looping
           /\ \/ Where(t)' = Where(t) \/ Where(t) \in Looping \/ Where(t) # "gather"
              \/ ready_to_flush = work_size
    <2>1. Late' = Late
        BY <1>1, <1>2, <1>4 DEF Late
    <2>2. (\E u \in Late : Where(u)' # "gather") => Late = Threads
        BY <1>f, <1>2, <1>4 DEF Gathered, Late
    <2> QED BY <1>4, <2>1, <2>2 DEF Gathered
<1>5. AfterTurn(ithread[t]) \in {"bar1", "bar3"}
    BY DEF AfterTurn
<1>6. \A a \in {"gather", "settle", "settling", "round", "rewire", "bar4", "turn", "mined", "spun",
                "flush", "bar1", "bar3", "setup", "bar2", "hop"} : a \notin Looping
    BY DEF Looping, Running
<1>7. \/ ready_to_flush' = ready_to_flush
      \/ Goes(t, "stopped", "gather") /\ ready_to_flush' = ready_to_flush + 1
    BY DEF Move, Counters
<1> QED BY <1>3, <1>4, <1>5, <1>6, <1>7 DEF Move, Goes, Counters

LEMMA BeforeRoundKept ==
    ASSUME ControlOK, BeforeRound, NEW t \in Threads, Move(t)
    PROVE  BeforeRound'
<1>1. ready_to_exit \in Nat /\ work_size \in Nat /\ ready_to_exit < work_size
    BY ThreadsFacts DEF ControlOK, BeforeRound
<1>2. /\ Where(t) \in Looping \cup {"gather", "settle", "settling", "round", "bar1"}
      /\ Where(t) = "bar1" => ithread[t] = 0
      /\ "stopped" \in Looping
    BY DEF BeforeRound, Looping
<1>3. \A a \in {"turn", "spun", "rewire", "flush", "setup", "mined", "hop"} : Where(t) # a
    BY <1>2 DEF Looping, Running
<1>4. /\ ready_to_exit' = ready_to_exit
      /\ Where(t)' \in Looping \cup {"gather", "settle", "settling", "round", "bar1"}
      /\ Where(t)' = "bar1" => ithread'[t] = 0
    <2>1. "bar1" \notin Looping
        BY DEF Looping, Running
    <2> QED BY <1>1, <1>2, <1>3, <2>1 DEF Move, Goes, Counters
<1>5. \A u \in Threads \ {t} : Where(u)' = Where(u) /\ ithread'[u] = ithread[u]
    BY DEF Move
<1> QED BY <1>1, <1>4, <1>5 DEF BeforeRound

LEMMA BeforeTurnKept ==
    ASSUME ControlOK, NEW turn \in Threads, BeforeTurn(turn), NEW t \in Threads, Move(t)
    PROVE  BeforeTurn(turn)'
<1>1. ithread[t] = turn /\ (Where(t) = "bar2" \/ (Where(t) = "setup" /\ t = 0))
    BY DEF BeforeTurn
<1>2. /\ ithread'[t] = turn
      /\ \/ Where(t)' = Where(t) /\ hop_to_next_thread_locext' = hop_to_next_thread_locext
         \/ t = 0 /\ Where(t)' = "bar2" /\ ~hop_to_next_thread_locext'
    BY <1>1 DEF Move, Goes, Counters, Looping, Running
<1>3. \A u \in Threads \ {t} : Where(u)' = Where(u) /\ ithread'[u] = ithread[u]
    BY DEF Move
<1>4. \A u \in Threads : /\ ithread'[u] = turn
                         /\ Where(u)' = "bar2" \/ (Where(u)' = "setup" /\ u = 0)
    BY <1>1, <1>2, <1>3 DEF BeforeTurn
<1>5. Where(0)' = "bar2" => ~hop_to_next_thread_locext'
    BY <1>2, <1>3, ThreadsFacts DEF BeforeTurn
<1> QED BY <1>4, <1>5 DEF BeforeTurn

LEMMA DuringTurnKept ==
    ASSUME ControlOK, NEW turn \in Threads, DuringTurn(turn), NEW t \in Threads, Move(t)
    PROVE  DuringTurn(turn)'
<1>1. AfterTurn(turn) \in {"bar1", "bar3"} /\ turn \in Nat /\ turn # turn + 1
    BY ThreadsFacts DEF AfterTurn
<1>2. \A u \in Threads \ {t} : Where(u)' = Where(u) /\ ithread'[u] = ithread[u]
    BY DEF Move
<1>3. \A u \in Threads \ {t} : (Taking(u, turn)' <=> Taking(u, turn)) /\ (Through(u, turn)' <=> Through(u, turn))
    BY <1>2 DEF Taking, Through, AfterTurn
<1>4. CASE Through(t, turn)
    <2>1. /\ Where(t)' = Where(t) /\ ithread'[t] = ithread[t]
          /\ hop_to_next_thread_locext' = hop_to_next_thread_locext
        BY <1>1, <1>4 DEF Through, Move, Goes, Counters, Looping, Running
    <2>2. Through(t, turn)'
        BY <1>4, <2>1 DEF Through, AfterTurn
    <2> QED BY <1>3, <1>4, <2>1, <2>2 DEF DuringTurn
<1>5. CASE Taking(t, turn)
    <2>0. /\ ithread[t] = turn
          /\ Where(t) \in {"turn", "spun", "mined", "hop"}
          /\ Where(t) = "spun" => t # turn
          /\ Where(t) \in {"mined", "hop"} => t = turn
        BY <1>5 DEF Taking
    <2>1. \/ /\ ithread'[t] = turn /\ hop_to_next_thread_locext' = hop_to_next_thread_locext
             /\ \/ Where(t)' = "turn"
                \/ Where(t)' = "spun" /\ t # turn
                \/ Where(t)' \in {"mined", "hop"} /\ t = turn
          \/ t = turn /\ ithread'[t] = turn + 1 /\ Where(t)' = AfterTurn(turn)
          \/ /\ hop_to_next_thread_locext /\ hop_to_next_thread_locext' /\ t # turn
             /\ ithread'[t] = turn + 1 /\ Where(t)' = AfterTurn(turn)
        BY <2>0 DEF Move, Goes, Counters, Looping, Running
    <2>2. CASE /\ ithread'[t] = turn /\ hop_to_next_thread_locext' = hop_to_next_thread_locext
               /\ \/ Where(t)' = "turn"
                  \/ Where(t)' = "spun" /\ t # turn
                  \/ Where(t)' \in {"mined", "hop"} /\ t = turn
        <3>1. Taking(t, turn)' /\ ~Through(t, turn)' /\ ~Through(t, turn)
            BY <1>1, <2>0, <2>2 DEF Taking, Through
        <3> QED BY <1>3, <2>2, <3>1 DEF DuringTurn
    <2>3. CASE t = turn /\ ithread'[t] = turn + 1 /\ Where(t)' = AfterTurn(turn)
        <3>1. Through(turn, turn)'
            BY <2>3 DEF Through, AfterTurn
        <3> QED BY <1>3, <2>3, <3>1 DEF DuringTurn
    <2>4. CASE hop_to_next_thread_locext /\ hop_to_next_thread_locext' /\ t # turn
               /\ ithread'[t] = turn + 1 /\ Where(t)' = AfterTurn(turn)
        <3>1. Through(t, turn)' /\ Through(turn, turn)
            BY <2>4 DEF Through, AfterTurn, DuringTurn
        <3>2. Through(turn, turn)'
            BY <1>3, <2>4, <3>1
        <3> QED BY <1>3, <3>1, <3>2 DEF DuringTurn
    <2> QED BY <2>1, <2>2, <2>3, <2>4
<1> QED BY <1>4, <1>5 DEF DuringTurn

LEMMA RoundsOverKept ==
    ASSUME ControlOK, RoundsOver, NEW t \in Threads, Move(t)
    PROVE  RoundsOver'
<1>1. Where(t) \in {"round", "bar4"} \/ (Where(t) \in {"rewire", "flush"} /\ t = 0)
    BY DEF RoundsOver
<1>2. ready_to_exit \in Nat /\ work_size \in Nat /\ ready_to_exit >= work_size
    BY ThreadsFacts DEF ControlOK, RoundsOver
<1>3. /\ ready_to_exit' = ready_to_exit
      /\ Where(t)' \in {"round", "bar4"} \/ (Where(t)' \in {"rewire", "flush"} /\ t = 0)
    BY <1>1, <1>2 DEF Move, Goes, Counters, Looping, Running
<1>4. \A u \in Threads \ {t} : Where(u)' = Where(u)
    BY DEF Move
<1> QED BY <1>2, <1>3, <1>4 DEF RoundsOver

LEMMA OverKept ==
    ASSUME Over, NEW t \in Threads, Move(t)
    PROVE  Over'
<1>1. Where(t)' = "done"
    BY DEF Over, Move, Goes, Looping, Running
<1> QED BY <1>1 DEF Over, Move

LEMMA PhaseKept ==
    ASSUME ControlOK, Phase, NEW t \in Threads, Move(t)
    PROVE  Phase'
<1>1. CASE BeforeRound
    BY <1>1, BeforeRoundKept DEF Phase
<1>2. ASSUME NEW turn \in Threads, BeforeTurn(turn) PROVE Phase'
    BY <1>2, BeforeTurnKept DEF Phase
<1>3. ASSUME NEW turn \in Threads, DuringTurn(turn) PROVE Phase'
    BY <1>3, DuringTurnKept DEF Phase
<1>4. CASE RoundsOver
    BY <1>4, RoundsOverKept DEF Phase
<1>5. CASE Over
    BY <1>5, OverKept DEF Phase
<1> QED BY <1>1, <1>2, <1>3, <1>4, <1>5 DEF Phase

(* The last thread at a barrier takes all of them to the next phase. *)
LEMMA BarrierStep ==
    ASSUME ExitInv, Barrier
    PROVE  ExitInv'
<1>1. /\ \A t \in Threads : pc[t] \in {"bar1", "bar2", "bar3", "bar4"}
      /\ pc' = [t \in Threads |-> PastBarrier(t)]
      /\ UNCHANGED <<back, ithread, Counters>>
    BY DEF Barrier, AtBarrier, Counters, exitVars
<1>2. \A t \in Threads :
        /\ Where(t) = pc[t] /\ Where(t) \in {"bar1", "bar2", "bar3", "bar4"}
        /\ pc'[t] = PastBarrier(t) /\ PastBarrier(t) \in {"setup", "bar2", "turn", "round", "done"}
        /\ Where(t)' = PastBarrier(t)
    <2>1. \A t \in Threads : PastBarrier(t) \in {"setup", "bar2", "turn", "round", "done"}
        BY <1>1 DEF PastBarrier
    <2> QED BY <1>1, <2>1 DEF Where, Calling
<1>3. ControlOK'
    <2>1. {"setup", "bar2", "turn", "round", "done"} \subseteq Places
        BY DEF Places, Turns
    <2>2. pc' \in [Threads -> Places]
        BY <1>1, <1>2, <2>1
    <2>3. \A t \in Threads : pc'[t] # "local"
        BY <1>2
    <2> QED BY <1>1, <2>2, <2>3 DEF ExitInv, ControlOK, Counters
<1>4. Gathered'
    <2>1. Late = Threads /\ Late' = Threads
        BY <1>2 DEF Late, Looping, Running
    <2> QED BY <1>1, <2>1 DEF ExitInv, Gathered, Counters
<1>t. ASSUME NEW turn \in Threads,
             \A t \in Threads : ithread[t] = turn /\ Where(t)' = (IF t = 0 THEN "setup" ELSE "bar2")
      PROVE  Phase'
    <2>1. BeforeTurn(turn)'
        BY <1>1, <1>t, ThreadsFacts DEF BeforeTurn
    <2> QED BY <2>1 DEF Phase
<1>5. ASSUME BeforeRound PROVE Phase'
    <2>1. \A t \in Threads : ithread[t] = 0 /\ Where(t)' = (IF t = 0 THEN "setup" ELSE "bar2")
        BY <1>2, <1>5 DEF BeforeRound, Looping, Running, PastBarrier
    <2> QED BY <1>t, <2>1, ThreadsFacts
<1>6. ASSUME NEW turn \in Threads, BeforeTurn(turn) PROVE Phase'
    <2>1. \A t \in Threads : ithread[t] = turn /\ Where(t) = "bar2" /\ Where(t)' = "turn"
        BY <1>2, <1>6 DEF BeforeTurn, PastBarrier
    <2>2. ~hop_to_next_thread_locext'
        BY <1>1, <1>6, <2>1, ThreadsFacts DEF BeforeTurn, Counters
    <2>3. \A t \in Threads : Taking(t, turn)' /\ ~Through(t, turn)'
        BY <1>1, <2>1 DEF Taking, Through, AfterTurn
    <2> QED BY <2>2, <2>3 DEF Phase, DuringTurn
<1>7. ASSUME NEW turn \in Threads, DuringTurn(turn) PROVE Phase'
    <2>1. \A t \in Threads : ithread[t] = turn + 1 /\ Where(t) = AfterTurn(turn)
        BY <1>2, <1>7 DEF DuringTurn, Taking, Through
    <2>2. CASE turn + 1 < work_size
        <3>1. \A t \in Threads : Where(t)' = (IF t = 0 THEN "setup" ELSE "bar2")
            BY <1>2, <2>1, <2>2 DEF AfterTurn, PastBarrier
        <3>2. turn + 1 \in Threads
            BY <2>2, ThreadsFacts
        <3> QED BY <1>t, <2>1, <3>1, <3>2
    <2>3. CASE ~(turn + 1 < work_size)
        <3>1. \A t \in Threads : Where(t)' = "round"
            BY <1>2, <2>1, <2>3 DEF AfterTurn, PastBarrier
        <3>2. ready_to_exit' \in Nat /\ work_size \in Nat
            BY <1>1, ThreadsFacts DEF ExitInv, ControlOK, Counters
        <3>3. ready_to_exit' < work_size \/ ready_to_exit' >= work_size
            BY <3>2
        <3> QED BY <3>1, <3>3 DEF Phase, BeforeRound, RoundsOver
    <2> QED BY <2>2, <2>3
<1>8. ASSUME RoundsOver PROVE Phase'
    <2>1. \A t \in Threads : Where(t)' = "done"
        BY <1>2, <1>8 DEF RoundsOver, PastBarrier
    <2>2. Over'
        BY <2>1 DEF Over
    <2> QED BY <2>2 DEF Phase
<1>9. CASE Over
    BY <1>2, <1>9, ThreadsFacts DEF Over
<1> QED BY <1>3, <1>4, <1>5, <1>6, <1>7, <1>8, <1>9 DEF ExitInv, Phase

LEMMA ExitInvKept == ExitInv /\ [Next]_vars => ExitInv'
<1> SUFFICES ASSUME ExitInv, [Next]_vars PROVE ExitInv'
    OBVIOUS
<1>1. ASSUME NEW t \in Threads, Thread(t) PROVE ExitInv'
    BY <1>1, ThreadMoves, GatheredKept, PhaseKept DEF ExitInv
<1>2. CASE Barrier
    BY <1>2, BarrierStep
<1>3. CASE UNCHANGED <<pc, back, ithread, Counters>>
    BY <1>3 DEF ExitInv, ControlOK, Gathered, Late, Phase, BeforeRound, BeforeTurn, DuringTurn,
                Taking, Through, RoundsOver, Over, Where, Counters
<1>4. CASE Interrupt
    BY <1>3, <1>4 DEF Interrupt, control, Counters
<1>5. CASE UNCHANGED vars
    BY <1>3, <1>5 DEF vars, control, exitVars, Counters
<1> QED BY <1>1, <1>2, <1>4, <1>5 DEF Next, AllDone

-----------------------------------------------------------------------------
LEMMA ExitInvAgrees == ExitInv => TurnsAgree
<1> SUFFICES ASSUME ExitInv PROVE TurnsAgree
    OBVIOUS
<1>a. \A t \in Threads : /\ AtBarrier(t) => Where(t) = pc[t] /\ Where(t) \in {"bar1", "bar2", "bar3", "bar4"}
                         /\ InTurn(t) => Where(t) \in {"bar1", "setup", "bar2", "turn", "spun", "mined", "hop", "bar3"}
                         /\ pc[t] = "local" => Where(t) = back[t] /\ back[t] \in {"top", "mined"}
    BY DEF ExitInv, ControlOK, AtBarrier, InTurn, Where, Calling
<1>b. \A t, u \in Threads : InTurn(t) => Where(u) # "top"
    <2>1. \A t \in Threads : InTurn(t) => t \in Late /\ Where(t) # "gather"
        BY <1>a DEF Late, Looping, Running
    <2> QED BY <2>1 DEF ExitInv, Gathered, Late, Looping, Running
<1>1. ASSUME NEW t \in Threads, NEW u \in Threads, AtBarrier(t), AtBarrier(u)
      PROVE  pc[t] = pc[u] /\ (pc[t] # "bar4" => ithread[t] = ithread[u])
    <2>1. Where(t) = pc[t] /\ Where(u) = pc[u] /\ {pc[t], pc[u]} \subseteq {"bar1", "bar2", "bar3", "bar4"}
        BY <1>1, <1>a
    <2>2. CASE BeforeRound
        BY <2>1, <2>2 DEF BeforeRound, Looping, Running
    <2>3. ASSUME NEW turn \in Threads, BeforeTurn(turn) PROVE pc[t] = pc[u] /\ ithread[t] = ithread[u]
        BY <2>1, <2>3 DEF BeforeTurn
    <2>4. ASSUME NEW turn \in Threads, DuringTurn(turn) PROVE pc[t] = pc[u] /\ ithread[t] = ithread[u]
        BY <2>1, <2>4 DEF DuringTurn, Taking, Through
    <2>5. CASE RoundsOver
        BY <2>1, <2>5 DEF RoundsOver
    <2>6. CASE Over
        BY <2>1, <2>6 DEF Over
    <2> QED BY <2>2, <2>3, <2>4, <2>5, <2>6 DEF ExitInv, Phase
<1>2. ASSUME NEW t \in Threads, NEW u \in Threads, InTurn(t), pc[u] = "local"
      PROVE  back[u] = "mined" /\ ithread[t] = u
    <2>1. /\ Where(u) = "mined" /\ back[u] = "mined"
          /\ Where(t) \in {"bar1", "setup", "bar2", "turn", "spun", "mined", "hop", "bar3"}
        BY <1>2, <1>a, <1>b
    <2>2. CASE BeforeRound
        BY <2>1, <2>2 DEF BeforeRound, Looping, Running
    <2>3. ASSUME NEW turn \in Threads, BeforeTurn(turn) PROVE FALSE
        BY <2>1, <2>3 DEF BeforeTurn
    <2>4. ASSUME NEW turn \in Threads, DuringTurn(turn) PROVE ithread[t] = u
        <3>1. AfterTurn(turn) # "mined"
            BY DEF AfterTurn
        <3>2. u = turn /\ ~Through(turn, turn)
            BY <2>1, <2>4, <3>1 DEF DuringTurn, Taking, Through
        <3>3. Taking(t, turn)
            BY <2>4, <3>2 DEF DuringTurn
        <3> QED BY <3>2, <3>3 DEF Taking
    <2>5. CASE RoundsOver \/ Over
        BY <2>1, <2>5 DEF RoundsOver, Over
    <2> QED BY <2>1, <2>2, <2>3, <2>4, <2>5 DEF ExitInv, Phase
<1> QED BY <1>1, <1>2 DEF TurnsAgree

(* Threads in the rounds wait at the same barrier of the same turn, and only *)
(* the thread whose turn it is runs its local jobs                           *)
(* (ws_empty_allqueues_synchronously).                                       *)
THEOREM TurnsAlwaysAgree == Spec => []TurnsAgree
<1>1. Spec => []ExitInv
    BY InitExitInv, ExitInvKept, PTL DEF Spec
<1> QED BY <1>1, ExitInvAgrees, PTL
-----------------------------------------------------------------------------
(* Counting.                                                               *)
(* A set that differs at one element. *)
LEMMA CountChange ==
    ASSUME NEW S, NEW T, NEW e, IsFiniteSet(S), S \ {e} = T \ {e}
    PROVE  /\ IsFiniteSet(T)
           /\ Cardinality(S) \in Nat /\ Cardinality(T) \in Nat
           /\ e \in T /\ e \notin S => Cardinality(T) = Cardinality(S) + 1
           /\ e \in S /\ e \notin T => Cardinality(S) = Cardinality(T) + 1
           /\ (e \in S <=> e \in T) => Cardinality(S) = Cardinality(T)
<1>1. /\ IsFiniteSet(S \ {e}) /\ e \notin S \ {e}
      /\ Cardinality(S \ {e}) = IF e \in S THEN Cardinality(S) - 1 ELSE Cardinality(S)
    BY FS_RemoveElement
<1>2. IsFiniteSet(T)
    <2>1. CASE e \in T
        <3>1. T = (S \ {e}) \cup {e}
            BY <2>1
        <3> QED BY <1>1, <3>1, FS_AddElement
    <2>2. CASE e \notin T
        <3>1. T = S \ {e}
            BY <2>2
        <3> QED BY <1>1, <3>1
    <2> QED BY <2>1, <2>2
<1>3. Cardinality(T \ {e}) = IF e \in T THEN Cardinality(T) - 1 ELSE Cardinality(T)
    BY <1>2, FS_RemoveElement
<1>4. Cardinality(S) \in Nat /\ Cardinality(T) \in Nat
    BY <1>2, FS_CardinalityType
<1> QED BY <1>1, <1>2, <1>3, <1>4

DataOf(e) == e.data

LEMMA QueuedElement ==
    ASSUME NEW q, NEW d
    PROVE  \E S : /\ S = Queued(q, d)
                  /\ \A p \in S : p = <<p[1], p[2]>>
                  /\ \A u, i : <<u, i>> \in S <=> u \in Threads /\ i \in DOMAIN q[u] /\ DataOf(q[u][i]) = d
<1>1. PICK S : S = UNION {{u} \X {i \in DOMAIN q[u] : q[u][i].data = d} : u \in Threads}
    OBVIOUS
<1>2. \A p \in S : p = <<p[1], p[2]>>
    BY <1>1
<1>3. \A u, i : <<u, i>> \in S <=> u \in Threads /\ i \in DOMAIN q[u] /\ DataOf(q[u][i]) = d
    BY <1>1 DEF DataOf
<1> QED BY <1>1, <1>2, <1>3 DEF Queued

(* An entry e goes to the end of queue t, leaves its front, or goes back to *)
(* its front.                                                              *)
Others(q, r, t) == \A u \in Threads \ {t} : r[u] = q[u]
Appended(X, q, r, t, e) ==
    /\ q \in [Threads -> Seq(X)] /\ r \in [Threads -> Seq(X)] /\ t \in Threads /\ e \in X
    /\ r[t] = Append(q[t], e) /\ Others(q, r, t)
Removed(X, q, r, t, e) ==
    /\ q \in [Threads -> Seq(X)] /\ r \in [Threads -> Seq(X)] /\ t \in Threads /\ e \in X
    /\ q[t] # <<>> /\ q[t][1] = e /\ r[t] = Tail(q[t]) /\ Others(q, r, t)
PutBack(X, q, r, t, e) ==
    /\ q \in [Threads -> Seq(X)] /\ r \in [Threads -> Seq(X)] /\ t \in Threads /\ e \in X
    /\ r[t] = <<e>> \o q[t] /\ Others(q, r, t)

(* What that does to the number of entries of a piece of data. *)
LEMMA QueuedAppend ==
    ASSUME NEW X, NEW q, NEW r, NEW t, NEW e, NEW d, Appended(X, q, r, t, e), IsFiniteSet(Queued(q, d))
    PROVE  /\ IsFiniteSet(Queued(r, d))
           /\ Cardinality(Queued(q, d)) \in Nat /\ Cardinality(Queued(r, d)) \in Nat
           /\ DataOf(e) = d => Cardinality(Queued(r, d)) = Cardinality(Queued(q, d)) + 1
           /\ DataOf(e) # d => Cardinality(Queued(r, d)) = Cardinality(Queued(q, d))
<1>1. /\ q[t] \in Seq(X) /\ r[t] = Append(q[t], e) /\ e \in X /\ t \in Threads
      /\ \A u \in Threads \ {t} : r[u] = q[u]
    BY DEF Appended, Others
<1>2. PICK n : n = Len(q[t]) + 1
    OBVIOUS
<1>3. /\ DOMAIN q[t] = 1 .. Len(q[t]) /\ DOMAIN r[t] = 1 .. (Len(q[t]) + 1) /\ Len(q[t]) \in Nat
      /\ \A i \in DOMAIN q[t] : r[t][i] = q[t][i]
      /\ r[t][Len(q[t]) + 1] = e
    BY <1>1
<1>4. PICK S : /\ S = Queued(q, d)
               /\ \A p \in S : p = <<p[1], p[2]>>
               /\ \A u, i : <<u, i>> \in S <=> u \in Threads /\ i \in DOMAIN q[u] /\ DataOf(q[u][i]) = d
    BY QueuedElement
<1>5. PICK T : /\ T = Queued(r, d)
               /\ \A p \in T : p = <<p[1], p[2]>>
               /\ \A u, i : <<u, i>> \in T <=> u \in Threads /\ i \in DOMAIN r[u] /\ DataOf(r[u][i]) = d
    BY QueuedElement
<1>6. \A u, i : u # t \/ i # n => (<<u, i>> \in S <=> <<u, i>> \in T)
    <2> TAKE u, i
    <2> HAVE u # t \/ i # n
    <2>1. CASE u = t
        <3>1. i \in DOMAIN q[t] <=> i \in DOMAIN r[t]
            BY <1>2, <1>3, <2>1
        <3>2. i \in DOMAIN q[t] => r[t][i] = q[t][i]
            BY <1>3
        <3> QED BY <2>1, <3>1, <3>2, <1>4, <1>5
    <2>2. CASE u # t
        <3>1. u \in Threads => r[u] = q[u]
            BY <2>2, <1>1
        <3> QED BY <3>1, <1>4, <1>5
    <2> QED BY <2>1, <2>2
<1>7. S \ {<<t, n>>} = T \ {<<t, n>>}
    <2>1. \A p \in S : p # <<t, n>> => p \in T
        BY <1>4, <1>6
    <2>2. \A p \in T : p # <<t, n>> => p \in S
        BY <1>5, <1>6
    <2> QED BY <2>1, <2>2
<1>8. <<t, n>> \notin S /\ (<<t, n>> \in T <=> DataOf(e) = d)
    BY <1>1, <1>2, <1>3, <1>4, <1>5
<1>9. IsFiniteSet(S)
    BY <1>4
<1>10. /\ IsFiniteSet(T) /\ Cardinality(S) \in Nat /\ Cardinality(T) \in Nat
       /\ <<t, n>> \in T => Cardinality(T) = Cardinality(S) + 1
       /\ <<t, n>> \notin T => Cardinality(T) = Cardinality(S)
    <2>1. PICK p : p = <<t, n>>
        OBVIOUS
    <2> QED BY <1>7, <1>8, <1>9, <2>1, CountChange
<1>11. /\ DataOf(e) = d => Cardinality(T) = Cardinality(S) + 1
       /\ DataOf(e) # d => Cardinality(T) = Cardinality(S)
    BY <1>8, <1>10
<1> QED BY <1>4, <1>5, <1>10, <1>11

LEMMA QueuedTail ==
    ASSUME NEW X, NEW q, NEW r, NEW t, NEW e, NEW d, Removed(X, q, r, t, e),
           IsFiniteSet(Queued(q, d)) \/ IsFiniteSet(Queued(r, d))
    PROVE  /\ IsFiniteSet(Queued(r, d)) /\ IsFiniteSet(Queued(q, d))
           /\ Cardinality(Queued(q, d)) \in Nat /\ Cardinality(Queued(r, d)) \in Nat
           /\ DataOf(e) = d => Cardinality(Queued(q, d)) = Cardinality(Queued(r, d)) + 1
           /\ DataOf(e) # d => Cardinality(Queued(q, d)) = Cardinality(Queued(r, d))
<1>1. /\ q[t] \in Seq(X) /\ r[t] = Tail(q[t]) /\ q[t] # <<>> /\ q[t][1] = e /\ t \in Threads
      /\ \A u \in Threads \ {t} : r[u] = q[u]
    BY DEF Removed, Others
<1>2. /\ DOMAIN q[t] = 1 .. Len(q[t]) /\ DOMAIN r[t] = 1 .. (Len(q[t]) - 1) /\ Len(q[t]) \in Nat
      /\ \A i \in DOMAIN r[t] : r[t][i] = q[t][i + 1]
      /\ q[t][1] = e /\ 1 \in DOMAIN q[t]
    BY <1>1
<1>3. PICK S : /\ S = Queued(q, d)
               /\ \A p \in S : p = <<p[1], p[2]>>
               /\ \A u, i : <<u, i>> \in S <=> u \in Threads /\ i \in DOMAIN q[u] /\ DataOf(q[u][i]) = d
    BY QueuedElement
<1>4. PICK T : /\ T = Queued(r, d)
               /\ \A p \in T : p = <<p[1], p[2]>>
               /\ \A u, i : <<u, i>> \in T <=> u \in Threads /\ i \in DOMAIN r[u] /\ DataOf(r[u][i]) = d
    BY QueuedElement
<1>5. PICK R : R = S \ {<<t, 1>>}
    OBVIOUS
<1>6. \A p \in R : p = <<p[1], p[2]>>
    BY <1>3, <1>5
<1>7. \A i : <<t, i>> \in R <=> i \in 2 .. Len(q[t]) /\ DataOf(q[t][i]) = d
    <2>1. \A i : <<t, i>> \in R <=> <<t, i>> \in S /\ i # 1
        BY <1>5
    <2>2. \A i : <<t, i>> \in S <=> i \in DOMAIN q[t] /\ DataOf(q[t][i]) = d
        BY <1>1, <1>3
    <2>3. \A i : i \in 2 .. Len(q[t]) <=> i \in DOMAIN q[t] /\ i # 1
        BY <1>2
    <2> QED BY <2>1, <2>2, <2>3
<1>8. \A i : <<t, i>> \in T <=> i \in 1 .. (Len(q[t]) - 1) /\ DataOf(q[t][i + 1]) = d
    <2>1. \A i : <<t, i>> \in T <=> i \in DOMAIN r[t] /\ DataOf(r[t][i]) = d
        BY <1>1, <1>4
    <2>2. \A i : i \in DOMAIN r[t] <=> i \in 1 .. (Len(q[t]) - 1)
        BY <1>2
    <2>3. \A i \in DOMAIN r[t] : r[t][i] = q[t][i + 1]
        BY <1>2
    <2> QED BY <2>1, <2>2, <2>3
<1>9. \A u, i : u # t => (<<u, i>> \in R <=> <<u, i>> \in T)
    <2> TAKE u, i
    <2> HAVE u # t
    <2>1. u \in Threads => r[u] = q[u]
        BY <1>1
    <2>2. <<u, i>> # <<t, 1>>
        OBVIOUS
    <2>3. <<u, i>> \in R <=> <<u, i>> \in S
        BY <2>2, <1>5
    <2>4. <<u, i>> \in S <=> u \in Threads /\ i \in DOMAIN q[u] /\ DataOf(q[u][i]) = d
        BY <1>3
    <2>5. <<u, i>> \in T <=> u \in Threads /\ i \in DOMAIN r[u] /\ DataOf(r[u][i]) = d
        BY <1>4
    <2> QED BY <2>1, <2>3, <2>4, <2>5
<1> DEFINE f == [p \in R |-> IF p[1] = t THEN <<t, p[2] - 1>> ELSE p]
<1>10. \A p \in R : f[p] \in T
    <2> TAKE p \in R
    <2>1. CASE p[1] = t
        <3>1. p[2] \in 2 .. Len(q[t]) /\ DataOf(q[t][p[2]]) = d
            BY <1>6, <1>7, <2>1
        <3>2. p[2] - 1 \in 1 .. (Len(q[t]) - 1) /\ (p[2] - 1) + 1 = p[2]
            BY <3>1, <1>2
        <3> QED BY <3>1, <3>2, <1>8, <2>1
    <2>2. CASE p[1] # t
        <3>1. f[p] = p
            BY <2>2
        <3>2. <<p[1], p[2]>> \in R
            BY <1>6
        <3>3. <<p[1], p[2]>> \in T
            BY <3>2, <2>2, <1>9
        <3> QED BY <3>1, <3>3, <1>6
    <2> QED BY <2>1, <2>2
<1>11. \A p1, p2 \in R : f[p1] = f[p2] => p1 = p2
    <2> TAKE p1, p2 \in R
    <2>1. /\ p1[1] = t => p1[2] \in Int
          /\ p2[1] = t => p2[2] \in Int
        <3>1. /\ p1[1] = t => <<t, p1[2]>> \in R
              /\ p2[1] = t => <<t, p2[2]>> \in R
            BY <1>6
        <3> QED BY <3>1, <1>7, <1>2
    <2>2. CASE p1[1] = t /\ p2[1] = t
        <3>1. f[p1] = <<t, p1[2] - 1>> /\ f[p2] = <<t, p2[2] - 1>>
            BY <2>2
        <3>2. f[p1] = f[p2] => p1[2] = p2[2]
            BY <3>1, <2>1, <2>2
        <3> QED BY <3>2, <2>2, <1>6
    <2>3. CASE p1[1] # t \/ p2[1] # t
        BY <2>3, <1>6
    <2> QED BY <2>2, <2>3
<1>12. \A s \in T : \E p \in R : f[p] = s
    <2> TAKE s \in T
    <2>1. CASE s[1] = t
        <3>1. s[2] \in 1 .. (Len(q[t]) - 1) /\ DataOf(q[t][s[2] + 1]) = d
            BY <1>4, <1>8, <2>1
        <3>2. <<t, s[2] + 1>> \in R /\ (s[2] + 1) - 1 = s[2]
            BY <3>1, <1>7, <1>2
        <3>3. f[<<t, s[2] + 1>>] = <<t, s[2]>>
            BY <3>2
        <3> QED BY <3>2, <3>3, <2>1, <1>4
    <2>2. CASE s[1] # t
        <3>1. <<s[1], s[2]>> \in R /\ s = <<s[1], s[2]>>
            BY <1>4, <1>9, <2>2
        <3> QED BY <3>1, <2>2
    <2> QED BY <2>1, <2>2
<1>13. f \in Bijection(R, T)
    BY <1>10, <1>11, <1>12 DEF Bijection, Injection, Surjection, IsInjective
<1>14. IsFiniteSet(R)
    <2>1. CASE IsFiniteSet(S)
        BY <2>1, <1>5, FS_RemoveElement
    <2>2. CASE IsFiniteSet(T)
        BY <2>2, <1>13, FS_Injection DEF Bijection
    <2> QED BY <2>1, <2>2, <1>3, <1>4
<1>15. IsFiniteSet(T) /\ Cardinality(T) = Cardinality(R)
    BY <1>13, <1>14, FS_Bijection DEF ExistsBijection
<1>16. R \ {<<t, 1>>} = S \ {<<t, 1>>} /\ <<t, 1>> \notin R /\ (<<t, 1>> \in S <=> DataOf(e) = d)
    BY <1>1, <1>2, <1>3, <1>5
<1>17. /\ IsFiniteSet(S) /\ Cardinality(R) \in Nat /\ Cardinality(S) \in Nat
       /\ <<t, 1>> \in S => Cardinality(S) = Cardinality(R) + 1
       /\ <<t, 1>> \notin S => Cardinality(S) = Cardinality(R)
    <2>1. PICK p : p = <<t, 1>>
        OBVIOUS
    <2> QED BY <1>14, <1>16, <2>1, CountChange
<1>18. /\ DataOf(e) = d => Cardinality(S) = Cardinality(T) + 1
       /\ DataOf(e) # d => Cardinality(S) = Cardinality(T)
    BY <1>15, <1>16, <1>17
<1> QED BY <1>3, <1>4, <1>15, <1>17, <1>18

LEMMA QueuedPutBack ==
    ASSUME NEW X, NEW q, NEW r, NEW t, NEW e, NEW d, PutBack(X, q, r, t, e), IsFiniteSet(Queued(q, d))
    PROVE  /\ IsFiniteSet(Queued(r, d))
           /\ Cardinality(Queued(q, d)) \in Nat /\ Cardinality(Queued(r, d)) \in Nat
           /\ DataOf(e) = d => Cardinality(Queued(r, d)) = Cardinality(Queued(q, d)) + 1
           /\ DataOf(e) # d => Cardinality(Queued(r, d)) = Cardinality(Queued(q, d))
<1>1. /\ q \in [Threads -> Seq(X)] /\ r \in [Threads -> Seq(X)] /\ t \in Threads /\ e \in X
      /\ q[t] \in Seq(X) /\ r[t] = <<e>> \o q[t] /\ \A u \in Threads \ {t} : q[u] = r[u]
    BY DEF PutBack, Others
<1>2. r[t] # <<>> /\ r[t][1] = e /\ q[t] = Tail(r[t])
    BY <1>1
<1>3. Removed(X, r, q, t, e)
    BY <1>1, <1>2 DEF Removed, Others
<1> QED BY <1>3, QueuedTail

-----------------------------------------------------------------------------
(* What the threads hold.                                                  *)
LocalJobs == [subs : Seq(Kids), data : Items, hops : Int]
SharedJobs == [kid : Kids, data : Items, from : Threads, hops : Int]
CallFrames ==
    [at : {"call"}, data : Items, hops : Int, calls : Seq(Kids), outs : Int, out : Items, ext : Seq(Kids)]
KidFrames ==
    [at : {"call", "emit", "push", "add", "unmark", "scan", "failover"}, kid : Kids, data : Items,
     hops : Int, calls : Seq(Kids), outs : Int, out : Items, ext : Seq(Kids)]
RunFrames == CallFrames \cup KidFrames
Resumed == {n \in {NoFrame} \cup RunFrames : n.at \in {"none", "emit"}}
DeleteFrames == [at : {"delete"}, dead : Seq(Items), then : Resumed]

RefTypes ==
    /\ jobq \in [Threads -> Seq(LocalJobs)]
    /\ shared_jobq \in [Threads -> Seq(SharedJobs)] /\ failoverq \in [Threads -> Seq(SharedJobs)]
    /\ frame \in [Threads -> {NoFrame} \cup RunFrames \cup DeleteFrames]
    /\ references \in [Items -> Nat] /\ pool \subseteq Items
    /\ dependency \in [Items -> Seq(Items)]
    /\ held \in [Threads -> {NoEntry} \cup SharedJobs]
    /\ \A t \in Threads : pc[t] = "refill" => held[t] \in SharedJobs
    /\ \A t \in Threads : frame[t].at \in {"add", "unmark", "scan", "failover"} => frame[t].ext # <<>>

(* Data points to one parent at most, free data to none. *)
Parents == \A d \in Items : Len(dependency[d]) <= 1 /\ (d \in pool => dependency[d] = <<>>)

(* The data that a thread is deleting has no reference, and is on the      *)
(* stack of one thread, once.                                              *)
DeadOf(t) == IF At(t, "delete") THEN Range(frame[t].dead) ELSE {}
DeadOnce ==
    /\ \A t \in Threads : At(t, "delete") =>
            /\ frame[t].dead # <<>>
            /\ \A i, j \in DOMAIN frame[t].dead : i # j => frame[t].dead[i] # frame[t].dead[j]
    /\ \A t \in Threads : \A d \in DeadOf(t) : references[d] = 0
    /\ \A t, u \in Threads : t # u => DeadOf(t) \cap DeadOf(u) = {}

Countable ==
    \A d \in Items : /\ IsFiniteSet(Queued(jobq, d)) /\ IsFiniteSet(Queued(shared_jobq, d))
                     /\ IsFiniteSet(Queued(failoverq, d)) /\ IsFiniteSet(Children(d))

RefInv == RefTypes /\ Countable /\ Parents /\ DeadOnce /\ ReferencesExact

Free == pool = {d \in Items : references[d] = 0} \ Dying
Sum(d) == Cardinality(Queued(jobq, d)) + Cardinality(Queued(shared_jobq, d))
          + Cardinality(Queued(failoverq, d)) + Cardinality(Runs(d))
          + Cardinality(Emits(d)) + Cardinality(Adds(d))
          + Cardinality(Holds(d)) + Cardinality(Children(d))

LEMMA ExactParts ==
    /\ ReferencesExact <=> Free /\ \A d \in Items : references[d] = Sum(d)
    /\ ReferencesExact' <=> Free' /\ \A d \in Items : references'[d] = Sum(d)'
BY DEF ReferencesExact, Free, Sum

LEMMA DyingIs ==
    /\ \A d : d \in Dying <=> \E u \in Threads : d \in DeadOf(u)
    /\ \A d : d \in Dying' <=> \E u \in Threads : d \in DeadOf(u)'
BY DEF Dying, DeadOf

(* Only one thread's frame changes. *)
OnlyFrameOf(t) == \A u \in Threads \ {t} : frame'[u] = frame[u]

LEMMA FrameCounts ==
    ASSUME NEW t \in Threads, OnlyFrameOf(t), NEW d
    PROVE  /\ Cardinality(Runs(d)) \in Nat /\ Cardinality(Runs(d)') \in Nat
           /\ t \in Runs(d)' /\ t \notin Runs(d) => Cardinality(Runs(d)') = Cardinality(Runs(d)) + 1
           /\ t \in Runs(d) /\ t \notin Runs(d)' => Cardinality(Runs(d)) = Cardinality(Runs(d)') + 1
           /\ (t \in Runs(d) <=> t \in Runs(d)') => Cardinality(Runs(d)) = Cardinality(Runs(d)')
           /\ Cardinality(Emits(d)) \in Nat /\ Cardinality(Emits(d)') \in Nat
           /\ t \in Emits(d)' /\ t \notin Emits(d) => Cardinality(Emits(d)') = Cardinality(Emits(d)) + 1
           /\ t \in Emits(d) /\ t \notin Emits(d)' => Cardinality(Emits(d)) = Cardinality(Emits(d)') + 1
           /\ (t \in Emits(d) <=> t \in Emits(d)') => Cardinality(Emits(d)) = Cardinality(Emits(d)')
           /\ Cardinality(Adds(d)) \in Nat /\ Cardinality(Adds(d)') \in Nat
           /\ t \in Adds(d)' /\ t \notin Adds(d) => Cardinality(Adds(d)') = Cardinality(Adds(d)) + 1
           /\ t \in Adds(d) /\ t \notin Adds(d)' => Cardinality(Adds(d)) = Cardinality(Adds(d)') + 1
           /\ (t \in Adds(d) <=> t \in Adds(d)') => Cardinality(Adds(d)) = Cardinality(Adds(d)')
<1>1. IsFiniteSet(Threads)
    <2>1. 0 \in Int /\ work_size - 1 \in Int
        BY EngineConstants
    <2> QED BY <2>1, FS_Interval DEF Threads
<1>2. IsFiniteSet(Runs(d)) /\ IsFiniteSet(Emits(d)) /\ IsFiniteSet(Adds(d))
    <2>1. Runs(d) \in SUBSET Threads /\ Emits(d) \in SUBSET Threads /\ Adds(d) \in SUBSET Threads
        BY DEF Runs, Emits, Adds
    <2> QED BY <1>1, <2>1, FS_Subset
<1>3. Runs(d) \ {t} = Runs(d)' \ {t}
    BY DEF Runs, Job, At, OnlyFrameOf
<1>4. Emits(d) \ {t} = Emits(d)' \ {t}
    BY DEF Emits, Emitting, OnlyFrameOf
<1>5. Adds(d) \ {t} = Adds(d)' \ {t}
    BY DEF Adds, Adding, OnlyFrameOf
<1>6. PICK R, S : R = Runs(d) /\ S = Runs(d)'
    OBVIOUS
<1>7. /\ Cardinality(R) \in Nat /\ Cardinality(S) \in Nat
      /\ t \in S /\ t \notin R => Cardinality(S) = Cardinality(R) + 1
      /\ t \in R /\ t \notin S => Cardinality(R) = Cardinality(S) + 1
      /\ (t \in R <=> t \in S) => Cardinality(R) = Cardinality(S)
    BY <1>2, <1>3, <1>6, CountChange
<1>8. PICK E, F : E = Emits(d) /\ F = Emits(d)'
    OBVIOUS
<1>9. /\ Cardinality(E) \in Nat /\ Cardinality(F) \in Nat
      /\ t \in F /\ t \notin E => Cardinality(F) = Cardinality(E) + 1
      /\ t \in E /\ t \notin F => Cardinality(E) = Cardinality(F) + 1
      /\ (t \in E <=> t \in F) => Cardinality(E) = Cardinality(F)
    BY <1>2, <1>4, <1>8, CountChange
<1>10. PICK A, B : A = Adds(d) /\ B = Adds(d)'
    OBVIOUS
<1>11. /\ Cardinality(A) \in Nat /\ Cardinality(B) \in Nat
       /\ t \in B /\ t \notin A => Cardinality(B) = Cardinality(A) + 1
       /\ t \in A /\ t \notin B => Cardinality(A) = Cardinality(B) + 1
       /\ (t \in A <=> t \in B) => Cardinality(A) = Cardinality(B)
    BY <1>2, <1>5, <1>10, CountChange
<1> QED BY <1>6, <1>7, <1>8, <1>9, <1>10, <1>11

(* Fields that change in a frame. *)
LEMMA FrameFields ==
    ASSUME NEW f \in KidFrames
    PROVE  /\ \A x \in {"call", "emit", "push", "add", "unmark", "scan", "failover"} :
                 /\ [f EXCEPT !.at = x] \in KidFrames
                 /\ \A e \in Seq(Kids) : [f EXCEPT !.ext = e, !.at = x] \in KidFrames
                 /\ \A n \in Int, d \in Items, e \in Seq(Kids) :
                       [f EXCEPT !.outs = n, !.out = d, !.ext = e, !.at = x] \in KidFrames
<1> SUFFICES ASSUME NEW x \in {"call", "emit", "push", "add", "unmark", "scan", "failover"}
             PROVE  /\ [f EXCEPT !.at = x] \in KidFrames
                    /\ \A e \in Seq(Kids) : [f EXCEPT !.ext = e, !.at = x] \in KidFrames
                    /\ \A n \in Int, d \in Items, e \in Seq(Kids) :
                          [f EXCEPT !.outs = n, !.out = d, !.ext = e, !.at = x] \in KidFrames
    OBVIOUS
<1>1. [f EXCEPT !.at = x] \in KidFrames
    BY DEF KidFrames
<1>2. ASSUME NEW e \in Seq(Kids) PROVE [f EXCEPT !.ext = e, !.at = x] \in KidFrames
    BY DEF KidFrames
<1>3. ASSUME NEW n \in Int, NEW d \in Items, NEW e \in Seq(Kids)
      PROVE  [f EXCEPT !.outs = n, !.out = d, !.ext = e, !.at = x] \in KidFrames
    BY DEF KidFrames
<1> QED BY <1>1, <1>2, <1>3

(* What the kinds of frames have in common. *)
LEMMA FrameKinds ==
    ASSUME NEW f \in {NoFrame} \cup RunFrames \cup DeleteFrames
    PROVE  /\ f.at = "none" <=> f = NoFrame
           /\ f.at = "delete" <=> f \in DeleteFrames
           /\ f.at \in {"call", "emit", "push", "add", "unmark", "scan", "failover"} <=> f \in RunFrames
           /\ f.at \in {"emit", "push", "add", "unmark", "scan", "failover"} => f \in KidFrames
           /\ f \in RunFrames => /\ f.data \in Items /\ f.out \in Items /\ f.hops \in Int /\ f.outs \in Int
                                 /\ f.calls \in Seq(Kids) /\ f.ext \in Seq(Kids)
           /\ f \in KidFrames => f.kid \in Kids
           /\ f \in DeleteFrames => f.dead \in Seq(Items) /\ f.then \in Resumed
BY DEF NoFrame, RunFrames, CallFrames, KidFrames, DeleteFrames

(* A step that deletes nothing keeps what is being deleted. *)
LEMMA DeadKept ==
    ASSUME RefTypes, DeadOnce, Free, NEW t \in Threads, OnlyFrameOf(t), ~At(t, "delete"), ~At(t, "delete")',
           references' \in [Items -> Nat],
           \A d \in Items : \/ references'[d] = references[d] /\ (d \in pool' <=> d \in pool)
                            \/ references'[d] > 0 /\ d \notin Dying /\ d \notin pool',
           pool' \subseteq Items
    PROVE  DeadOnce' /\ Free'
<1>1. \A u \in Threads : DeadOf(u)' = DeadOf(u) /\ (At(u, "delete")' <=> At(u, "delete"))
    BY DEF DeadOf, At, OnlyFrameOf
<1>2. \A d : d \in Dying' <=> d \in Dying
    BY <1>1, DyingIs
<1>3. \A u \in Threads : At(u, "delete")' => frame'[u] = frame[u]
    BY DEF OnlyFrameOf
<1>4. \A u \in Threads : \A d \in DeadOf(u) : d \in Items
    <2> TAKE u \in Threads
    <2>1. frame[u] \in {NoFrame} \cup RunFrames \cup DeleteFrames
        BY DEF RefTypes
    <2>2. frame[u].at = "delete" => frame[u].dead \in Seq(Items)
        BY <2>1, FrameKinds
    <2> QED BY <2>2 DEF DeadOf, At, Range
<1>5. \A u \in Threads : \A d \in DeadOf(u) : references'[d] = 0
    BY <1>4, DyingIs DEF DeadOnce
<1>6. Free'
    <2>1. \A d \in Items : d \in pool <=> references[d] = 0 /\ d \notin Dying
        BY DEF Free
    <2>2. \A d \in Items : references'[d] \in Nat
        OBVIOUS
    <2>3. \A d \in Items : d \in pool' <=> references'[d] = 0 /\ d \notin Dying
        BY <2>1, <2>2
    <2> QED BY <1>2, <2>3 DEF Free
<1>7. DeadOnce'
    BY <1>1, <1>3, <1>5 DEF DeadOnce, At
<1> QED BY <1>6, <1>7

(* What the frame f of a thread holds of d. *)
JobIn(f) == IF f.at = "delete" THEN f.then ELSE f
RunsIn(f, d) == JobIn(f).at # "none" /\ JobIn(f).data = d
EmitsIn(f, d) == f.at \in {"push", "add", "unmark", "scan", "failover"} /\ f.out = d
AddsIn(f, d) == f.at \in {"add", "scan", "failover"} /\ f.out = d

LEMMA HeldByFrame ==
    ASSUME NEW t \in Threads, NEW d
    PROVE  /\ t \in Runs(d) <=> RunsIn(frame[t], d)
           /\ t \in Runs(d)' <=> RunsIn(frame'[t], d)
           /\ t \in Emits(d) <=> EmitsIn(frame[t], d)
           /\ t \in Emits(d)' <=> EmitsIn(frame'[t], d)
           /\ t \in Adds(d) <=> AddsIn(frame[t], d)
           /\ t \in Adds(d)' <=> AddsIn(frame'[t], d)
BY DEF Runs, Emits, Adds, Job, At, Emitting, Adding, JobIn, RunsIn, EmitsIn, AddsIn

(* The counts of the queues, of what a thread has taken out of its         *)
(* failover queue, and of the children are numbers.                        *)
LEMMA Counts ==
    ASSUME Countable, NEW d \in Items
    PROVE  /\ Cardinality(Queued(jobq, d)) \in Nat /\ Cardinality(Queued(shared_jobq, d)) \in Nat
           /\ Cardinality(Queued(failoverq, d)) \in Nat
           /\ Cardinality(Children(d)) \in Nat /\ Cardinality(Holds(d)) \in Nat
<1>1. IsFiniteSet(Threads)
    <2>1. 0 \in Int /\ work_size - 1 \in Int
        BY EngineConstants
    <2> QED BY <2>1, FS_Interval DEF Threads
<1>2. Holds(d) \in SUBSET Threads
    BY DEF Holds
<1> QED BY <1>1, <1>2, FS_Subset, FS_CardinalityType DEF Countable

(* A step inside a job that holds on to what it has. *)
LEMMA InsideJob ==
    ASSUME RefInv, NEW t \in Threads, NEW g \in RunFrames, frame[t] \in RunFrames,
           frame' = [frame EXCEPT ![t] = g],
           \A d : /\ RunsIn(g, d) <=> RunsIn(frame[t], d)
                  /\ EmitsIn(g, d) <=> EmitsIn(frame[t], d)
                  /\ AddsIn(g, d) <=> AddsIn(frame[t], d),
           g.at \in {"add", "unmark", "scan", "failover"} => g.ext # <<>>,
           UNCHANGED <<queues, dataVars, pc, held>>
    PROVE  RefInv'
<1>1. /\ frame \in [Threads -> {NoFrame} \cup RunFrames \cup DeleteFrames]
      /\ frame'[t] = g /\ OnlyFrameOf(t)
      /\ frame' \in [Threads -> {NoFrame} \cup RunFrames \cup DeleteFrames]
    BY DEF RefInv, RefTypes, OnlyFrameOf
<1>2. UNCHANGED <<jobq, shared_jobq, failoverq, references, pool, dependency, pc, held>>
    BY DEF queues, dataVars
<1>3. RefTypes'
    BY <1>1, <1>2 DEF RefInv, RefTypes, OnlyFrameOf
<1>4. Parents' /\ Countable'
    <2>1. Parents'
        BY <1>2 DEF RefInv, Parents
    <2>2. \A d : /\ Queued(jobq, d)' = Queued(jobq, d) /\ Queued(shared_jobq, d)' = Queued(shared_jobq, d)
                /\ Queued(failoverq, d)' = Queued(failoverq, d) /\ Children(d)' = Children(d)
        BY <1>2 DEF Queued, Children
    <2> QED BY <2>1, <2>2 DEF RefInv, Countable
<1>5. frame[t].at # "delete" /\ g.at # "delete"
    BY FrameKinds
<1>6. DeadOnce' /\ Free'
    <2>1. Free /\ ~At(t, "delete") /\ ~At(t, "delete")'
        BY <1>1, <1>5, ExactParts DEF RefInv, At
    <2>2. \A d \in Items : references'[d] = references[d] /\ (d \in pool' <=> d \in pool)
        BY <1>2
    <2>3. references' \in [Items -> Nat] /\ pool' \subseteq Items
        BY <1>3 DEF RefTypes
    <2> QED BY <1>1, <2>1, <2>2, <2>3, DeadKept DEF RefInv
<1>7. ASSUME NEW d \in Items PROVE references'[d] = Sum(d)'
    <2>1. /\ Cardinality(Runs(d)') = Cardinality(Runs(d))
          /\ Cardinality(Emits(d)') = Cardinality(Emits(d))
          /\ Cardinality(Adds(d)') = Cardinality(Adds(d))
        <3>1. /\ t \in Runs(d) <=> t \in Runs(d)'
              /\ t \in Emits(d) <=> t \in Emits(d)'
              /\ t \in Adds(d) <=> t \in Adds(d)'
            BY <1>1, HeldByFrame
        <3> QED BY <1>1, <3>1, FrameCounts
    <2>2. Queued(jobq, d)' = Queued(jobq, d) /\ Queued(shared_jobq, d)' = Queued(shared_jobq, d)
          /\ Queued(failoverq, d)' = Queued(failoverq, d) /\ Children(d)' = Children(d) /\ Holds(d)' = Holds(d)
        BY <1>2 DEF Queued, Children, Holds
    <2>3. references[d] = Sum(d)
        BY ExactParts DEF RefInv
    <2> QED BY <1>2, <2>1, <2>2, <2>3 DEF Sum
<1> QED BY <1>3, <1>4, <1>6, <1>7, ExactParts DEF RefInv

LEMMA FrameOf ==
    ASSUME RefTypes, NEW t \in Threads
    PROVE  /\ frame[t] \in {NoFrame} \cup RunFrames \cup DeleteFrames
           /\ frame[t].at = "none" <=> frame[t] = NoFrame
           /\ frame[t].at = "delete" <=> frame[t] \in DeleteFrames
           /\ frame[t].at \in {"call", "emit", "push", "add", "unmark", "scan", "failover"}
                <=> frame[t] \in RunFrames
           /\ frame[t].at \in {"emit", "push", "add", "unmark", "scan", "failover"} => frame[t] \in KidFrames
BY FrameKinds DEF RefTypes

(* Steps of a job that change only where it is. *)
LEMMA CallKeeps ==
    ASSUME RefInv, NEW t \in Threads, Call(t), UNCHANGED <<pc, held>>
    PROVE  RefInv'
<1>1. /\ frame[t].at = "call" /\ frame[t] \in RunFrames /\ frame[t].calls # <<>>
      /\ frame \in [Threads -> {NoFrame} \cup RunFrames \cup DeleteFrames]
    BY FrameOf DEF Call, At, RefInv, RefTypes
<1>2. PICK k : k = Head(frame[t].calls)
    OBVIOUS
<1>3. PICK g : g = [at |-> "emit", kid |-> k, calls |-> Tail(frame[t].calls),
                    outs |-> IF frame[t].hops = 0 THEN 0 ELSE Outputs[k],
                    data |-> frame[t].data, hops |-> frame[t].hops, out |-> frame[t].data, ext |-> <<>>]
    OBVIOUS
<1>4. frame' = [frame EXCEPT ![t] = g]
    BY <1>1, <1>2, <1>3 DEF Call
<1>5. /\ frame[t].data \in Items /\ frame[t].hops \in Int /\ frame[t].calls \in Seq(Kids)
    BY <1>1, FrameKinds
<1>6. k \in Kids /\ Tail(frame[t].calls) \in Seq(Kids) /\ <<>> \in Seq(Kids)
    BY <1>1, <1>2, <1>5
<1>7. Outputs[k] \in Int
    BY <1>6, EngineConstants
<1>8. g \in KidFrames /\ g.at = "emit" /\ g.data = frame[t].data
    BY <1>3, <1>5, <1>6, <1>7 DEF KidFrames
<1>9. g \in RunFrames
    BY <1>8 DEF RunFrames
<1>10. \A d : /\ RunsIn(g, d) <=> RunsIn(frame[t], d)
              /\ EmitsIn(g, d) <=> EmitsIn(frame[t], d)
              /\ AddsIn(g, d) <=> AddsIn(frame[t], d)
    BY <1>1, <1>8 DEF RunsIn, EmitsIn, AddsIn, JobIn
<1>11. UNCHANGED <<queues, dataVars, pc, held>>
    BY DEF Call
<1> QED BY <1>1, <1>4, <1>8, <1>9, <1>10, <1>11, InsideJob

LEMMA EnterKeeps ==
    ASSUME RefInv, NEW t \in Threads, NEW from, NEW to, At(t, from), Enter(t, to),
           \/ from = "emit" /\ to = "call"
           \/ from = "add" /\ to = "scan"
           \/ from = "scan" /\ to \in {"add", "failover"},
           UNCHANGED <<queues, dataVars, pc, held>>
    PROVE  RefInv'
<1>1. /\ frame[t].at = from /\ frame[t] \in KidFrames
      /\ frame \in [Threads -> {NoFrame} \cup RunFrames \cup DeleteFrames]
    BY FrameOf DEF At, RefInv, RefTypes
<1>2. PICK g : g = [frame[t] EXCEPT !.at = to]
    OBVIOUS
<1>3. frame' = [frame EXCEPT ![t] = g]
    BY <1>1, <1>2 DEF Enter
<1>4. to \in {"call", "emit", "push", "add", "unmark", "scan", "failover"}
    OBVIOUS
<1>5. g \in KidFrames
    BY <1>1, <1>2, <1>4, FrameFields
<1>6. /\ g.at = to /\ g.data = frame[t].data /\ g.out = frame[t].out /\ g.ext = frame[t].ext
    BY <1>1, <1>2 DEF KidFrames
<1>7. \A d : /\ RunsIn(g, d) <=> RunsIn(frame[t], d)
             /\ EmitsIn(g, d) <=> EmitsIn(frame[t], d)
             /\ AddsIn(g, d) <=> AddsIn(frame[t], d)
    BY <1>1, <1>6 DEF RunsIn, EmitsIn, AddsIn, JobIn
<1>8. g.at \in {"add", "unmark", "scan", "failover"} => g.ext # <<>>
    BY <1>1, <1>6 DEF RefInv, RefTypes
<1>9. g \in RunFrames /\ frame[t] \in RunFrames
    BY <1>1, <1>5 DEF RunFrames
<1> QED BY <1>3, <1>7, <1>8, <1>9, InsideJob

LEMMA UnmarkKeeps ==
    ASSUME RefInv, NEW t \in Threads, Unmark(t), UNCHANGED <<pc, held>>
    PROVE  RefInv'
<1>1. /\ frame[t].at = "unmark" /\ frame[t] \in KidFrames
      /\ frame \in [Threads -> {NoFrame} \cup RunFrames \cup DeleteFrames]
      /\ frame[t].ext # <<>> /\ frame[t].ext \in Seq(Kids)
    <2>1. frame[t].at = "unmark" /\ frame[t] \in KidFrames /\ frame[t].ext # <<>>
        BY FrameOf DEF Unmark, At, RefInv, RefTypes
    <2> QED BY <2>1 DEF RefInv, RefTypes, KidFrames
<1>2. PICK g : g = [frame[t] EXCEPT !.ext = Tail(@), !.at = "push"]
    OBVIOUS
<1>3. frame' = [frame EXCEPT ![t] = g]
    BY <1>1, <1>2 DEF Unmark, Served
<1>4. g \in KidFrames /\ g.at = "push" /\ g.data = frame[t].data /\ g.out = frame[t].out
    <2>1. Tail(frame[t].ext) \in Seq(Kids)
        BY <1>1
    <2> QED BY <1>1, <1>2, <2>1 DEF KidFrames
<1>5. \A d : /\ RunsIn(g, d) <=> RunsIn(frame[t], d)
             /\ EmitsIn(g, d) <=> EmitsIn(frame[t], d)
             /\ AddsIn(g, d) <=> AddsIn(frame[t], d)
    BY <1>1, <1>4 DEF RunsIn, EmitsIn, AddsIn, JobIn
<1>6. g \in RunFrames /\ frame[t] \in RunFrames
    BY <1>1, <1>4 DEF RunFrames
<1>7. UNCHANGED <<queues, dataVars, pc, held>>
    BY DEF Unmark
<1> QED BY <1>3, <1>4, <1>5, <1>6, <1>7, InsideJob

(* The parts of the invariant make the whole. *)
LEMMA Assemble ==
    ASSUME RefInv, NEW t \in Threads, OnlyFrameOf(t), ~At(t, "delete"), ~At(t, "delete")',
           RefTypes', Parents', Countable',
           \A d \in Items : \/ references'[d] = references[d] /\ (d \in pool' <=> d \in pool)
                            \/ references'[d] > 0 /\ d \notin Dying /\ d \notin pool',
           \A d \in Items : references'[d] = Sum(d)'
    PROVE  RefInv'
<1>1. references' \in [Items -> Nat] /\ pool' \subseteq Items
    BY DEF RefTypes
<1>2. DeadOnce' /\ Free'
    BY <1>1, DeadKept, ExactParts DEF RefInv
<1> QED BY <1>2, ExactParts DEF RefInv

(* Data that something holds has references and is not being deleted. *)
LEMMA HeldIsLive ==
    ASSUME RefInv, NEW d \in Items, NEW t \in Threads, t \in Runs(d) \/ t \in Emits(d)
    PROVE  references[d] > 0 /\ d \notin Dying /\ d \notin pool
<1>1. IsFiniteSet(Threads)
    <2>1. 0 \in Int /\ work_size - 1 \in Int
        BY EngineConstants
    <2> QED BY <2>1, FS_Interval DEF Threads
<1>2. /\ Runs(d) \in SUBSET Threads /\ Emits(d) \in SUBSET Threads /\ Adds(d) \in SUBSET Threads
    BY DEF Runs, Emits, Adds
<1>3. IsFiniteSet(Runs(d)) /\ IsFiniteSet(Emits(d)) /\ IsFiniteSet(Adds(d))
    BY <1>1, <1>2, FS_Subset
<1>4. /\ Cardinality(Runs(d)) \in Nat /\ Cardinality(Emits(d)) \in Nat /\ Cardinality(Adds(d)) \in Nat
      /\ Cardinality(Runs(d)) > 0 \/ Cardinality(Emits(d)) > 0
    BY <1>3, FS_EmptySet, FS_CardinalityType
<1>5. references[d] = Sum(d)
    BY ExactParts DEF RefInv
<1>6. references[d] > 0
    BY <1>4, <1>5, Counts DEF Sum, RefInv
<1>7. d \notin Dying
    BY <1>6, DyingIs DEF RefInv, DeadOnce
<1>8. d \notin pool
    BY <1>6, ExactParts DEF RefInv, Free
<1> QED BY <1>6, <1>7, <1>8

LEMMA PushNextKeeps ==
    ASSUME RefInv, NEW t \in Threads, PushNext(t), UNCHANGED <<pc, held>>
    PROVE  RefInv'
<1>1. /\ frame[t].at = "push" /\ frame[t] \in KidFrames
      /\ frame \in [Threads -> {NoFrame} \cup RunFrames \cup DeleteFrames]
    BY FrameOf DEF PushNext, At, RefInv, RefTypes
<1>2. PICK g : g = [frame[t] EXCEPT !.at = "add"]
    OBVIOUS
<1>3. frame' = [frame EXCEPT ![t] = g]
    BY <1>1, <1>2 DEF PushNext, Enter
<1>4. PICK o : o = frame[t].out
    OBVIOUS
<1>5. /\ g \in KidFrames /\ g.at = "add" /\ g.data = frame[t].data /\ g.out = o /\ g.ext = frame[t].ext
      /\ o \in Items
    BY <1>1, <1>2, <1>4 DEF KidFrames
<1>6. /\ frame'[t] = g /\ OnlyFrameOf(t)
      /\ frame' \in [Threads -> {NoFrame} \cup RunFrames \cup DeleteFrames]
    BY <1>1, <1>3, <1>5 DEF OnlyFrameOf, RunFrames
<1>7. /\ references \in [Items -> Nat] /\ references' = [references EXCEPT ![o] = @ + 1]
      /\ frame[t].ext # <<>>
      /\ UNCHANGED <<jobq, shared_jobq, failoverq, pool, dependency, pc, held>>
    BY <1>4 DEF PushNext, queues, RefInv, RefTypes
<1>8. /\ references' \in [Items -> Nat] /\ references'[o] = references[o] + 1
      /\ \A d \in Items : d # o => references'[d] = references[d]
    BY <1>5, <1>7
<1>9. RefTypes'
    <2>1. \A v \in Threads : frame'[v].at \in {"add", "unmark", "scan", "failover"} => frame'[v].ext # <<>>
        BY <1>5, <1>6, <1>7 DEF RefInv, RefTypes, OnlyFrameOf
    <2> QED BY <1>6, <1>7, <1>8, <2>1 DEF RefInv, RefTypes
<1>10. Parents' /\ Countable'
    <2>1. Parents'
        BY <1>7 DEF RefInv, Parents
    <2>2. \A d : /\ Queued(jobq, d)' = Queued(jobq, d) /\ Queued(shared_jobq, d)' = Queued(shared_jobq, d)
                 /\ Queued(failoverq, d)' = Queued(failoverq, d) /\ Children(d)' = Children(d)
        BY <1>7 DEF Queued, Children
    <2> QED BY <2>1, <2>2 DEF RefInv, Countable
<1>11. t \in Emits(o)
    BY <1>1, <1>4, HeldByFrame DEF EmitsIn
<1>12. \A d \in Items : \/ references'[d] = references[d] /\ (d \in pool' <=> d \in pool)
                        \/ references'[d] > 0 /\ d \notin Dying /\ d \notin pool'
    <2>1. references[o] > 0 /\ o \notin Dying /\ o \notin pool
        BY <1>5, <1>11, HeldIsLive
    <2> QED BY <2>1, <1>5, <1>7, <1>8
<1>13. ASSUME NEW d \in Items PROVE references'[d] = Sum(d)'
    <2>1. /\ t \in Runs(d) <=> t \in Runs(d)'
          /\ t \in Emits(d) <=> t \in Emits(d)'
          /\ t \notin Adds(d) /\ (t \in Adds(d)' <=> d = o)
        <3>1. /\ RunsIn(g, d) <=> RunsIn(frame[t], d)
              /\ EmitsIn(g, d) <=> EmitsIn(frame[t], d)
              /\ ~AddsIn(frame[t], d) /\ (AddsIn(g, d) <=> d = o)
            BY <1>1, <1>4, <1>5 DEF RunsIn, EmitsIn, AddsIn, JobIn
        <3> QED BY <1>6, <3>1, HeldByFrame
    <2>2. Queued(jobq, d)' = Queued(jobq, d) /\ Queued(shared_jobq, d)' = Queued(shared_jobq, d)
          /\ Queued(failoverq, d)' = Queued(failoverq, d) /\ Children(d)' = Children(d) /\ Holds(d)' = Holds(d)
        BY <1>7 DEF Queued, Children, Holds
    <2>3. references[d] = Sum(d)
        BY ExactParts DEF RefInv
    <2>4. /\ Cardinality(Runs(d)') = Cardinality(Runs(d))
          /\ Cardinality(Emits(d)') = Cardinality(Emits(d))
          /\ d = o => Cardinality(Adds(d)') = Cardinality(Adds(d)) + 1
          /\ d # o => Cardinality(Adds(d)') = Cardinality(Adds(d))
          /\ Cardinality(Runs(d)) \in Nat /\ Cardinality(Emits(d)) \in Nat /\ Cardinality(Adds(d)) \in Nat
        BY <1>6, <2>1, FrameCounts
    <2>5. Sum(d)' = Sum(d) + (IF d = o THEN 1 ELSE 0)
        BY <2>2, <2>4, Counts DEF Sum, RefInv
    <2> QED BY <1>8, <2>3, <2>5
<1>14. ~At(t, "delete") /\ ~At(t, "delete")'
    BY <1>1, <1>5, <1>6 DEF At
<1> QED BY <1>6, <1>9, <1>10, <1>12, <1>13, <1>14, Assemble

(* The external subscriber that is served next, and the entry for it. *)
LEMMA PushedFacts ==
    ASSUME RefInv, NEW t \in Threads, frame[t].at \in {"add", "unmark", "scan", "failover"}
    PROVE  /\ Target(t) \in Threads
           /\ Pushed(t) \in SharedJobs /\ Pushed(t).data = frame[t].out
           /\ frame[t] \in KidFrames /\ frame[t].out \in Items
           /\ frame[t].ext \in Seq(Kids) /\ frame[t].ext # <<>>
<1>1. frame[t] \in KidFrames /\ frame[t].ext # <<>>
    BY FrameOf DEF RefInv, RefTypes
<1>2. frame[t].ext \in Seq(Kids) /\ frame[t].out \in Items /\ frame[t].hops \in Int
    BY <1>1 DEF KidFrames
<1>3. Head(frame[t].ext) \in Kids
    BY <1>1, <1>2
<1>4. Target(t) \in Threads
    BY <1>3, EngineConstants DEF Target
<1>5. Pushed(t) \in SharedJobs /\ Pushed(t).data = frame[t].out
    BY <1>2, <1>3 DEF Pushed, SharedJobs
<1> QED BY <1>1, <1>2, <1>4, <1>5

LEMMA ServedFacts ==
    ASSUME NEW f \in KidFrames, f.ext # <<>>, NEW g, g = [f EXCEPT !.ext = Tail(@), !.at = "push"]
    PROVE  g \in KidFrames /\ g.at = "push" /\ g.data = f.data /\ g.out = f.out
<1>1. f.ext \in Seq(Kids)
    BY DEF KidFrames
<1>2. Tail(f.ext) \in Seq(Kids)
    BY <1>1
<1> QED BY <1>2 DEF KidFrames

(* An entry goes into a queue, and the thread that was adding it goes on. *)
LEMMA EntryAdded ==
    ASSUME RefInv, NEW t \in Threads, NEW u \in Threads, NEW e \in SharedJobs, NEW g \in KidFrames,
           frame[t].at \in {"add", "failover"}, e.data = frame[t].out,
           frame' = [frame EXCEPT ![t] = g],
           g.at \in {"unmark", "push"}, g.at = "unmark" => g.ext # <<>>,
           g.data = frame[t].data, g.out = frame[t].out,
           \/ shared_jobq' = [shared_jobq EXCEPT ![u] = Append(@, e)] /\ failoverq' = failoverq
           \/ failoverq' = [failoverq EXCEPT ![u] = Append(@, e)] /\ shared_jobq' = shared_jobq,
           UNCHANGED <<jobq, dataVars, pc, held>>
    PROVE  RefInv'
<1>1. /\ frame[t] \in KidFrames
      /\ frame \in [Threads -> {NoFrame} \cup RunFrames \cup DeleteFrames]
      /\ shared_jobq \in [Threads -> Seq(SharedJobs)] /\ failoverq \in [Threads -> Seq(SharedJobs)]
    BY FrameOf DEF RefInv, RefTypes
<1>2. PICK o : o = frame[t].out
    OBVIOUS
<1>3. /\ frame'[t] = g /\ OnlyFrameOf(t)
      /\ frame' \in [Threads -> {NoFrame} \cup RunFrames \cup DeleteFrames]
    BY <1>1 DEF OnlyFrameOf, RunFrames
<1>4. UNCHANGED <<jobq, references, pool, dependency, pc, held>>
    BY DEF dataVars
<1>5. /\ shared_jobq' \in [Threads -> Seq(SharedJobs)] /\ failoverq' \in [Threads -> Seq(SharedJobs)]
      /\ \/ Appended(SharedJobs, shared_jobq, shared_jobq', u, e) /\ failoverq' = failoverq
         \/ Appended(SharedJobs, failoverq, failoverq', u, e) /\ shared_jobq' = shared_jobq
    <2>1. \A q \in [Threads -> Seq(SharedJobs)] :
            /\ [q EXCEPT ![u] = Append(@, e)] \in [Threads -> Seq(SharedJobs)]
            /\ [q EXCEPT ![u] = Append(@, e)][u] = Append(q[u], e)
            /\ \A v \in Threads \ {u} : [q EXCEPT ![u] = Append(@, e)][v] = q[v]
        OBVIOUS
    <2>2. CASE shared_jobq' = [shared_jobq EXCEPT ![u] = Append(@, e)] /\ failoverq' = failoverq
        BY <1>1, <2>1, <2>2 DEF Appended, Others
    <2>3. CASE failoverq' = [failoverq EXCEPT ![u] = Append(@, e)] /\ shared_jobq' = shared_jobq
        BY <1>1, <2>1, <2>3 DEF Appended, Others
    <2> QED BY <2>2, <2>3
<1>6. RefTypes'
    <2>1. \A v \in Threads : frame'[v].at \in {"add", "unmark", "scan", "failover"} => frame'[v].ext # <<>>
        BY <1>3 DEF RefInv, RefTypes, OnlyFrameOf
    <2> QED BY <1>3, <1>4, <1>5, <2>1 DEF RefInv, RefTypes
<1>7. ASSUME NEW d \in Items
      PROVE  /\ IsFiniteSet(Queued(shared_jobq', d)) /\ IsFiniteSet(Queued(failoverq', d))
             /\ e.data = d =>
                    Cardinality(Queued(shared_jobq', d)) + Cardinality(Queued(failoverq', d))
                        = Cardinality(Queued(shared_jobq, d)) + Cardinality(Queued(failoverq, d)) + 1
             /\ e.data # d =>
                    Cardinality(Queued(shared_jobq', d)) + Cardinality(Queued(failoverq', d))
                        = Cardinality(Queued(shared_jobq, d)) + Cardinality(Queued(failoverq, d))
             /\ Cardinality(Queued(shared_jobq', d)) \in Nat /\ Cardinality(Queued(failoverq', d)) \in Nat
    <2>1. IsFiniteSet(Queued(shared_jobq, d)) /\ IsFiniteSet(Queued(failoverq, d))
        BY DEF RefInv, Countable
    <2>2. Cardinality(Queued(shared_jobq, d)) \in Nat /\ Cardinality(Queued(failoverq, d)) \in Nat
        BY <2>1, FS_CardinalityType
    <2>3. CASE Appended(SharedJobs, shared_jobq, shared_jobq', u, e) /\ failoverq' = failoverq
        BY <2>1, <2>2, <2>3, QueuedAppend DEF DataOf
    <2>4. CASE Appended(SharedJobs, failoverq, failoverq', u, e) /\ shared_jobq' = shared_jobq
        BY <2>1, <2>2, <2>4, QueuedAppend DEF DataOf
    <2> QED BY <1>5, <2>3, <2>4
<1>8. \A d : /\ Queued(jobq, d)' = Queued(jobq, d) /\ Children(d)' = Children(d) /\ Holds(d)' = Holds(d)
             /\ Queued(shared_jobq, d)' = Queued(shared_jobq', d)
             /\ Queued(failoverq, d)' = Queued(failoverq', d)
    BY <1>4 DEF Queued, Children, Holds
<1>9. Parents' /\ Countable'
    <2>1. Parents'
        BY <1>4 DEF RefInv, Parents
    <2> QED BY <2>1, <1>7, <1>8 DEF RefInv, Countable
<1>10. ASSUME NEW d \in Items PROVE references'[d] = Sum(d)'
    <2>1. /\ t \in Runs(d) <=> t \in Runs(d)'
          /\ t \in Emits(d) <=> t \in Emits(d)'
          /\ t \notin Adds(d)' /\ (t \in Adds(d) <=> d = o)
        <3>1. /\ RunsIn(g, d) <=> RunsIn(frame[t], d)
              /\ EmitsIn(g, d) <=> EmitsIn(frame[t], d)
              /\ ~AddsIn(g, d) /\ (AddsIn(frame[t], d) <=> d = o)
            BY <1>2 DEF RunsIn, EmitsIn, AddsIn, JobIn
        <3> QED BY <1>3, <3>1, HeldByFrame
    <2>2. references[d] = Sum(d)
        BY ExactParts DEF RefInv
    <2>3. /\ Cardinality(Runs(d)') = Cardinality(Runs(d))
          /\ Cardinality(Emits(d)') = Cardinality(Emits(d))
          /\ d = o => Cardinality(Adds(d)) = Cardinality(Adds(d)') + 1
          /\ d # o => Cardinality(Adds(d)') = Cardinality(Adds(d))
          /\ Cardinality(Runs(d)) \in Nat /\ Cardinality(Emits(d)) \in Nat
          /\ Cardinality(Adds(d)) \in Nat /\ Cardinality(Adds(d)') \in Nat
        BY <1>3, <2>1, FrameCounts
    <2>4. Sum(d)' = Sum(d)
        <3>1. /\ Cardinality(Queued(jobq, d)') = Cardinality(Queued(jobq, d))
              /\ Cardinality(Children(d)') = Cardinality(Children(d))
              /\ Cardinality(Holds(d)') = Cardinality(Holds(d))
              /\ Cardinality(Queued(shared_jobq, d)') = Cardinality(Queued(shared_jobq', d))
              /\ Cardinality(Queued(failoverq, d)') = Cardinality(Queued(failoverq', d))
            BY <1>8
        <3>2. e.data = d <=> d = o
            BY <1>2
        <3>3. /\ d = o =>
                    Cardinality(Queued(shared_jobq', d)) + Cardinality(Queued(failoverq', d))
                        = Cardinality(Queued(shared_jobq, d)) + Cardinality(Queued(failoverq, d)) + 1
              /\ d # o =>
                    Cardinality(Queued(shared_jobq', d)) + Cardinality(Queued(failoverq', d))
                        = Cardinality(Queued(shared_jobq, d)) + Cardinality(Queued(failoverq, d))
              /\ Cardinality(Queued(shared_jobq', d)) \in Nat /\ Cardinality(Queued(failoverq', d)) \in Nat
            BY <1>7, <3>2
        <3>4. /\ Cardinality(Queued(jobq, d)) \in Nat /\ Cardinality(Queued(shared_jobq, d)) \in Nat
              /\ Cardinality(Queued(failoverq, d)) \in Nat
              /\ Cardinality(Children(d)) \in Nat /\ Cardinality(Holds(d)) \in Nat
            BY Counts DEF RefInv
        <3>5. PICK j, s, f, s1, f1, r, e1, a, a1, h, c \in Nat :
                /\ j = Cardinality(Queued(jobq, d))
                /\ s = Cardinality(Queued(shared_jobq, d)) /\ s1 = Cardinality(Queued(shared_jobq', d))
                /\ f = Cardinality(Queued(failoverq, d)) /\ f1 = Cardinality(Queued(failoverq', d))
                /\ r = Cardinality(Runs(d)) /\ e1 = Cardinality(Emits(d))
                /\ a = Cardinality(Adds(d)) /\ a1 = Cardinality(Adds(d)')
                /\ h = Cardinality(Holds(d)) /\ c = Cardinality(Children(d))
            BY <2>3, <3>3, <3>4
        <3>6. Sum(d) = j + s + f + r + e1 + a + h + c
            BY <3>5 DEF Sum
        <3>7. Sum(d)' = j + s1 + f1 + r + e1 + a1 + h + c
            BY <2>3, <3>1, <3>5 DEF Sum
        <3>8. /\ d = o => s1 + f1 = s + f + 1 /\ a = a1 + 1
              /\ d # o => s1 + f1 = s + f /\ a = a1
            BY <2>3, <3>3, <3>5
        <3>9. s1 + f1 + a1 = s + f + a
            BY <3>8
        <3>10. j \in Nat /\ s \in Nat /\ f \in Nat /\ s1 \in Nat /\ f1 \in Nat /\ r \in Nat /\ e1 \in Nat
               /\ a \in Nat /\ a1 \in Nat /\ h \in Nat /\ c \in Nat
            OBVIOUS
        <3>11. j + s1 + f1 + r + e1 + a1 + h + c = j + s + f + r + e1 + a + h + c
            BY ONLY <3>9, <3>10
        <3> QED BY <3>6, <3>7, <3>11
    <2> QED BY <1>4, <2>2, <2>4
<1>11. ~At(t, "delete") /\ ~At(t, "delete")'
    BY <1>3 DEF At
<1>12. \A d \in Items : references'[d] = references[d] /\ (d \in pool' <=> d \in pool)
    BY <1>4
<1> QED BY <1>3, <1>6, <1>9, <1>10, <1>11, <1>12, Assemble

LEMMA AddsKeep ==
    ASSUME RefInv, NEW t \in Threads, AddJob(t) \/ FailOver(t), UNCHANGED <<pc, held>>
    PROVE  RefInv'
<1>1. frame[t].at \in {"add", "failover"}
    BY DEF AddJob, FailOver, At
<1>2. PICK u : u = Target(t)
    OBVIOUS
<1>3. PICK e : e = Pushed(t)
    OBVIOUS
<1>4. /\ u \in Threads /\ e \in SharedJobs /\ e.data = frame[t].out
      /\ frame[t] \in KidFrames /\ frame[t].ext # <<>>
    BY <1>1, <1>2, <1>3, PushedFacts
<1>5. PICK g : g = [frame[t] EXCEPT !.ext = Tail(@), !.at = "push"]
    OBVIOUS
<1>6. PICK h : h = [frame[t] EXCEPT !.at = "unmark"]
    OBVIOUS
<1>7. g \in KidFrames /\ g.at = "push" /\ g.data = frame[t].data /\ g.out = frame[t].out
    BY <1>4, <1>5, ServedFacts
<1>8. /\ h \in KidFrames /\ h.at = "unmark" /\ h.data = frame[t].data /\ h.out = frame[t].out
      /\ h.ext # <<>>
    BY <1>4, <1>6 DEF KidFrames
<1>9. frame \in [Threads -> {NoFrame} \cup RunFrames \cup DeleteFrames]
    BY DEF RefInv, RefTypes
<1>10. /\ Served(t) => frame' = [frame EXCEPT ![t] = g]
       /\ Enter(t, "unmark") => frame' = [frame EXCEPT ![t] = h]
    BY <1>5, <1>6, <1>9 DEF Served, Enter
<1>11. CASE AddJob(t)
    <2>1. /\ shared_jobq' = [shared_jobq EXCEPT ![u] = Append(@, e)]
          /\ Served(t) \/ Enter(t, "unmark")
          /\ UNCHANGED <<jobq, failoverq, dataVars>>
        BY <1>2, <1>3, <1>11 DEF AddJob
    <2>2. CASE Served(t)
        BY <1>1, <1>4, <1>7, <1>10, <2>1, <2>2, EntryAdded
    <2>3. CASE Enter(t, "unmark")
        BY <1>1, <1>4, <1>8, <1>10, <2>1, <2>3, EntryAdded
    <2> QED BY <2>1, <2>2, <2>3
<1>12. CASE FailOver(t)
    <2>1. /\ failoverq' = [failoverq EXCEPT ![t] = Append(@, e)] /\ Served(t)
          /\ UNCHANGED <<jobq, shared_jobq, dataVars>>
        BY <1>3, <1>12 DEF FailOver
    <2> QED BY <1>1, <1>4, <1>7, <1>10, <2>1, EntryAdded
<1> QED BY <1>11, <1>12

(* An entry of a thread's queue becomes the job it runs. *)
LEMMA JobTaken ==
    ASSUME RefInv, NEW t \in Threads, frame[t] = NoFrame, NEW g \in CallFrames,
           frame' = [frame EXCEPT ![t] = g],
           NEW e, g.data = e.data,
           \/ Removed(LocalJobs, jobq, jobq', t, e) /\ shared_jobq' = shared_jobq
           \/ Removed(SharedJobs, shared_jobq, shared_jobq', t, e) /\ jobq' = jobq,
           UNCHANGED <<failoverq, dataVars, pc, held>>
    PROVE  RefInv'
<1>1. /\ frame \in [Threads -> {NoFrame} \cup RunFrames \cup DeleteFrames]
      /\ jobq \in [Threads -> Seq(LocalJobs)] /\ shared_jobq \in [Threads -> Seq(SharedJobs)]
    BY DEF RefInv, RefTypes
<1>2. PICK x : x = g.data
    OBVIOUS
<1>3. frame'[t] = g /\ OnlyFrameOf(t) /\ g.at = "call" /\ x \in Items
      /\ frame' \in [Threads -> {NoFrame} \cup RunFrames \cup DeleteFrames]
    BY <1>1, <1>2 DEF OnlyFrameOf, RunFrames, CallFrames
<1>4. UNCHANGED <<failoverq, references, pool, dependency, pc, held>>
    BY DEF dataVars
<1>5. jobq' \in [Threads -> Seq(LocalJobs)] /\ shared_jobq' \in [Threads -> Seq(SharedJobs)]
    BY <1>1 DEF Removed
<1>6. RefTypes'
    <2>1. \A v \in Threads : frame'[v].at \in {"add", "unmark", "scan", "failover"} => frame'[v].ext # <<>>
        BY <1>3 DEF RefInv, RefTypes, OnlyFrameOf
    <2> QED BY <1>3, <1>4, <1>5, <2>1 DEF RefInv, RefTypes
<1>7. ASSUME NEW d \in Items
      PROVE  /\ IsFiniteSet(Queued(jobq', d)) /\ IsFiniteSet(Queued(shared_jobq', d))
             /\ x = d =>
                    Cardinality(Queued(jobq', d)) + Cardinality(Queued(shared_jobq', d)) + 1
                        = Cardinality(Queued(jobq, d)) + Cardinality(Queued(shared_jobq, d))
             /\ x # d =>
                    Cardinality(Queued(jobq', d)) + Cardinality(Queued(shared_jobq', d))
                        = Cardinality(Queued(jobq, d)) + Cardinality(Queued(shared_jobq, d))
             /\ Cardinality(Queued(jobq', d)) \in Nat /\ Cardinality(Queued(shared_jobq', d)) \in Nat
    <2>1. IsFiniteSet(Queued(jobq, d)) /\ IsFiniteSet(Queued(shared_jobq, d))
        BY DEF RefInv, Countable
    <2>2. Cardinality(Queued(jobq, d)) \in Nat /\ Cardinality(Queued(shared_jobq, d)) \in Nat
        BY <2>1, FS_CardinalityType
    <2>x. DataOf(e) = x
        BY <1>2 DEF DataOf
    <2>3. CASE Removed(LocalJobs, jobq, jobq', t, e) /\ shared_jobq' = shared_jobq
        BY <2>1, <2>2, <2>3, <2>x, QueuedTail
    <2>4. CASE Removed(SharedJobs, shared_jobq, shared_jobq', t, e) /\ jobq' = jobq
        BY <2>1, <2>2, <2>4, <2>x, QueuedTail
    <2> QED BY <2>3, <2>4
<1>8. \A d : /\ Queued(failoverq, d)' = Queued(failoverq, d) /\ Children(d)' = Children(d) /\ Holds(d)' = Holds(d)
             /\ Queued(jobq, d)' = Queued(jobq', d)
             /\ Queued(shared_jobq, d)' = Queued(shared_jobq', d)
    BY <1>4 DEF Queued, Children, Holds
<1>9. Parents' /\ Countable'
    <2>1. Parents'
        BY <1>4 DEF RefInv, Parents
    <2> QED BY <2>1, <1>7, <1>8 DEF RefInv, Countable
<1>10. ASSUME NEW d \in Items PROVE references'[d] = Sum(d)'
    <2>1. /\ t \notin Runs(d) /\ (t \in Runs(d)' <=> d = x)
          /\ t \notin Emits(d) /\ t \notin Emits(d)' /\ t \notin Adds(d) /\ t \notin Adds(d)'
        <3>1. /\ ~RunsIn(frame[t], d) /\ (RunsIn(g, d) <=> d = x)
              /\ ~EmitsIn(frame[t], d) /\ ~EmitsIn(g, d) /\ ~AddsIn(frame[t], d) /\ ~AddsIn(g, d)
            BY <1>2, <1>3 DEF RunsIn, EmitsIn, AddsIn, JobIn, NoFrame
        <3> QED BY <1>3, <3>1, HeldByFrame
    <2>2. references[d] = Sum(d)
        BY ExactParts DEF RefInv
    <2>3. /\ d = x => Cardinality(Runs(d)') = Cardinality(Runs(d)) + 1
          /\ d # x => Cardinality(Runs(d)') = Cardinality(Runs(d))
          /\ Cardinality(Emits(d)') = Cardinality(Emits(d))
          /\ Cardinality(Adds(d)') = Cardinality(Adds(d))
          /\ Cardinality(Runs(d)) \in Nat /\ Cardinality(Emits(d)) \in Nat /\ Cardinality(Adds(d)) \in Nat
          /\ Cardinality(Runs(d)') \in Nat
        BY <1>3, <2>1, FrameCounts
    <2>4. Sum(d)' = Sum(d)
        <3>1. /\ Cardinality(Queued(failoverq, d)') = Cardinality(Queued(failoverq, d))
              /\ Cardinality(Children(d)') = Cardinality(Children(d))
              /\ Cardinality(Holds(d)') = Cardinality(Holds(d))
              /\ Cardinality(Queued(jobq, d)') = Cardinality(Queued(jobq', d))
              /\ Cardinality(Queued(shared_jobq, d)') = Cardinality(Queued(shared_jobq', d))
            BY <1>8
        <3>2. PICK j, s, f, j1, s1, r, r1, e1, a, h, c \in Nat :
                /\ j = Cardinality(Queued(jobq, d)) /\ j1 = Cardinality(Queued(jobq', d))
                /\ s = Cardinality(Queued(shared_jobq, d)) /\ s1 = Cardinality(Queued(shared_jobq', d))
                /\ f = Cardinality(Queued(failoverq, d))
                /\ r = Cardinality(Runs(d)) /\ r1 = Cardinality(Runs(d)') /\ e1 = Cardinality(Emits(d))
                /\ a = Cardinality(Adds(d)) /\ h = Cardinality(Holds(d)) /\ c = Cardinality(Children(d))
            BY <1>7, <2>3, Counts DEF RefInv
        <3>3. Sum(d) = j + s + f + r + e1 + a + h + c
            BY <3>2 DEF Sum
        <3>4. Sum(d)' = j1 + s1 + f + r1 + e1 + a + h + c
            BY <2>3, <3>1, <3>2 DEF Sum
        <3>5. /\ d = x => j1 + s1 + 1 = j + s /\ r1 = r + 1
              /\ d # x => j1 + s1 = j + s /\ r1 = r
            BY <1>7, <2>3, <3>2
        <3> QED BY <3>3, <3>4, <3>5
    <2> QED BY <1>4, <2>2, <2>4
<1>11. ~At(t, "delete") /\ ~At(t, "delete")'
    BY <1>3 DEF At, NoFrame
<1>12. \A d \in Items : references'[d] = references[d] /\ (d \in pool' <=> d \in pool)
    BY <1>4
<1> QED BY <1>3, <1>6, <1>9, <1>10, <1>11, <1>12, Assemble

LEMMA NewJobFrame ==
    ASSUME NEW d \in Items, NEW subs \in Seq(Kids), NEW hops \in Int
    PROVE  JobFrame(d, subs, hops) \in CallFrames /\ JobFrame(d, subs, hops).data = d
BY DEF JobFrame, CallFrames

LEMMA HeadRemoved ==
    ASSUME NEW X, NEW q \in [Threads -> Seq(X)], NEW t \in Threads, q[t] # <<>>,
           NEW r, r = [q EXCEPT ![t] = Tail(q[t])]
    PROVE  Removed(X, q, r, t, Head(q[t])) /\ Head(q[t]) \in X
<1>1. q[t] \in Seq(X)
    OBVIOUS
<1>2. /\ r \in [Threads -> Seq(X)] /\ r[t] = Tail(q[t]) /\ Head(q[t]) = q[t][1] /\ Head(q[t]) \in X
      /\ \A u \in Threads \ {t} : r[u] = q[u]
    BY <1>1
<1> QED BY <1>2 DEF Removed, Others

LEMMA TakeKeeps ==
    ASSUME RefInv, NEW t \in Threads, ExtJob(t) \/ LocalJob(t)
    PROVE  RefInv'
<1>1. /\ jobq \in [Threads -> Seq(LocalJobs)] /\ shared_jobq \in [Threads -> Seq(SharedJobs)]
      /\ UNCHANGED <<failoverq, dataVars, pc, held>> /\ frame[t] = NoFrame
    BY DEF ExtJob, LocalJob, RefInv, RefTypes
<1>2. CASE ExtJob(t)
    <2>1. PICK e : e = Head(shared_jobq[t])
        OBVIOUS
    <2>2. shared_jobq[t] # <<>> /\ shared_jobq' = [shared_jobq EXCEPT ![t] = Tail(shared_jobq[t])]
          /\ jobq' = jobq /\ frame' = [frame EXCEPT ![t] = JobFrame(e.data, <<e.kid>>, e.hops)]
        BY <1>2, <2>1 DEF ExtJob, Set
    <2>3. Removed(SharedJobs, shared_jobq, shared_jobq', t, e) /\ e \in SharedJobs
        BY <1>1, <2>1, <2>2, HeadRemoved
    <2>4. PICK g : g = JobFrame(e.data, <<e.kid>>, e.hops)
        OBVIOUS
    <2>5. e.data \in Items /\ <<e.kid>> \in Seq(Kids) /\ e.hops \in Int
        BY <2>3 DEF SharedJobs
    <2>6. g \in CallFrames /\ g.data = e.data
        BY <2>4, <2>5, NewJobFrame
    <2> QED BY <1>1, <2>2, <2>3, <2>4, <2>6, JobTaken
<1>3. CASE LocalJob(t)
    <2>1. PICK e : e = Head(jobq[t])
        OBVIOUS
    <2>2. jobq[t] # <<>> /\ jobq' = [jobq EXCEPT ![t] = Tail(jobq[t])]
          /\ shared_jobq' = shared_jobq /\ frame' = [frame EXCEPT ![t] = JobFrame(e.data, e.subs, e.hops)]
        BY <1>3, <2>1 DEF LocalJob, Set
    <2>3. Removed(LocalJobs, jobq, jobq', t, e) /\ e \in LocalJobs
        BY <1>1, <2>1, <2>2, HeadRemoved
    <2>4. PICK g : g = JobFrame(e.data, e.subs, e.hops)
        OBVIOUS
    <2>5. e.data \in Items /\ e.subs \in Seq(Kids) /\ e.hops \in Int
        BY <2>3 DEF LocalJobs
    <2>6. g \in CallFrames /\ g.data = e.data
        BY <2>4, <2>5, NewJobFrame
    <2> QED BY <1>1, <2>2, <2>3, <2>4, <2>6, JobTaken
<1> QED BY <1>2, <1>3

(* How the number of references that are held for d changes, part by part. *)
Changes(d, j, s, f, r, e, a, h, c) ==
    /\ Cardinality(Queued(jobq, d)') = Cardinality(Queued(jobq, d)) + j
    /\ Cardinality(Queued(shared_jobq, d)') = Cardinality(Queued(shared_jobq, d)) + s
    /\ Cardinality(Queued(failoverq, d)') = Cardinality(Queued(failoverq, d)) + f
    /\ Cardinality(Runs(d)') = Cardinality(Runs(d)) + r
    /\ Cardinality(Emits(d)') = Cardinality(Emits(d)) + e
    /\ Cardinality(Adds(d)') = Cardinality(Adds(d)) + a
    /\ Cardinality(Holds(d)') = Cardinality(Holds(d)) + h
    /\ Cardinality(Children(d)') = Cardinality(Children(d)) + c

LEMMA SumChange ==
    ASSUME RefInv, NEW d \in Items,
           NEW j \in Int, NEW s \in Int, NEW f \in Int, NEW r \in Int,
           NEW e \in Int, NEW a \in Int, NEW h \in Int, NEW c \in Int,
           Changes(d, j, s, f, r, e, a, h, c)
    PROVE  /\ references[d] = Sum(d)
           /\ Sum(d)' = references[d] + (j + s + f + r + e + a + h + c)
<1>1. references[d] = Sum(d)
    BY ExactParts DEF RefInv
<1>2. Cardinality(Runs(d)) \in Nat /\ Cardinality(Emits(d)) \in Nat /\ Cardinality(Adds(d)) \in Nat
    <2>1. IsFiniteSet(Threads)
        <3>1. 0 \in Int /\ work_size - 1 \in Int
            BY EngineConstants
        <3> QED BY <3>1, FS_Interval DEF Threads
    <2>2. Runs(d) \in SUBSET Threads /\ Emits(d) \in SUBSET Threads /\ Adds(d) \in SUBSET Threads
        BY DEF Runs, Emits, Adds
    <2> QED BY <2>1, <2>2, FS_Subset, FS_CardinalityType
<1>3. PICK j0, s0, f0, r0, e0, a0, h0, c0 \in Nat :
        /\ j0 = Cardinality(Queued(jobq, d)) /\ s0 = Cardinality(Queued(shared_jobq, d))
        /\ f0 = Cardinality(Queued(failoverq, d)) /\ r0 = Cardinality(Runs(d))
        /\ e0 = Cardinality(Emits(d)) /\ a0 = Cardinality(Adds(d))
        /\ h0 = Cardinality(Holds(d)) /\ c0 = Cardinality(Children(d))
    BY <1>2, Counts DEF RefInv
<1>4. Sum(d) = j0 + s0 + f0 + r0 + e0 + a0 + h0 + c0
    BY <1>3 DEF Sum
<1>5. Sum(d)' = (j0 + j) + (s0 + s) + (f0 + f) + (r0 + r) + (e0 + e) + (a0 + a) + (h0 + h) + (c0 + c)
    BY <1>3 DEF Sum, Changes
<1> QED BY <1>1, <1>4, <1>5

(* The parts that a step leaves alone. *)
LEMMA QueuesStay ==
    ASSUME UNCHANGED queues, RefInv
    PROVE  \A d : /\ Queued(jobq, d)' = Queued(jobq, d) /\ Queued(shared_jobq, d)' = Queued(shared_jobq, d)
                  /\ Queued(failoverq, d)' = Queued(failoverq, d)
BY DEF queues, Queued

LEMMA HoldsStay ==
    ASSUME RefInv, UNCHANGED held, \A t \in Threads : pc'[t] = "refill" <=> pc[t] = "refill"
    PROVE  \A d : Holds(d)' = Holds(d)
BY DEF Holds

(* A step outside the jobs: nothing is taken, queued or given back. *)
LEMMA QuietKeeps ==
    ASSUME RefInv, UNCHANGED <<queues, dataVars, frame, held>>,
           \A t \in Threads : pc'[t] = "refill" <=> pc[t] = "refill"
    PROVE  RefInv'
<1>1. UNCHANGED <<jobq, shared_jobq, failoverq, references, pool, dependency, frame, held>>
    BY DEF queues, dataVars
<1>2. \A d : /\ Queued(jobq, d)' = Queued(jobq, d) /\ Queued(shared_jobq, d)' = Queued(shared_jobq, d)
             /\ Queued(failoverq, d)' = Queued(failoverq, d) /\ Holds(d)' = Holds(d)
    BY QueuesStay, HoldsStay
<1>3. \A d : /\ Runs(d)' = Runs(d) /\ Emits(d)' = Emits(d) /\ Adds(d)' = Adds(d)
             /\ Children(d)' = Children(d)
    BY <1>1 DEF Runs, Emits, Adds, Job, At, Emitting, Adding, Children
<1>4. \A t : DeadOf(t)' = DeadOf(t)
    BY <1>1 DEF DeadOf, At
<1>5. RefTypes'
    BY <1>1 DEF RefInv, RefTypes
<1>6. Parents' /\ Countable'
    BY <1>1, <1>2, <1>3 DEF RefInv, Parents, Countable
<1>7. DeadOnce'
    BY <1>1, <1>4 DEF RefInv, DeadOnce, At
<1>8. Free'
    <2>1. Dying' = Dying
        BY <1>1 DEF Dying, At
    <2> QED BY <1>1, <2>1, ExactParts DEF RefInv, Free
<1>9. \A d \in Items : references'[d] = Sum(d)'
    <2>1. \A d \in Items : Sum(d)' = Sum(d)
        BY <1>2, <1>3 DEF Sum
    <2> QED BY <1>1, <2>1, ExactParts DEF RefInv
<1> QED BY <1>5, <1>6, <1>7, <1>8, <1>9, ExactParts DEF RefInv

(* The index of the next source. *)
SrcOK == src \in [Threads -> Nat \ {0}]

(* A source is given fresh data. *)
LEMMA PollKeeps ==
    ASSUME RefInv, SrcOK, NEW t \in Threads, PollSource(t), pc \in [Threads -> Places]
    PROVE  RefInv'
<1>1. PICK k : k = Sources[src[t]]
    OBVIOUS
<1>2. PICK x : x = FreshData
    OBVIOUS
<1>3. PICK subs : subs = IF input[k] > 0 THEN <<k>> ELSE <<>>
    OBVIOUS
<1>4. PICK g : g = JobFrame(x, subs, MaxHops)
    OBVIOUS
<1>5. /\ pool # {} /\ src[t] <= Len(Sources) /\ Step(t, "sources", "sources")
      /\ references' = [references EXCEPT ![x] = 1] /\ pool' = pool \ {x}
      /\ frame' = [frame EXCEPT ![t] = g]
      /\ UNCHANGED <<jobq, shared_jobq, failoverq, dependency, held>>
    BY <1>1, <1>2, <1>3, <1>4 DEF PollSource, Set, queues
<1>6. k \in Kids
    <2>1. src[t] \in 1 .. Len(Sources)
        BY <1>5 DEF SrcOK
    <2> QED BY <1>1, <2>1, SourceConstants
<1>7. x \in pool
    BY <1>2, <1>5 DEF FreshData
<1>8. /\ x \in Items /\ references[x] = 0 /\ x \notin Dying /\ dependency[x] = <<>>
    BY <1>7, ExactParts DEF RefInv, RefTypes, Parents, Free
<1>9. g \in CallFrames /\ g.data = x /\ g.at = "call"
    <2>1. subs \in Seq(Kids) /\ MaxHops \in Int
        BY <1>3, <1>6, EngineConstants
    <2> QED BY <1>4, <1>8, <2>1, NewJobFrame DEF JobFrame
<1>10. /\ frame \in [Threads -> {NoFrame} \cup RunFrames \cup DeleteFrames]
       /\ references \in [Items -> Nat] /\ pool \subseteq Items /\ frame[t] = NoFrame
    BY <1>5 DEF RefInv, RefTypes, Step
<1>11. /\ frame'[t] = g /\ OnlyFrameOf(t)
       /\ frame' \in [Threads -> {NoFrame} \cup RunFrames \cup DeleteFrames]
    BY <1>5, <1>9, <1>10 DEF OnlyFrameOf, RunFrames
<1>12. \A u \in Threads : pc'[u] = "refill" <=> pc[u] = "refill"
    BY <1>5 DEF Step
<1>13. /\ references' \in [Items -> Nat] /\ pool' \subseteq Items /\ references'[x] = 1
       /\ \A d \in Items : d # x => references'[d] = references[d] /\ (d \in pool' <=> d \in pool)
       /\ x \notin pool'
    BY <1>5, <1>8, <1>10
<1>14. RefTypes'
    <2>1. \A v \in Threads : frame'[v].at \in {"add", "unmark", "scan", "failover"} => frame'[v].ext # <<>>
        BY <1>9, <1>11 DEF RefInv, RefTypes, OnlyFrameOf
    <2> QED BY <1>5, <1>11, <1>12, <1>13, <2>1 DEF RefInv, RefTypes
<1>15. /\ \A d : /\ Queued(jobq, d)' = Queued(jobq, d) /\ Queued(shared_jobq, d)' = Queued(shared_jobq, d)
                 /\ Queued(failoverq, d)' = Queued(failoverq, d)
       /\ \A d : Holds(d)' = Holds(d) /\ Children(d)' = Children(d)
    <2>1. UNCHANGED queues
        BY <1>5 DEF queues
    <2>2. \A d : Children(d)' = Children(d)
        BY <1>5 DEF Children
    <2> QED BY <1>5, <1>12, <2>1, <2>2, QueuesStay, HoldsStay
<1>16. Parents' /\ Countable'
    <2>1. Parents'
        BY <1>5, <1>13 DEF RefInv, Parents
    <2> QED BY <2>1, <1>15 DEF RefInv, Countable
<1>17. ASSUME NEW d \in Items PROVE references'[d] = Sum(d)'
    <2>1. /\ t \notin Runs(d) /\ (t \in Runs(d)' <=> d = x)
          /\ t \notin Emits(d) /\ t \notin Emits(d)' /\ t \notin Adds(d) /\ t \notin Adds(d)'
        <3>1. /\ ~RunsIn(frame[t], d) /\ (RunsIn(g, d) <=> d = x)
              /\ ~EmitsIn(frame[t], d) /\ ~EmitsIn(g, d) /\ ~AddsIn(frame[t], d) /\ ~AddsIn(g, d)
            BY <1>9, <1>10 DEF RunsIn, EmitsIn, AddsIn, JobIn, NoFrame
        <3> QED BY <1>11, <3>1, HeldByFrame
    <2>2. /\ d = x => Cardinality(Runs(d)') = Cardinality(Runs(d)) + 1
          /\ d # x => Cardinality(Runs(d)') = Cardinality(Runs(d))
          /\ Cardinality(Emits(d)') = Cardinality(Emits(d))
          /\ Cardinality(Adds(d)') = Cardinality(Adds(d))
          /\ Cardinality(Runs(d)) \in Nat /\ Cardinality(Emits(d)) \in Nat /\ Cardinality(Adds(d)) \in Nat
        BY <1>11, <2>1, FrameCounts
    <2>3. PICK r \in Int : (d = x => r = 1) /\ (d # x => r = 0)
        OBVIOUS
    <2>4. Cardinality(Runs(d)') = Cardinality(Runs(d)) + r
        BY <2>2, <2>3
    <2>5. Sum(d)' = references[d] + (0 + 0 + 0 + r + 0 + 0 + 0 + 0)
        <3>1. Changes(d, 0, 0, 0, r, 0, 0, 0, 0)
            BY <2>2, <2>4, <1>15, Counts DEF RefInv, Changes
        <3> QED BY <2>3, <3>1, SumChange
    <2>6. references[d] \in Nat
        BY <1>10
    <2> QED BY <2>3, <2>5, <2>6, <1>8, <1>13
<1>18. ~At(t, "delete") /\ ~At(t, "delete")'
    BY <1>9, <1>10, <1>11 DEF At, NoFrame
<1>19. \A d \in Items : \/ references'[d] = references[d] /\ (d \in pool' <=> d \in pool)
                        \/ references'[d] > 0 /\ d \notin Dying /\ d \notin pool'
    BY <1>8, <1>13
<1> QED BY <1>11, <1>14, <1>16, <1>17, <1>18, <1>19, Assemble

-----------------------------------------------------------------------------
(* Giving data back.                                                       *)
(* The frame that deletes x and goes on with n. *)
DeleteFrame(x, n) == [at |-> "delete", dead |-> <<x>>, then |-> n]

LEMMA DeleteFrameFacts ==
    ASSUME NEW x \in Items, NEW n \in Resumed
    PROVE  /\ DeleteFrame(x, n) \in DeleteFrames
           /\ DeleteFrame(x, n).at = "delete" /\ DeleteFrame(x, n).dead = <<x>> /\ DeleteFrame(x, n).then = n
           /\ Range(<<x>>) = {x}
<1>1. <<x>> \in Seq(Items) /\ Range(<<x>>) = {x}
    BY DEF Range
<1> QED BY <1>1 DEF DeleteFrame, DeleteFrames

(* A reference to x goes, and with the last one x itself. *)
LEMMA DeleteStep ==
    ASSUME RefInv, NEW t \in Threads, NEW x \in Items, NEW n \in Resumed,
           frame[t] \in RunFrames, Delete(t, x, n),
           references[x] > 0, x \notin Dying, x \notin pool
    PROVE  /\ references' \in [Items -> Nat] /\ pool' \subseteq Items /\ UNCHANGED dependency
           /\ references'[x] = references[x] - 1
           /\ \A d \in Items : d # x => references'[d] = references[d]
           /\ OnlyFrameOf(t) /\ frame' \in [Threads -> {NoFrame} \cup RunFrames \cup DeleteFrames]
           /\ frame'[t] = n \/ frame'[t] = DeleteFrame(x, n)
           /\ Parents' /\ DeadOnce' /\ Free'
<1>1. PICK g : g = IF references[x] = 1 /\ dependency[x] # <<>> THEN DeleteFrame(x, n) ELSE n
    OBVIOUS
<1>2. /\ references \in [Items -> Nat] /\ pool \subseteq Items
      /\ frame \in [Threads -> {NoFrame} \cup RunFrames \cup DeleteFrames]
    BY DEF RefInv, RefTypes
<1>3. /\ references' = [references EXCEPT ![x] = @ - 1]
      /\ frame' = [frame EXCEPT ![t] = g] /\ UNCHANGED dependency
      /\ pool' = IF references[x] = 1 /\ dependency[x] = <<>> THEN pool \cup {x} ELSE pool
    BY <1>1 DEF Delete, DeleteFrame
<1>4. /\ references' \in [Items -> Nat] /\ references'[x] = references[x] - 1 /\ pool' \subseteq Items
      /\ \A d \in Items : d # x => references'[d] = references[d]
    BY <1>2, <1>3
<1>5. /\ frame'[t] = g /\ OnlyFrameOf(t) /\ (g = n \/ g = DeleteFrame(x, n))
      /\ frame' \in [Threads -> {NoFrame} \cup RunFrames \cup DeleteFrames]
    <2>1. g \in {NoFrame} \cup RunFrames \cup DeleteFrames
        BY <1>1, DeleteFrameFacts DEF Resumed
    <2> QED BY <1>1, <1>2, <1>3, <2>1 DEF OnlyFrameOf
<1>6. frame[t].at # "delete" /\ n.at # "delete"
    <2>1. frame[t].at # "delete"
        BY FrameKinds
    <2> QED BY <2>1 DEF Resumed
<1>7. PICK unlink : unlink = (references[x] = 1 /\ dependency[x] # <<>>)
    OBVIOUS
<1>8. /\ DeadOf(t) = {} /\ ~At(t, "delete")
      /\ unlink => /\ DeadOf(t)' = {x} /\ At(t, "delete")' /\ frame'[t].dead = <<x>>
                   /\ references[x] = 1 /\ dependency[x] # <<>>
      /\ ~unlink => /\ DeadOf(t)' = {} /\ ~At(t, "delete")'
                    /\ ~(references[x] = 1 /\ dependency[x] # <<>>)
      /\ \A u \in Threads : u # t => DeadOf(u)' = DeadOf(u) /\ frame'[u] = frame[u]
    <2>1. \A u \in Threads : u # t => DeadOf(u)' = DeadOf(u) /\ frame'[u] = frame[u]
        BY <1>5 DEF DeadOf, At, OnlyFrameOf
    <2>2. DeadOf(t) = {} /\ ~At(t, "delete")
        BY <1>6 DEF DeadOf, At
    <2>3. CASE unlink
        <3>1. g = DeleteFrame(x, n) /\ references[x] = 1 /\ dependency[x] # <<>>
            BY <2>3, <1>1, <1>7
        <3>2. frame'[t].at = "delete" /\ frame'[t].dead = <<x>> /\ Range(<<x>>) = {x}
            BY <3>1, <1>5, DeleteFrameFacts
        <3> QED BY <2>1, <2>2, <2>3, <3>1, <3>2 DEF DeadOf, At
    <2>4. CASE ~unlink
        <3>1. g = n /\ ~(references[x] = 1 /\ dependency[x] # <<>>)
            BY <2>4, <1>1, <1>7
        <3> QED BY <2>1, <2>2, <2>4, <3>1, <1>5, <1>6 DEF DeadOf, At
    <2> QED BY <2>3, <2>4
<1>9. \A d : d \in Dying' <=> d \in Dying \/ (unlink /\ d = x)
    BY <1>8, DyingIs
<1>10. \A u \in Threads : x \notin DeadOf(u)
    BY DyingIs
<1>11. \A u \in Threads : \A d \in DeadOf(u) : d \in Items /\ references[d] = 0
    <2> TAKE u \in Threads
    <2>1. frame[u] \in {NoFrame} \cup RunFrames \cup DeleteFrames
        BY <1>2
    <2>2. frame[u].at = "delete" => frame[u].dead \in Seq(Items)
        BY <2>1, FrameKinds
    <2>3. \A d \in DeadOf(u) : d \in Items
        BY <2>2 DEF DeadOf, At, Range
    <2> QED BY <2>3 DEF RefInv, DeadOnce
<1>12. Parents'
    BY <1>3, <1>4 DEF RefInv, Parents
<1>13. Free'
    <2>1. \A d \in Items : d \in pool <=> references[d] = 0 /\ d \notin Dying
        BY ExactParts DEF RefInv, Free
    <2>2. \A d \in Items : d # x => (d \in pool' <=> references'[d] = 0 /\ d \notin Dying')
        BY <2>1, <1>3, <1>4, <1>9
    <2>3. x \in pool' <=> references'[x] = 0 /\ x \notin Dying'
        <3>1. references[x] \in Nat
            BY <1>2
        <3>2. CASE references[x] = 1 /\ dependency[x] = <<>>
            BY <3>1, <3>2, <1>3, <1>4, <1>8, <1>9
        <3>3. CASE references[x] = 1 /\ dependency[x] # <<>>
            BY <3>1, <3>3, <1>3, <1>4, <1>7, <1>9
        <3>4. CASE references[x] # 1
            BY <3>1, <3>4, <1>3, <1>4
        <3> QED BY <3>2, <3>3, <3>4
    <2> QED BY <2>2, <2>3, <1>4 DEF Free
<1>14. DeadOnce'
    <2>1. ASSUME NEW u \in Threads, At(u, "delete")'
          PROVE  /\ frame'[u].dead # <<>>
                 /\ \A i, j \in DOMAIN frame'[u].dead : i # j => frame'[u].dead[i] # frame'[u].dead[j]
        <3>1. CASE u # t
            BY <2>1, <3>1, <1>8 DEF RefInv, DeadOnce, At
        <3>2. CASE u = t
            <4>1. frame'[u].dead = <<x>>
                BY <2>1, <3>2, <1>8
            <4> QED BY <4>1
        <3> QED BY <3>1, <3>2
    <2>2. ASSUME NEW u \in Threads, NEW d \in DeadOf(u)' PROVE references'[d] = 0
        <3>1. CASE u # t
            BY <2>2, <3>1, <1>4, <1>8, <1>10, <1>11
        <3>2. CASE u = t
            BY <2>2, <3>2, <1>4, <1>8
        <3> QED BY <3>1, <3>2
    <2>3. ASSUME NEW u \in Threads, NEW v \in Threads, u # v PROVE DeadOf(u)' \cap DeadOf(v)' = {}
        <3>1. CASE u # t /\ v # t
            BY <2>3, <3>1, <1>8 DEF RefInv, DeadOnce
        <3>2. CASE u = t \/ v = t
            BY <2>3, <3>2, <1>8, <1>10
        <3> QED BY <3>1, <3>2
    <2> QED BY <2>1, <2>2, <2>3 DEF DeadOnce
<1> QED BY <1>3, <1>4, <1>5, <1>1, <1>12, <1>13, <1>14

(* A thread gives back x, which it ran or emitted, and goes on with n. *)
LEMMA GivenBack ==
    ASSUME RefInv, NEW t \in Threads, NEW x \in Items, NEW n \in Resumed,
           frame[t] \in RunFrames, Delete(t, x, n),
           \/ /\ \A d : RunsIn(frame[t], d) <=> d = x
              /\ n = NoFrame /\ \A d : ~EmitsIn(frame[t], d)
           \/ /\ \A d : EmitsIn(frame[t], d) <=> d = x
              /\ n.at = "emit" /\ \A d : RunsIn(n, d) <=> RunsIn(frame[t], d),
           \A d : ~AddsIn(frame[t], d),
           UNCHANGED <<queues, pc, held>>
    PROVE  RefInv'
<1>1. references[x] > 0 /\ x \notin Dying /\ x \notin pool
    <2>1. t \in Runs(x) \/ t \in Emits(x)
        BY HeldByFrame
    <2> QED BY <2>1, HeldIsLive
<1>2. PICK g : g = frame'[t]
    OBVIOUS
<1>3. /\ references' \in [Items -> Nat] /\ pool' \subseteq Items /\ UNCHANGED dependency
      /\ references'[x] = references[x] - 1
      /\ \A d \in Items : d # x => references'[d] = references[d]
      /\ OnlyFrameOf(t) /\ frame' \in [Threads -> {NoFrame} \cup RunFrames \cup DeleteFrames]
      /\ g = n \/ g = DeleteFrame(x, n)
      /\ Parents' /\ DeadOnce' /\ Free'
    BY <1>1, <1>2, DeleteStep
<1>4. UNCHANGED <<jobq, shared_jobq, failoverq, pc, held>>
    BY DEF queues
<1>5. g.at \in {"none", "emit", "delete"}
    <2>1. DeleteFrame(x, n).at = "delete"
        BY DeleteFrameFacts
    <2> QED BY <1>3, <2>1 DEF Resumed
<1>6. RefTypes'
    <2>1. \A v \in Threads : frame'[v].at \in {"add", "unmark", "scan", "failover"} => frame'[v].ext # <<>>
        BY <1>2, <1>3, <1>5 DEF RefInv, RefTypes, OnlyFrameOf
    <2> QED BY <1>3, <1>4, <2>1 DEF RefInv, RefTypes
<1>7. \A d : /\ Queued(jobq, d)' = Queued(jobq, d) /\ Queued(shared_jobq, d)' = Queued(shared_jobq, d)
             /\ Queued(failoverq, d)' = Queued(failoverq, d)
             /\ Holds(d)' = Holds(d) /\ Children(d)' = Children(d)
    <2>1. \A d : Children(d)' = Children(d)
        BY <1>3 DEF Children
    <2> QED BY <2>1, QueuesStay, HoldsStay
<1>8. Countable'
    BY <1>7 DEF RefInv, Countable
<1>9. \A d : /\ RunsIn(g, d) <=> RunsIn(n, d)
             /\ ~EmitsIn(g, d) /\ ~AddsIn(g, d)
    <2> TAKE d
    <2>1. ~EmitsIn(g, d) /\ ~AddsIn(g, d)
        BY <1>5 DEF EmitsIn, AddsIn
    <2>2. CASE g = n
        BY <2>1, <2>2
    <2>3. CASE g = DeleteFrame(x, n)
        <3>1. JobIn(g) = n /\ JobIn(n) = n
            BY <2>3, DeleteFrameFacts DEF JobIn, Resumed
        <3> QED BY <2>1, <3>1 DEF RunsIn
    <2> QED BY <1>3, <2>2, <2>3
<1>10. ASSUME NEW d \in Items PROVE references'[d] = Sum(d)'
    <2>1. PICK r, e \in Int : /\ d = x => r + e = -1
                              /\ d # x => r + e = 0
                              /\ Cardinality(Runs(d)') = Cardinality(Runs(d)) + r
                              /\ Cardinality(Emits(d)') = Cardinality(Emits(d)) + e
        <3>a. /\ t \in Runs(d) <=> RunsIn(frame[t], d)
              /\ t \in Runs(d)' <=> RunsIn(n, d)
              /\ t \in Emits(d) <=> EmitsIn(frame[t], d)
              /\ t \notin Emits(d)'
            BY <1>2, <1>9, HeldByFrame
        <3>b. n = NoFrame => ~RunsIn(n, d)
            BY DEF RunsIn, JobIn, NoFrame
        <3>c. Cardinality(Runs(d)) \in Nat /\ Cardinality(Runs(d)') \in Nat
              /\ Cardinality(Emits(d)) \in Nat /\ Cardinality(Emits(d)') \in Nat
            BY <1>3, FrameCounts
        <3>1. CASE n = NoFrame
            <4>1. /\ t \in Runs(d) <=> d = x
                  /\ t \notin Runs(d)' /\ t \notin Emits(d)
                BY <3>1, <3>a, <3>b DEF NoFrame
            <4>2. /\ d = x => Cardinality(Runs(d)) = Cardinality(Runs(d)') + 1
                  /\ d # x => Cardinality(Runs(d)) = Cardinality(Runs(d)')
                  /\ Cardinality(Emits(d)) = Cardinality(Emits(d)')
                BY <1>3, <3>a, <4>1, FrameCounts
            <4>3. d = x => Cardinality(Runs(d)') = Cardinality(Runs(d)) + (-1)
                BY <4>2, <3>c
            <4>4. Cardinality(Emits(d)') = Cardinality(Emits(d)) + 0
                BY <4>2, <3>c
            <4>5. d # x => Cardinality(Runs(d)') = Cardinality(Runs(d)) + 0
                BY <4>2, <3>c
            <4> QED BY <4>3, <4>4, <4>5
        <3>2. CASE n.at = "emit"
            <4>1. /\ t \in Emits(d) <=> d = x
                  /\ t \in Runs(d)' <=> t \in Runs(d)
                BY <3>2, <3>a DEF NoFrame
            <4>2. /\ d = x => Cardinality(Emits(d)) = Cardinality(Emits(d)') + 1
                  /\ d # x => Cardinality(Emits(d)) = Cardinality(Emits(d)')
                  /\ Cardinality(Runs(d)) = Cardinality(Runs(d)')
                BY <1>3, <3>a, <4>1, FrameCounts
            <4>3. d = x => Cardinality(Emits(d)') = Cardinality(Emits(d)) + (-1)
                BY <4>2, <3>c
            <4>4. Cardinality(Runs(d)') = Cardinality(Runs(d)) + 0
                BY <4>2, <3>c
            <4>5. d # x => Cardinality(Emits(d)') = Cardinality(Emits(d)) + 0
                BY <4>2, <3>c
            <4> QED BY <4>3, <4>4, <4>5
        <3> QED BY <3>1, <3>2
    <2>2. Cardinality(Adds(d)') = Cardinality(Adds(d)) + 0
        <3>1. t \notin Adds(d) /\ t \notin Adds(d)'
            BY <1>2, <1>9, HeldByFrame
        <3> QED BY <1>3, <3>1, FrameCounts
    <2>3. Changes(d, 0, 0, 0, r, e, 0, 0, 0)
        BY <2>1, <2>2, <1>7, Counts DEF RefInv, Changes
    <2>4. Sum(d)' = references[d] + (0 + 0 + 0 + r + e + 0 + 0 + 0)
        BY <2>1, <2>3, SumChange
    <2>5. references[d] \in Nat
        BY DEF RefInv, RefTypes
    <2>6. /\ d = x => references'[d] = references[d] + (-1)
          /\ d # x => references'[d] = references[d]
        BY <2>5, <1>3
    <2> QED BY <2>1, <2>4, <2>5, <2>6
<1> QED BY <1>3, <1>6, <1>8, <1>10, ExactParts DEF RefInv

LEMMA DoneKeeps ==
    ASSUME RefInv, NEW t \in Threads, JobDone(t) \/ PushDone(t), UNCHANGED <<pc, held>>
    PROVE  RefInv'
<1>1. UNCHANGED queues
    BY DEF JobDone, PushDone
<1>2. CASE JobDone(t)
    <2>1. frame[t].at = "call" /\ frame[t] \in RunFrames /\ frame[t].data \in Items
        BY <1>2, FrameOf, FrameKinds DEF JobDone, At, RefInv
    <2>2. /\ \A d : RunsIn(frame[t], d) <=> d = frame[t].data
          /\ \A d : ~EmitsIn(frame[t], d) /\ ~AddsIn(frame[t], d)
        BY <2>1 DEF RunsIn, EmitsIn, AddsIn, JobIn
    <2>3. PICK x : x = frame[t].data
        OBVIOUS
    <2>4. Delete(t, x, NoFrame)
        BY <1>2, <2>3 DEF JobDone
    <2>5. NoFrame \in Resumed
        BY DEF NoFrame, Resumed
    <2> QED BY <1>1, <2>1, <2>2, <2>3, <2>4, <2>5, GivenBack
<1>3. CASE PushDone(t)
    <2>1. frame[t].at = "push" /\ frame[t] \in KidFrames
        BY <1>3, FrameOf DEF PushDone, At, RefInv
    <2>2. PICK n : n = [frame[t] EXCEPT !.at = "emit"]
        OBVIOUS
    <2>3. PICK x : x = frame[t].out
        OBVIOUS
    <2>4. /\ n \in KidFrames /\ n.at = "emit" /\ n.data = frame[t].data /\ x \in Items
        BY <2>1, <2>2, <2>3 DEF KidFrames
    <2>5. /\ \A d : EmitsIn(frame[t], d) <=> d = x
          /\ \A d : RunsIn(n, d) <=> RunsIn(frame[t], d)
          /\ \A d : ~AddsIn(frame[t], d)
        BY <2>1, <2>3, <2>4 DEF RunsIn, EmitsIn, AddsIn, JobIn
    <2>6. Delete(t, x, n)
        BY <1>3, <2>2, <2>3 DEF PushDone
    <2>7. frame[t] \in RunFrames /\ n \in Resumed
        BY <2>1, <2>4 DEF RunFrames, Resumed
    <2> QED BY <1>1, <2>4, <2>5, <2>6, <2>7, GivenBack
<1> QED BY <1>2, <1>3

(* The stack of the data that a thread is deleting. *)
LEMMA StackFacts ==
    ASSUME NEW D \in Seq(Items), D # <<>>, \A i, j \in DOMAIN D : i # j => D[i] # D[j]
    PROVE  /\ Last(D) \in Range(D) /\ Last(D) \in Items /\ \A d \in Range(D) : d \in Items
           /\ Front(D) \in Seq(Items) /\ Range(Front(D)) = Range(D) \ {Last(D)}
           /\ \A i, j \in DOMAIN Front(D) : i # j => Front(D)[i] # Front(D)[j]
           /\ Len(D) = 1 => Range(D) = {Last(D)}
           /\ Len(D) # 1 => Front(D) # <<>>
<1>1. Len(D) \in Nat \ {0} /\ DOMAIN D = 1 .. Len(D)
    OBVIOUS
<1>2. /\ Front(D) \in Seq(Items) /\ DOMAIN Front(D) = 1 .. (Len(D) - 1) /\ Len(Front(D)) = Len(D) - 1
      /\ \A i \in 1 .. (Len(D) - 1) : Front(D)[i] = D[i]
    BY <1>1 DEF Front
<1>3. Last(D) = D[Len(D)]
    BY DEF Last
<1>4. \A i \in 1 .. (Len(D) - 1) : D[i] # D[Len(D)]
    BY <1>1
<1>5. Range(Front(D)) = Range(D) \ {Last(D)}
    <2>1. \A d \in Range(Front(D)) : d \in Range(D) /\ d # Last(D)
        BY <1>1, <1>2, <1>3, <1>4 DEF Range
    <2>2. \A d \in Range(D) : d # Last(D) => d \in Range(Front(D))
        BY <1>1, <1>2, <1>3 DEF Range
    <2> QED BY <2>1, <2>2
<1>6. Len(D) = 1 => Range(D) = {Last(D)}
    BY <1>1, <1>3 DEF Range
<1>7. Len(D) # 1 => Front(D) # <<>>
    BY <1>1, <1>2
<1>8. Last(D) \in Range(D) /\ \A d \in Range(D) : d \in Items
    BY <1>1, <1>3 DEF Range
<1>9. \A i, j \in DOMAIN Front(D) : i # j => Front(D)[i] # Front(D)[j]
    BY <1>1, <1>2
<1> QED BY <1>2, <1>5, <1>6, <1>7, <1>8, <1>9

LEMMA StackPushed ==
    ASSUME NEW D \in Seq(Items), \A i, j \in DOMAIN D : i # j => D[i] # D[j],
           NEW p \in Items, p \notin Range(D)
    PROVE  /\ Append(D, p) \in Seq(Items) /\ Append(D, p) # <<>>
           /\ Range(Append(D, p)) = Range(D) \cup {p}
           /\ \A i, j \in DOMAIN Append(D, p) : i # j => Append(D, p)[i] # Append(D, p)[j]
<1>1. /\ Append(D, p) \in Seq(Items) /\ Len(D) \in Nat /\ DOMAIN D = 1 .. Len(D)
      /\ DOMAIN Append(D, p) = 1 .. (Len(D) + 1)
      /\ \A i \in 1 .. Len(D) : Append(D, p)[i] = D[i]
      /\ Append(D, p)[Len(D) + 1] = p
    OBVIOUS
<1>2. \A i \in 1 .. Len(D) : D[i] # p
    BY <1>1 DEF Range
<1>3. \A d : d \in Range(Append(D, p)) <=> d \in Range(D) \/ d = p
    BY <1>1 DEF Range
<1>4. ASSUME NEW i \in 1 .. (Len(D) + 1), NEW j \in 1 .. (Len(D) + 1), i # j
      PROVE  Append(D, p)[i] # Append(D, p)[j]
    <2>1. CASE i \in 1 .. Len(D) /\ j \in 1 .. Len(D)
        BY <1>1, <1>4, <2>1
    <2>2. CASE i = Len(D) + 1
        BY <1>1, <1>2, <1>4, <2>2
    <2>3. CASE j = Len(D) + 1
        BY <1>1, <1>2, <1>4, <2>3
    <2> QED BY <1>1, <2>1, <2>2, <2>3
<1> QED BY <1>1, <1>3, <1>4

(* A thread that deletes data: its stack, and what its frame holds. *)
LEMMA DeletingFacts ==
    ASSUME RefInv, NEW t \in Threads, At(t, "delete")
    PROVE  /\ frame[t] \in DeleteFrames /\ frame[t].then \in Resumed
           /\ frame[t].dead \in Seq(Items) /\ frame[t].dead # <<>>
           /\ \A i, j \in DOMAIN frame[t].dead : i # j => frame[t].dead[i] # frame[t].dead[j]
           /\ Last(frame[t].dead) \in Items /\ references[Last(frame[t].dead)] = 0
           /\ Last(frame[t].dead) \in DeadOf(t) /\ DeadOf(t) = Range(frame[t].dead)
<1>1. frame[t] \in DeleteFrames
    BY FrameOf DEF RefInv, At
<1>2. frame[t].then \in Resumed /\ frame[t].dead \in Seq(Items)
    BY <1>1 DEF DeleteFrames
<1>3. /\ frame[t].dead # <<>>
      /\ \A i, j \in DOMAIN frame[t].dead : i # j => frame[t].dead[i] # frame[t].dead[j]
    BY DEF RefInv, DeadOnce
<1>4. DeadOf(t) = Range(frame[t].dead)
    BY DEF DeadOf
<1>5. PICK D : D = frame[t].dead
    OBVIOUS
<1>6. Last(D) \in Range(D) /\ Last(D) \in Items
    BY <1>2, <1>3, <1>5, StackFacts
<1>7. references[Last(D)] = 0
    BY <1>4, <1>5, <1>6 DEF RefInv, DeadOnce
<1> QED BY <1>1, <1>2, <1>3, <1>4, <1>5, <1>6, <1>7

(* Other threads' stacks stay as they are. *)
LEMMA OtherStacks ==
    ASSUME RefInv, NEW t \in Threads, OnlyFrameOf(t)
    PROVE  \A u \in Threads : u # t =>
             /\ DeadOf(u)' = DeadOf(u) /\ DeadOf(u) \cap DeadOf(t) = {}
             /\ (At(u, "delete")' <=> At(u, "delete")) /\ frame'[u] = frame[u]
             /\ \A d \in DeadOf(u) : references[d] = 0
BY DEF DeadOf, At, OnlyFrameOf, RefInv, DeadOnce

(* A stack holds nothing but the job it goes back to. *)
LEMMA DeleteHolds ==
    ASSUME NEW f, f.at = "delete", f.then \in Resumed
    PROVE  \A d : /\ ~EmitsIn(f, d) /\ ~AddsIn(f, d) /\ ~EmitsIn(f.then, d) /\ ~AddsIn(f.then, d)
                  /\ RunsIn(f, d) <=> RunsIn(f.then, d)
<1>1. JobIn(f) = f.then /\ JobIn(f.then) = f.then
    BY DEF JobIn, Resumed
<1> QED BY <1>1 DEF EmitsIn, AddsIn, RunsIn, Resumed

LEMMA DeleteDoneKeeps ==
    ASSUME RefInv, NEW t \in Threads, DeleteDone(t), UNCHANGED <<pc, held>>
    PROVE  RefInv'
<1>1. PICK D : D = frame[t].dead
    OBVIOUS
<1>2. PICK x : x = Last(D)
    OBVIOUS
<1>3. PICK g : g = IF Len(D) = 1 THEN frame[t].then ELSE [frame[t] EXCEPT !.dead = Front(D)]
    OBVIOUS
<1>4. At(t, "delete")
    BY DEF DeleteDone
<1>5. /\ frame[t] \in DeleteFrames /\ frame[t].then \in Resumed
      /\ D \in Seq(Items) /\ D # <<>> /\ \A i, j \in DOMAIN D : i # j => D[i] # D[j]
      /\ x \in Items /\ references[x] = 0 /\ DeadOf(t) = Range(D)
    BY <1>1, <1>2, <1>4, DeletingFacts
<1>6. frame \in [Threads -> {NoFrame} \cup RunFrames \cup DeleteFrames]
    BY DEF RefInv, RefTypes
<1>7. /\ dependency[x] = <<>> /\ pool' = pool \cup {x} /\ frame' = [frame EXCEPT ![t] = g]
      /\ UNCHANGED <<jobq, shared_jobq, failoverq, references, dependency>>
    <2>1. dependency[x] = <<>> /\ pool' = pool \cup {x}
          /\ UNCHANGED <<jobq, shared_jobq, failoverq, references, dependency>>
        BY <1>1, <1>2 DEF DeleteDone, queues
    <2>2. frame' = [frame EXCEPT ![t] =
                        IF Len(frame[t].dead) = 1 THEN frame[t].then
                        ELSE [frame[t] EXCEPT !.dead = Front(frame[t].dead)]]
        BY <1>6 DEF DeleteDone
    <2>3. frame' = [frame EXCEPT ![t] = g]
        BY <2>2, <1>1, <1>3
    <2> QED BY <2>1, <2>3
<1>8. /\ x \in Range(D) /\ Front(D) \in Seq(Items) /\ Range(Front(D)) = Range(D) \ {x}
      /\ \A i, j \in DOMAIN Front(D) : i # j => Front(D)[i] # Front(D)[j]
      /\ Len(D) = 1 => Range(D) = {x}
      /\ Len(D) # 1 => Front(D) # <<>>
    BY <1>2, <1>5, StackFacts
<1>9. /\ Len(D) = 1 => g = frame[t].then /\ g.at # "delete" /\ g.at \in {"none", "emit"}
                       /\ g \in {NoFrame} \cup RunFrames
      /\ Len(D) # 1 => /\ g \in DeleteFrames /\ g.at = "delete" /\ g.dead = Front(D)
                       /\ g.then = frame[t].then
    <2>1. CASE Len(D) = 1
        BY <1>3, <1>5, <2>1 DEF Resumed
    <2>2. CASE Len(D) # 1
        BY <1>3, <1>5, <1>8, <2>2 DEF DeleteFrames
    <2> QED BY <2>1, <2>2
<1>10. /\ frame'[t] = g /\ OnlyFrameOf(t)
       /\ frame' \in [Threads -> {NoFrame} \cup RunFrames \cup DeleteFrames]
    BY <1>6, <1>7, <1>9 DEF OnlyFrameOf
<1>11. DeadOf(t)' = Range(D) \ {x}
    <2>1. CASE Len(D) = 1
        BY <2>1, <1>8, <1>9, <1>10 DEF DeadOf, At
    <2>2. CASE Len(D) # 1
        BY <2>2, <1>8, <1>9, <1>10 DEF DeadOf, At
    <2> QED BY <2>1, <2>2
<1>12. \A u \in Threads : u # t =>
             /\ DeadOf(u)' = DeadOf(u) /\ DeadOf(u) \cap DeadOf(t) = {}
             /\ (At(u, "delete")' <=> At(u, "delete")) /\ frame'[u] = frame[u]
             /\ \A d \in DeadOf(u) : references[d] = 0
    BY <1>10, OtherStacks
<1>13. \A d : d \in Dying' <=> d \in Dying /\ d # x
    BY <1>5, <1>8, <1>11, <1>12, DyingIs
<1>14. RefTypes'
    <2>1. \A v \in Threads : frame'[v].at \in {"add", "unmark", "scan", "failover"} => frame'[v].ext # <<>>
        BY <1>9, <1>10 DEF RefInv, RefTypes, OnlyFrameOf
    <2>2. pool' \subseteq Items
        BY <1>5, <1>7 DEF RefInv, RefTypes
    <2> QED BY <1>7, <1>10, <2>1, <2>2 DEF RefInv, RefTypes
<1>15. Parents'
    BY <1>7 DEF RefInv, Parents
<1>16. Free'
    <2>1. \A d \in Items : d \in pool <=> references[d] = 0 /\ d \notin Dying
        BY ExactParts DEF RefInv, Free
    <2>2. pool' \subseteq Items
        BY <1>14 DEF RefTypes
    <2>3. \A d \in Items : d \in pool' <=> references'[d] = 0 /\ d \notin Dying'
        BY <2>1, <1>5, <1>7, <1>13
    <2> QED BY <2>2, <2>3 DEF Free
<1>17. DeadOnce'
    <2>1. ASSUME NEW u \in Threads, At(u, "delete")'
          PROVE  /\ frame'[u].dead # <<>>
                 /\ \A i, j \in DOMAIN frame'[u].dead : i # j => frame'[u].dead[i] # frame'[u].dead[j]
        <3>1. CASE u # t
            BY <2>1, <3>1, <1>12 DEF RefInv, DeadOnce
        <3>2. CASE u = t
            <4>1. Len(D) # 1
                BY <2>1, <3>2, <1>9, <1>10 DEF At
            <4>2. frame'[u].dead = Front(D)
                BY <4>1, <3>2, <1>9, <1>10
            <4> QED BY <4>1, <4>2, <1>8
        <3> QED BY <3>1, <3>2
    <2>2. ASSUME NEW u \in Threads, NEW d \in DeadOf(u)' PROVE references'[d] = 0
        <3>1. CASE u # t
            BY <2>2, <3>1, <1>7, <1>12
        <3>2. CASE u = t
            BY <2>2, <3>2, <1>5, <1>7, <1>11 DEF RefInv, DeadOnce
        <3> QED BY <3>1, <3>2
    <2>3. ASSUME NEW u \in Threads, NEW v \in Threads, u # v PROVE DeadOf(u)' \cap DeadOf(v)' = {}
        <3>1. CASE u # t /\ v # t
            BY <2>3, <3>1, <1>12 DEF RefInv, DeadOnce
        <3>2. CASE u = t \/ v = t
            BY <2>3, <3>2, <1>5, <1>11, <1>12
        <3> QED BY <3>1, <3>2
    <2> QED BY <2>1, <2>2, <2>3 DEF DeadOnce
<1>18. \A d : /\ Queued(jobq, d)' = Queued(jobq, d) /\ Queued(shared_jobq, d)' = Queued(shared_jobq, d)
              /\ Queued(failoverq, d)' = Queued(failoverq, d)
              /\ Holds(d)' = Holds(d) /\ Children(d)' = Children(d)
    BY <1>7 DEF Queued, Holds, Children
<1>19. Countable'
    BY <1>18 DEF RefInv, Countable
<1>20. ASSUME NEW d \in Items PROVE references'[d] = Sum(d)'
    <2>1. /\ ~EmitsIn(frame[t], d) /\ ~AddsIn(frame[t], d) /\ ~EmitsIn(g, d) /\ ~AddsIn(g, d)
          /\ RunsIn(frame[t], d) <=> RunsIn(g, d)
        <3>1. /\ ~EmitsIn(frame[t], d) /\ ~AddsIn(frame[t], d)
              /\ ~EmitsIn(frame[t].then, d) /\ ~AddsIn(frame[t].then, d)
              /\ RunsIn(frame[t], d) <=> RunsIn(frame[t].then, d)
            BY <1>4, <1>5, DeleteHolds DEF At
        <3>2. CASE Len(D) = 1
            BY <3>1, <3>2, <1>9
        <3>3. CASE Len(D) # 1
            <4>1. g.at = "delete" /\ g.then = frame[t].then
                BY <3>3, <1>9
            <4>2. /\ ~EmitsIn(g, d) /\ ~AddsIn(g, d)
                  /\ RunsIn(g, d) <=> RunsIn(g.then, d)
                BY <4>1, <1>5, DeleteHolds
            <4> QED BY <3>1, <4>1, <4>2
        <3> QED BY <3>2, <3>3
    <2>2. /\ Cardinality(Runs(d)') = Cardinality(Runs(d))
          /\ Cardinality(Emits(d)') = Cardinality(Emits(d))
          /\ Cardinality(Adds(d)') = Cardinality(Adds(d))
        <3>1. /\ t \in Runs(d) <=> t \in Runs(d)'
              /\ t \in Emits(d) <=> t \in Emits(d)'
              /\ t \in Adds(d) <=> t \in Adds(d)'
            BY <2>1, <1>10, HeldByFrame
        <3> QED BY <1>10, <3>1, FrameCounts
    <2>3. Sum(d)' = Sum(d)
        BY <2>2, <1>18 DEF Sum
    <2> QED BY <2>3, <1>7, ExactParts DEF RefInv
<1> QED BY <1>14, <1>15, <1>16, <1>17, <1>19, <1>20, ExactParts DEF RefInv

(* The only parent of the data c. *)
LEMMA OnlyParent ==
    ASSUME RefInv, NEW c \in Items, dependency[c] # <<>>
    PROVE  /\ Last(dependency[c]) \in Items /\ Range(dependency[c]) = {Last(dependency[c])}
           /\ Front(dependency[c]) = <<>>
           /\ references[Last(dependency[c])] > 0
<1>1. dependency[c] \in Seq(Items) /\ Len(dependency[c]) = 1
    <2>1. dependency[c] \in Seq(Items) /\ Len(dependency[c]) <= 1
        BY DEF RefInv, RefTypes, Parents
    <2>2. \A s \in Seq(Items) : s # <<>> => Len(s) \in Nat \ {0}
        OBVIOUS
    <2>3. PICK n : n = Len(dependency[c])
        OBVIOUS
    <2>4. n \in Nat \ {0} /\ n <= 1
        BY <2>1, <2>2, <2>3
    <2>5. n = 1
        BY <2>4
    <2> QED BY <2>1, <2>3, <2>5
<1>2. PICK p : p = Last(dependency[c])
    OBVIOUS
<1>3. p \in Items /\ Range(dependency[c]) = {p} /\ Front(dependency[c]) = <<>>
    BY <1>1, <1>2 DEF Last, Front, Range
<1>4. c \in Children(p) /\ IsFiniteSet(Children(p))
    BY <1>3 DEF Children, RefInv, Countable
<1>5. Cardinality(Children(p)) \in Nat /\ Cardinality(Children(p)) > 0
    BY <1>4, FS_EmptySet, FS_CardinalityType
<1>6. references[p] > 0
    <2>1. references[p] = Sum(p)
        BY <1>3, ExactParts DEF RefInv
    <2>2. Cardinality(Runs(p)) \in Nat /\ Cardinality(Emits(p)) \in Nat /\ Cardinality(Adds(p)) \in Nat
        <3>1. IsFiniteSet(Threads)
            <4>1. 0 \in Int /\ work_size - 1 \in Int
                BY EngineConstants
            <4> QED BY <4>1, FS_Interval DEF Threads
        <3>2. Runs(p) \in SUBSET Threads /\ Emits(p) \in SUBSET Threads /\ Adds(p) \in SUBSET Threads
            BY DEF Runs, Emits, Adds
        <3> QED BY <3>1, <3>2, FS_Subset, FS_CardinalityType
    <2>3. PICK j, s, f, r, e, a, h, n \in Nat :
            /\ j = Cardinality(Queued(jobq, p)) /\ s = Cardinality(Queued(shared_jobq, p))
            /\ f = Cardinality(Queued(failoverq, p)) /\ r = Cardinality(Runs(p))
            /\ e = Cardinality(Emits(p)) /\ a = Cardinality(Adds(p))
            /\ h = Cardinality(Holds(p)) /\ n = Cardinality(Children(p))
        BY <2>2, <1>3, Counts DEF RefInv
    <2>4. Sum(p) = j + s + f + r + e + a + h + n /\ n > 0
        BY <2>3, <1>5 DEF Sum
    <2> QED BY <2>1, <2>4
<1> QED BY <1>2, <1>3, <1>6

LEMMA DeleteParentKeeps ==
    ASSUME RefInv, NEW t \in Threads, DeleteParent(t), UNCHANGED <<pc, held>>
    PROVE  RefInv'
<1>1. PICK D : D = frame[t].dead
    OBVIOUS
<1>2. PICK x : x = Last(D)
    OBVIOUS
<1>3. PICK p : p = Last(dependency[x])
    OBVIOUS
<1>4. At(t, "delete") /\ dependency[x] # <<>>
    BY <1>1, <1>2 DEF DeleteParent
<1>5. /\ frame[t] \in DeleteFrames /\ frame[t].then \in Resumed
      /\ D \in Seq(Items) /\ D # <<>> /\ \A i, j \in DOMAIN D : i # j => D[i] # D[j]
      /\ x \in Items /\ references[x] = 0 /\ DeadOf(t) = Range(D) /\ x \in Range(D)
    BY <1>1, <1>2, <1>4, DeletingFacts
<1>6. /\ p \in Items /\ Range(dependency[x]) = {p} /\ Front(dependency[x]) = <<>> /\ references[p] > 0
    BY <1>3, <1>4, <1>5, OnlyParent
<1>7. /\ frame \in [Threads -> {NoFrame} \cup RunFrames \cup DeleteFrames]
      /\ references \in [Items -> Nat] /\ dependency \in [Items -> Seq(Items)] /\ pool \subseteq Items
    BY DEF RefInv, RefTypes
<1>8. PICK E : E = IF references[p] = 1 THEN Append(D, p) ELSE D
    OBVIOUS
<1>9. PICK g : g = [frame[t] EXCEPT !.dead = E]
    OBVIOUS
<1>10. /\ dependency' = [dependency EXCEPT ![x] = Front(@)]
       /\ references' = [references EXCEPT ![p] = @ - 1]
       /\ UNCHANGED <<jobq, shared_jobq, failoverq, pool>>
    BY <1>1, <1>2, <1>3 DEF DeleteParent, queues
<1>11. frame' = [frame EXCEPT ![t] = g]
    BY <1>1, <1>2, <1>3, <1>7, <1>8, <1>9 DEF DeleteParent
<1>12. p \notin Dying /\ p \notin pool /\ p # x
    BY <1>5, <1>6, DyingIs, ExactParts DEF RefInv, DeadOnce, Free
<1>13. p \notin Range(D)
    BY <1>5, <1>12, DyingIs
<1>14. /\ E \in Seq(Items) /\ E # <<>> /\ \A i, j \in DOMAIN E : i # j => E[i] # E[j]
       /\ references[p] = 1 => Range(E) = Range(D) \cup {p}
       /\ references[p] # 1 => Range(E) = Range(D)
    BY <1>5, <1>6, <1>8, <1>13, StackPushed
<1>15. g \in DeleteFrames /\ g.at = "delete" /\ g.dead = E /\ g.then = frame[t].then
    BY <1>5, <1>9, <1>14 DEF DeleteFrames
<1>16. /\ frame'[t] = g /\ OnlyFrameOf(t)
       /\ frame' \in [Threads -> {NoFrame} \cup RunFrames \cup DeleteFrames]
    BY <1>7, <1>11, <1>15 DEF OnlyFrameOf
<1>17. /\ references' \in [Items -> Nat] /\ references'[p] = references[p] - 1
       /\ \A d \in Items : d # p => references'[d] = references[d]
    BY <1>6, <1>7, <1>10
<1>18. /\ dependency' \in [Items -> Seq(Items)] /\ dependency'[x] = <<>>
       /\ \A c \in Items : c # x => dependency'[c] = dependency[c]
    <2>1. <<>> \in Seq(Items) /\ dependency' = [dependency EXCEPT ![x] = <<>>]
        BY <1>6, <1>7, <1>10
    <2> QED BY <2>1, <1>5, <1>7
<1>19. DeadOf(t)' = Range(E) /\ At(t, "delete")'
    BY <1>15, <1>16 DEF DeadOf, At
<1>20. \A u \in Threads : u # t =>
             /\ DeadOf(u)' = DeadOf(u) /\ DeadOf(u) \cap DeadOf(t) = {}
             /\ (At(u, "delete")' <=> At(u, "delete")) /\ frame'[u] = frame[u]
             /\ \A d \in DeadOf(u) : references[d] = 0
    BY <1>16, OtherStacks
<1>21. \A d : d \in Dying' <=> d \in Dying \/ (references[p] = 1 /\ d = p)
    BY <1>5, <1>14, <1>19, <1>20, DyingIs
<1>22. RefTypes'
    <2>1. \A v \in Threads : frame'[v].at \in {"add", "unmark", "scan", "failover"} => frame'[v].ext # <<>>
        BY <1>15, <1>16 DEF RefInv, RefTypes, OnlyFrameOf
    <2> QED BY <1>10, <1>16, <1>17, <1>18, <2>1 DEF RefInv, RefTypes
<1>23. Parents'
    <2>1. Len(<<>>) <= 1
        OBVIOUS
    <2> QED BY <2>1, <1>10, <1>18 DEF RefInv, Parents
<1>24. Free'
    <2>1. \A d \in Items : d \in pool <=> references[d] = 0 /\ d \notin Dying
        BY ExactParts DEF RefInv, Free
    <2>2. references[p] \in Nat
        BY <1>6, <1>7
    <2>3. references'[p] = 0 <=> references[p] = 1
        BY <2>2, <1>17
    <2>4. \A d \in Items : d \in pool' <=> references'[d] = 0 /\ d \notin Dying'
        BY <2>1, <2>3, <1>10, <1>12, <1>17, <1>21
    <2> QED BY <2>4, <1>7, <1>10 DEF Free
<1>25. DeadOnce'
    <2>1. ASSUME NEW u \in Threads, At(u, "delete")'
          PROVE  /\ frame'[u].dead # <<>>
                 /\ \A i, j \in DOMAIN frame'[u].dead : i # j => frame'[u].dead[i] # frame'[u].dead[j]
        <3>1. CASE u # t
            BY <2>1, <3>1, <1>20 DEF RefInv, DeadOnce
        <3>2. CASE u = t
            <4>1. frame'[u].dead = E
                BY <3>2, <1>15, <1>16
            <4> QED BY <4>1, <1>14
        <3> QED BY <3>1, <3>2
    <2>2. ASSUME NEW u \in Threads, NEW d \in DeadOf(u)' PROVE references'[d] = 0
        <3>1. CASE u # t
            <4>1. d \in DeadOf(u) /\ references[d] = 0
                BY <2>2, <3>1, <1>20
            <4>2. d \in Items /\ d # p
                <5>1. frame[u] \in {NoFrame} \cup RunFrames \cup DeleteFrames
                    BY <1>7
                <5>2. frame[u].at = "delete" => frame[u].dead \in Seq(Items)
                    BY <5>1, FrameKinds
                <5> QED BY <5>2, <4>1, <1>6 DEF DeadOf, At, Range
            <4> QED BY <4>1, <4>2, <1>17
        <3>2. CASE u = t
            <4>1. CASE d = p /\ references[p] = 1
                BY <4>1, <1>17
            <4>2. CASE d \in Range(D)
                <5>1. d \in Items /\ references[d] = 0
                    BY <4>2, <1>5 DEF RefInv, DeadOnce, Range
                <5> QED BY <5>1, <1>6, <1>17
            <4> QED BY <2>2, <3>2, <4>1, <4>2, <1>14, <1>19
        <3> QED BY <3>1, <3>2
    <2>3. ASSUME NEW u \in Threads, NEW v \in Threads, u # v PROVE DeadOf(u)' \cap DeadOf(v)' = {}
        <3>1. CASE u # t /\ v # t
            BY <2>3, <3>1, <1>20 DEF RefInv, DeadOnce
        <3>2. \A w \in Threads : w # t => DeadOf(w)' \cap DeadOf(t)' = {}
            <4>1. \A w \in Threads : p \notin DeadOf(w)
                BY <1>12, DyingIs
            <4> QED BY <4>1, <1>5, <1>14, <1>19, <1>20
        <3>3. CASE u = t \/ v = t
            BY <2>3, <3>2, <3>3
        <3> QED BY <3>1, <3>3
    <2> QED BY <2>1, <2>2, <2>3 DEF DeadOnce
<1>26. \A d : /\ Queued(jobq, d)' = Queued(jobq, d) /\ Queued(shared_jobq, d)' = Queued(shared_jobq, d)
              /\ Queued(failoverq, d)' = Queued(failoverq, d) /\ Holds(d)' = Holds(d)
    BY <1>10 DEF Queued, Holds
<1>27. ASSUME NEW d \in Items
       PROVE  /\ IsFiniteSet(Children(d)')
              /\ Cardinality(Children(d)) \in Nat /\ Cardinality(Children(d)') \in Nat
              /\ d = p => Cardinality(Children(d)) = Cardinality(Children(d)') + 1
              /\ d # p => Cardinality(Children(d)) = Cardinality(Children(d)')
    <2>1. Range(<<>>) = {}
        BY DEF Range
    <2>2. /\ Children(d) \ {x} = Children(d)' \ {x}
          /\ x \notin Children(d)' /\ (x \in Children(d) <=> d = p)
        BY <2>1, <1>5, <1>6, <1>18 DEF Children
    <2>3. IsFiniteSet(Children(d))
        BY DEF RefInv, Countable
    <2>4. PICK S, T : S = Children(d) /\ T = Children(d)'
        OBVIOUS
    <2>5. /\ IsFiniteSet(T) /\ Cardinality(S) \in Nat /\ Cardinality(T) \in Nat
          /\ x \in S /\ x \notin T => Cardinality(S) = Cardinality(T) + 1
          /\ (x \in S <=> x \in T) => Cardinality(S) = Cardinality(T)
        BY <2>2, <2>3, <2>4, CountChange
    <2> QED BY <2>2, <2>4, <2>5
<1>28. Countable'
    BY <1>26, <1>27 DEF RefInv, Countable
<1>29. ASSUME NEW d \in Items PROVE references'[d] = Sum(d)'
    <2>1. /\ ~EmitsIn(frame[t], d) /\ ~AddsIn(frame[t], d) /\ ~EmitsIn(g, d) /\ ~AddsIn(g, d)
          /\ RunsIn(frame[t], d) <=> RunsIn(g, d)
        BY <1>4, <1>5, <1>15, DeleteHolds DEF At
    <2>2. /\ Cardinality(Runs(d)') = Cardinality(Runs(d))
          /\ Cardinality(Emits(d)') = Cardinality(Emits(d))
          /\ Cardinality(Adds(d)') = Cardinality(Adds(d))
          /\ Cardinality(Runs(d)) \in Nat /\ Cardinality(Emits(d)) \in Nat /\ Cardinality(Adds(d)) \in Nat
        <3>1. /\ t \in Runs(d) <=> t \in Runs(d)'
              /\ t \in Emits(d) <=> t \in Emits(d)'
              /\ t \in Adds(d) <=> t \in Adds(d)'
            BY <2>1, <1>16, HeldByFrame
        <3> QED BY <1>16, <3>1, FrameCounts
    <2>3. PICK c \in Int : (d = p => c = -1) /\ (d # p => c = 0)
        OBVIOUS
    <2>4. Cardinality(Children(d)') = Cardinality(Children(d)) + c
        BY <2>3, <1>27
    <2>5. Changes(d, 0, 0, 0, 0, 0, 0, 0, c)
        BY <2>2, <2>4, <1>26, Counts DEF RefInv, Changes
    <2>6. Sum(d)' = references[d] + (0 + 0 + 0 + 0 + 0 + 0 + 0 + c)
        BY <2>3, <2>5, SumChange
    <2>7. references[d] \in Nat
        BY <1>7
    <2> QED BY <2>3, <2>6, <2>7, <1>17
<1> QED BY <1>22, <1>23, <1>24, <1>25, <1>28, <1>29, ExactParts DEF RefInv

-----------------------------------------------------------------------------
(* Data goes out to the subscribers.                                       *)
EmitKinds(t, k, local, ext, x, refs, derived) ==
    /\ k \in Kids /\ local \in Seq(Kids) /\ ext \in Seq(Kids)
    /\ refs = (IF local = <<>> THEN 0 ELSE 1) + (IF ext = <<>> THEN 0 ELSE 1)
    /\ IF k \in Maker THEN pool # {} /\ x = FreshData ELSE x = frame[t].data
    /\ derived \in BOOLEAN /\ (derived <=> k \in Deriver /\ refs > 0)

Emitted(t, local, ext, x, refs, derived) ==
    /\ LET counted == [references EXCEPT ![x] = @ + refs]
       IN  references' = IF derived THEN [counted EXCEPT ![frame[t].data] = @ + 1] ELSE counted
    /\ dependency' = IF derived THEN [dependency EXCEPT ![x] = Append(@, frame[t].data)] ELSE dependency
    /\ pool' = IF refs = 0 THEN pool ELSE pool \ {x}
    /\ jobq' = IF local = <<>> THEN jobq
               ELSE [jobq EXCEPT ![t] = Append(@, [subs |-> local, data |-> x, hops |-> frame[t].hops - 1])]
    /\ frame' = [frame EXCEPT ![t].outs = @ - 1, ![t].out = x, ![t].ext = ext,
                              ![t].at = IF ext = <<>> THEN "emit" ELSE "push"]
    /\ UNCHANGED <<shared_jobq, failoverq>>

LEMMA EmitParts ==
    ASSUME RefInv, NEW t \in Threads, Emit(t)
    PROVE  /\ frame[t].at = "emit" /\ frame[t] \in KidFrames
           /\ \E k, local, ext, x, refs, derived :
                 /\ EmitKinds(t, k, local, ext, x, refs, derived)
                 /\ Emitted(t, local, ext, x, refs, derived)
<1>1. frame[t].at = "emit" /\ frame[t] \in KidFrames
    BY FrameOf DEF Emit, At, RefInv
<1>2. PICK k : k = frame[t].kid
    OBVIOUS
<1>3. k \in Kids
    BY <1>1, <1>2 DEF KidFrames
<1>4. PICK local : local = IF rewired THEN local_subscribers[k] \o ext_subscribers[k] ELSE local_subscribers[k]
    OBVIOUS
<1>5. PICK ext : ext = IF rewired THEN <<>> ELSE ext_subscribers[k]
    OBVIOUS
<1>6. local \in Seq(Kids) /\ ext \in Seq(Kids)
    <2>1. local_subscribers[k] \in Seq(Kids) /\ ext_subscribers[k] \in Seq(Kids)
        BY <1>3, EngineConstants
    <2>2. \A a, b \in Seq(Kids) : a \o b \in Seq(Kids)
        OBVIOUS
    <2>3. <<>> \in Seq(Kids)
        OBVIOUS
    <2> QED BY <1>4, <1>5, <2>1, <2>2, <2>3
<1>7. PICK refs : refs = (IF local = <<>> THEN 0 ELSE 1) + (IF ext = <<>> THEN 0 ELSE 1)
    OBVIOUS
<1>8. PICK x : x = IF k \in Maker THEN FreshData ELSE frame[t].data
    OBVIOUS
<1>9. PICK derived : derived = (k \in Deriver /\ refs > 0)
    OBVIOUS
<1>10. EmitKinds(t, k, local, ext, x, refs, derived)
    <2>1. k \in Maker => pool # {}
        BY <1>2 DEF Emit
    <2>2. derived \in BOOLEAN /\ (derived <=> k \in Deriver /\ refs > 0)
        BY <1>9
    <2> QED BY <2>1, <2>2, <1>3, <1>6, <1>7, <1>8 DEF EmitKinds
<1>11. Emitted(t, local, ext, x, refs, derived)
    BY <1>2, <1>4, <1>5, <1>7, <1>8, <1>9 DEF Emit, Emitted, AssignDependency
<1> QED BY <1>1, <1>10, <1>11

LEMMA EmitKeeps ==
    ASSUME RefInv, NEW t \in Threads, Emit(t), UNCHANGED <<pc, held>>
    PROVE  RefInv'
<1>1. /\ frame[t].at = "emit" /\ frame[t] \in KidFrames
      /\ \E k, local, ext, x, refs, derived :
            /\ EmitKinds(t, k, local, ext, x, refs, derived)
            /\ Emitted(t, local, ext, x, refs, derived)
    BY EmitParts
<1>2. PICK k, local, ext, x, refs, derived : /\ EmitKinds(t, k, local, ext, x, refs, derived)
                                             /\ Emitted(t, local, ext, x, refs, derived)
    BY <1>1
<1>3. /\ k \in Kids /\ local \in Seq(Kids) /\ ext \in Seq(Kids)
      /\ refs = (IF local = <<>> THEN 0 ELSE 1) + (IF ext = <<>> THEN 0 ELSE 1)
      /\ derived \in BOOLEAN /\ (derived <=> k \in Deriver /\ refs > 0)
      /\ IF k \in Maker THEN pool # {} /\ x = FreshData ELSE x = frame[t].data
    BY <1>2 DEF EmitKinds
<1>4. PICK o : o = frame[t].data
    OBVIOUS
<1>5. PICK e : e = [subs |-> local, data |-> x, hops |-> frame[t].hops - 1]
    OBVIOUS
<1>6. PICK g : g = [frame[t] EXCEPT !.outs = @ - 1, !.out = x, !.ext = ext,
                                    !.at = IF ext = <<>> THEN "emit" ELSE "push"]
    OBVIOUS
<1>7. /\ references \in [Items -> Nat] /\ pool \subseteq Items /\ dependency \in [Items -> Seq(Items)]
      /\ jobq \in [Threads -> Seq(LocalJobs)]
      /\ frame \in [Threads -> {NoFrame} \cup RunFrames \cup DeleteFrames]
    BY DEF RefInv, RefTypes
<1>r. PICK R : R = [references EXCEPT ![x] = @ + refs]
    OBVIOUS
<1>8. /\ references' = IF derived THEN [R EXCEPT ![o] = @ + 1] ELSE R
      /\ dependency' = IF derived THEN [dependency EXCEPT ![x] = Append(@, o)] ELSE dependency
      /\ pool' = IF refs = 0 THEN pool ELSE pool \ {x}
      /\ jobq' = IF local = <<>> THEN jobq ELSE [jobq EXCEPT ![t] = Append(@, e)]
      /\ UNCHANGED <<shared_jobq, failoverq>>
    BY <1>2, <1>4, <1>5, <1>r DEF Emitted
<1>9. frame' = [frame EXCEPT ![t] = g]
    <2>1. frame' = [frame EXCEPT ![t].outs = @ - 1, ![t].out = x, ![t].ext = ext,
                                 ![t].at = IF ext = <<>> THEN "emit" ELSE "push"]
        BY <1>2 DEF Emitted
    <2> QED BY <2>1, <1>6, <1>7
<1>10. /\ o \in Items /\ references[o] > 0 /\ o \notin Dying /\ o \notin pool
    <2>1. o \in Items
        BY <1>1, <1>4 DEF KidFrames
    <2>2. t \in Runs(o)
        BY <1>1, <1>4, HeldByFrame DEF RunsIn, JobIn
    <2> QED BY <2>1, <2>2, HeldIsLive
<1>11. /\ x \in Items /\ x \notin Dying
       /\ derived => x # o /\ dependency[x] = <<>>
       /\ x = o \/ (x \in pool /\ references[x] = 0)
    <2>1. CASE k \in Maker
        <3>1. x \in pool
            BY <1>3, <2>1 DEF FreshData
        <3>2. references[x] = 0 /\ x \notin Dying /\ dependency[x] = <<>> /\ x \in Items
            BY <3>1, <1>7, ExactParts DEF RefInv, Free, Parents
        <3> QED BY <3>1, <3>2, <1>10
    <2>2. CASE k \notin Maker
        <3>1. x = o /\ ~derived
            BY <2>2, <1>3, <1>4, EngineConstants
        <3> QED BY <3>1, <1>10
    <2> QED BY <2>1, <2>2
<1>12. PICK lr, er, dr \in Nat :
            /\ local = <<>> => lr = 0
            /\ local # <<>> => lr = 1
            /\ ext = <<>> => er = 0
            /\ ext # <<>> => er = 1
            /\ derived => dr = 1
            /\ ~derived => dr = 0
    <2>1. \E n \in Nat : (local = <<>> => n = 0) /\ (local # <<>> => n = 1)
        OBVIOUS
    <2>2. \E n \in Nat : (ext = <<>> => n = 0) /\ (ext # <<>> => n = 1)
        OBVIOUS
    <2>3. \E n \in Nat : (derived => n = 1) /\ (~derived => n = 0)
        OBVIOUS
    <2> QED BY <2>1, <2>2, <2>3
<1>13. refs = lr + er /\ refs \in Nat /\ (refs = 0 => ~derived)
    <2>1. refs = lr + er
        BY <1>3, <1>12
    <2> QED BY <2>1, <1>3, <1>12
<1>14. /\ references' \in [Items -> Nat]
       /\ \A d \in Items : /\ d # x /\ d # o => references'[d] = references[d]
                           /\ d = x /\ d # o => references'[d] = references[d] + refs
                           /\ d # x /\ d = o => references'[d] = references[d] + dr
                           /\ d = x /\ d = o => references'[d] = references[d] + refs /\ ~derived
    <2>1. /\ R \in [Items -> Nat] /\ R[x] = references[x] + refs
          /\ \A d \in Items : d # x => R[d] = references[d]
        BY <1>r, <1>7, <1>11, <1>13
    <2>2. CASE derived
        <3>1. references' = [R EXCEPT ![o] = @ + 1]
            BY <1>8, <2>2
        <3>2. /\ references' \in [Items -> Nat] /\ references'[o] = R[o] + 1
              /\ \A d \in Items : d # o => references'[d] = R[d]
            BY <3>1, <2>1, <1>10
        <3> QED BY <3>2, <2>1, <2>2, <1>10, <1>11, <1>12
    <2>3. CASE ~derived
        <3>1. references' = R
            BY <1>8, <2>3
        <3> QED BY <3>1, <2>1, <2>3, <1>7, <1>11, <1>12
    <2> QED BY <2>2, <2>3
<1>15. /\ g \in KidFrames /\ g.data = o /\ g.out = x
       /\ ext = <<>> => g.at = "emit"
       /\ ext # <<>> => g.at = "push"
    <2>1. PICK at : at = IF ext = <<>> THEN "emit" ELSE "push"
        OBVIOUS
    <2>2. at \in {"call", "emit", "push", "add", "unmark", "scan", "failover"}
        BY <2>1
    <2>3. PICK n : n = frame[t].outs - 1
        OBVIOUS
    <2>4. n \in Int
        BY <2>3, <1>1 DEF KidFrames
    <2>5. g = [frame[t] EXCEPT !.outs = n, !.out = x, !.ext = ext, !.at = at]
        BY <2>1, <2>3, <1>6
    <2>6. g \in KidFrames
        BY <2>2, <2>4, <2>5, <1>1, <1>3, <1>11, FrameFields
    <2>7. g.data = frame[t].data /\ g.out = x /\ g.at = at
        BY <2>5, <1>1 DEF KidFrames
    <2> QED BY <2>1, <2>6, <2>7, <1>4
<1>16. /\ frame'[t] = g /\ OnlyFrameOf(t)
       /\ frame' \in [Threads -> {NoFrame} \cup RunFrames \cup DeleteFrames]
    BY <1>7, <1>9, <1>15 DEF OnlyFrameOf, RunFrames
<1>17. /\ local = <<>> => jobq' = jobq
       /\ local # <<>> => Appended(LocalJobs, jobq, jobq', t, e)
       /\ jobq' \in [Threads -> Seq(LocalJobs)] /\ DataOf(e) = x
    <2>1. e \in LocalJobs /\ DataOf(e) = x
        <3>1. frame[t].hops - 1 \in Int
            BY <1>1 DEF KidFrames
        <3> QED BY <3>1, <1>3, <1>5, <1>11 DEF LocalJobs, DataOf
    <2>2. CASE local = <<>>
        BY <2>1, <2>2, <1>7, <1>8
    <2>3. CASE local # <<>>
        <3>1. jobq' = [jobq EXCEPT ![t] = Append(@, e)]
            BY <2>3, <1>8
        <3>2. /\ jobq' \in [Threads -> Seq(LocalJobs)] /\ jobq'[t] = Append(jobq[t], e)
              /\ \A u \in Threads \ {t} : jobq'[u] = jobq[u]
            BY <3>1, <2>1, <1>7
        <3> QED BY <2>1, <2>3, <3>2, <1>7 DEF Appended, Others
    <2> QED BY <2>2, <2>3
<1>18. /\ dependency' \in [Items -> Seq(Items)]
       /\ ~derived => dependency' = dependency
       /\ derived => /\ dependency'[x] = <<o>>
                     /\ \A d \in Items : d # x => dependency'[d] = dependency[d]
    <2>1. CASE derived
        <3>1. Append(dependency[x], o) = <<o>> /\ <<o>> \in Seq(Items)
            <4>1. Append(<<>>, o) = <<o>> /\ <<o>> \in Seq(Items)
                BY <1>10
            <4> QED BY <4>1, <2>1, <1>11
        <3>2. dependency' = [dependency EXCEPT ![x] = <<o>>]
            BY <2>1, <3>1, <1>8
        <3> QED BY <2>1, <3>1, <3>2, <1>7, <1>11
    <2>2. CASE ~derived
        BY <2>2, <1>7, <1>8
    <2> QED BY <2>1, <2>2
<1>19. /\ pool' \subseteq pool /\ (refs > 0 => x \notin pool') /\ (refs = 0 => pool' = pool)
       /\ \A d \in pool : d # x => d \in pool'
    BY <1>8, <1>13
<1>20. RefTypes'
    <2>1. \A v \in Threads : frame'[v].at \in {"add", "unmark", "scan", "failover"} => frame'[v].ext # <<>>
        BY <1>15, <1>16 DEF RefInv, RefTypes, OnlyFrameOf
    <2>2. pool' \subseteq Items
        BY <1>7, <1>19
    <2> QED BY <1>8, <1>14, <1>16, <1>17, <1>18, <2>1, <2>2 DEF RefInv, RefTypes
<1>21. Parents'
    <2>1. CASE derived
        <3>1. Len(<<o>>) <= 1 /\ x \notin pool'
            BY <2>1, <1>3, <1>19
        <3> QED BY <2>1, <3>1, <1>18, <1>19 DEF RefInv, Parents
    <2>2. CASE ~derived
        BY <2>2, <1>18, <1>19 DEF RefInv, Parents
    <2> QED BY <2>1, <2>2
<1>22. \A d : /\ Queued(shared_jobq, d)' = Queued(shared_jobq, d)
              /\ Queued(failoverq, d)' = Queued(failoverq, d) /\ Holds(d)' = Holds(d)
              /\ Queued(jobq, d)' = Queued(jobq', d)
    BY <1>8 DEF Queued, Holds
<1>23. ASSUME NEW d \in Items
       PROVE  /\ IsFiniteSet(Queued(jobq', d))
              /\ d = x => Cardinality(Queued(jobq', d)) = Cardinality(Queued(jobq, d)) + lr
              /\ d # x => Cardinality(Queued(jobq', d)) = Cardinality(Queued(jobq, d))
    <2>1. IsFiniteSet(Queued(jobq, d)) /\ Cardinality(Queued(jobq, d)) \in Nat
        BY FS_CardinalityType DEF RefInv, Countable
    <2>2. CASE local = <<>>
        BY <2>1, <2>2, <1>12, <1>17
    <2>3. CASE local # <<>>
        <3>1. Appended(LocalJobs, jobq, jobq', t, e) /\ DataOf(e) = x /\ lr = 1
            BY <2>3, <1>12, <1>17
        <3> QED BY <2>1, <3>1, QueuedAppend
    <2> QED BY <2>2, <2>3
<1>24. ASSUME NEW d \in Items
       PROVE  /\ IsFiniteSet(Children(d)')
              /\ d = o => Cardinality(Children(d)') = Cardinality(Children(d)) + dr
              /\ d # o => Cardinality(Children(d)') = Cardinality(Children(d))
    <2>1. IsFiniteSet(Children(d)) /\ Cardinality(Children(d)) \in Nat
        BY FS_CardinalityType DEF RefInv, Countable
    <2>2. CASE ~derived
        <3>1. Children(d)' = Children(d)
            BY <2>2, <1>18 DEF Children
        <3> QED BY <2>1, <2>2, <3>1, <1>12
    <2>3. CASE derived
        <3>1. Range(<<>>) = {} /\ Range(<<o>>) = {o}
            BY DEF Range
        <3>2. /\ Children(d) \ {x} = Children(d)' \ {x}
              /\ x \notin Children(d) /\ (x \in Children(d)' <=> d = o)
            BY <2>3, <3>1, <1>11, <1>18 DEF Children
        <3>3. PICK S, T : S = Children(d) /\ T = Children(d)'
            OBVIOUS
        <3>4. /\ IsFiniteSet(T) /\ Cardinality(S) \in Nat /\ Cardinality(T) \in Nat
              /\ x \in T /\ x \notin S => Cardinality(T) = Cardinality(S) + 1
              /\ (x \in S <=> x \in T) => Cardinality(S) = Cardinality(T)
            BY <3>2, <3>3, <2>1, CountChange
        <3>5. dr = 1
            BY <2>3, <1>12
        <3> QED BY <3>2, <3>3, <3>4, <3>5
    <2> QED BY <2>2, <2>3
<1>25. Countable'
    BY <1>22, <1>23, <1>24 DEF RefInv, Countable
<1>26. ASSUME NEW d \in Items PROVE references'[d] = Sum(d)'
    <2>1. /\ t \in Runs(d) <=> t \in Runs(d)'
          /\ t \notin Emits(d) /\ (t \in Emits(d)' <=> d = x /\ ext # <<>>)
          /\ t \notin Adds(d) /\ t \notin Adds(d)'
        <3>1. /\ RunsIn(frame[t], d) <=> RunsIn(g, d)
              /\ ~EmitsIn(frame[t], d) /\ (EmitsIn(g, d) <=> d = x /\ ext # <<>>)
              /\ ~AddsIn(frame[t], d) /\ ~AddsIn(g, d)
            BY <1>1, <1>4, <1>15 DEF RunsIn, EmitsIn, AddsIn, JobIn
        <3> QED BY <3>1, <1>16, HeldByFrame
    <2>2. /\ Cardinality(Runs(d)') = Cardinality(Runs(d))
          /\ d = x => Cardinality(Emits(d)') = Cardinality(Emits(d)) + er
          /\ d # x => Cardinality(Emits(d)') = Cardinality(Emits(d))
          /\ Cardinality(Adds(d)') = Cardinality(Adds(d))
          /\ Cardinality(Runs(d)) \in Nat /\ Cardinality(Emits(d)) \in Nat /\ Cardinality(Adds(d)) \in Nat
        <3>1. /\ Cardinality(Runs(d)) \in Nat /\ Cardinality(Emits(d)) \in Nat /\ Cardinality(Adds(d)) \in Nat
              /\ Cardinality(Runs(d)') = Cardinality(Runs(d))
              /\ Cardinality(Adds(d)') = Cardinality(Adds(d))
              /\ d = x /\ ext # <<>> => Cardinality(Emits(d)') = Cardinality(Emits(d)) + 1
              /\ d # x \/ ext = <<>> => Cardinality(Emits(d)') = Cardinality(Emits(d))
            BY <2>1, <1>16, FrameCounts
        <3> QED BY <3>1, <1>12
    <2>3. PICK j, v, c \in Int : /\ d = x => j = lr /\ v = er
                                 /\ d # x => j = 0 /\ v = 0
                                 /\ d = o => c = dr
                                 /\ d # o => c = 0
        <3>1. \E j, v \in Int : (d = x => j = lr /\ v = er) /\ (d # x => j = 0 /\ v = 0)
            BY <1>12
        <3>2. \E c \in Int : (d = o => c = dr) /\ (d # o => c = 0)
            BY <1>12
        <3> QED BY <3>1, <3>2
    <2>4. Changes(d, j, 0, 0, 0, v, 0, 0, c)
        <3>1. /\ Cardinality(Queued(jobq, d)') = Cardinality(Queued(jobq, d)) + j
              /\ Cardinality(Emits(d)') = Cardinality(Emits(d)) + v
              /\ Cardinality(Children(d)') = Cardinality(Children(d)) + c
            BY <2>2, <2>3, <1>22, <1>23, <1>24, Counts DEF RefInv
        <3> QED BY <3>1, <2>2, <1>22, Counts DEF RefInv, Changes
    <2>5. Sum(d)' = references[d] + (j + 0 + 0 + 0 + v + 0 + 0 + c)
        BY <2>3, <2>4, SumChange
    <2>6. references[d] \in Nat
        BY <1>7
    <2> QED BY <2>3, <2>5, <2>6, <1>12, <1>13, <1>14
<1>27. ~At(t, "delete") /\ ~At(t, "delete")'
    BY <1>1, <1>15, <1>16 DEF At
<1>28. \A d \in Items : \/ references'[d] = references[d] /\ (d \in pool' <=> d \in pool)
                        \/ references'[d] > 0 /\ d \notin Dying /\ d \notin pool'
    <2> TAKE d \in Items
    <2>1. references[d] \in Nat
        BY <1>7
    <2>2. CASE d = x
        <3>1. CASE refs = 0
            BY <2>1, <2>2, <3>1, <1>12, <1>13, <1>14, <1>19
        <3>2. CASE refs > 0
            BY <2>1, <2>2, <3>2, <1>11, <1>12, <1>13, <1>14, <1>19
        <3> QED BY <3>1, <3>2, <1>13
    <2>3. CASE d # x /\ d = o
        BY <2>1, <2>3, <1>10, <1>12, <1>14, <1>19
    <2>4. CASE d # x /\ d # o
        BY <2>4, <1>14, <1>19
    <2> QED BY <2>2, <2>3, <2>4
<1> QED BY <1>16, <1>20, <1>21, <1>25, <1>26, <1>27, <1>28, Assemble

-----------------------------------------------------------------------------
(* Entries leave a failover queue, and are put into a shared queue or back. *)
TakenOut(t, e) ==
    /\ Removed(SharedJobs, failoverq, failoverq', t, e) /\ shared_jobq' = shared_jobq
    /\ pc[t] # "refill" /\ pc'[t] = "refill" /\ held'[t] = e
PutIn(t, u, e) ==
    /\ \/ PutBack(SharedJobs, failoverq, failoverq', t, e) /\ shared_jobq' = shared_jobq
       \/ Appended(SharedJobs, shared_jobq, shared_jobq', u, e) /\ failoverq' = failoverq
    /\ pc[t] = "refill" /\ pc'[t] # "refill" /\ held[t] = e

LEMMA HeldMoves ==
    ASSUME RefInv, NEW t \in Threads, NEW u \in Threads, NEW e \in SharedJobs,
           UNCHANGED <<jobq, dataVars, frame>>,
           held' \in [Threads -> {NoEntry} \cup SharedJobs],
           \A v \in Threads : v # t => held'[v] = held[v] /\ (pc'[v] = "refill" <=> pc[v] = "refill"),
           TakenOut(t, e) \/ PutIn(t, u, e)
    PROVE  RefInv'
<1>1. UNCHANGED <<jobq, references, pool, dependency, frame>>
    BY DEF dataVars
<1>2. /\ shared_jobq \in [Threads -> Seq(SharedJobs)] /\ failoverq \in [Threads -> Seq(SharedJobs)]
    BY DEF RefInv, RefTypes
<1>3. /\ shared_jobq' \in [Threads -> Seq(SharedJobs)] /\ failoverq' \in [Threads -> Seq(SharedJobs)]
    BY <1>2 DEF TakenOut, PutIn, Removed, PutBack, Appended
<1>4. RefTypes'
    <2>1. \A v \in Threads : pc'[v] = "refill" => held'[v] \in SharedJobs
        BY DEF TakenOut, PutIn, RefInv, RefTypes
    <2> QED BY <1>1, <1>3, <2>1 DEF RefInv, RefTypes
<1>5. Parents' /\ DeadOnce' /\ Free'
    <2>1. \A v : DeadOf(v)' = DeadOf(v) /\ (At(v, "delete")' <=> At(v, "delete"))
        BY <1>1 DEF DeadOf, At
    <2>2. Dying' = Dying
        BY <1>1 DEF Dying, At
    <2>3. Parents'
        BY <1>1 DEF RefInv, Parents
    <2>4. DeadOnce'
        BY <1>1, <2>1 DEF RefInv, DeadOnce
    <2>5. Free'
        BY <1>1, <2>2, ExactParts DEF RefInv, Free
    <2> QED BY <2>3, <2>4, <2>5
<1>6. \A d : /\ Queued(jobq, d)' = Queued(jobq, d) /\ Children(d)' = Children(d)
             /\ Runs(d)' = Runs(d) /\ Emits(d)' = Emits(d) /\ Adds(d)' = Adds(d)
             /\ Queued(shared_jobq, d)' = Queued(shared_jobq', d)
             /\ Queued(failoverq, d)' = Queued(failoverq', d)
    BY <1>1 DEF Queued, Children, Runs, Emits, Adds, Job, At, Emitting, Adding
<1>7. ASSUME NEW d \in Items
      PROVE  /\ IsFiniteSet(Queued(shared_jobq', d)) /\ IsFiniteSet(Queued(failoverq', d))
             /\ Cardinality(Queued(shared_jobq', d)) \in Nat /\ Cardinality(Queued(failoverq', d)) \in Nat
             /\ DataOf(e) # d =>
                    Cardinality(Queued(shared_jobq', d)) + Cardinality(Queued(failoverq', d))
                        = Cardinality(Queued(shared_jobq, d)) + Cardinality(Queued(failoverq, d))
             /\ DataOf(e) = d /\ TakenOut(t, e) =>
                    Cardinality(Queued(shared_jobq', d)) + Cardinality(Queued(failoverq', d)) + 1
                        = Cardinality(Queued(shared_jobq, d)) + Cardinality(Queued(failoverq, d))
             /\ DataOf(e) = d /\ PutIn(t, u, e) =>
                    Cardinality(Queued(shared_jobq', d)) + Cardinality(Queued(failoverq', d))
                        = Cardinality(Queued(shared_jobq, d)) + Cardinality(Queued(failoverq, d)) + 1
    <2>1. IsFiniteSet(Queued(shared_jobq, d)) /\ IsFiniteSet(Queued(failoverq, d))
        BY DEF RefInv, Countable
    <2>2. Cardinality(Queued(shared_jobq, d)) \in Nat /\ Cardinality(Queued(failoverq, d)) \in Nat
        BY <2>1, FS_CardinalityType
    <2>3. ~(TakenOut(t, e) /\ PutIn(t, u, e))
        BY DEF TakenOut, PutIn
    <2>4. CASE TakenOut(t, e)
        <3>1. Removed(SharedJobs, failoverq, failoverq', t, e) /\ shared_jobq' = shared_jobq
            BY <2>4 DEF TakenOut
        <3> QED BY <2>1, <2>2, <2>3, <2>4, <3>1, QueuedTail
    <2>5. CASE PutIn(t, u, e)
        <3>1. CASE PutBack(SharedJobs, failoverq, failoverq', t, e) /\ shared_jobq' = shared_jobq
            BY <2>1, <2>2, <2>3, <2>5, <3>1, QueuedPutBack
        <3>2. CASE Appended(SharedJobs, shared_jobq, shared_jobq', u, e) /\ failoverq' = failoverq
            BY <2>1, <2>2, <2>3, <2>5, <3>2, QueuedAppend
        <3> QED BY <2>5, <3>1, <3>2 DEF PutIn
    <2> QED BY <2>4, <2>5
<1>8. Countable'
    BY <1>6, <1>7 DEF RefInv, Countable
<1>9. ASSUME NEW d \in Items
      PROVE  /\ Cardinality(Holds(d)) \in Nat /\ Cardinality(Holds(d)') \in Nat
             /\ DataOf(e) # d => Cardinality(Holds(d)') = Cardinality(Holds(d))
             /\ DataOf(e) = d /\ TakenOut(t, e) => Cardinality(Holds(d)') = Cardinality(Holds(d)) + 1
             /\ DataOf(e) = d /\ PutIn(t, u, e) => Cardinality(Holds(d)) = Cardinality(Holds(d)') + 1
    <2>1. /\ Holds(d) \ {t} = Holds(d)' \ {t}
        BY DEF Holds
    <2>2. /\ TakenOut(t, e) => t \notin Holds(d) /\ (t \in Holds(d)' <=> DataOf(e) = d)
          /\ PutIn(t, u, e) => t \notin Holds(d)' /\ (t \in Holds(d) <=> DataOf(e) = d)
        BY DEF Holds, TakenOut, PutIn, DataOf
    <2>3. IsFiniteSet(Holds(d))
        <3>1. IsFiniteSet(Threads)
            <4>1. 0 \in Int /\ work_size - 1 \in Int
                BY EngineConstants
            <4> QED BY <4>1, FS_Interval DEF Threads
        <3>2. Holds(d) \in SUBSET Threads
            BY DEF Holds
        <3> QED BY <3>1, <3>2, FS_Subset
    <2>4. PICK S, T : S = Holds(d) /\ T = Holds(d)'
        OBVIOUS
    <2>5. /\ Cardinality(S) \in Nat /\ Cardinality(T) \in Nat
          /\ t \in T /\ t \notin S => Cardinality(T) = Cardinality(S) + 1
          /\ t \in S /\ t \notin T => Cardinality(S) = Cardinality(T) + 1
          /\ (t \in S <=> t \in T) => Cardinality(S) = Cardinality(T)
        BY <2>1, <2>3, <2>4, CountChange
    <2> QED BY <2>2, <2>4, <2>5
<1>10. ASSUME NEW d \in Items PROVE references'[d] = Sum(d)'
    <2>1. Cardinality(Runs(d)) \in Nat /\ Cardinality(Emits(d)) \in Nat /\ Cardinality(Adds(d)) \in Nat
        <3>1. OnlyFrameOf(t)
            BY <1>1 DEF OnlyFrameOf
        <3> QED BY <3>1, FrameCounts
    <2>2. PICK j, s, f, s1, f1, r, v, a, h, h1, c \in Nat :
            /\ j = Cardinality(Queued(jobq, d))
            /\ s = Cardinality(Queued(shared_jobq, d)) /\ s1 = Cardinality(Queued(shared_jobq', d))
            /\ f = Cardinality(Queued(failoverq, d)) /\ f1 = Cardinality(Queued(failoverq', d))
            /\ r = Cardinality(Runs(d)) /\ v = Cardinality(Emits(d)) /\ a = Cardinality(Adds(d))
            /\ h = Cardinality(Holds(d)) /\ h1 = Cardinality(Holds(d)')
            /\ c = Cardinality(Children(d))
        BY <2>1, <1>7, <1>9, Counts DEF RefInv
    <2>3. Sum(d) = j + s + f + r + v + a + h + c
        BY <2>2 DEF Sum
    <2>4. Sum(d)' = j + s1 + f1 + r + v + a + h1 + c
        BY <2>2, <1>6 DEF Sum
    <2>5. s1 + f1 + h1 = s + f + h
        BY <2>2, <1>7, <1>9
    <2>6. Sum(d)' = Sum(d)
        BY <2>3, <2>4, <2>5
    <2> QED BY <2>6, <1>1, ExactParts DEF RefInv
<1> QED BY <1>4, <1>5, <1>8, <1>10, ExactParts DEF RefInv

LEMMA FailoverTakeKeeps ==
    ASSUME RefInv, pc \in [Threads -> Places], NEW t \in Threads, FailoverTake(t)
    PROVE  RefInv'
<1>1. PICK e : e = Head(failoverq[t])
    OBVIOUS
<1>2. /\ failoverq \in [Threads -> Seq(SharedJobs)] /\ held \in [Threads -> {NoEntry} \cup SharedJobs]
    BY DEF RefInv, RefTypes
<1>3. /\ failoverq[t] # <<>> /\ failoverq' = [failoverq EXCEPT ![t] = Tail(failoverq[t])]
      /\ held' = [held EXCEPT ![t] = e] /\ pc[t] = "failover" /\ pc' = [pc EXCEPT ![t] = "refill"]
      /\ UNCHANGED <<jobq, shared_jobq, dataVars, frame>>
    BY <1>1 DEF FailoverTake, Step, Set
<1>4. Removed(SharedJobs, failoverq, failoverq', t, e) /\ e \in SharedJobs
    BY <1>1, <1>2, <1>3, HeadRemoved
<1>5. TakenOut(t, e)
    BY <1>2, <1>3, <1>4 DEF TakenOut
<1> QED BY <1>2, <1>3, <1>4, <1>5, HeldMoves

LEMMA RefillKeeps ==
    ASSUME RefInv, pc \in [Threads -> Places], NEW t \in Threads, Refill(t)
    PROVE  RefInv'
<1>1. PICK e : e = held[t]
    OBVIOUS
<1>2. PICK u : u = thread_id[e.kid]
    OBVIOUS
<1>3. /\ failoverq \in [Threads -> Seq(SharedJobs)] /\ shared_jobq \in [Threads -> Seq(SharedJobs)]
      /\ held \in [Threads -> {NoEntry} \cup SharedJobs]
    BY DEF RefInv, RefTypes
<1>4. /\ pc[t] = "refill" /\ pc' = [pc EXCEPT ![t] = AfterFailover(t, TRUE)]
      /\ \/ failoverq' = [failoverq EXCEPT ![t] = <<e>> \o failoverq[t]] /\ shared_jobq' = shared_jobq
         \/ shared_jobq' = [shared_jobq EXCEPT ![u] = Append(shared_jobq[u], e)] /\ failoverq' = failoverq
      /\ held' = [held EXCEPT ![t] = NoEntry]
      /\ UNCHANGED <<jobq, dataVars, frame>>
    BY <1>1, <1>2 DEF Refill, Step, Set
<1>5. e \in SharedJobs /\ u \in Threads
    <2>1. e \in SharedJobs
        BY <1>1, <1>4 DEF RefInv, RefTypes
    <2>2. e.kid \in Kids
        BY <2>1 DEF SharedJobs
    <2> QED BY <2>1, <2>2, <1>2, EngineConstants
<1>6. AfterFailover(t, TRUE) # "refill"
    BY DEF AfterFailover
<1>7. \/ PutBack(SharedJobs, failoverq, failoverq', t, e) /\ shared_jobq' = shared_jobq
      \/ Appended(SharedJobs, shared_jobq, shared_jobq', u, e) /\ failoverq' = failoverq
    <2>1. CASE failoverq' = [failoverq EXCEPT ![t] = <<e>> \o failoverq[t]] /\ shared_jobq' = shared_jobq
        <3>1. failoverq[t] \in Seq(SharedJobs)
            BY <1>3
        <3>2. <<e>> \o failoverq[t] \in Seq(SharedJobs)
            BY <3>1, <1>5
        <3> QED BY <2>1, <3>2, <1>3, <1>5 DEF PutBack, Others
    <2>2. CASE shared_jobq' = [shared_jobq EXCEPT ![u] = Append(shared_jobq[u], e)] /\ failoverq' = failoverq
        BY <2>2, <1>3, <1>5 DEF Appended, Others
    <2> QED BY <1>4, <2>1, <2>2
<1>8. PutIn(t, u, e)
    BY <1>1, <1>4, <1>6, <1>7 DEF PutIn
<1>9. held' \in [Threads -> {NoEntry} \cup SharedJobs]
    BY <1>3, <1>4
<1> QED BY <1>3, <1>4, <1>5, <1>8, <1>9, HeldMoves

-----------------------------------------------------------------------------
(* The loops and the exit protocol leave data and queues alone. *)
Quiet ==
    /\ UNCHANGED <<queues, dataVars, frame, held>>
    /\ \A t \in Threads : pc'[t] = "refill" <=> pc[t] = "refill"

LEMMA QuietStep ==
    ASSUME pc \in [Threads -> Places], NEW t \in Threads, NEW from, NEW to, Step(t, from, to),
           from # "refill", to # "refill"
    PROVE  \A u \in Threads : pc'[u] = "refill" <=> pc[u] = "refill"
BY DEF Step

LEMMA LoopQuiet ==
    ASSUME ControlOK, NEW t \in Threads,
           \/ ExtEnd(t) \/ LocalEnd(t) \/ FailoverEmpty(t)
           \/ Run(t) /\ ~PollSource(t)
    PROVE  Quiet
<1>1. pc \in [Threads -> Places] /\ back[t] # "refill"
    BY DEF ControlOK
<1>2. UNCHANGED <<queues, dataVars, frame, held>>
    BY DEF ExtEnd, LocalEnd, FailoverEmpty, Run, TopStop, TopRun, TopRecover, Recovered, AllClear,
           SourcesShut, SkipSource, SourcesEnd, Polled, EndOfStream, dispatchVars
<1>3. \E from, to : Step(t, from, to) /\ from # "refill" /\ to # "refill"
    BY <1>1 DEF ExtEnd, LocalEnd, FailoverEmpty, Run, TopStop, TopRun, TopRecover, Recovered, AllClear,
           SourcesShut, SkipSource, SourcesEnd, Polled, EndOfStream, BeginExt, AfterFailover
<1> QED BY <1>1, <1>2, <1>3, QuietStep DEF Quiet

LEMMA ExitQuiet ==
    ASSUME ControlOK, NEW t \in Threads, Exit(t)
    PROVE  Quiet
<1>1. pc \in [Threads -> Places]
    BY DEF ControlOK
<1>2. UNCHANGED <<queues, dataVars, frame, held>>
    BY DEF Exit, ReadyToFlush, AllGathered, Gathering, Settled, Settling, SettleCount, CountIdle,
           BeginRound, Leave, SetupTurn, BeginTurn, Mined, EndTurn, Hop, NextTurn, Spinning, SpinCount,
           Rewire, FlushDone, dispatchVars
<1>3. \E from, to : Step(t, from, to) /\ from # "refill" /\ to # "refill"
    BY DEF Exit, ReadyToFlush, AllGathered, Gathering, Settled, Settling, SettleCount, CountIdle,
           BeginRound, Leave, SetupTurn, BeginTurn, Mined, EndTurn, Hop, NextTurn, Spinning, SpinCount,
           Rewire, FlushDone, BeginCall
<1> QED BY <1>1, <1>2, <1>3, QuietStep DEF Quiet

LEMMA BarrierQuiet ==
    ASSUME ControlOK, Barrier \/ Interrupt \/ AllDone \/ UNCHANGED vars
    PROVE  Quiet
<1>1. CASE Barrier
    <2>1. UNCHANGED <<queues, dataVars, frame, held>>
        BY <1>1 DEF Barrier, dispatchVars
    <2>2. \A t \in Threads : pc[t] \in {"bar1", "bar2", "bar3", "bar4"} /\ pc'[t] = PastBarrier(t)
        BY <1>1 DEF Barrier, AtBarrier
    <2>3. \A t \in Threads : PastBarrier(t) # "refill"
        BY <2>2 DEF PastBarrier
    <2> QED BY <2>1, <2>2, <2>3 DEF Quiet
<1>2. CASE Interrupt
    BY <1>2 DEF Interrupt, Quiet, dispatchVars, control
<1>3. CASE AllDone \/ UNCHANGED vars
    BY <1>3 DEF AllDone, Quiet, vars, dispatchVars, control
<1> QED BY <1>1, <1>2, <1>3

(* Each source is polled by its index. *)
LEMMA SrcKept ==
    ASSUME ControlOK, SrcOK, [Next]_vars
    PROVE  SrcOK'
<1>1. UNCHANGED src => SrcOK'
    BY DEF SrcOK
<1>2. \A t \in Threads : src' = Set(src, t, 1) \/ src' = Set(src, t, src[t] + 1) => SrcOK'
    BY DEF SrcOK, Set
<1>3. CASE Barrier \/ Interrupt \/ AllDone \/ UNCHANGED vars
    BY <1>1, <1>3 DEF Barrier, Interrupt, AllDone, vars, control
<1>4. ASSUME NEW t \in Threads, Thread(t) PROVE SrcOK'
    <2>1. CASE JobStep(t)
        BY <2>1, <1>1 DEF JobStep, control
    <2>2. CASE Batch(t)
        BY <2>2, <1>1 DEF Batch, ExtJob, ExtEnd, LocalJob, LocalEnd, FailoverEmpty, FailoverTake, Refill
    <2>3. CASE Run(t)
        BY <2>3, <1>1, <1>2 DEF Run, TopStop, TopRun, TopRecover, Recovered, AllClear, SourcesShut,
                                SkipSource, PollSource, SourcesEnd, Polled, EndOfStream, BeginSources
    <2>4. CASE Exit(t)
        BY <2>4, <1>1 DEF Exit, ReadyToFlush, AllGathered, Gathering, Settled, Settling, SettleCount,
                          CountIdle, BeginRound, Leave, SetupTurn, BeginTurn, Mined, EndTurn, Hop,
                          NextTurn, Spinning, SpinCount, Rewire, FlushDone
    <2> QED BY <1>4, <2>1, <2>2, <2>3, <2>4 DEF Thread
<1> QED BY <1>3, <1>4 DEF Next

LEMMA RefInvKept ==
    ASSUME ControlOK, RefInv, SrcOK, [Next]_vars
    PROVE  RefInv'
<1>1. Quiet => RefInv'
    BY QuietKeeps DEF Quiet
<1>2. CASE Barrier \/ Interrupt \/ AllDone \/ UNCHANGED vars
    BY <1>1, <1>2, BarrierQuiet
<1>3. pc \in [Threads -> Places]
    BY DEF ControlOK
<1>4. ASSUME NEW t \in Threads, Thread(t) PROVE RefInv'
    <2>1. CASE JobStep(t)
        <3>1. UNCHANGED <<pc, held>> /\ RunJob(t)
            BY <2>1 DEF JobStep, control
        <3>2. CASE DeleteParent(t)
            BY <3>1, <3>2, DeleteParentKeeps
        <3>3. CASE DeleteDone(t)
            BY <3>1, <3>3, DeleteDoneKeeps
        <3>4. CASE Call(t)
            BY <3>1, <3>4, CallKeeps
        <3>5. CASE JobDone(t) \/ PushDone(t)
            BY <3>1, <3>5, DoneKeeps
        <3>6. CASE EmitsDone(t)
            BY <3>1, <3>6, EnterKeeps DEF EmitsDone
        <3>7. CASE Emit(t)
            BY <3>1, <3>7, EmitKeeps
        <3>8. CASE PushNext(t)
            BY <3>1, <3>8, PushNextKeeps
        <3>9. CASE AddJob(t) \/ FailOver(t)
            BY <3>1, <3>9, AddsKeep
        <3>10. CASE Unmark(t)
            BY <3>1, <3>10, UnmarkKeeps
        <3>11. CASE AddGivesUp(t)
            BY <3>1, <3>11, EnterKeeps DEF AddGivesUp
        <3>12. CASE NoDeadlockSeen(t)
            BY <3>1, <3>12, EnterKeeps DEF NoDeadlockSeen
        <3>13. CASE ShutFirehose(t)
            BY <3>1, <3>13, EnterKeeps DEF ShutFirehose
        <3> QED BY <3>1, <3>2, <3>3, <3>4, <3>5, <3>6, <3>7, <3>8, <3>9, <3>10, <3>11, <3>12, <3>13
                DEF RunJob
    <2>2. CASE Batch(t)
        <3>1. CASE ExtEnd(t) \/ LocalEnd(t) \/ FailoverEmpty(t)
            BY <1>1, <3>1, LoopQuiet
        <3>2. CASE ExtJob(t) \/ LocalJob(t)
            BY <3>2, TakeKeeps
        <3>3. CASE FailoverTake(t)
            BY <1>3, <3>3, FailoverTakeKeeps
        <3>4. CASE Refill(t)
            BY <1>3, <3>4, RefillKeeps
        <3> QED BY <2>2, <3>1, <3>2, <3>3, <3>4 DEF Batch
    <2>3. CASE Run(t)
        <3>1. CASE PollSource(t)
            BY <1>3, <3>1, PollKeeps
        <3>2. CASE ~PollSource(t)
            BY <1>1, <2>3, <3>2, LoopQuiet
        <3> QED BY <3>1, <3>2
    <2>4. CASE Exit(t)
        BY <1>1, <2>4, ExitQuiet
    <2> QED BY <1>4, <2>1, <2>2, <2>3, <2>4 DEF Thread
<1> QED BY <1>2, <1>4 DEF Next

LEMMA InitRefInv == Init => RefInv /\ SrcOK
<1> SUFFICES ASSUME Init PROVE RefInv /\ SrcOK
    OBVIOUS
<1>1. /\ jobq = [t \in Threads |-> <<>>] /\ shared_jobq = [t \in Threads |-> <<>>]
      /\ failoverq = [t \in Threads |-> <<>>] /\ references = [d \in Items |-> 0] /\ pool = Items
      /\ dependency = [d \in Items |-> <<>>] /\ frame = [t \in Threads |-> NoFrame]
      /\ pc = [t \in Threads |-> "top"] /\ held = [t \in Threads |-> NoEntry]
      /\ src = [t \in Threads |-> 1]
    BY DEF Init, DispatchInit
<1>2. \A X : <<>> \in Seq(X)
    OBVIOUS
<1>3. RefTypes
    <2>1. \A t \in Threads : frame[t].at = "none"
        BY <1>1 DEF NoFrame
    <2> QED BY <1>1, <1>2, <2>1 DEF RefTypes
<1>4. Parents
    <2>1. Len(<<>>) <= 1
        OBVIOUS
    <2> QED BY <1>1, <2>1 DEF Parents
<1>5. /\ \A t \in Threads : DeadOf(t) = {} /\ ~At(t, "delete")
      /\ DeadOnce
    BY <1>1 DEF DeadOf, DeadOnce, At, NoFrame
<1>6. \A d : /\ Queued(jobq, d) = {} /\ Queued(shared_jobq, d) = {} /\ Queued(failoverq, d) = {}
             /\ Runs(d) = {} /\ Emits(d) = {} /\ Adds(d) = {} /\ Holds(d) = {} /\ Children(d) = {}
    <2>1. \A d : Queued(jobq, d) = {} /\ Queued(shared_jobq, d) = {} /\ Queued(failoverq, d) = {}
        BY <1>1 DEF Queued
    <2>2. \A d : Runs(d) = {} /\ Emits(d) = {} /\ Adds(d) = {} /\ Holds(d) = {}
        BY <1>1 DEF Runs, Emits, Adds, Holds, Job, At, Emitting, Adding, NoFrame
    <2>3. \A d : Children(d) = {}
        <3>1. Range(<<>>) = {}
            BY DEF Range
        <3> QED BY <3>1, <1>1 DEF Children
    <2> QED BY <2>1, <2>2, <2>3
<1>7. IsFiniteSet({}) /\ Cardinality({}) = 0
    BY FS_EmptySet
<1>8. Countable
    BY <1>6, <1>7 DEF Countable
<1>9. Free
    <2>1. \A d : d \notin Dying
        BY <1>5, DyingIs
    <2> QED BY <1>1, <2>1 DEF Free
<1>10. \A d \in Items : references[d] = Sum(d)
    <2>1. \A d \in Items : Sum(d) = 0
        BY <1>6, <1>7 DEF Sum
    <2> QED BY <1>1, <2>1
<1>11. SrcOK
    BY <1>1 DEF SrcOK
<1> QED BY <1>3, <1>4, <1>5, <1>8, <1>9, <1>10, <1>11, ExactParts DEF RefInv

(* Each reference of a piece of data is accounted for by a queue entry, a    *)
(* running job, an emission, an entry that is being added or put back, or    *)
(* data made from it, and data without a reference is free or about to be    *)
(* (wsdata_add_reference and wsdata_delete match on all paths through        *)
(* ws_set_outdata and the queues).                                           *)
THEOREM ReferencesAlwaysExact == Spec => []ReferencesExact
<1>1. Spec => []ExitInv
    BY InitExitInv, ExitInvKept, PTL DEF Spec
<1>2. ExitInv /\ RefInv /\ SrcOK /\ [Next]_vars => RefInv' /\ SrcOK'
    BY RefInvKept, SrcKept DEF ExitInv
<1>3. RefInv => ReferencesExact
    BY DEF RefInv
<1> QED BY <1>1, <1>2, <1>3, InitRefInv, PTL DEF Spec

(* Free data is nowhere: no queue, job, emission, entry that is being added  *)
(* or put back, and no other data refers to it, so that none of them finds   *)
(* its data used for something else (wsdata_delete, wsdata_alloc).           *)
FreeIsUnused ==
    \A d \in pool : /\ \A t \in Threads :
                        /\ \A i \in DOMAIN jobq[t] : DataOf(jobq[t][i]) # d
                        /\ \A i \in DOMAIN shared_jobq[t] : DataOf(shared_jobq[t][i]) # d
                        /\ \A i \in DOMAIN failoverq[t] : DataOf(failoverq[t][i]) # d
                     /\ Runs(d) = {} /\ Emits(d) = {} /\ Adds(d) = {} /\ Holds(d) = {} /\ Children(d) = {}

LEMMA ExactIsUnused == RefInv => FreeIsUnused
<1> SUFFICES ASSUME RefInv, NEW d \in pool
             PROVE  /\ \A t \in Threads :
                          /\ \A i \in DOMAIN jobq[t] : DataOf(jobq[t][i]) # d
                          /\ \A i \in DOMAIN shared_jobq[t] : DataOf(shared_jobq[t][i]) # d
                          /\ \A i \in DOMAIN failoverq[t] : DataOf(failoverq[t][i]) # d
                    /\ Runs(d) = {} /\ Emits(d) = {} /\ Adds(d) = {} /\ Holds(d) = {} /\ Children(d) = {}
    BY DEF FreeIsUnused
<1>1. d \in Items /\ references[d] = 0
    BY ExactParts DEF RefInv, RefTypes, Free
<1>2. /\ IsFiniteSet(Runs(d)) /\ IsFiniteSet(Emits(d)) /\ IsFiniteSet(Adds(d)) /\ IsFiniteSet(Holds(d))
    <2>1. IsFiniteSet(Threads)
        <3>1. 0 \in Int /\ work_size - 1 \in Int
            BY EngineConstants
        <3> QED BY <3>1, FS_Interval DEF Threads
    <2>2. /\ Runs(d) \in SUBSET Threads /\ Emits(d) \in SUBSET Threads
          /\ Adds(d) \in SUBSET Threads /\ Holds(d) \in SUBSET Threads
        BY DEF Runs, Emits, Adds, Holds
    <2> QED BY <2>1, <2>2, FS_Subset
<1>3. /\ IsFiniteSet(Queued(jobq, d)) /\ IsFiniteSet(Queued(shared_jobq, d))
      /\ IsFiniteSet(Queued(failoverq, d)) /\ IsFiniteSet(Children(d))
    BY <1>1 DEF RefInv, Countable
<1>4. PICK j, s, f, r, e, a, h, c \in Nat :
        /\ j = Cardinality(Queued(jobq, d)) /\ s = Cardinality(Queued(shared_jobq, d))
        /\ f = Cardinality(Queued(failoverq, d)) /\ r = Cardinality(Runs(d))
        /\ e = Cardinality(Emits(d)) /\ a = Cardinality(Adds(d))
        /\ h = Cardinality(Holds(d)) /\ c = Cardinality(Children(d))
    BY <1>2, <1>3, FS_CardinalityType
<1>5. j + s + f + r + e + a + h + c = 0
    BY <1>1, <1>4, ExactParts DEF RefInv, Sum
<1>6. j = 0 /\ s = 0 /\ f = 0 /\ r = 0 /\ e = 0 /\ a = 0 /\ h = 0 /\ c = 0
    BY <1>5
<1>7. Queued(jobq, d) = {} /\ Queued(shared_jobq, d) = {} /\ Queued(failoverq, d) = {}
    BY <1>3, <1>4, <1>6, FS_EmptySet
<1>8. Runs(d) = {} /\ Emits(d) = {} /\ Adds(d) = {} /\ Holds(d) = {} /\ Children(d) = {}
    BY <1>2, <1>3, <1>4, <1>6, FS_EmptySet
<1>9. \A q : Queued(q, d) = {} => \A t \in Threads : \A i \in DOMAIN q[t] : DataOf(q[t][i]) # d
    <2> TAKE q
    <2>1. PICK S : /\ S = Queued(q, d)
                   /\ \A u, i : <<u, i>> \in S <=> u \in Threads /\ i \in DOMAIN q[u] /\ DataOf(q[u][i]) = d
        BY QueuedElement
    <2> QED BY <2>1
<1> QED BY <1>7, <1>8, <1>9

(* No job is queued or run for data that has gone back to its free list.    *)
THEOREM FreeDataIsUnused == Spec => []FreeIsUnused
<1>1. Spec => []ExitInv
    BY InitExitInv, ExitInvKept, PTL DEF Spec
<1>2. ExitInv /\ RefInv /\ SrcOK /\ [Next]_vars => RefInv' /\ SrcOK'
    BY RefInvKept, SrcKept DEF ExitInv
<1> QED BY <1>1, <1>2, ExactIsUnused, InitRefInv, PTL DEF Spec

-----------------------------------------------------------------------------
(* Nothing is left behind: once no queue entry and no job refers to any data, *)
(* all data is free.  Data could only keep itself alive if it were its own   *)
(* ancestor; but what a kid makes is younger than its parent.                *)
Less == {p \in Nat \X Nat : p[1] < p[2]}

LEMMA LessWF == IsWellFoundedOn(Less, Nat)
BY NatLessThanWellFounded, Zenon DEF OpToRel, Less

LEMMA LeastNat ==
    ASSUME NEW T \in SUBSET Nat, T # {}
    PROVE  \E x \in T : \A y \in T : x <= y
<1>1. PICK x \in T : \A y \in T : ~ (<<y, x>> \in Less)
    BY LessWF, WFMin
<1>2. ASSUME NEW y \in T PROVE x <= y
    <2>1. ~ (<<y, x>> \in Less)
        BY <1>1
    <2>2. x \in Nat /\ y \in Nat
        OBVIOUS
    <2>3. ~ (y < x)
        BY <2>1, <2>2 DEF Less
    <2> QED BY <2>2, <2>3
<1> QED BY <1>2

(* Ages for the data: no data is younger than n, and what is made of data is *)
(* younger than it.                                                          *)
Ages(f, n, dep) ==
    /\ f \in [Items -> Nat] /\ n \in Nat /\ \A d \in Items : f[d] <= n
    /\ \A c \in Items : \A i \in DOMAIN dep[c] : f[dep[c][i]] < f[c]
Ranked == \E f, n : Ages(f, n, dependency)

(* A child that was free is made of its parent.                              *)
LEMMA NewChild ==
    ASSUME NEW f, NEW n, NEW dep \in [Items -> Seq(Items)], Ages(f, n, dep), NEW x \in Items,
           NEW o \in Items, o # x, dep[x] = <<>>,
           \A c \in Items : \A i \in DOMAIN dep[c] : dep[c][i] # x
    PROVE  \E g, m : Ages(g, m, [dep EXCEPT ![x] = Append(@, o)])
<1>1. PICK g : g = [f EXCEPT ![x] = n + 1]
    OBVIOUS
<1>2. PICK new : new = [dep EXCEPT ![x] = Append(@, o)]
    OBVIOUS
<1>3. /\ f \in [Items -> Nat] /\ n \in Nat /\ \A d \in Items : f[d] <= n
      /\ \A c \in Items : \A i \in DOMAIN dep[c] : f[dep[c][i]] < f[c]
    BY DEF Ages
<1>4. g \in [Items -> Nat] /\ g[x] = n + 1 /\ \A d \in Items : d # x => g[d] = f[d]
    BY <1>1, <1>3
<1>5. n + 1 \in Nat /\ \A d \in Items : g[d] <= n + 1
    <2>1. n \in Nat /\ n + 1 \in Nat
        BY <1>3
    <2>2. \A d \in Items : f[d] \in Nat /\ f[d] <= n
        BY <1>3
    <2>3. ASSUME NEW d \in Items PROVE g[d] <= n + 1
        <3>1. CASE d = x
            BY <2>1, <1>4, <3>1
        <3>2. CASE d # x
            <4>1. g[d] = f[d] /\ f[d] \in Nat /\ f[d] <= n
                BY <2>2, <1>4, <3>2
            <4> QED BY <2>1, <4>1
        <3> QED BY <3>1, <3>2
    <2> QED BY <2>1, <2>3
<1>6. new[x] = <<o>> /\ \A c \in Items : c # x => new[c] = dep[c]
    BY <1>2
<1>7. ASSUME NEW c \in Items, NEW i \in DOMAIN new[c] PROVE g[new[c][i]] < g[c]
    <2>1. CASE c = x
        <3>1. new[c][i] = o
            BY <1>6, <1>7, <2>1
        <3>2. g[o] = f[o] /\ f[o] <= n /\ f[o] \in Nat
            BY <1>3, <1>4
        <3> QED BY <1>3, <1>4, <2>1, <3>1, <3>2
    <2>2. CASE c # x
        <3>1. new[c][i] = dep[c][i] /\ i \in DOMAIN dep[c] /\ dep[c][i] # x
            BY <1>6, <1>7, <2>2
        <3>2. dep[c][i] \in Items
            BY <3>1
        <3> QED BY <1>3, <1>4, <2>2, <3>1, <3>2
    <2> QED BY <2>1, <2>2
<1>8. Ages(g, n + 1, new)
    BY <1>4, <1>5, <1>7 DEF Ages
<1> QED BY <1>2, <1>8

LEMMA RankedKept ==
    ASSUME RefInv, Ranked, [Next]_vars
    PROVE  Ranked'
<1>1. CASE UNCHANGED dependency
    BY <1>1 DEF Ranked
<1>t. dependency \in [Items -> Seq(Items)] /\ references \in [Items -> Nat] /\ pool \subseteq Items
    BY DEF RefInv, RefTypes
<1>2. ASSUME NEW t \in Threads, DeleteParent(t) PROVE Ranked'
    <2>1. PICK x : x = Last(frame[t].dead)
        OBVIOUS
    <2>2. x \in Items /\ references[x] = 0
        BY <1>2, <2>1, DeletingFacts DEF DeleteParent
    <2>3. dependency[x] # <<>>
        BY <1>2, <2>1 DEF DeleteParent
    <2>4. Front(dependency[x]) = <<>>
        BY <2>2, <2>3, OnlyParent
    <2>5. dependency' = [dependency EXCEPT ![x] = <<>>]
        BY <1>2, <2>1, <2>4 DEF DeleteParent
    <2>6. PICK f, n : Ages(f, n, dependency)
        BY DEF Ranked
    <2>7. \A c \in Items : \A i \in DOMAIN dependency'[c] : i \in DOMAIN dependency[c] /\ dependency'[c][i] = dependency[c][i]
        BY <1>t, <2>2, <2>5
    <2>8. Ages(f, n, dependency')
        BY <2>6, <2>7 DEF Ages
    <2> QED BY <2>8 DEF Ranked
<1>3. ASSUME NEW t \in Threads, Emit(t) PROVE Ranked'
    <2>0. /\ frame[t].at = "emit" /\ frame[t] \in KidFrames
          /\ \E k, local, ext, x, refs, derived :
                /\ EmitKinds(t, k, local, ext, x, refs, derived)
                /\ Emitted(t, local, ext, x, refs, derived)
        BY <1>3, EmitParts
    <2>1. PICK k, local, ext, x, refs, derived : /\ EmitKinds(t, k, local, ext, x, refs, derived)
                                                 /\ Emitted(t, local, ext, x, refs, derived)
        BY <2>0
    <2>2. CASE ~derived
        BY <1>1, <2>1, <2>2 DEF Emitted
    <2>3. CASE derived
        <3>1. PICK o : o = frame[t].data
            OBVIOUS
        <3>2. dependency' = [dependency EXCEPT ![x] = Append(@, o)]
            BY <2>1, <2>3, <3>1 DEF Emitted
        <3>3. x = FreshData /\ pool # {}
            <4>1. k \in Deriver
                BY <2>1, <2>3 DEF EmitKinds
            <4>2. k \in Maker
                BY <4>1, EngineConstants
            <4> QED BY <2>1, <4>2 DEF EmitKinds
        <3>4. x \in pool /\ x \in Items
            BY <3>3, <1>t DEF FreshData
        <3>5. Runs(x) = {} /\ Children(x) = {}
            BY <3>4, ExactIsUnused DEF FreeIsUnused
        <3>6. o \in Items
            BY <2>0, <3>1 DEF KidFrames
        <3>7. o # x
            BY <2>0, <3>1, <3>5 DEF Runs, Job, At
        <3>8. \A c \in Items : \A i \in DOMAIN dependency[c] : dependency[c][i] # x
            BY <1>t, <3>5 DEF Children, Range
        <3>9. dependency[x] = <<>>
            BY <3>4 DEF RefInv, Parents
        <3>10. PICK f, n : Ages(f, n, dependency)
            BY DEF Ranked
        <3>11. \E g, m : Ages(g, m, [dependency EXCEPT ![x] = Append(@, o)])
            BY <1>t, <3>4, <3>6, <3>7, <3>8, <3>9, <3>10, NewChild
        <3> QED BY <3>2, <3>11 DEF Ranked
    <2> QED BY <2>1, <2>2, <2>3 DEF EmitKinds
<1>4. ASSUME NEW t \in Threads, Thread(t) PROVE Ranked'
    <2>1. CASE JobStep(t)
        BY <1>1, <1>2, <1>3, <2>1 DEF JobStep, RunJob, DeleteDone, Call, JobDone, Delete, EmitsDone, PushNext,
           PushDone, AddJob, Unmark, AddGivesUp, NoDeadlockSeen, ShutFirehose, FailOver, dataVars
    <2>2. CASE Batch(t)
        BY <1>1, <2>2 DEF Batch, ExtJob, ExtEnd, LocalJob, LocalEnd, FailoverEmpty, FailoverTake, Refill,
           dispatchVars, dataVars
    <2>3. CASE Run(t)
        BY <1>1, <2>3 DEF Run, TopStop, TopRun, TopRecover, Recovered, AllClear, SourcesShut, SkipSource,
           PollSource, SourcesEnd, Polled, EndOfStream, dispatchVars, dataVars
    <2>4. CASE Exit(t)
        BY <1>1, <2>4 DEF Exit, ReadyToFlush, AllGathered, Gathering, Settled, Settling, SettleCount, CountIdle,
           BeginRound, Leave, SetupTurn, BeginTurn, Mined, EndTurn, Hop, Spinning, SpinCount,
           Rewire, FlushDone, dispatchVars, dataVars
    <2> QED BY <1>4, <2>1, <2>2, <2>3, <2>4 DEF Thread
<1>5. CASE Barrier \/ Interrupt \/ AllDone \/ UNCHANGED vars
    BY <1>1, <1>5 DEF Barrier, Interrupt, AllDone, vars, dispatchVars, dataVars
<1> QED BY <1>4, <1>5 DEF Next

(* No queue entry and no job refers to any data.                             *)
Drained ==
    \A t \in Threads : /\ jobq[t] = <<>> /\ shared_jobq[t] = <<>> /\ failoverq[t] = <<>>
                       /\ frame[t] = NoFrame /\ pc[t] # "refill"

LEMMA DrainedIsFree ==
    ASSUME RefInv, Ranked, Drained
    PROVE  pool = Items
<1>t. dependency \in [Items -> Seq(Items)] /\ references \in [Items -> Nat] /\ pool \subseteq Items
    BY DEF RefInv, RefTypes
<1>1. \A d : /\ Queued(jobq, d) = {} /\ Queued(shared_jobq, d) = {} /\ Queued(failoverq, d) = {}
             /\ Runs(d) = {} /\ Emits(d) = {} /\ Adds(d) = {} /\ Holds(d) = {}
    <2>1. \A d : Queued(jobq, d) = {} /\ Queued(shared_jobq, d) = {} /\ Queued(failoverq, d) = {}
        BY DEF Drained, Queued
    <2>2. \A t \in Threads : frame[t].at = "none"
        BY DEF Drained, NoFrame
    <2>3. \A d : Runs(d) = {} /\ Emits(d) = {} /\ Adds(d) = {} /\ Holds(d) = {}
        BY <2>2 DEF Drained, Runs, Emits, Adds, Holds, Job, At, Emitting, Adding
    <2> QED BY <2>1, <2>3
<1>2. \A d \in Items : references[d] = Cardinality(Children(d)) /\ IsFiniteSet(Children(d))
    <2> TAKE d \in Items
    <2>1. IsFiniteSet(Children(d)) /\ references[d] = Sum(d)
        BY ExactParts DEF RefInv, Countable
    <2>2. Cardinality({}) = 0 /\ Cardinality(Children(d)) \in Nat
        BY <2>1, FS_EmptySet, FS_CardinalityType
    <2> QED BY <1>1, <2>1, <2>2 DEF Sum
<1>3. \A d \in Items : d \notin pool => \E c \in Items : c \notin pool /\ \E i \in DOMAIN dependency[c] : dependency[c][i] = d
    <2> SUFFICES ASSUME NEW d \in Items, d \notin pool
                 PROVE  \E c \in Items : c \notin pool /\ \E i \in DOMAIN dependency[c] : dependency[c][i] = d
        OBVIOUS
    <2>1. d \notin Dying
        <3>1. \A t \in Threads : ~At(t, "delete")
            BY DEF Drained, NoFrame, At
        <3> QED BY <3>1, DyingIs DEF DeadOf
    <2>2. references[d] # 0
        BY <2>1, ExactParts DEF RefInv, Free
    <2>3. Children(d) # {}
        BY <1>2, <2>2, FS_EmptySet
    <2>4. PICK c \in Items : d \in Range(dependency[c])
        BY <2>3 DEF Children
    <2>5. PICK i \in DOMAIN dependency[c] : dependency[c][i] = d
        BY <2>4 DEF Range
    <2>6. c \notin pool
        BY <2>5 DEF RefInv, Parents
    <2> QED BY <2>5, <2>6
<1>4. PICK f, n : Ages(f, n, dependency)
    BY DEF Ranked
<1>5. /\ f \in [Items -> Nat] /\ n \in Nat /\ \A d \in Items : f[d] <= n
      /\ \A c \in Items : \A i \in DOMAIN dependency[c] : f[dependency[c][i]] < f[c]
    BY <1>4 DEF Ages
<1>6. ASSUME pool # Items PROVE FALSE
    <2>1. PICK T : T = {n - f[d] : d \in Items \ pool}
        OBVIOUS
    <2>2. T \in SUBSET Nat
        BY <1>5, <2>1
    <2>3. T # {}
        BY <1>t, <1>6, <2>1
    <2>4. PICK x \in T : \A y \in T : x <= y
        BY <2>2, <2>3, LeastNat
    <2>5. PICK d \in Items \ pool : x = n - f[d]
        BY <2>1
    <2>6. PICK c \in Items : c \notin pool /\ \E i \in DOMAIN dependency[c] : dependency[c][i] = d
        BY <1>3, <2>5
    <2>7. f[d] < f[c] /\ f[d] \in Nat /\ f[c] \in Nat
        BY <1>5, <2>5, <2>6
    <2>8. n - f[c] \in T
        BY <2>1, <2>6
    <2>9. x <= n - f[c]
        BY <2>4, <2>8
    <2> QED BY <1>5, <2>5, <2>7, <2>9
<1> QED BY <1>6

-----------------------------------------------------------------------------
(* The end of a run when jobs only go to threads with higher numbers         *)
(* (Forward).                                                                *)

(* Without a cycle there is no failover.                                     *)
NeverFails(f) == f.at \notin {"unmark", "scan", "failover"}
NoFailover ==
    /\ ~deadlock_firehose_shutoff
    /\ \A t \in Threads : /\ pc[t] \notin {"failover", "refill", "recovered", "clear"}
                          /\ back[t] \notin {"recovered", "clear"}
                          /\ failoverq[t] = <<>> /\ NeverFails(frame[t])

(* Each thread runs its own kids, and emits to the threads it writes to.     *)
OwnKids(s, t) == \A i \in DOMAIN s : thread_id[s[i]] = t
Outward(s, t) == \A i \in DOMAIN s : thread_id[s[i]] \in Writes(t)
OwnFrame(f, t) ==
    f.at # "none" => /\ OwnKids(f.calls, t) /\ Outward(f.ext, t)
                     /\ f.at # "call" => thread_id[f.kid] = t
OwnLocal(q, t) == \A i \in DOMAIN q : OwnKids(q[i].subs, t)
OwnShared(q, t) == \A i \in DOMAIN q : thread_id[q[i].kid] = t
Own == \A t \in Threads : /\ OwnLocal(jobq[t], t) /\ OwnShared(shared_jobq[t], t)
                          /\ OwnFrame(JobIn(frame[t]), t)

LEMMA KidsTail ==
    ASSUME NEW s \in Seq(Kids), s # <<>>, NEW t
    PROVE  /\ OwnKids(s, t) => OwnKids(Tail(s), t) /\ thread_id[Head(s)] = t
           /\ Outward(s, t) => Outward(Tail(s), t) /\ thread_id[Head(s)] \in Writes(t)
<1>1. /\ 1 \in DOMAIN s /\ Head(s) = s[1]
      /\ \A i \in DOMAIN Tail(s) : i + 1 \in DOMAIN s /\ Tail(s)[i] = s[i + 1]
    OBVIOUS
<1> QED BY <1>1 DEF OwnKids, Outward

LEMMA KidsNone == \A t : OwnKids(<<>>, t) /\ Outward(<<>>, t)
BY DEF OwnKids, Outward

LEMMA LocalTail ==
    ASSUME NEW q \in Seq(LocalJobs), q # <<>>, NEW t, OwnLocal(q, t)
    PROVE  OwnLocal(Tail(q), t) /\ OwnKids(Head(q).subs, t)
<1>1. /\ 1 \in DOMAIN q /\ Head(q) = q[1]
      /\ \A i \in DOMAIN Tail(q) : i + 1 \in DOMAIN q /\ Tail(q)[i] = q[i + 1]
    OBVIOUS
<1> QED BY <1>1 DEF OwnLocal

LEMMA SharedTail ==
    ASSUME NEW q \in Seq(SharedJobs), q # <<>>, NEW t, OwnShared(q, t)
    PROVE  OwnShared(Tail(q), t) /\ thread_id[Head(q).kid] = t
<1>1. /\ 1 \in DOMAIN q /\ Head(q) = q[1]
      /\ \A i \in DOMAIN Tail(q) : i + 1 \in DOMAIN q /\ Tail(q)[i] = q[i + 1]
    OBVIOUS
<1> QED BY <1>1 DEF OwnShared

LEMMA LocalAppend ==
    ASSUME NEW q \in Seq(LocalJobs), NEW e \in LocalJobs, NEW t, OwnLocal(q, t), OwnKids(e.subs, t)
    PROVE  OwnLocal(Append(q, e), t)
<1>1. \A i \in DOMAIN Append(q, e) : (i \in DOMAIN q /\ Append(q, e)[i] = q[i]) \/ Append(q, e)[i] = e
    OBVIOUS
<1> QED BY <1>1 DEF OwnLocal

LEMMA SharedAppend ==
    ASSUME NEW q \in Seq(SharedJobs), NEW e \in SharedJobs, NEW t, OwnShared(q, t), thread_id[e.kid] = t
    PROVE  OwnShared(Append(q, e), t)
<1>1. \A i \in DOMAIN Append(q, e) : (i \in DOMAIN q /\ Append(q, e)[i] = q[i]) \/ Append(q, e)[i] = e
    OBVIOUS
<1> QED BY <1>1 DEF OwnShared

(* What a subscriber elsewhere says about the thread graph.                  *)
LEMMA SubscribersOut ==
    ASSUME NEW k \in Kids
    PROVE  /\ OwnKids(local_subscribers[k], thread_id[k])
           /\ Outward(ext_subscribers[k], thread_id[k])
<1>1. local_subscribers[k] \in Seq(Kids) /\ ext_subscribers[k] \in Seq(Kids) /\ thread_id \in [Kids -> Threads]
    BY EngineConstants
<1>2. /\ \A s \in Range(local_subscribers[k]) : thread_id[s] = thread_id[k]
      /\ \A s \in Range(ext_subscribers[k]) : thread_id[s] # thread_id[k]
    BY SubscribersByThread
<1>3. OwnKids(local_subscribers[k], thread_id[k])
    BY <1>2 DEF OwnKids, Range
<1>4. ASSUME NEW i \in DOMAIN ext_subscribers[k]
      PROVE  thread_id[ext_subscribers[k][i]] \in Writes(thread_id[k])
    <2>1. PICK s : s = ext_subscribers[k][i]
        OBVIOUS
    <2>2. s \in Range(ext_subscribers[k]) /\ s \in Kids
        BY <1>1, <1>4, <2>1 DEF Range
    <2>3. thread_id[s] \in Threads \ {thread_id[k]}
        BY <1>1, <1>2, <2>2
    <2> QED BY <2>1, <2>2, <2>3 DEF Writes
<1> QED BY <1>3, <1>4 DEF Outward

(* Where a job step of t takes its frame; without external subscribers (after *)
(* Rewire) never to an add.                                                  *)
LocalPlaces == {"none", "call", "emit", "delete"}

LEMMA JobStepAt ==
    ASSUME RefInv, NEW t \in Threads, RunJob(t)
    PROVE  /\ \A u \in Threads \ {t} : frame'[u] = frame[u]
           /\ frame'[t].at = "scan" => AddGivesUp(t) /\ frame'[t] = [frame[t] EXCEPT !.at = "scan"]
           /\ frame'[t].at = "unmark" => AddJob(t) /\ Recoverable(t)
           /\ frame'[t].at = "failover" => ShutFirehose(t)
           /\ rewired /\ frame[t].at \in LocalPlaces => frame'[t].at \in LocalPlaces
<1>f. /\ frame \in [Threads -> {NoFrame} \cup RunFrames \cup DeleteFrames]
      /\ frame[t].at # "none" => frame[t] # NoFrame
      /\ frame[t].at \in {"call", "emit", "push", "add", "unmark", "scan", "failover"} => frame[t] \in RunFrames
      /\ frame[t].at \in {"emit", "push", "add", "unmark", "scan", "failover"} => frame[t] \in KidFrames
      /\ frame[t].at = "delete" => frame[t] \in DeleteFrames
    BY FrameOf DEF RefInv, RefTypes
<1>q. NoFrame.at = "none"
    BY DEF NoFrame
<1>e. ASSUME NEW at, Enter(t, at), frame[t].at \in {"emit", "push", "add", "unmark", "scan", "failover"}
      PROVE  /\ \A u \in Threads \ {t} : frame'[u] = frame[u]
             /\ frame'[t] = [frame[t] EXCEPT !.at = at] /\ frame'[t].at = at
    <2>1. frame'[t] = [frame[t] EXCEPT !.at = at] /\ \A u \in Threads \ {t} : frame'[u] = frame[u]
        BY <1>e, <1>f DEF Enter
    <2> QED BY <1>e, <1>f, <2>1 DEF KidFrames
<1>s. ASSUME Served(t), frame[t].at \in {"emit", "push", "add", "unmark", "scan", "failover"}
      PROVE  /\ \A u \in Threads \ {t} : frame'[u] = frame[u]
             /\ frame'[t].at = "push"
    <2>1. PICK x : x = Tail(frame[t].ext)
        OBVIOUS
    <2>2. frame' = [frame EXCEPT ![t].ext = x, ![t].at = "push"]
        BY <1>s, <1>f, <2>1 DEF Served
    <2>3. frame'[t] = [frame[t] EXCEPT !.ext = x, !.at = "push"] /\ \A u \in Threads \ {t} : frame'[u] = frame[u]
        BY <1>f, <2>2
    <2> QED BY <1>s, <1>f, <2>3 DEF KidFrames
<1>d. ASSUME NEW d, NEW n, Delete(t, d, n)
      PROVE  /\ \A u \in Threads \ {t} : frame'[u] = frame[u]
             /\ frame'[t].at = "delete" \/ frame'[t] = n
    <2>1. PICK x : x = [at |-> "delete", dead |-> <<d>>, then |-> n]
        OBVIOUS
    <2>2. (frame'[t] = x \/ frame'[t] = n) /\ \A u \in Threads \ {t} : frame'[u] = frame[u]
        BY <1>d, <1>f, <2>1 DEF Delete
    <2> QED BY <2>1, <2>2
<1>1. CASE DeleteParent(t)
    <2>1. frame[t] \in DeleteFrames
        BY <1>1, <1>f DEF DeleteParent, At
    <2>2. PICK E : frame' = [frame EXCEPT ![t].dead = E]
        BY <1>1 DEF DeleteParent
    <2>3. frame'[t] = [frame[t] EXCEPT !.dead = E] /\ \A u \in Threads \ {t} : frame'[u] = frame[u]
        BY <1>f, <2>2
    <2>4. frame'[t].at = "delete"
        BY <2>1, <2>3 DEF DeleteFrames
    <2> QED BY <2>3, <2>4 DEF LocalPlaces
<1>2. CASE DeleteDone(t)
    <2>1. frame[t] \in DeleteFrames
        BY <1>2, <1>f DEF DeleteDone, At
    <2>2. PICK F : F = Front(frame[t].dead)
        OBVIOUS
    <2>3. /\ frame'[t] = frame[t].then \/ frame'[t] = [frame[t] EXCEPT !.dead = F]
          /\ \A u \in Threads \ {t} : frame'[u] = frame[u]
        BY <1>f, <1>2, <2>2 DEF DeleteDone
    <2>4. frame'[t].at \in {"delete", "none", "emit"}
        BY <2>1, <2>3 DEF DeleteFrames, Resumed
    <2> QED BY <2>3, <2>4 DEF LocalPlaces
<1>3. CASE Call(t)
    <2>1. PICK g : g.at = "emit" /\ frame' = [frame EXCEPT ![t] = g]
        <3>1. PICK k : k = Head(frame[t].calls)
            OBVIOUS
        <3>2. PICK g : g = [at |-> "emit", kid |-> k, calls |-> Tail(frame[t].calls),
                            outs |-> IF frame[t].hops = 0 THEN 0 ELSE Outputs[k],
                            data |-> frame[t].data, hops |-> frame[t].hops, out |-> frame[t].data, ext |-> <<>>]
            OBVIOUS
        <3>3. frame' = [frame EXCEPT ![t] = g]
            BY <1>3, <1>f, <3>1, <3>2 DEF Call
        <3>4. g.at = "emit"
            BY <3>2
        <3> QED BY <3>3, <3>4
    <2>2. frame'[t] = g /\ \A u \in Threads \ {t} : frame'[u] = frame[u]
        BY <1>f, <2>1
    <2> QED BY <2>1, <2>2 DEF LocalPlaces
<1>4. CASE JobDone(t)
    BY <1>4, <1>d, <1>q DEF JobDone, LocalPlaces
<1>5. CASE EmitsDone(t)
    <2>1. Enter(t, "call") /\ frame[t].at = "emit"
        BY <1>5 DEF EmitsDone, At
    <2>2. /\ \A u \in Threads \ {t} : frame'[u] = frame[u]
          /\ frame'[t] = [frame[t] EXCEPT !.at = "call"] /\ frame'[t].at = "call"
        BY <1>e, <2>1
    <2> QED BY <1>5, <2>1, <2>2 DEF LocalPlaces
<1>6. CASE Emit(t)
    <2>0. frame[t].at = "emit" /\ frame[t] \in KidFrames
        BY <1>6, <1>f DEF Emit, At
    <2>1. PICK ext : ext = IF rewired THEN <<>> ELSE ext_subscribers[frame[t].kid]
        OBVIOUS
    <2>2. \E x : frame' = [frame EXCEPT ![t].outs = @ - 1, ![t].out = x, ![t].ext = ext,
                                        ![t].at = IF ext = <<>> THEN "emit" ELSE "push"]
        BY <1>6, <2>1 DEF Emit
    <2>3. PICK x : frame' = [frame EXCEPT ![t].outs = @ - 1, ![t].out = x, ![t].ext = ext,
                                          ![t].at = IF ext = <<>> THEN "emit" ELSE "push"]
        BY <2>2
    <2>4. PICK g : g = [frame[t] EXCEPT !.outs = @ - 1, !.out = x, !.ext = ext,
                                        !.at = IF ext = <<>> THEN "emit" ELSE "push"]
        OBVIOUS
    <2>5. frame'[t] = g /\ \A u \in Threads \ {t} : frame'[u] = frame[u]
        BY <1>f, <2>3, <2>4
    <2>6. g.at = IF ext = <<>> THEN "emit" ELSE "push"
        BY <2>0, <2>4 DEF KidFrames
    <2> QED BY <2>1, <2>5, <2>6 DEF LocalPlaces
<1>7. CASE PushNext(t)
    <2>1. Enter(t, "add") /\ frame[t].at = "push"
        BY <1>7 DEF PushNext, At
    <2>2. /\ \A u \in Threads \ {t} : frame'[u] = frame[u]
          /\ frame'[t] = [frame[t] EXCEPT !.at = "add"] /\ frame'[t].at = "add"
        BY <1>e, <2>1
    <2> QED BY <1>7, <2>1, <2>2 DEF LocalPlaces
<1>8. CASE PushDone(t)
    <2>1. frame[t].at = "push" /\ frame[t] \in KidFrames
        BY <1>8, <1>f DEF PushDone, At
    <2>2. PICK n : n = [frame[t] EXCEPT !.at = "emit"]
        OBVIOUS
    <2>3. n.at = "emit"
        BY <2>1, <2>2 DEF KidFrames
    <2> QED BY <1>8, <1>d, <2>1, <2>2, <2>3 DEF PushDone, LocalPlaces
<1>9. CASE AddJob(t)
    <2>1. frame[t].at = "add"
        BY <1>9 DEF AddJob, At
    <2>2. CASE Recoverable(t)
        <3>1. Enter(t, "unmark")
            BY <1>9, <2>2 DEF AddJob
        <3>2. (\A u \in Threads \ {t} : frame'[u] = frame[u]) /\ frame'[t].at = "unmark"
            BY <1>e, <2>1, <3>1
        <3> QED BY <1>9, <2>1, <2>2, <3>2 DEF LocalPlaces
    <2>3. CASE ~Recoverable(t)
        <3>1. Served(t)
            BY <1>9, <2>3 DEF AddJob
        <3> QED BY <1>s, <2>1, <3>1 DEF LocalPlaces
    <2> QED BY <2>2, <2>3
<1>10. CASE AddGivesUp(t)
    <2>1. Enter(t, "scan") /\ frame[t].at = "add"
        BY <1>10 DEF AddGivesUp, At
    <2>2. /\ \A u \in Threads \ {t} : frame'[u] = frame[u]
          /\ frame'[t] = [frame[t] EXCEPT !.at = "scan"] /\ frame'[t].at = "scan"
        BY <1>e, <2>1
    <2> QED BY <1>10, <2>1, <2>2 DEF LocalPlaces
<1>11. CASE Unmark(t) \/ FailOver(t)
    BY <1>11, <1>s DEF Unmark, FailOver, At, LocalPlaces
<1>12. CASE NoDeadlockSeen(t)
    <2>1. Enter(t, "add") /\ frame[t].at = "scan"
        BY <1>12 DEF NoDeadlockSeen, At
    <2>2. /\ \A u \in Threads \ {t} : frame'[u] = frame[u]
          /\ frame'[t] = [frame[t] EXCEPT !.at = "add"] /\ frame'[t].at = "add"
        BY <1>e, <2>1
    <2> QED BY <1>12, <2>1, <2>2 DEF LocalPlaces
<1>13. CASE ShutFirehose(t)
    <2>1. Enter(t, "failover") /\ frame[t].at = "scan"
        BY <1>13 DEF ShutFirehose, At
    <2>2. /\ \A u \in Threads \ {t} : frame'[u] = frame[u]
          /\ frame'[t] = [frame[t] EXCEPT !.at = "failover"] /\ frame'[t].at = "failover"
        BY <1>e, <2>1
    <2> QED BY <1>13, <2>1, <2>2 DEF LocalPlaces
<1> QED BY <1>1, <1>2, <1>3, <1>4, <1>5, <1>6, <1>7, <1>8, <1>9, <1>10, <1>11, <1>12, <1>13 DEF RunJob

(* What a job step of t adds to its frame are kids of its own or further out. *)
LEMMA JobStepFrame ==
    ASSUME RefInv, NEW t \in Threads, RunJob(t), OwnFrame(JobIn(frame[t]), t), ~rewired
    PROVE  OwnFrame(JobIn(frame'[t]), t) /\ frame[t] # NoFrame
<1>f. /\ frame \in [Threads -> {NoFrame} \cup RunFrames \cup DeleteFrames]
      /\ frame[t].at # "none" => frame[t] # NoFrame
      /\ frame[t].at \in {"call", "emit", "push", "add", "unmark", "scan", "failover"} => frame[t] \in RunFrames
      /\ frame[t].at \in {"emit", "push", "add", "unmark", "scan", "failover"} => frame[t] \in KidFrames
      /\ frame[t].at = "delete" => frame[t] \in DeleteFrames
    BY FrameOf DEF RefInv, RefTypes
<1>n. OwnFrame(JobIn(NoFrame), t) /\ JobIn(NoFrame) = NoFrame
    BY DEF OwnFrame, JobIn, NoFrame
<1>d. ASSUME NEW d, NEW n \in Resumed, Delete(t, d, n), OwnFrame(n, t), n.at \in {"none", "emit"}
      PROVE  OwnFrame(JobIn(frame'[t]), t)
    <2>1. PICK x : x = [at |-> "delete", dead |-> <<d>>, then |-> n]
        OBVIOUS
    <2>2. frame'[t] = x \/ frame'[t] = n
        BY <1>d, <1>f, <2>1 DEF Delete
    <2>3. JobIn(x) = n /\ JobIn(n) = n
        BY <1>d, <2>1 DEF JobIn
    <2> QED BY <1>d, <2>2, <2>3
<1>1. CASE DeleteParent(t)
    <2>1. frame[t] \in DeleteFrames /\ At(t, "delete")
        BY <1>1, <1>f DEF DeleteParent, At
    <2>2. PICK E : frame' = [frame EXCEPT ![t].dead = E]
        BY <1>1 DEF DeleteParent
    <2>3. frame'[t] = [frame[t] EXCEPT !.dead = E]
        BY <1>f, <2>2
    <2>4. frame'[t].at = "delete" /\ frame'[t].then = frame[t].then /\ frame[t].at = "delete"
        BY <2>1, <2>3 DEF DeleteFrames
    <2> QED BY <2>4, <1>f DEF JobIn
<1>2. CASE DeleteDone(t)
    <2>1. frame[t] \in DeleteFrames /\ At(t, "delete")
        BY <1>2, <1>f DEF DeleteDone, At
    <2>2. PICK F : F = Front(frame[t].dead)
        OBVIOUS
    <2>3. frame'[t] = frame[t].then \/ frame'[t] = [frame[t] EXCEPT !.dead = F]
        BY <1>f, <1>2, <2>2 DEF DeleteDone
    <2>4. CASE frame'[t] = [frame[t] EXCEPT !.dead = F]
        <3>1. frame'[t].at = "delete" /\ frame'[t].then = frame[t].then /\ frame[t].at = "delete"
            BY <2>1, <2>4 DEF DeleteFrames
        <3> QED BY <3>1, <1>f DEF JobIn
    <2>5. CASE frame'[t] = frame[t].then
        <3>1. frame[t].at = "delete" /\ frame[t].then.at \in {"none", "emit"}
            BY <2>1 DEF DeleteFrames, Resumed
        <3> QED BY <3>1, <2>5, <1>f DEF JobIn
    <2> QED BY <2>3, <2>4, <2>5
<1>3. CASE Call(t)
    <2>1. frame[t].at = "call" /\ frame[t] \in RunFrames /\ frame[t].calls # <<>>
        BY <1>3, <1>f DEF Call, At
    <2>2. PICK k : k = Head(frame[t].calls)
        OBVIOUS
    <2>3. PICK g : g = [at |-> "emit", kid |-> k, calls |-> Tail(frame[t].calls),
                        outs |-> IF frame[t].hops = 0 THEN 0 ELSE Outputs[k],
                        data |-> frame[t].data, hops |-> frame[t].hops, out |-> frame[t].data, ext |-> <<>>]
        OBVIOUS
    <2>4. frame' = [frame EXCEPT ![t] = g]
        BY <1>3, <1>f, <2>2, <2>3 DEF Call
    <2>5. frame'[t] = g
        BY <1>f, <2>4
    <2>6. frame[t].calls \in Seq(Kids) /\ OwnKids(frame[t].calls, t)
        BY <2>1, FrameKinds DEF OwnFrame, JobIn
    <2>7. g.at = "emit" /\ g.kid = k /\ g.calls = Tail(frame[t].calls) /\ g.ext = <<>>
        BY <2>3
    <2>8. OwnKids(g.calls, t) /\ thread_id[k] = t
        BY <2>1, <2>2, <2>6, <2>7, KidsTail
    <2> QED BY <2>1, <2>5, <2>7, <2>8, <1>f, KidsNone DEF OwnFrame, JobIn
<1>4. CASE JobDone(t)
    <2>1. NoFrame \in Resumed /\ NoFrame.at = "none" /\ OwnFrame(NoFrame, t)
        BY DEF Resumed, NoFrame, OwnFrame
    <2>2. frame[t].at = "call"
        BY <1>4 DEF JobDone, At
    <2> QED BY <1>4, <1>d, <1>f, <2>1, <2>2 DEF JobDone
<1>5. CASE EmitsDone(t)
    <2>1. frame[t].at = "emit" /\ frame[t] \in KidFrames
        BY <1>5, <1>f DEF EmitsDone, At
    <2>2. frame'[t] = [frame[t] EXCEPT !.at = "call"]
        BY <1>5, <1>f DEF EmitsDone, Enter
    <2>3. frame'[t].at = "call" /\ frame'[t].calls = frame[t].calls /\ frame'[t].ext = frame[t].ext
        BY <2>1, <2>2 DEF KidFrames
    <2> QED BY <2>1, <2>3, <1>f DEF OwnFrame, JobIn
<1>6. CASE Emit(t)
    <2>0. frame[t].at = "emit" /\ frame[t] \in KidFrames
        BY <1>6, <1>f DEF Emit, At
    <2>1. PICK ext : ext = ext_subscribers[frame[t].kid]
        OBVIOUS
    <2>2. \E x : frame' = [frame EXCEPT ![t].outs = @ - 1, ![t].out = x, ![t].ext = ext,
                                        ![t].at = IF ext = <<>> THEN "emit" ELSE "push"]
        BY <1>6, <2>1 DEF Emit
    <2>3. PICK x : frame' = [frame EXCEPT ![t].outs = @ - 1, ![t].out = x, ![t].ext = ext,
                                          ![t].at = IF ext = <<>> THEN "emit" ELSE "push"]
        BY <2>2
    <2>4. PICK g : g = [frame[t] EXCEPT !.outs = @ - 1, !.out = x, !.ext = ext,
                                        !.at = IF ext = <<>> THEN "emit" ELSE "push"]
        OBVIOUS
    <2>5. frame'[t] = g
        BY <1>f, <2>3, <2>4
    <2>6. g.at \in {"emit", "push"} /\ g.kid = frame[t].kid /\ g.calls = frame[t].calls /\ g.ext = ext
        BY <2>0, <2>4 DEF KidFrames
    <2>7. frame[t].kid \in Kids /\ thread_id[frame[t].kid] = t /\ OwnKids(frame[t].calls, t)
        BY <2>0 DEF KidFrames, OwnFrame, JobIn
    <2>8. Outward(ext, t)
        BY <2>1, <2>7, SubscribersOut
    <2> QED BY <2>0, <2>5, <2>6, <2>7, <2>8, <1>f DEF OwnFrame, JobIn
<1>7. CASE PushNext(t)
    <2>1. frame[t].at = "push" /\ frame[t] \in KidFrames
        BY <1>7, <1>f DEF PushNext, At
    <2>2. frame'[t] = [frame[t] EXCEPT !.at = "add"]
        BY <1>7, <1>f DEF PushNext, Enter
    <2>3. /\ frame'[t].at = "add" /\ frame'[t].calls = frame[t].calls /\ frame'[t].ext = frame[t].ext
          /\ frame'[t].kid = frame[t].kid
        BY <2>1, <2>2 DEF KidFrames
    <2> QED BY <2>1, <2>3, <1>f DEF OwnFrame, JobIn
<1>8. CASE PushDone(t)
    <2>1. frame[t].at = "push" /\ frame[t] \in KidFrames
        BY <1>8, <1>f DEF PushDone, At
    <2>2. PICK n : n = [frame[t] EXCEPT !.at = "emit"]
        OBVIOUS
    <2>3. /\ n.at = "emit" /\ n.calls = frame[t].calls /\ n.ext = frame[t].ext
          /\ n.kid = frame[t].kid
        BY <2>1, <2>2 DEF KidFrames
    <2>4. n \in KidFrames
        BY <2>1, <2>2, FrameFields
    <2>5. n \in Resumed
        BY <2>3, <2>4 DEF Resumed, RunFrames
    <2>6. OwnFrame(n, t)
        BY <2>1, <2>3 DEF OwnFrame, JobIn
    <2> QED BY <1>8, <1>d, <1>f, <2>1, <2>2, <2>3, <2>5, <2>6 DEF PushDone
<1>t. ASSUME NEW at \in {"add", "unmark", "scan", "failover"}, Enter(t, at),
             frame[t].at \in {"add", "unmark", "scan", "failover"}
      PROVE  OwnFrame(JobIn(frame'[t]), t)
    <2>1. frame'[t] = [frame[t] EXCEPT !.at = at]
        BY <1>t, <1>f DEF Enter
    <2>2. /\ frame'[t].at = at /\ frame'[t].calls = frame[t].calls /\ frame'[t].ext = frame[t].ext
          /\ frame'[t].kid = frame[t].kid
        BY <1>t, <1>f, <2>1 DEF KidFrames
    <2> QED BY <1>t, <2>2, <1>f DEF OwnFrame, JobIn
<1>s. ASSUME Served(t), frame[t].at \in {"add", "unmark", "scan", "failover"}
      PROVE  OwnFrame(JobIn(frame'[t]), t)
    <2>1. frame[t] \in KidFrames /\ frame[t].ext # <<>> /\ frame[t].ext \in Seq(Kids)
        BY <1>f, <1>s, FrameKinds DEF RefInv, RefTypes
    <2>2. frame'[t] = [frame[t] EXCEPT !.ext = Tail(@), !.at = "push"]
        BY <1>s, <1>f DEF Served
    <2>3. /\ frame'[t].at = "push" /\ frame'[t].calls = frame[t].calls /\ frame'[t].ext = Tail(frame[t].ext)
          /\ frame'[t].kid = frame[t].kid
        BY <2>1, <2>2 DEF KidFrames
    <2>4. OwnKids(frame[t].calls, t) /\ Outward(frame[t].ext, t) /\ thread_id[frame[t].kid] = t
        BY <1>s DEF OwnFrame, JobIn
    <2>5. Outward(frame'[t].ext, t)
        BY <2>1, <2>3, <2>4, KidsTail
    <2> QED BY <2>3, <2>4, <2>5 DEF OwnFrame, JobIn
<1>9. CASE AddJob(t)
    <2>1. frame[t].at = "add"
        BY <1>9 DEF AddJob, At
    <2>2. Enter(t, "unmark") \/ Served(t)
        BY <1>9 DEF AddJob
    <2> QED BY <1>f, <1>s, <1>t, <2>1, <2>2
<1>10. CASE AddGivesUp(t)
    BY <1>10, <1>f, <1>t DEF AddGivesUp, At
<1>11. CASE NoDeadlockSeen(t) \/ ShutFirehose(t)
    BY <1>11, <1>f, <1>t DEF NoDeadlockSeen, ShutFirehose, At
<1>12. CASE Unmark(t) \/ FailOver(t)
    BY <1>12, <1>f, <1>s DEF Unmark, FailOver, At
<1> QED BY <1>1, <1>2, <1>3, <1>4, <1>5, <1>6, <1>7, <1>8, <1>9, <1>10, <1>11, <1>12 DEF RunJob

LEMMA JobStepNeverFails ==
    ASSUME ~graph_has_cycle, RefInv, NEW t \in Threads, RunJob(t), NeverFails(frame[t])
    PROVE  NeverFails(frame'[t])
<1>1. ~Recoverable(t) /\ ~AddGivesUp(t)
    BY DEF Recoverable, AddGivesUp
<1>2. ~ShutFirehose(t)
    BY DEF ShutFirehose, At, NeverFails
<1> QED BY <1>1, <1>2, JobStepAt DEF NeverFails

(* What a step of t does to the queues and to what the other threads are in: *)
(* a job for another thread goes to one it writes to.                        *)
Touches(t) ==
    /\ \A u \in Threads \ {t} :
        /\ jobq'[u] = jobq[u] /\ failoverq'[u] = failoverq[u] /\ frame'[u] = frame[u]
        /\ pc'[u] = pc[u] /\ back'[u] = back[u] /\ worked'[u] = worked[u] /\ extcnt'[u] = extcnt[u]
        /\ \/ shared_jobq'[u] = shared_jobq[u]
           \/ u \in Writes(t) /\ frame[t] # NoFrame /\ OwnShared(shared_jobq'[u], u)
    /\ OwnLocal(jobq'[t], t) /\ OwnShared(shared_jobq'[t], t)

ControlTypes ==
    /\ pc \in [Threads -> Places] /\ back \in [Threads -> Backs]
    /\ DOMAIN worked = Threads /\ DOMAIN extcnt = Threads

LEMMA JobTouches ==
    ASSUME RefInv, NEW t \in Threads, JobStep(t), Own, ~rewired
    PROVE  Touches(t)
<1>1. RunJob(t) /\ UNCHANGED <<pc, back, worked, extcnt>>
    BY DEF JobStep, control
<1>2. /\ OwnFrame(JobIn(frame[t]), t) /\ OwnLocal(jobq[t], t) /\ OwnShared(shared_jobq[t], t)
      /\ \A u \in Threads : OwnShared(shared_jobq[u], u)
    BY DEF Own
<1>3. frame[t] # NoFrame
    BY <1>1, <1>2, JobStepFrame
<1>t. /\ frame \in [Threads -> {NoFrame} \cup RunFrames \cup DeleteFrames]
      /\ jobq \in [Threads -> Seq(LocalJobs)] /\ shared_jobq \in [Threads -> Seq(SharedJobs)]
    BY DEF RefInv, RefTypes
<1>4. \A u \in Threads \ {t} : frame'[u] = frame[u]
    BY <1>1, JobStepAt
<1>5. CASE UNCHANGED queues
    BY <1>1, <1>2, <1>4, <1>5 DEF Touches, queues
<1>6. CASE Emit(t)
    <2>1. frame[t].at = "emit" /\ frame[t] \in KidFrames
        BY <1>6, FrameOf DEF Emit, At, RefInv
    <2>2. PICK local : local = local_subscribers[frame[t].kid]
        OBVIOUS
    <2>3. PICK x : x = IF frame[t].kid \in Maker THEN FreshData ELSE frame[t].data
        OBVIOUS
    <2>4. PICK e : e = [subs |-> local, data |-> x, hops |-> frame[t].hops - 1]
        OBVIOUS
    <2>5. jobq' = (IF local = <<>> THEN jobq ELSE [jobq EXCEPT ![t] = Append(@, e)])
          /\ UNCHANGED <<shared_jobq, failoverq>>
        BY <1>6, <2>2, <2>3, <2>4 DEF Emit
    <2>6. /\ frame[t].kid \in Kids /\ thread_id[frame[t].kid] = t
          /\ frame[t].data \in Items /\ frame[t].hops \in Int
        BY <1>2, <2>1 DEF KidFrames, OwnFrame, JobIn
    <2>7. local \in Seq(Kids) /\ OwnKids(local, t)
        BY <2>2, <2>6, SubscribersOut, EngineConstants
    <2>8. x \in Items
        <3>1. frame[t].kid \in Maker => pool # {}
            BY <1>6 DEF Emit
        <3>2. pool \subseteq Items
            BY DEF RefInv, RefTypes
        <3> QED BY <2>3, <2>6, <3>1, <3>2 DEF FreshData
    <2>9. e \in LocalJobs /\ e.subs = local
        BY <2>4, <2>6, <2>7, <2>8 DEF LocalJobs
    <2>10. OwnLocal(Append(jobq[t], e), t)
        BY <1>2, <1>t, <2>7, <2>9, LocalAppend
    <2>11. OwnLocal(jobq'[t], t) /\ \A u \in Threads \ {t} : jobq'[u] = jobq[u]
        BY <1>2, <1>t, <2>5, <2>10
    <2> QED BY <1>1, <1>2, <1>4, <2>5, <2>11 DEF Touches
<1>7. CASE AddJob(t)
    <2>1. frame[t].at = "add" /\ frame[t] \in KidFrames /\ frame[t].ext # <<>> /\ frame[t].ext \in Seq(Kids)
        BY <1>7, FrameOf, FrameKinds DEF AddJob, At, RefInv, RefTypes
    <2>2. PICK v : v = Target(t)
        OBVIOUS
    <2>3. PICK e : e = Pushed(t)
        OBVIOUS
    <2>4. Outward(frame[t].ext, t)
        BY <1>2, <2>1 DEF OwnFrame, JobIn
    <2>5. v \in Writes(t)
        BY <2>1, <2>2, <2>4, KidsTail DEF Target
    <2>6. v \in Threads \ {t}
        BY <2>5 DEF Writes
    <2>7. e \in SharedJobs /\ thread_id[e.kid] = v
        <3>1. Head(frame[t].ext) \in Kids
            BY <2>1
        <3>2. frame[t].out \in Items /\ frame[t].hops - 1 \in Int
            BY <2>1 DEF KidFrames
        <3> QED BY <2>2, <2>3, <3>1, <3>2 DEF Pushed, SharedJobs, Target
    <2>8. shared_jobq' = [shared_jobq EXCEPT ![v] = Append(@, e)] /\ UNCHANGED <<jobq, failoverq>>
        BY <1>7, <2>2, <2>3 DEF AddJob
    <2>9. OwnShared(Append(shared_jobq[v], e), v)
        BY <1>2, <1>t, <2>6, <2>7, SharedAppend
    <2>10. OwnShared(shared_jobq'[v], v) /\ \A u \in Threads \ {v} : shared_jobq'[u] = shared_jobq[u]
        BY <1>t, <2>6, <2>8, <2>9
    <2> QED BY <1>1, <1>2, <1>3, <1>4, <2>5, <2>6, <2>8, <2>10 DEF Touches
<1>8. CASE FailOver(t)
    <2>1. PICK e : e = Pushed(t)
        OBVIOUS
    <2>2. failoverq' = [failoverq EXCEPT ![t] = Append(@, e)] /\ UNCHANGED <<jobq, shared_jobq>>
        BY <1>8, <2>1 DEF FailOver
    <2>3. \A u \in Threads \ {t} : failoverq'[u] = failoverq[u]
        BY <2>2 DEF RefInv, RefTypes
    <2> QED BY <1>1, <1>2, <1>4, <2>2, <2>3 DEF Touches
<1> QED BY <1>1, <1>5, <1>6, <1>7, <1>8 DEF RunJob, DeleteParent, DeleteDone, Call, JobDone, EmitsDone, PushNext,
        PushDone, Unmark, AddGivesUp, NoDeadlockSeen, ShutFirehose

(* A job is taken out of a queue of the thread.                              *)
LEMMA TakeTouches ==
    ASSUME RefInv, ControlTypes, NEW t \in Threads, ExtJob(t) \/ LocalJob(t), Own
    PROVE  /\ Touches(t) /\ NeverFails(frame'[t]) /\ OwnFrame(JobIn(frame'[t]), t)
           /\ UNCHANGED <<pc, back, failoverq, deadlock_firehose_shutoff>> /\ worked'[t]
<1>1. /\ OwnLocal(jobq[t], t) /\ OwnShared(shared_jobq[t], t)
      /\ \A u \in Threads : OwnShared(shared_jobq[u], u)
    BY DEF Own
<1>t. /\ frame \in [Threads -> {NoFrame} \cup RunFrames \cup DeleteFrames]
      /\ jobq \in [Threads -> Seq(LocalJobs)] /\ shared_jobq \in [Threads -> Seq(SharedJobs)]
    BY DEF RefInv, RefTypes
<1>2. ASSUME NEW d, NEW h, NEW s, OwnKids(s, t), frame' = Set(frame, t, JobFrame(d, s, h))
      PROVE  /\ NeverFails(frame'[t]) /\ OwnFrame(JobIn(frame'[t]), t)
             /\ \A u \in Threads \ {t} : frame'[u] = frame[u]
    <2>1. PICK g : g = JobFrame(d, s, h)
        OBVIOUS
    <2>2. g.at = "call" /\ g.calls = s /\ g.ext = <<>>
        BY <2>1 DEF JobFrame
    <2>3. frame'[t] = g /\ \A u \in Threads \ {t} : frame'[u] = frame[u]
        BY <1>t, <1>2, <2>1 DEF Set
    <2> QED BY <1>2, <2>2, <2>3, KidsNone DEF NeverFails, OwnFrame, JobIn
<1>3. /\ UNCHANGED <<pc, back, failoverq, deadlock_firehose_shutoff>> /\ worked' = Set(worked, t, TRUE)
      /\ extcnt' = extcnt \/ extcnt' = Set(extcnt, t, extcnt[t] + 1)
    BY DEF ExtJob, LocalJob, recovery
<1>4. worked'[t] /\ \A u \in Threads \ {t} : worked'[u] = worked[u] /\ extcnt'[u] = extcnt[u]
    BY <1>3 DEF Set, ControlTypes
<1>5. CASE ExtJob(t)
    <2>1. PICK job : job = Head(shared_jobq[t])
        OBVIOUS
    <2>2. PICK s : s = <<job.kid>>
        OBVIOUS
    <2>3. /\ shared_jobq[t] # <<>> /\ frame' = Set(frame, t, JobFrame(job.data, s, job.hops))
          /\ shared_jobq' = Set(shared_jobq, t, Tail(shared_jobq[t])) /\ UNCHANGED jobq
        BY <1>5, <2>1, <2>2 DEF ExtJob
    <2>4. thread_id[job.kid] = t /\ OwnShared(Tail(shared_jobq[t]), t)
        BY <1>1, <1>t, <2>1, <2>3, SharedTail
    <2>5. OwnKids(s, t)
        BY <2>2, <2>4 DEF OwnKids
    <2>6. OwnShared(shared_jobq'[t], t) /\ \A u \in Threads \ {t} : shared_jobq'[u] = shared_jobq[u]
        BY <1>t, <2>3, <2>4 DEF Set
    <2> QED BY <1>1, <1>2, <1>3, <1>4, <2>3, <2>5, <2>6 DEF Touches
<1>6. CASE LocalJob(t)
    <2>1. PICK job : job = Head(jobq[t])
        OBVIOUS
    <2>2. PICK s : s = job.subs
        OBVIOUS
    <2>3. /\ jobq[t] # <<>> /\ frame' = Set(frame, t, JobFrame(job.data, s, job.hops))
          /\ jobq' = Set(jobq, t, Tail(jobq[t])) /\ UNCHANGED shared_jobq
        BY <1>6, <2>1, <2>2 DEF LocalJob
    <2>4. OwnKids(s, t) /\ OwnLocal(Tail(jobq[t]), t)
        BY <1>1, <1>t, <2>1, <2>2, <2>3, LocalTail
    <2>5. OwnLocal(jobq'[t], t) /\ \A u \in Threads \ {t} : jobq'[u] = jobq[u]
        BY <1>t, <2>3, <2>4 DEF Set
    <2> QED BY <1>1, <1>2, <1>3, <1>4, <2>3, <2>4, <2>5 DEF Touches
<1> QED BY <1>5, <1>6

(* A source is polled. *)
LEMMA PollTouches ==
    ASSUME RefInv, ControlTypes, NEW t \in Threads, PollSource(t), Own
    PROVE  /\ Touches(t) /\ NeverFails(frame'[t]) /\ OwnFrame(JobIn(frame'[t]), t)
           /\ UNCHANGED <<back, failoverq, worked, deadlock_firehose_shutoff>>
           /\ pc[t] = "sources" /\ pc'[t] = "sources"
<1>1. /\ OwnLocal(jobq[t], t) /\ OwnShared(shared_jobq[t], t)
      /\ \A u \in Threads : OwnShared(shared_jobq[u], u)
    BY DEF Own
<1>t. frame \in [Threads -> {NoFrame} \cup RunFrames \cup DeleteFrames]
    BY DEF RefInv, RefTypes
<1>2. /\ UNCHANGED <<jobq, shared_jobq, failoverq, back, worked, extcnt, deadlock_firehose_shutoff>>
      /\ pc' = [pc EXCEPT ![t] = "sources"] /\ pc[t] = "sources"
    BY DEF PollSource, Step, queues, recovery
<1>3. PICK k : k = Sources[src[t]]
    OBVIOUS
<1>4. PICK s : s = IF input[k] > 0 THEN <<k>> ELSE <<>>
    OBVIOUS
<1>5. thread_id[k] = t /\ frame' = Set(frame, t, JobFrame(FreshData, s, MaxHops))
    BY <1>3, <1>4 DEF PollSource
<1>6. PICK g : g = JobFrame(FreshData, s, MaxHops)
    OBVIOUS
<1>7. g.at = "call" /\ g.calls = s /\ g.ext = <<>>
    BY <1>6 DEF JobFrame
<1>8. frame'[t] = g /\ \A u \in Threads \ {t} : frame'[u] = frame[u]
    BY <1>t, <1>5, <1>6 DEF Set
<1>9. OwnKids(s, t)
    BY <1>4, <1>5, KidsNone DEF OwnKids
<1>10. pc'[t] = "sources" /\ \A u \in Threads \ {t} : pc'[u] = pc[u]
    BY <1>2 DEF ControlTypes
<1> QED BY <1>1, <1>2, <1>7, <1>8, <1>9, <1>10, KidsNone DEF Touches, NeverFails, OwnFrame, JobIn

(* A step between jobs. *)
Control(t) ==
    \/ ExtEnd(t) \/ LocalEnd(t) \/ FailoverEmpty(t) \/ FailoverTake(t) \/ Refill(t)
    \/ TopStop(t) \/ TopRun(t) \/ TopRecover(t) \/ Recovered(t) \/ AllClear(t)
    \/ SourcesShut(t) \/ SkipSource(t) \/ SourcesEnd(t) \/ Polled(t) \/ EndOfStream(t)
    \/ Exit(t)

LEMMA ThreadKinds ==
    ASSUME NEW t \in Threads, Thread(t)
    PROVE  JobStep(t) \/ ExtJob(t) \/ LocalJob(t) \/ PollSource(t) \/ Control(t)
BY DEF Thread, Batch, Run, Control

LEMMA ControlTouches ==
    ASSUME ~graph_has_cycle, ControlOK, ControlTypes, NEW t \in Threads, Control(t), NoFailover, Own
    PROVE  /\ Touches(t) /\ UNCHANGED <<jobq, shared_jobq, failoverq, frame, deadlock_firehose_shutoff>>
           /\ frame[t] = NoFrame
           /\ pc'[t] \notin {"failover", "refill", "recovered", "clear"}
           /\ back'[t] \notin {"recovered", "clear"}
<1>0. /\ ~deadlock_firehose_shutoff
      /\ pc[t] \notin {"failover", "refill", "recovered", "clear"} /\ back[t] \notin {"recovered", "clear"}
      /\ back[t] \in Backs
    BY DEF NoFailover, ControlTypes
<1>1. /\ ~FailoverEmpty(t) /\ ~FailoverTake(t) /\ ~Refill(t) /\ ~TopRecover(t) /\ ~Recovered(t) /\ ~AllClear(t)
      /\ ~SourcesShut(t)
    BY <1>0 DEF FailoverEmpty, FailoverTake, Refill, TopRecover, Recovered, AllClear, SourcesShut, Step
<1>2. UNCHANGED <<jobq, shared_jobq, failoverq, frame, deadlock_firehose_shutoff>> /\ frame[t] = NoFrame
    BY <1>1 DEF Control, ExtEnd, LocalEnd, BeginExt, TopStop, TopRun, SkipSource, SourcesEnd, Polled, EndOfStream,
       Exit, ReadyToFlush, AllGathered, Gathering, Settled, Settling, SettleCount, CountIdle,
       BeginRound, Leave, SetupTurn, BeginTurn, Mined, EndTurn, Hop, NextTurn, Spinning, SpinCount, BeginCall,
       Rewire, FlushDone, Step, dispatchVars, queues, recovery
<1>3. /\ \E x : worked' = worked \/ worked' = Set(worked, t, x)
      /\ \E x : extcnt' = extcnt \/ extcnt' = Set(extcnt, t, x)
    BY <1>1 DEF Control, ExtEnd, LocalEnd, BeginExt, TopStop, TopRun, SkipSource, SourcesEnd, Polled, EndOfStream,
       Exit, ReadyToFlush, AllGathered, Gathering, Settled, Settling, SettleCount, CountIdle,
       BeginRound, Leave, SetupTurn, BeginTurn, Mined, EndTurn, Hop, NextTurn, Spinning, SpinCount, BeginCall,
       Rewire, FlushDone
<1>s. ASSUME NEW from, NEW to, Step(t, from, to), to \notin {"failover", "refill", "recovered", "clear"}
      PROVE  /\ pc'[t] \notin {"failover", "refill", "recovered", "clear"}
             /\ \A u \in Threads \ {t} : pc'[u] = pc[u]
    BY <1>s DEF Step, ControlTypes
<1>b. ASSUME NEW b, back' = Set(back, t, b), b \notin {"recovered", "clear"}
      PROVE  back'[t] \notin {"recovered", "clear"} /\ \A u \in Threads \ {t} : back'[u] = back[u]
    BY <1>b DEF Set, ControlTypes
<1>c. ASSUME NEW from, NEW b \in {"gather", "settling", "spun", "mined"}, BeginCall(t, from, b)
      PROVE  /\ pc'[t] \notin {"failover", "refill", "recovered", "clear"}
             /\ \A u \in Threads \ {t} : pc'[u] = pc[u]
             /\ back'[t] \notin {"recovered", "clear"} /\ \A u \in Threads \ {t} : back'[u] = back[u]
    <2>1. PICK to : to = IF graph_has_cycle THEN "failover" ELSE IF b = "mined" THEN "local" ELSE "ext"
        OBVIOUS
    <2>2. Step(t, from, to) /\ back' = Set(back, t, b) /\ to \in {"local", "ext"}
        BY <1>c, <2>1 DEF BeginCall
    <2> QED BY <1>s, <1>b, <2>2
<1>4. /\ pc'[t] \notin {"failover", "refill", "recovered", "clear"}
      /\ \A u \in Threads \ {t} : pc'[u] = pc[u]
    <2>1. CASE ExtEnd(t)
        BY <1>0, <1>s, <2>1 DEF ExtEnd, Backs
    <2>2. CASE Gathering(t) \/ Settling(t) \/ BeginTurn(t) \/ Spinning(t)
        BY <1>c, <2>2 DEF Gathering, Settling, BeginTurn, Spinning
    <2>3. CASE SourcesEnd(t) \/ Leave(t) \/ EndTurn(t) \/ Hop(t)
        <3>1. PICK e : e = IF HasSource(t) /\ ~src_out[t] THEN "eos" ELSE "polled"
            OBVIOUS
        <3>2. PICK l : l = IF t = 0 THEN "rewire" ELSE "bar4"
            OBVIOUS
        <3>3. PICK n : n = IF ithread[t] + 1 < work_size THEN "bar1" ELSE "bar3"
            OBVIOUS
        <3>4. Step(t, "sources", e) \/ Step(t, "round", l) \/ Step(t, "hop", n) \/ Step(t, "turn", n)
            BY <2>3, <3>1, <3>2, <3>3 DEF SourcesEnd, Leave, EndTurn, Hop, NextTurn
        <3> QED BY <1>s, <3>1, <3>2, <3>3, <3>4
    <2>4. CASE LocalEnd(t) \/ TopStop(t) \/ TopRun(t) \/ SkipSource(t) \/ Polled(t) \/ EndOfStream(t)
        BY <1>s, <2>4 DEF LocalEnd, BeginExt, TopStop, TopRun, SkipSource, Polled, EndOfStream
    <2>5. CASE ReadyToFlush(t) \/ AllGathered(t) \/ Settled(t) \/ SettleCount(t) \/ BeginRound(t)
        BY <1>s, <2>5 DEF ReadyToFlush, AllGathered, Settled, SettleCount, CountIdle, BeginRound
    <2>6. CASE SetupTurn(t) \/ Mined(t) \/ SpinCount(t) \/ Rewire(t) \/ FlushDone(t)
        BY <1>s, <2>6 DEF SetupTurn, Mined, SpinCount, CountIdle, Rewire, FlushDone
    <2> QED BY <1>1, <2>1, <2>2, <2>3, <2>4, <2>5, <2>6 DEF Control, Exit
<1>5. back'[t] \notin {"recovered", "clear"} /\ \A u \in Threads \ {t} : back'[u] = back[u]
    <2>1. CASE Gathering(t) \/ Settling(t) \/ BeginTurn(t) \/ Spinning(t)
        BY <1>c, <2>1 DEF Gathering, Settling, BeginTurn, Spinning
    <2>2. CASE LocalEnd(t)
        <3>1. PICK b : b = back[t]
            OBVIOUS
        <3>2. back' = Set(back, t, b) /\ b \notin {"recovered", "clear"}
            BY <1>0, <2>2, <3>1 DEF LocalEnd, BeginExt
        <3> QED BY <1>b, <3>2
    <2>3. CASE Polled(t)
        BY <1>b, <2>3 DEF Polled
    <2>4. CASE ~(Gathering(t) \/ Settling(t) \/ BeginTurn(t) \/ Spinning(t) \/ LocalEnd(t) \/ Polled(t))
        <3>1. back' = back
            BY <1>1, <2>4 DEF Control, ExtEnd, TopStop, TopRun, SkipSource, SourcesEnd, EndOfStream,
               Exit, ReadyToFlush, AllGathered, Settled, SettleCount, CountIdle,
               BeginRound, Leave, SetupTurn, Mined, EndTurn, Hop, SpinCount, Rewire, FlushDone
        <3> QED BY <1>0, <3>1
    <2> QED BY <2>1, <2>2, <2>3, <2>4
<1>6. \A u \in Threads \ {t} : worked'[u] = worked[u] /\ extcnt'[u] = extcnt[u]
    <2>1. \A u \in Threads \ {t} : worked'[u] = worked[u]
        BY <1>3 DEF Set, ControlTypes
    <2>2. \A u \in Threads \ {t} : extcnt'[u] = extcnt[u]
        BY <1>3 DEF Set, ControlTypes
    <2> QED BY <2>1, <2>2
<1>9. Touches(t)
    BY <1>2, <1>4, <1>5, <1>6 DEF Touches, Own
<1> QED BY <1>2, <1>4, <1>5, <1>9

(* A thread has a job only in its loops.                                     *)
Busy == \A t \in Threads : frame[t] # NoFrame => pc[t] \in {"ext", "local", "flush", "sources"}

Steady == ControlTypes /\ NoFailover /\ Own /\ Busy

LEMMA NoJob ==
    ASSUME NEW t \in Threads, frame[t] = NoFrame
    PROVE  ~RunJob(t)
BY DEF NoFrame, RunJob, DeleteParent, DeleteDone, Call, JobDone, EmitsDone, Emit, PushNext, PushDone, AddJob,
       Unmark, AddGivesUp, NoDeadlockSeen, ShutFirehose, FailOver, At

LEMMA ThreadTouches ==
    ASSUME ~graph_has_cycle, ControlOK, RefInv, Steady, NEW t \in Threads, Thread(t),
           rewired => frame[t] = NoFrame
    PROVE  /\ Touches(t) /\ NeverFails(frame'[t]) /\ OwnFrame(JobIn(frame'[t]), t)
           /\ failoverq'[t] = failoverq[t] /\ deadlock_firehose_shutoff' = deadlock_firehose_shutoff
           /\ pc'[t] \notin {"failover", "refill", "recovered", "clear"}
           /\ back'[t] \notin {"recovered", "clear"}
           /\ frame'[t] # NoFrame => pc'[t] \in {"ext", "local", "flush", "sources"}
<1>0. /\ ControlTypes /\ NoFailover /\ Own
      /\ pc[t] \notin {"failover", "refill", "recovered", "clear"} /\ back[t] \notin {"recovered", "clear"}
      /\ NeverFails(frame[t]) /\ OwnFrame(JobIn(frame[t]), t)
      /\ frame[t] # NoFrame => pc[t] \in {"ext", "local", "flush", "sources"}
    BY DEF Steady, NoFailover, Own, Busy
<1>1. CASE JobStep(t)
    <2>1. ~rewired /\ RunJob(t)
        BY <1>1, NoJob DEF JobStep
    <2>2. NeverFails(frame'[t]) /\ OwnFrame(JobIn(frame'[t]), t) /\ frame[t] # NoFrame
        BY <1>0, <2>1, JobStepFrame, JobStepNeverFails
    <2>3. Touches(t)
        BY <1>0, <1>1, <2>1, JobTouches
    <2>4. UNCHANGED <<pc, back>>
        BY <1>1 DEF JobStep, control
    <2>5. UNCHANGED <<failoverq, deadlock_firehose_shutoff>>
        <3>1. ~FailOver(t) /\ ~ShutFirehose(t)
            BY <1>0 DEF FailOver, ShutFirehose, At, NeverFails
        <3> QED BY <2>1, <3>1 DEF RunJob, DeleteParent, DeleteDone, Call, JobDone, EmitsDone, Emit, PushNext,
                PushDone, AddJob, Unmark, AddGivesUp, NoDeadlockSeen, queues, recovery
    <2> QED BY <1>0, <2>2, <2>3, <2>4, <2>5
<1>2. CASE ExtJob(t) \/ LocalJob(t)
    <2>1. pc[t] \in {"ext", "local", "flush"}
        BY <1>2 DEF ExtJob, LocalJob
    <2> QED BY <1>0, <1>2, <2>1, TakeTouches
<1>3. CASE PollSource(t)
    BY <1>0, <1>3, PollTouches
<1>4. CASE Control(t)
    BY <1>0, <1>4, ControlTouches
<1> QED BY <1>1, <1>2, <1>3, <1>4, ThreadKinds

LEMMA DomainsKept ==
    ASSUME ControlTypes, [Next]_vars
    PROVE  DOMAIN worked' = Threads /\ DOMAIN extcnt' = Threads
<1>1. UNCHANGED worked => DOMAIN worked' = Threads
    BY DEF ControlTypes
<1>2. UNCHANGED extcnt => DOMAIN extcnt' = Threads
    BY DEF ControlTypes
<1>3. ASSUME NEW t, NEW x, worked' = Set(worked, t, x) PROVE DOMAIN worked' = Threads
    BY <1>3 DEF ControlTypes, Set
<1>4. ASSUME NEW t, NEW x, extcnt' = Set(extcnt, t, x) PROVE DOMAIN extcnt' = Threads
    BY <1>4 DEF ControlTypes, Set
<1>5. CASE Barrier \/ Interrupt \/ AllDone \/ UNCHANGED vars
    BY <1>1, <1>2, <1>5 DEF Barrier, Interrupt, AllDone, vars, control
<1>6. ASSUME NEW t \in Threads, Thread(t) PROVE DOMAIN worked' = Threads /\ DOMAIN extcnt' = Threads
    <2>1. CASE JobStep(t)
        BY <2>1, <1>1, <1>2 DEF JobStep, control
    <2>2. CASE Batch(t)
        BY <2>2, <1>1, <1>2, <1>3, <1>4 DEF Batch, ExtJob, ExtEnd, LocalJob, LocalEnd, BeginExt, FailoverEmpty,
           FailoverTake, Refill
    <2>3. CASE Run(t)
        BY <2>3, <1>1, <1>2, <1>3, <1>4 DEF Run, TopStop, TopRun, TopRecover, BeginExt, Recovered, AllClear,
           SourcesShut, SkipSource, PollSource, SourcesEnd, Polled, EndOfStream
    <2>4. CASE Exit(t)
        BY <2>4, <1>1, <1>2, <1>3, <1>4 DEF Exit, ReadyToFlush, AllGathered, Gathering, Settled, Settling,
           SettleCount, CountIdle, BeginRound, Leave, SetupTurn, BeginTurn, BeginCall, Mined, EndTurn, Hop,
           NextTurn, Spinning, SpinCount, Rewire, FlushDone
    <2> QED BY <1>6, <2>1, <2>2, <2>3, <2>4 DEF Thread
<1> QED BY <1>5, <1>6 DEF Next

LEMMA SteadyKept ==
    ASSUME ~graph_has_cycle, ExitInv, RefInv, Steady, rewired => \A t \in Threads : frame[t] = NoFrame, [Next]_vars
    PROVE  Steady'
<1>0. ControlOK /\ ControlOK'
    BY ExitInvKept DEF ExitInv
<1>1. ControlTypes'
    BY <1>0, DomainsKept DEF ControlOK, ControlTypes, Backs, Steady
<1>2. CASE UNCHANGED <<jobq, shared_jobq, failoverq, deadlock_firehose_shutoff, frame, pc, back>>
    BY <1>1, <1>2 DEF Steady, NoFailover, Own, Busy, JobIn, NeverFails, OwnFrame
<1>3. CASE Barrier
    <2>1. /\ UNCHANGED <<jobq, shared_jobq, failoverq, deadlock_firehose_shutoff, frame, back>>
          /\ \A t \in Threads : frame[t] = NoFrame
          /\ pc' = [t \in Threads |-> PastBarrier(t)] /\ \A t \in Threads : AtBarrier(t)
        BY <1>3 DEF Barrier, dispatchVars, queues, recovery
    <2>2. \A t \in Threads : pc'[t] \notin {"failover", "refill", "recovered", "clear"}
        BY <2>1 DEF PastBarrier, AtBarrier
    <2>3. NoFailover' /\ Own' /\ Busy'
        BY <2>1, <2>2 DEF Steady, NoFailover, Own, Busy, JobIn, NeverFails, OwnFrame
    <2> QED BY <1>1, <2>3 DEF Steady
<1>4. ASSUME NEW t \in Threads, Thread(t) PROVE Steady'
    <2>1. /\ Touches(t) /\ NeverFails(frame'[t]) /\ OwnFrame(JobIn(frame'[t]), t)
          /\ failoverq'[t] = failoverq[t] /\ deadlock_firehose_shutoff' = deadlock_firehose_shutoff
          /\ pc'[t] \notin {"failover", "refill", "recovered", "clear"}
          /\ back'[t] \notin {"recovered", "clear"}
          /\ frame'[t] # NoFrame => pc'[t] \in {"ext", "local", "flush", "sources"}
        BY <1>0, <1>4, ThreadTouches
    <2>2. NoFailover'
        BY <2>1 DEF Steady, NoFailover, NeverFails, Touches
    <2>3. Own'
        <3>1. ASSUME NEW u \in Threads
              PROVE  /\ OwnLocal(jobq'[u], u) /\ OwnShared(shared_jobq'[u], u)
                     /\ OwnFrame(JobIn(frame'[u]), u)
            <4>1. CASE u = t
                BY <2>1, <4>1 DEF Touches
            <4>2. CASE u # t
                BY <2>1, <4>2 DEF Touches, Steady, Own
            <4> QED BY <4>1, <4>2
        <3> QED BY <3>1 DEF Own, OwnLocal, OwnShared, OwnFrame, JobIn, OwnKids, Outward
    <2>4. Busy'
        BY <2>1 DEF Steady, Busy, Touches
    <2> QED BY <1>1, <2>2, <2>3, <2>4 DEF Steady
<1>5. CASE Interrupt \/ AllDone \/ UNCHANGED vars
    BY <1>2, <1>5 DEF Interrupt, AllDone, vars, dispatchVars, queues, recovery, control
<1> QED BY <1>3, <1>4, <1>5 DEF Next

LEMMA InitSteady == Init => Steady
<1> SUFFICES ASSUME Init PROVE Steady
    OBVIOUS
<1>1. /\ jobq = [t \in Threads |-> <<>>] /\ shared_jobq = [t \in Threads |-> <<>>]
      /\ failoverq = [t \in Threads |-> <<>>] /\ frame = [t \in Threads |-> NoFrame]
      /\ pc = [t \in Threads |-> "top"] /\ back = [t \in Threads |-> "top"]
      /\ DOMAIN worked = Threads /\ DOMAIN extcnt = Threads /\ ~deadlock_firehose_shutoff
    BY DEF Init, DispatchInit
<1>2. ControlTypes
    BY <1>1 DEF ControlTypes, Places, Running, Backs
<1>3. NeverFails(NoFrame) /\ JobIn(NoFrame) = NoFrame /\ \A t : OwnFrame(NoFrame, t)
    BY DEF NeverFails, JobIn, OwnFrame, NoFrame
<1>4. NoFailover
    BY <1>1, <1>3 DEF NoFailover
<1>5. \A t : OwnLocal(<<>>, t) /\ OwnShared(<<>>, t)
    BY DEF OwnLocal, OwnShared
<1>6. Own
    BY <1>1, <1>3, <1>5 DEF Own
<1> QED BY <1>1, <1>2, <1>4, <1>6 DEF Steady, Busy

-----------------------------------------------------------------------------
(* What the turns have found out.                                            *)
Idle(t) == frame[t] = NoFrame /\ jobq[t] = <<>> /\ shared_jobq[t] = <<>> /\ failoverq[t] = <<>>
IdleBelow(n) == \A t \in Threads : t < n => Idle(t)

(* A thread in its turn that has not run a job so far. *)
FoundNothing(t) ==
    Where(t) = "mined" /\ ~worked[t] =>
        /\ frame[t] = NoFrame
        /\ pc[t] \in {"ext", "mined"} => jobq[t] = <<>>
        /\ pc[t] = "ext" => extcnt[t] = 0

Open(turn) == Where(turn) \in {"turn", "mined"}
Told(turn) ==
    IF Open(turn)
    THEN ready_to_exit >= turn => /\ IdleBelow(turn)
                                  /\ pc[turn] = "mined" /\ ~worked[turn] => shared_jobq[turn] = <<>>
    ELSE ready_to_exit >= turn + 1 => IdleBelow(turn + 1)

TurnPhase ==
    \/ BeforeRound
    \/ \E turn \in Threads : BeforeTurn(turn) /\ (ready_to_exit >= turn => IdleBelow(turn))
    \/ \E turn \in Threads : DuringTurn(turn) /\ Told(turn)
    \/ (RoundsOver \/ Over) /\ IdleBelow(work_size)

EndInv ==
    /\ Steady /\ TurnPhase
    /\ \A t \in Threads : FoundNothing(t)
    /\ rewired => Where(0) \in {"flush", "bar4", "done"}

LEMMA OverIsIdle ==
    ASSUME TurnPhase, Where(0) \in {"rewire", "flush", "bar4", "done"}
    PROVE  \A t \in Threads : Idle(t)
<1>1. IdleBelow(work_size)
    BY ThreadsFacts DEF TurnPhase, BeforeRound, BeforeTurn, DuringTurn, Taking, Through, AfterTurn, Looping, Running
<1> QED BY <1>1, ThreadsFacts DEF IdleBelow

LEMMA RewiredIsIdle ==
    ASSUME EndInv
    PROVE  \A t \in Threads : rewired => frame[t] = NoFrame
BY OverIsIdle DEF EndInv, Idle

(* An idle thread stays idle when all that write to it are idle.             *)
LEMMA IdleKept ==
    ASSUME Forward, ControlOK, RefInv, Steady, NEW t \in Threads, Thread(t), rewired => frame[t] = NoFrame,
           Where(t) \notin Looping, NEW n \in Nat, IdleBelow(n)
    PROVE  IdleBelow(n)'
<1>1. /\ Touches(t) /\ failoverq'[t] = failoverq[t]
      /\ ControlTypes /\ NoFailover /\ Own
    BY ThreadTouches DEF Forward, Steady
<1>2. ASSUME NEW u \in Threads, u < n PROVE Idle(u)'
    <2>0. Idle(u)
        BY <1>2 DEF IdleBelow
    <2>1. CASE u # t
        <3>1. jobq'[u] = jobq[u] /\ failoverq'[u] = failoverq[u] /\ frame'[u] = frame[u]
            BY <1>1, <2>1 DEF Touches
        <3>2. shared_jobq'[u] = shared_jobq[u]
            <4>1. ASSUME u \in Writes(t), frame[t] # NoFrame PROVE FALSE
                <5>1. t < u
                    BY <4>1 DEF Forward
                <5>2. t < n
                    BY <1>2, <5>1, ThreadsFacts
                <5> QED BY <4>1, <5>2 DEF IdleBelow, Idle
            <4> QED BY <1>1, <2>1, <4>1 DEF Touches
        <3> QED BY <2>0, <3>1, <3>2 DEF Idle
    <2>2. CASE u = t
        <3>1. /\ frame[t] = NoFrame /\ jobq[t] = <<>> /\ shared_jobq[t] = <<>>
            BY <2>0, <2>2 DEF Idle
        <3>2. ~JobStep(t) /\ ~ExtJob(t) /\ ~LocalJob(t)
            BY <3>1, NoJob DEF JobStep, ExtJob, LocalJob
        <3>3. ~PollSource(t)
            BY DEF PollSource, Step, Where, Calling, Looping, Running
        <3>4. Control(t)
            BY <3>2, <3>3, ThreadKinds
        <3>5. UNCHANGED <<jobq, shared_jobq, failoverq, frame>>
            BY <1>1, <3>4, ControlTouches DEF Forward
        <3> QED BY <2>0, <2>2, <3>5 DEF Idle
    <2> QED BY <2>1, <2>2
<1> QED BY <1>2 DEF IdleBelow

(* Nobody writes to a thread when all that write to it are idle.             *)
LEMMA SharedStays ==
    ASSUME Forward, ControlOK, RefInv, Steady, NEW t \in Threads, Thread(t), rewired => frame[t] = NoFrame,
           NEW u \in Threads, u # t, IdleBelow(u)
    PROVE  shared_jobq'[u] = shared_jobq[u]
<1>1. Touches(t)
    BY ThreadTouches DEF Forward
<1>2. ASSUME u \in Writes(t), frame[t] # NoFrame PROVE FALSE
    <2>1. t < u
        BY <1>2 DEF Forward
    <2> QED BY <1>2, <2>1 DEF IdleBelow, Idle
<1> QED BY <1>1, <1>2 DEF Touches

(* Which control steps end in a thread's own turn. *)
LEMMA IntoMined ==
    ASSUME ControlOK, NEW t \in Threads, Control(t), NoFailover, Where(t)' = "mined"
    PROVE  ExtEnd(t) \/ LocalEnd(t) \/ BeginTurn(t)
<1>0. pc \in [Threads -> Places] /\ back \in [Threads -> Backs]
    BY DEF ControlOK, Backs
<1>1. ~FailoverEmpty(t) /\ ~FailoverTake(t) /\ ~Refill(t) /\ ~TopRecover(t) /\ ~Recovered(t) /\ ~AllClear(t)
    BY DEF NoFailover, FailoverEmpty, FailoverTake, Refill, TopRecover, Recovered, AllClear, Step
<1>s. ASSUME NEW from, NEW to, Step(t, from, to), to \notin Calling, to # "mined"
      PROVE  FALSE
    BY <1>0, <1>s DEF Step, Where
<1>c. ASSUME NEW from, NEW b \in {"gather", "settling", "spun"}, BeginCall(t, from, b)
      PROVE  FALSE
    <2>1. PICK to : to = IF graph_has_cycle THEN "failover" ELSE IF b = "mined" THEN "local" ELSE "ext"
        OBVIOUS
    <2>2. Step(t, from, to) /\ back' = Set(back, t, b) /\ to \in Calling
        BY <1>c, <2>1 DEF BeginCall, Calling
    <2>3. pc'[t] \in Calling /\ back'[t] = b
        BY <1>0, <2>2 DEF Step, Set
    <2> QED BY <1>c, <2>3 DEF Where
<1>2. ~Gathering(t) /\ ~Settling(t) /\ ~Spinning(t)
    BY <1>c DEF Gathering, Settling, Spinning
<1>3. ~SourcesEnd(t) /\ ~Leave(t) /\ ~EndTurn(t) /\ ~Hop(t)
    <2>1. PICK e : e = IF HasSource(t) /\ ~src_out[t] THEN "eos" ELSE "polled"
        OBVIOUS
    <2>2. PICK l : l = IF t = 0 THEN "rewire" ELSE "bar4"
        OBVIOUS
    <2>3. PICK n : n = IF ithread[t] + 1 < work_size THEN "bar1" ELSE "bar3"
        OBVIOUS
    <2>4. \A x \in {e, l, n} : x \notin Calling /\ x # "mined"
        BY <2>1, <2>2, <2>3 DEF Calling
    <2>5. ~Step(t, "sources", e) /\ ~Step(t, "round", l) /\ ~Step(t, "hop", n) /\ ~Step(t, "turn", n)
        BY <1>s, <2>4
    <2> QED BY <2>1, <2>2, <2>3, <2>5 DEF SourcesEnd, Leave, EndTurn, Hop, NextTurn
<1>4. ~TopStop(t) /\ ~TopRun(t) /\ ~SkipSource(t) /\ ~EndOfStream(t) /\ ~SourcesShut(t)
    BY <1>s DEF TopStop, TopRun, SkipSource, EndOfStream, SourcesShut, Calling
<1>5. ~Polled(t)
    <2>1. ASSUME Polled(t) PROVE FALSE
        <3>1. pc'[t] = "local" /\ back'[t] = "top"
            BY <1>0, <2>1 DEF Polled, Step, Set
        <3> QED BY <3>1 DEF Where, Calling
    <2> QED BY <2>1
<1>6. ~ReadyToFlush(t) /\ ~AllGathered(t) /\ ~Settled(t) /\ ~SettleCount(t) /\ ~BeginRound(t)
    BY <1>s DEF ReadyToFlush, AllGathered, Settled, SettleCount, CountIdle, BeginRound, Calling
<1>7. ~SetupTurn(t) /\ ~Mined(t) /\ ~SpinCount(t) /\ ~Rewire(t) /\ ~FlushDone(t)
    BY <1>s DEF SetupTurn, Mined, SpinCount, CountIdle, Rewire, FlushDone, Calling
<1> QED BY <1>1, <1>2, <1>3, <1>4, <1>5, <1>6, <1>7 DEF Control, Exit

LEMMA FoundNothingKept ==
    ASSUME Forward, ControlOK, RefInv, Steady, NEW t \in Threads, Thread(t), rewired => frame[t] = NoFrame,
           \A u \in Threads : FoundNothing(u), NEW u \in Threads
    PROVE  FoundNothing(u)'
<1>0. /\ Touches(t) /\ ControlTypes /\ NoFailover /\ Own /\ ~graph_has_cycle
      /\ back[t] \in Backs
    BY ThreadTouches DEF Forward, Steady, ControlTypes
<1>1. CASE u # t
    <2>1. /\ jobq'[u] = jobq[u] /\ frame'[u] = frame[u] /\ pc'[u] = pc[u] /\ back'[u] = back[u]
          /\ worked'[u] = worked[u] /\ extcnt'[u] = extcnt[u]
        BY <1>0, <1>1 DEF Touches
    <2> QED BY <2>1 DEF FoundNothing, Where
<1>2. ASSUME Where(t)' = "mined", ~worked'[t]
      PROVE  /\ frame'[t] = NoFrame
             /\ pc'[t] \in {"ext", "mined"} => jobq'[t] = <<>>
             /\ pc'[t] = "ext" => extcnt'[t] = 0
    <2>1. ~JobStep(t)
        <3>1. ASSUME JobStep(t) PROVE FALSE
            <4>1. RunJob(t) /\ UNCHANGED <<pc, back, worked>>
                BY <3>1 DEF JobStep, control
            <4>2. Where(t) = "mined" /\ ~worked[t]
                BY <1>2, <4>1 DEF Where
            <4> QED BY <4>1, <4>2, NoJob DEF FoundNothing
        <3> QED BY <3>1
    <2>2. ~ExtJob(t) /\ ~LocalJob(t)
        BY <1>0, <1>2, TakeTouches
    <2>3. ~PollSource(t)
        <3>1. PollSource(t) => Where(t)' = "sources"
            BY <1>0, PollTouches DEF Where, Calling
        <3> QED BY <1>2, <3>1
    <2>4. Control(t)
        BY <2>1, <2>2, <2>3, ThreadKinds
    <2>5. UNCHANGED <<jobq, frame>> /\ frame[t] = NoFrame
        BY <1>0, <2>4, ControlTouches
    <2>6. CASE ExtEnd(t)
        <3>1. pc'[t] = back[t] /\ pc[t] = "ext" /\ UNCHANGED <<back, worked>>
            BY <1>0, <2>6 DEF ExtEnd, Step, ControlTypes
        <3>2. pc'[t] # "ext"
            BY <1>0, <3>1 DEF Backs
        <3>3. Where(t) = "mined" /\ ~worked[t]
            BY <1>0, <1>2, <3>1 DEF Where, Calling, Backs
        <3> QED BY <2>5, <3>1, <3>2, <3>3 DEF FoundNothing
    <2>7. CASE LocalEnd(t)
        <3>1. jobq[t] = <<>> /\ extcnt' = Set(extcnt, t, 0)
            BY <2>7 DEF LocalEnd, BeginExt
        <3>2. extcnt'[t] = 0
            BY <1>0, <3>1 DEF Set, ControlTypes
        <3> QED BY <2>5, <3>1, <3>2
    <2>8. CASE BeginTurn(t)
        <3>1. pc'[t] = "local"
            BY <1>0, <2>8 DEF BeginTurn, BeginCall, Step, ControlTypes
        <3> QED BY <2>5, <3>1
    <2> QED BY <1>0, <1>2, <2>4, <2>6, <2>7, <2>8, IntoMined
<1> QED BY <1>1, <1>2 DEF FoundNothing

LEMMA ReadyFacts ==
    ASSUME NEW t \in Threads, Thread(t)
    PROVE  UNCHANGED ready_to_exit \/ Mined(t)
BY DEF Thread, JobStep, Batch, ExtJob, ExtEnd, LocalJob, LocalEnd, FailoverEmpty, FailoverTake, Refill,
       Run, TopStop, TopRun, TopRecover, Recovered, AllClear, SourcesShut, SkipSource, PollSource, SourcesEnd,
       Polled, EndOfStream, Exit, ReadyToFlush, AllGathered, Gathering, Settled, Settling, SettleCount, CountIdle,
       BeginRound, Leave, SetupTurn, BeginTurn, EndTurn, Hop, Spinning, SpinCount, Rewire, FlushDone, exitVars

(* How a thread's call in its own turn goes on. *)
LEMMA FromMined ==
    ASSUME ControlOK, NEW t \in Threads, Thread(t), NoFailover, Where(t) = "mined", ~Mined(t)
    PROVE  Where(t)' = "mined"
<1>0. pc \in [Threads -> Places] /\ back \in [Threads -> Backs]
    BY DEF ControlOK, Backs
<1>1. CASE JobStep(t) \/ ExtJob(t) \/ LocalJob(t)
    <2>1. UNCHANGED <<pc, back>>
        BY <1>1 DEF JobStep, ExtJob, LocalJob, control
    <2> QED BY <2>1 DEF Where
<1>2. CASE ExtEnd(t)
    <2>1. pc[t] = "ext" /\ pc'[t] = back[t] /\ back' = back
        BY <1>0, <1>2 DEF ExtEnd, Step
    <2> QED BY <1>0, <2>1 DEF Where, Calling
<1>3. CASE LocalEnd(t)
    <2>1. pc[t] = "local" /\ pc'[t] = "ext" /\ back'[t] = back[t]
        BY <1>0, <1>3 DEF LocalEnd, BeginExt, Step, Set
    <2> QED BY <2>1 DEF Where, Calling
<1>4. ~FailoverEmpty(t) /\ ~FailoverTake(t) /\ ~Refill(t)
    BY DEF NoFailover, FailoverEmpty, FailoverTake, Refill, Step
<1>s. ASSUME NEW from, NEW to, Step(t, from, to), from \notin Calling, from # "mined"
      PROVE  FALSE
    BY <1>s DEF Step, Where
<1>5. ~Run(t)
    <2>1. ~TopStop(t) /\ ~TopRun(t) /\ ~TopRecover(t) /\ ~Recovered(t) /\ ~AllClear(t) /\ ~SourcesShut(t)
        BY <1>s DEF TopStop, TopRun, TopRecover, BeginExt, Recovered, AllClear, SourcesShut, Calling
    <2>2. ~SkipSource(t) /\ ~PollSource(t) /\ ~SourcesEnd(t) /\ ~Polled(t) /\ ~EndOfStream(t)
        BY <1>s DEF SkipSource, PollSource, SourcesEnd, Polled, EndOfStream, Calling
    <2> QED BY <2>1, <2>2 DEF Run
<1>6. ~Exit(t)
    <2>1. ~ReadyToFlush(t) /\ ~AllGathered(t) /\ ~Settled(t) /\ ~SettleCount(t) /\ ~BeginRound(t) /\ ~Leave(t)
        BY <1>s DEF ReadyToFlush, AllGathered, Settled, SettleCount, CountIdle, BeginRound, Leave, Calling
    <2>2. ~Gathering(t) /\ ~Settling(t) /\ ~BeginTurn(t) /\ ~Spinning(t)
        BY <1>s DEF Gathering, Settling, BeginTurn, Spinning, BeginCall, Calling
    <2>3. ~SetupTurn(t) /\ ~EndTurn(t) /\ ~Hop(t) /\ ~SpinCount(t) /\ ~Rewire(t) /\ ~FlushDone(t)
        BY <1>s DEF SetupTurn, EndTurn, Hop, NextTurn, SpinCount, CountIdle, Rewire, FlushDone, Calling
    <2> QED BY <2>1, <2>2, <2>3 DEF Exit
<1> QED BY <1>1, <1>2, <1>3, <1>4, <1>5, <1>6 DEF Thread, Batch

LEMMA ToldKept ==
    ASSUME Forward, ControlOK, RefInv, EndInv, NEW turn \in Threads, DuringTurn(turn), Told(turn),
           NEW t \in Threads, Thread(t)
    PROVE  Told(turn)'
<1>0. /\ Steady /\ ControlTypes /\ NoFailover /\ Own /\ Busy /\ ~graph_has_cycle
      /\ FoundNothing(t) /\ (rewired => frame[t] = NoFrame)
      /\ turn \in Nat /\ turn + 1 \in Nat /\ ready_to_exit \in Nat
    BY ThreadsFacts, RewiredIsIdle DEF EndInv, Steady, Forward, ControlOK
<1>1. /\ Where(t) \in {"turn", "spun", "mined", "hop", "bar1", "bar3"}
      /\ Where(t) \in {"mined", "hop"} => t = turn
      /\ t = turn => Where(t) # "spun"
      /\ Where(t) \in {"turn", "mined", "hop"} => ithread[t] = turn
    BY DEF DuringTurn, Taking, Through, AfterTurn
<1>2. Where(t) \notin Looping
    BY <1>1 DEF Looping, Running
<1>3. \A n \in Nat : IdleBelow(n) => IdleBelow(n)'
    BY <1>0, <1>2, IdleKept
<1>4. Touches(t) /\ Move(t)
    BY <1>0, ThreadTouches, ThreadMoves
<1>m. Mined(t) => pc[t] = "mined" /\ Where(t) = "mined"
    BY DEF Mined, Step, Where, Calling
<1>5. CASE t # turn
    <2>1. /\ Where(turn)' = Where(turn) /\ pc'[turn] = pc[turn] /\ worked'[turn] = worked[turn]
        BY <1>4, <1>5 DEF Move, Touches
    <2>2. ready_to_exit' = ready_to_exit
        BY <1>1, <1>5, <1>m, ReadyFacts
    <2>3. IdleBelow(turn) => shared_jobq'[turn] = shared_jobq[turn]
        BY <1>0, <1>5, SharedStays
    <2> QED BY <1>0, <1>3, <2>1, <2>2, <2>3 DEF Told, Open
<1>6. CASE t = turn /\ Mined(t)
    <2>1. /\ pc[t] = "mined" /\ Where(t) = "mined" /\ pc'[t] = "hop"
          /\ ready_to_exit' = IF worked[t] THEN 0 ELSE ready_to_exit + 1
        BY <1>0, <1>6, <1>m DEF Mined, Step, ControlTypes
    <2>2. ~Open(turn)'
        BY <1>6, <2>1 DEF Open, Where, Calling
    <2>3. ASSUME ready_to_exit' >= turn + 1 PROVE IdleBelow(turn + 1)
        <3>1. ~worked[t] /\ ready_to_exit >= turn
            BY <1>0, <2>1, <2>3
        <3>2. IdleBelow(turn) /\ shared_jobq[turn] = <<>>
            BY <1>6, <2>1, <3>1 DEF Told, Open
        <3>3. frame[t] = NoFrame /\ jobq[t] = <<>>
            BY <1>0, <2>1, <3>1 DEF FoundNothing
        <3>4. Idle(turn)
            BY <1>0, <1>6, <3>2, <3>3 DEF Idle, NoFailover
        <3>5. \A u \in Threads : u < turn + 1 => u < turn \/ u = turn
            BY ThreadsFacts
        <3> QED BY <3>2, <3>4, <3>5 DEF IdleBelow
    <2> QED BY <1>0, <1>3, <2>2, <2>3 DEF Told
<1>7. CASE t = turn /\ ~Mined(t)
    <2>1. ready_to_exit' = ready_to_exit
        BY <1>7, ReadyFacts
    <2>2. CASE Open(turn)
        <3>1. Where(t)' \in {"turn", "mined"}
            <4>1. CASE Where(t) = "mined"
                BY <1>0, <1>7, <4>1, FromMined
            <4>2. CASE Where(t) = "turn"
                BY <1>1, <1>4, <1>7, <4>2 DEF Move, Goes, Looping, Running
            <4> QED BY <1>7, <2>2, <4>1, <4>2 DEF Open
        <3>2. ASSUME pc'[t] = "mined", ~worked'[t] PROVE shared_jobq'[t] = <<>>
            <4>1. Where(t)' = "mined"
                BY <3>2 DEF Where, Calling
            <4>2. pc[t] # "mined" \/ ~JobStep(t)
                BY <1>0, NoJob DEF JobStep, Busy
            <4>3. ~JobStep(t)
                <5>1. JobStep(t) => pc' = pc
                    BY DEF JobStep, control
                <5> QED BY <3>2, <4>2, <5>1
            <4>4. ~ExtJob(t) /\ ~LocalJob(t)
                BY <1>0, <3>2, TakeTouches
            <4>5. ~PollSource(t)
                BY <1>0, <3>2, PollTouches
            <4>6. Control(t)
                BY <4>3, <4>4, <4>5, ThreadKinds
            <4>7. ExtEnd(t) \/ LocalEnd(t) \/ BeginTurn(t)
                BY <1>0, <4>1, <4>6, IntoMined
            <4>8. ~LocalEnd(t) /\ ~BeginTurn(t)
                BY <1>0, <3>2 DEF LocalEnd, BeginExt, BeginTurn, BeginCall, Step, ControlTypes
            <4>9. /\ ExtEnd(t) /\ pc[t] = "ext" /\ pc'[t] = back[t] /\ UNCHANGED <<back, worked, shared_jobq>>
                BY <1>0, <4>7, <4>8 DEF ExtEnd, Step, ControlTypes, dispatchVars, queues
            <4>10. Where(t) = "mined" /\ ~worked[t]
                BY <3>2, <4>9 DEF Where, Calling
            <4>11. extcnt[t] = 0
                BY <1>0, <4>9, <4>10 DEF FoundNothing
            <4>12. extcnt[t] # MAX_EXTJOBS_LIMIT
                BY <4>11, SourceConstants
            <4> QED BY <4>9, <4>12 DEF ExtEnd
        <3>3. Open(turn)'
            BY <1>7, <3>1 DEF Open
        <3> QED BY <1>0, <1>3, <1>7, <2>1, <2>2, <3>2, <3>3 DEF Told
    <2>3. CASE ~Open(turn)
        <3>1. Where(t) \in {"hop", "bar1", "bar3"}
            BY <1>1, <1>7, <2>3 DEF Open
        <3>2. AfterTurn(ithread[t]) \in {"bar1", "bar3"}
            BY DEF AfterTurn
        <3>3. Where(t)' \in {"hop", "bar1", "bar3"}
            BY <1>4, <3>1, <3>2 DEF Move, Goes, Looping, Running
        <3>4. ~Open(turn)'
            BY <1>7, <3>3 DEF Open
        <3> QED BY <1>0, <1>3, <2>1, <2>3, <3>4 DEF Told
    <2> QED BY <2>2, <2>3
<1> QED BY <1>5, <1>6, <1>7

LEMMA TurnPhaseKept ==
    ASSUME Forward, ControlOK, RefInv, EndInv, NEW t \in Threads, Thread(t)
    PROVE  TurnPhase'
<1>0. /\ Steady /\ (rewired => frame[t] = NoFrame) /\ work_size \in Nat
      /\ ready_to_exit \in Nat /\ TurnPhase
    BY ThreadsFacts, RewiredIsIdle DEF EndInv, ControlOK
<1>1. Where(t) \notin Looping => \A n \in Nat : IdleBelow(n) => IdleBelow(n)'
    BY <1>0, IdleKept
<1>2. Move(t)
    BY ThreadMoves
<1>m. Mined(t) => Where(t) = "mined"
    BY DEF Mined, Step, Where, Calling
<1>3. CASE BeforeRound
    BY <1>2, <1>3, BeforeRoundKept DEF TurnPhase
<1>4. ASSUME NEW turn \in Threads, BeforeTurn(turn), ready_to_exit >= turn => IdleBelow(turn) PROVE TurnPhase'
    <2>1. Where(t) \in {"bar2", "setup"}
        BY <1>4 DEF BeforeTurn
    <2>2. Where(t) \notin Looping /\ ready_to_exit' = ready_to_exit
        BY <1>m, <2>1, ReadyFacts DEF Looping, Running
    <2>3. turn \in Nat /\ BeforeTurn(turn)'
        BY <1>2, <1>4, BeforeTurnKept, ThreadsFacts
    <2> QED BY <1>1, <1>4, <2>2, <2>3 DEF TurnPhase
<1>5. ASSUME NEW turn \in Threads, DuringTurn(turn), Told(turn) PROVE TurnPhase'
    BY <1>2, <1>5, DuringTurnKept, ToldKept DEF TurnPhase
<1>6. CASE (RoundsOver \/ Over) /\ IdleBelow(work_size)
    <2>1. Where(t) \in {"round", "bar4", "rewire", "flush", "done"}
        BY <1>6 DEF RoundsOver, Over
    <2>2. Where(t) \notin Looping
        BY <2>1 DEF Looping, Running
    <2> QED BY <1>0, <1>1, <1>2, <1>6, <2>2, RoundsOverKept, OverKept DEF TurnPhase
<1> QED BY <1>0, <1>3, <1>4, <1>5, <1>6 DEF TurnPhase

LEMMA TurnPhaseBarrier ==
    ASSUME ExitInv, TurnPhase, Barrier
    PROVE  TurnPhase'
<1>1. /\ \A t \in Threads : pc[t] \in {"bar1", "bar2", "bar3", "bar4"}
      /\ pc' = [t \in Threads |-> PastBarrier(t)]
      /\ UNCHANGED <<back, ithread, Counters, ready_to_exit, hop_to_next_thread_locext>>
      /\ UNCHANGED <<frame, jobq, shared_jobq, failoverq>>
    BY DEF Barrier, AtBarrier, Counters, exitVars, dispatchVars, queues
<1>2. \A t \in Threads :
        /\ Where(t) = pc[t] /\ Where(t) \in {"bar1", "bar2", "bar3", "bar4"}
        /\ PastBarrier(t) \in {"setup", "bar2", "turn", "round", "done"}
        /\ Where(t)' = PastBarrier(t)
    <2>1. \A t \in Threads : PastBarrier(t) \in {"setup", "bar2", "turn", "round", "done"}
        BY <1>1 DEF PastBarrier
    <2> QED BY <1>1, <2>1 DEF Where, Calling
<1>3. \A n : IdleBelow(n)' <=> IdleBelow(n)
    BY <1>1 DEF IdleBelow, Idle
<1>r. ready_to_exit' = ready_to_exit /\ ready_to_exit \in Nat /\ work_size \in Nat
    BY <1>1, ThreadsFacts DEF ExitInv, ControlOK
<1>t. ASSUME NEW turn \in Threads, ready_to_exit >= turn => IdleBelow(turn),
             \A t \in Threads : ithread[t] = turn /\ Where(t)' = (IF t = 0 THEN "setup" ELSE "bar2")
      PROVE  TurnPhase'
    <2>1. BeforeTurn(turn)'
        BY <1>1, <1>t, ThreadsFacts DEF BeforeTurn
    <2> QED BY <1>t, <1>3, <1>r, <2>1 DEF TurnPhase
<1>5. ASSUME BeforeRound PROVE TurnPhase'
    <2>1. \A t \in Threads : ithread[t] = 0 /\ Where(t)' = (IF t = 0 THEN "setup" ELSE "bar2")
        BY <1>2, <1>5 DEF BeforeRound, Looping, Running, PastBarrier
    <2>2. IdleBelow(0)
        BY ThreadsFacts DEF IdleBelow
    <2> QED BY <1>t, <2>1, <2>2, ThreadsFacts
<1>6. ASSUME NEW turn \in Threads, BeforeTurn(turn), ready_to_exit >= turn => IdleBelow(turn) PROVE TurnPhase'
    <2>1. \A t \in Threads : ithread[t] = turn /\ Where(t) = "bar2" /\ Where(t)' = "turn" /\ pc'[t] = "turn"
        BY <1>1, <1>2, <1>6 DEF BeforeTurn, PastBarrier
    <2>2. ~hop_to_next_thread_locext'
        BY <1>1, <1>6, <2>1, ThreadsFacts DEF BeforeTurn
    <2>3. \A t \in Threads : Taking(t, turn)' /\ ~Through(t, turn)'
        BY <1>1, <2>1 DEF Taking, Through, AfterTurn
    <2>4. DuringTurn(turn)'
        BY <2>2, <2>3 DEF DuringTurn
    <2>5. Told(turn)'
        BY <1>3, <1>6, <1>r, <2>1 DEF Told, Open
    <2> QED BY <2>4, <2>5 DEF TurnPhase
<1>7. ASSUME NEW turn \in Threads, DuringTurn(turn), Told(turn) PROVE TurnPhase'
    <2>1. \A t \in Threads : ithread[t] = turn + 1 /\ Where(t) = AfterTurn(turn)
        BY <1>2, <1>7 DEF DuringTurn, Taking, Through
    <2>t. ready_to_exit >= turn + 1 => IdleBelow(turn + 1)
        <3>1. ~Open(turn)
            BY <2>1 DEF Open, AfterTurn
        <3> QED BY <1>7, <3>1 DEF Told
    <2>2. CASE turn + 1 < work_size
        <3>1. \A t \in Threads : Where(t)' = (IF t = 0 THEN "setup" ELSE "bar2")
            BY <1>2, <2>1, <2>2 DEF AfterTurn, PastBarrier
        <3>2. turn + 1 \in Threads
            BY <2>2, ThreadsFacts
        <3> QED BY <1>t, <2>1, <2>t, <3>1, <3>2
    <2>3. CASE ~(turn + 1 < work_size)
        <3>1. \A t \in Threads : Where(t)' = "round"
            BY <1>2, <2>1, <2>3 DEF AfterTurn, PastBarrier
        <3>2. turn + 1 = work_size
            BY <2>3, ThreadsFacts
        <3>3. CASE ready_to_exit < work_size
            BY <1>r, <3>1, <3>3 DEF TurnPhase, BeforeRound
        <3>4. CASE ready_to_exit >= work_size
            <4>1. RoundsOver'
                BY <1>r, <3>1, <3>4 DEF RoundsOver
            <4>2. IdleBelow(work_size)'
                BY <1>3, <2>t, <3>2, <3>4
            <4> QED BY <4>1, <4>2 DEF TurnPhase
        <3> QED BY <1>r, <3>3, <3>4
    <2> QED BY <2>2, <2>3
<1>8. ASSUME RoundsOver, IdleBelow(work_size) PROVE TurnPhase'
    <2>1. \A t \in Threads : Where(t)' = "done"
        BY <1>2, <1>8 DEF RoundsOver, PastBarrier
    <2>2. Over'
        BY <2>1 DEF Over
    <2> QED BY <1>3, <1>8, <2>2 DEF TurnPhase
<1>9. ~Over
    BY <1>2, ThreadsFacts DEF Over
<1> QED BY <1>5, <1>6, <1>7, <1>8, <1>9 DEF TurnPhase

LEMMA EndInvKept ==
    ASSUME Forward, ExitInv, RefInv, EndInv, [Next]_vars
    PROVE  EndInv'
<1>0. /\ Steady /\ TurnPhase /\ ControlOK /\ ~graph_has_cycle
      /\ rewired => \A t \in Threads : frame[t] = NoFrame
      /\ \A t \in Threads : FoundNothing(t)
      /\ work_size \in Nat
      /\ 0 \in Threads
    BY ThreadsFacts, RewiredIsIdle DEF EndInv, ExitInv, Forward
<1>1. Steady'
    BY <1>0, SteadyKept
<1>2. CASE UNCHANGED <<pc, back, ithread, ready_to_exit, hop_to_next_thread_locext, frame, jobq, shared_jobq,
                      failoverq, worked, extcnt, rewired>>
    <2>1. TurnPhase'
        BY <1>0, <1>2 DEF TurnPhase, BeforeRound, BeforeTurn, DuringTurn, Taking, Through, Told, Open,
           RoundsOver, Over, Where, IdleBelow, Idle
    <2>2. \A t \in Threads : FoundNothing(t)'
        BY <1>0, <1>2 DEF FoundNothing, Where
    <2> QED BY <1>1, <1>2, <2>1, <2>2 DEF EndInv, Where
<1>3. CASE Barrier
    <2>1. TurnPhase'
        BY <1>0, <1>3, TurnPhaseBarrier
    <2>2. /\ pc' = [t \in Threads |-> PastBarrier(t)] /\ \A t \in Threads : AtBarrier(t)
          /\ UNCHANGED rewired
        BY <1>3 DEF Barrier, dispatchVars
    <2>3. \A t \in Threads : FoundNothing(t)'
        <3>1. \A t \in Threads : pc'[t] \notin Calling /\ pc'[t] # "mined"
            BY <2>2 DEF PastBarrier, AtBarrier, Calling
        <3> QED BY <3>1 DEF FoundNothing, Where
    <2>4. rewired => Where(0)' = "done"
        <3>1. rewired => pc[0] = "bar4"
            BY <1>0, <2>2 DEF EndInv, AtBarrier, Where, Calling
        <3> QED BY <1>0, <2>2, <3>1 DEF PastBarrier, Where, Calling
    <2> QED BY <1>1, <2>1, <2>2, <2>3, <2>4 DEF EndInv
<1>4. ASSUME NEW t \in Threads, Thread(t) PROVE EndInv'
    <2>1. TurnPhase'
        BY <1>0, <1>4, TurnPhaseKept
    <2>2. \A u \in Threads : FoundNothing(u)'
        BY <1>0, <1>4, FoundNothingKept
    <2>3. rewired' => Where(0)' \in {"flush", "bar4", "done"}
        <3>m. Move(t)
            BY <1>0, <1>4, ThreadMoves
        <3>1. CASE Rewire(t)
            <4>1. Where(t) = "rewire" /\ Where(t)' = "flush"
                <5>1. pc[t] = "rewire" /\ pc'[t] = "flush"
                    BY <1>0, <3>1 DEF Rewire, Step, ControlOK
                <5> QED BY <5>1 DEF Where, Calling
            <4>2. t = 0
                BY <1>0, <4>1 DEF TurnPhase, BeforeRound, BeforeTurn, DuringTurn, Taking, Through, AfterTurn,
                   RoundsOver, Over, Looping, Running
            <4> QED BY <4>1, <4>2
        <3>2. CASE ~Rewire(t)
            <4>1. rewired' = rewired
                BY <1>4, <3>2 DEF Thread, JobStep, RunJob, DeleteParent, DeleteDone, Call, JobDone, EmitsDone, Emit,
                   PushNext, PushDone, AddJob, Unmark, AddGivesUp, NoDeadlockSeen, ShutFirehose, FailOver,
                   Batch, ExtJob, ExtEnd, LocalJob, LocalEnd, FailoverEmpty, FailoverTake, Refill,
                   Run, TopStop, TopRun, TopRecover, Recovered, AllClear, SourcesShut, SkipSource, PollSource,
                   SourcesEnd, Polled, EndOfStream, Exit, ReadyToFlush, AllGathered, Gathering, Settled, Settling,
                   SettleCount, CountIdle, BeginRound, Leave, SetupTurn, BeginTurn, Mined, EndTurn, Hop, Spinning,
                   SpinCount, FlushDone, dispatchVars
            <4>2. Where(0) \in {"flush", "bar4", "done"} => Where(0)' \in {"flush", "bar4", "done"}
                BY <1>0, <3>m DEF Move, Goes, Looping, Running
            <4> QED BY <4>1, <4>2 DEF EndInv
        <3> QED BY <3>1, <3>2
    <2> QED BY <1>1, <2>1, <2>2, <2>3 DEF EndInv
<1>5. CASE Interrupt \/ AllDone \/ UNCHANGED vars
    BY <1>2, <1>5 DEF Interrupt, AllDone, vars, dispatchVars, queues, control, exitVars
<1> QED BY <1>3, <1>4, <1>5 DEF Next

LEMMA InitEndInv == Init => EndInv /\ Ranked
<1> SUFFICES ASSUME Init PROVE EndInv /\ Ranked
    OBVIOUS
<1>1. /\ \A t \in Threads : pc[t] = "top" /\ Where(t) = "top"
      /\ dependency = [d \in Items |-> <<>>] /\ ~rewired
    BY DEF Init, DispatchInit, Where, Calling
<1>2. BeforeRound
    BY <1>1, ThreadsFacts DEF BeforeRound, Init, Looping, Running
<1>3. EndInv
    BY <1>1, <1>2, InitSteady DEF EndInv, TurnPhase, FoundNothing
<1>4. Ages([d \in Items |-> 0], 0, dependency)
    BY <1>1 DEF Ages
<1> QED BY <1>3, <1>4 DEF Ranked

(* Once no queue entry and no job refers to any data, all data is free: data *)
(* that was made from other data and given back gives that back as well      *)
(* (wsdata_assign_dependency, wsdatatype_default_delete).                    *)
DrainedIsAllFree == Drained => pool = Items

(* Whatever the graph: data is never left behind by the counting itself.     *)
THEOREM NothingLeaks == Spec => []DrainedIsAllFree
<1>1. Spec => []ExitInv
    BY InitExitInv, ExitInvKept, PTL DEF Spec
<1>2. ExitInv /\ RefInv /\ SrcOK /\ [Next]_vars => RefInv' /\ SrcOK'
    BY RefInvKept, SrcKept DEF ExitInv
<1>3. RefInv /\ Ranked /\ [Next]_vars => Ranked'
    BY RankedKept
<1>4. Init => Ranked
    BY InitEndInv
<1>5. RefInv /\ Ranked => DrainedIsAllFree
    BY DrainedIsFree DEF DrainedIsAllFree
<1> QED BY <1>1, <1>2, <1>3, <1>4, <1>5, InitRefInv, PTL DEF Spec

LEMMA ForwardEnds == ASSUME Forward PROVE Spec => [](EmptyAtFlush /\ NothingLeft)
<1>1. Spec => []ExitInv
    BY InitExitInv, ExitInvKept, PTL DEF Spec
<1>2. ExitInv /\ RefInv /\ SrcOK /\ [Next]_vars => RefInv' /\ SrcOK'
    BY RefInvKept, SrcKept DEF ExitInv
<1>3. RefInv /\ Ranked /\ [Next]_vars => Ranked'
    BY RankedKept
<1>4. ExitInv /\ RefInv /\ EndInv /\ [Next]_vars => EndInv'
    BY EndInvKept
<1>5. RefInv /\ Ranked /\ EndInv => EmptyAtFlush /\ NothingLeft
    <2> SUFFICES ASSUME RefInv, Ranked, EndInv PROVE EmptyAtFlush /\ NothingLeft
        OBVIOUS
    <2>1. 0 \in Threads /\ TurnPhase
        BY ThreadsFacts DEF EndInv
    <2>2. pc[0] \in {"rewire", "done"} => \A t \in Threads : Idle(t)
        BY <2>1, OverIsIdle DEF Where, Calling
    <2>3. EmptyAtFlush
        BY <2>2 DEF EmptyAtFlush, Idle
    <2>4. NothingLeft
        <3>1. ASSUME \A t \in Threads : pc[t] = "done" PROVE pool = Items
            <4>1. Drained
                BY <2>1, <2>2, <3>1 DEF Drained, Idle
            <4> QED BY <4>1, DrainedIsFree
        <3> QED BY <3>1 DEF NothingLeft
    <2> QED BY <2>3, <2>4
<1> QED BY <1>1, <1>2, <1>3, <1>4, <1>5, InitRefInv, InitEndInv, PTL DEF Spec

(* When jobs only go to threads with higher numbers, one round of idle turns *)
(* shows that no job is left, and thread 0 flushes with all queues empty     *)
(* (ws_empty_allqueues_synchronously, mimo_run_threaded_graph).              *)
THEOREM ForwardIsEmptyAtFlush == ASSUME Forward PROVE Spec => []EmptyAtFlush
BY ForwardEnds, PTL

(* In such a graph no job is lost and no data is left when all threads are   *)
(* done.                                                                     *)
THEOREM ForwardLeavesNothing == ASSUME Forward PROVE Spec => []NothingLeft
BY ForwardEnds, PTL

-----------------------------------------------------------------------------
(* The deadlock of a ring.                                                   *)
Marked(t) == At(t, "scan") => Recoverable(t) /\ fullshq[1][Target(t)]

MarkInv ==
    /\ ControlTypes /\ Busy
    /\ fullshq \in [DOMAIN Sccs -> [Threads -> BOOLEAN]]
    /\ IF rewired THEN \A t \in Threads : frame[t].at \in LocalPlaces ELSE Own
    /\ \A t \in Threads : Marked(t)

LEMMA ControlStays ==
    ASSUME ControlTypes, NEW t \in Threads, Control(t)
    PROVE  /\ frame[t] = NoFrame /\ UNCHANGED <<jobq, frame, fullshq>>
           /\ \A u \in Threads \ {t} : pc'[u] = pc[u]
<1>s. ASSUME NEW from, NEW to, Step(t, from, to)
      PROVE  frame[t] = NoFrame /\ \A u \in Threads \ {t} : pc'[u] = pc[u]
    BY <1>s DEF Step, ControlTypes
<1>1. UNCHANGED <<jobq, frame, fullshq>>
    BY DEF Control, ExtEnd, LocalEnd, FailoverEmpty, FailoverTake, Refill, TopStop, TopRun, TopRecover, Recovered,
       AllClear, SourcesShut, SkipSource, SourcesEnd, Polled, EndOfStream,
       Exit, ReadyToFlush, AllGathered, Gathering, Settled, Settling, SettleCount, CountIdle,
       BeginRound, Leave, SetupTurn, BeginTurn, Mined, EndTurn, Hop, NextTurn, Spinning, SpinCount,
       Rewire, FlushDone, dispatchVars, queues, recovery
<1>2. CASE ExtEnd(t) \/ LocalEnd(t) \/ FailoverEmpty(t) \/ FailoverTake(t) \/ Refill(t)
    BY <1>1, <1>2, <1>s DEF ExtEnd, LocalEnd, BeginExt, FailoverEmpty, FailoverTake, Refill
<1>3. CASE TopStop(t) \/ TopRun(t) \/ TopRecover(t) \/ Recovered(t) \/ AllClear(t)
    BY <1>1, <1>3, <1>s DEF TopStop, TopRun, TopRecover, BeginExt, Recovered, AllClear
<1>4. CASE SourcesShut(t) \/ SkipSource(t) \/ SourcesEnd(t) \/ Polled(t) \/ EndOfStream(t)
    BY <1>1, <1>4, <1>s DEF SourcesShut, SkipSource, SourcesEnd, Polled, EndOfStream
<1>5. CASE ReadyToFlush(t) \/ AllGathered(t) \/ Settled(t) \/ SettleCount(t) \/ BeginRound(t) \/ Leave(t)
    BY <1>1, <1>5, <1>s DEF ReadyToFlush, AllGathered, Settled, SettleCount, CountIdle, BeginRound, Leave
<1>6. CASE Gathering(t) \/ Settling(t) \/ BeginTurn(t) \/ Spinning(t)
    BY <1>1, <1>6, <1>s DEF Gathering, Settling, BeginTurn, Spinning, BeginCall
<1>7. CASE SetupTurn(t) \/ Mined(t) \/ EndTurn(t) \/ Hop(t) \/ SpinCount(t) \/ Rewire(t) \/ FlushDone(t)
    BY <1>1, <1>7, <1>s DEF SetupTurn, Mined, EndTurn, Hop, NextTurn, SpinCount, CountIdle, Rewire, FlushDone
<1> QED BY <1>2, <1>3, <1>4, <1>5, <1>6, <1>7 DEF Control, Exit

(* An entry from the failover queue goes to the thread of its kid. *)
LEMMA ControlOwn ==
    ASSUME RefInv, NEW t \in Threads, Control(t), Own
    PROVE  \A u \in Threads : OwnShared(shared_jobq'[u], u)
<1>1. \A u \in Threads : OwnShared(shared_jobq[u], u)
    BY DEF Own
<1>2. CASE UNCHANGED shared_jobq
    BY <1>1, <1>2
<1>3. CASE Refill(t)
    <2>1. PICK e : e = held[t]
        OBVIOUS
    <2>2. e \in SharedJobs
        BY <1>3, <2>1 DEF Refill, Step, RefInv, RefTypes
    <2>3. PICK v : v = thread_id[e.kid]
        OBVIOUS
    <2>4. shared_jobq' = shared_jobq \/ shared_jobq' = Set(shared_jobq, v, Append(shared_jobq[v], e))
        BY <1>3, <2>1, <2>3 DEF Refill
    <2>5. v \in Threads /\ shared_jobq \in [Threads -> Seq(SharedJobs)]
        BY <2>2, <2>3, EngineConstants DEF SharedJobs, RefInv, RefTypes
    <2>6. OwnShared(Append(shared_jobq[v], e), v)
        BY <1>1, <2>2, <2>3, <2>5, SharedAppend
    <2>7. shared_jobq' = shared_jobq \/
            (/\ OwnShared(shared_jobq'[v], v) /\ \A u \in Threads \ {v} : shared_jobq'[u] = shared_jobq[u])
        BY <2>4, <2>5, <2>6 DEF Set
    <2> QED BY <1>1, <2>7
<1> QED BY <1>2, <1>3 DEF Control, ExtEnd, LocalEnd, FailoverEmpty, FailoverTake, TopStop, TopRun, TopRecover,
       Recovered, AllClear, SourcesShut, SkipSource, SourcesEnd, Polled, EndOfStream,
       Exit, ReadyToFlush, AllGathered, Gathering, Settled, Settling, SettleCount, CountIdle,
       BeginRound, Leave, SetupTurn, BeginTurn, Mined, EndTurn, Hop, NextTurn, Spinning, SpinCount,
       Rewire, FlushDone, dispatchVars, queues

(* What a thread at an add, a mark or a scan is about to do. *)
LEMMA TargetOut ==
    ASSUME RefInv, Own, NEW t \in Threads, frame[t].at \in {"add", "unmark", "scan", "failover"}
    PROVE  Target(t) \in Writes(t) /\ Target(t) \in Threads
<1>1. /\ frame[t] \in KidFrames /\ frame[t].ext # <<>> /\ frame[t].ext \in Seq(Kids)
    BY FrameOf, FrameKinds DEF RefInv, RefTypes
<1>2. Outward(frame[t].ext, t)
    BY DEF Own, OwnFrame, JobIn
<1>3. Target(t) \in Writes(t)
    BY <1>1, <1>2, KidsTail DEF Target
<1> QED BY <1>3 DEF Writes

(* The marks: only the one writer of a thread's queue takes its mark away.   *)
LEMMA JobMarks ==
    ASSUME Ring, RefInv, MarkInv, NEW t \in Threads, JobStep(t)
    PROVE  /\ fullshq' \in [DOMAIN Sccs -> [Threads -> BOOLEAN]]
           /\ \A u \in Threads : Marked(u)'
<1>0. /\ RunJob(t) /\ 1 \in DOMAIN Sccs /\ fullshq \in [DOMAIN Sccs -> [Threads -> BOOLEAN]]
      /\ \A u \in Threads : Marked(u)
      /\ \A u \in Threads : frame[u].at \in {"add", "unmark", "scan", "failover"} => Own
    BY DEF JobStep, Ring, MarkInv, LocalPlaces
<1>1. /\ \A u \in Threads \ {t} : frame'[u] = frame[u]
      /\ frame'[t].at = "scan" => AddGivesUp(t) /\ frame'[t] = [frame[t] EXCEPT !.at = "scan"]
    BY <1>0, JobStepAt
<1>2. ASSUME NEW u \in Threads, frame'[u].at = "scan", frame'[u] = frame[u]
      PROVE  /\ At(u, "scan") /\ Recoverable(u) /\ fullshq[1][Target(u)] /\ Own
             /\ Target(u)' = Target(u) /\ Recoverable(u)'
    BY <1>0, <1>2 DEF Marked, At, Target, Recoverable
<1>3. CASE UNCHANGED fullshq /\ ~AddGivesUp(t)
    <2>1. ASSUME NEW u \in Threads PROVE Marked(u)'
        <3>1. CASE frame'[u].at = "scan"
            <4>1. u # t
                BY <1>1, <1>3, <3>1
            <4> QED BY <1>1, <1>2, <1>3, <3>1, <4>1 DEF Marked
        <3> QED BY <3>1 DEF Marked, At
    <2> QED BY <1>0, <1>3, <2>1
<1>4. CASE AddGivesUp(t)
    <2>1. frame[t].at = "add" /\ Recoverable(t)
        BY <1>4 DEF AddGivesUp, At
    <2>2. PICK v : v = Target(t)
        OBVIOUS
    <2>3. v \in Threads
        BY <1>0, <2>1, <2>2, TargetOut
    <2>4. fullshq' = [fullshq EXCEPT ![1][v] = TRUE]
        BY <1>4, <2>2 DEF AddGivesUp
    <2>5. /\ fullshq' \in [DOMAIN Sccs -> [Threads -> BOOLEAN]]
          /\ fullshq'[1][v] /\ \A u \in Threads : fullshq[1][u] => fullshq'[1][u]
        BY <1>0, <2>3, <2>4
    <2>6. ASSUME NEW u \in Threads PROVE Marked(u)'
        <3>1. CASE u = t
            <4>1. frame'[t] = [frame[t] EXCEPT !.at = "scan"] \/ frame'[t].at # "scan"
                BY <1>1
            <4>2. ASSUME frame'[t].at = "scan" PROVE Target(t)' = v /\ Recoverable(t)'
                <5>1. frame[t] \in KidFrames
                    BY <2>1, FrameOf DEF RefInv
                <5>2. frame'[t].ext = frame[t].ext
                    BY <4>1, <4>2, <5>1 DEF KidFrames
                <5> QED BY <2>1, <2>2, <5>2 DEF Target, Recoverable
            <4> QED BY <2>5, <3>1, <4>2 DEF Marked, At
        <3>2. CASE u # t /\ frame'[u].at = "scan"
            <4>1. frame'[u] = frame[u]
                BY <1>1, <3>2
            <4>2. Target(u) \in Threads
                BY <1>2, <3>2, <4>1, TargetOut DEF At
            <4> QED BY <1>2, <2>5, <3>2, <4>1, <4>2 DEF Marked
        <3> QED BY <3>1, <3>2 DEF Marked, At
    <2> QED BY <2>5, <2>6
<1>5. CASE Unmark(t)
    <2>1. frame[t].at = "unmark"
        BY <1>5 DEF Unmark, At
    <2>2. PICK v : v = Target(t)
        OBVIOUS
    <2>3. v \in Threads /\ v \in Writes(t)
        BY <1>0, <2>1, <2>2, TargetOut
    <2>4. fullshq' = [fullshq EXCEPT ![1][v] = FALSE]
        BY <1>5, <2>2 DEF Unmark
    <2>5. /\ fullshq' \in [DOMAIN Sccs -> [Threads -> BOOLEAN]]
          /\ \A u \in Threads \ {v} : fullshq'[1][u] = fullshq[1][u]
        BY <1>0, <2>3, <2>4
    <2>6. ASSUME NEW u \in Threads PROVE Marked(u)'
        <3>1. CASE frame'[u].at = "scan"
            <4>1. u # t
                <5>1. ~AddGivesUp(t)
                    BY <2>1 DEF AddGivesUp, At
                <5> QED BY <1>1, <3>1, <5>1
            <4>2. /\ frame'[u] = frame[u] /\ At(u, "scan") /\ Recoverable(u) /\ fullshq[1][Target(u)]
                  /\ Target(u)' = Target(u) /\ Recoverable(u)'
                BY <1>1, <1>2, <3>1, <4>1
            <4>3. Target(u) \in Writes(u) /\ Target(u) \in Threads
                BY <1>0, <4>2, TargetOut DEF At
            <4>4. Target(u) \in Sccs[1]
                BY <4>2 DEF Recoverable, mimo_thread_in_cycle, Ring
            <4>5. Target(u) # v
                BY <2>3, <4>1, <4>3, <4>4 DEF Ring
            <4> QED BY <2>5, <4>2, <4>3, <4>5 DEF Marked
        <3> QED BY <3>1 DEF Marked, At
    <2> QED BY <2>5, <2>6
<1>6. AddGivesUp(t) \/ Unmark(t) \/ (UNCHANGED fullshq /\ ~AddGivesUp(t))
    BY <1>0 DEF RunJob, DeleteParent, DeleteDone, Call, JobDone, EmitsDone, Emit, PushNext, PushDone, AddJob,
       NoDeadlockSeen, ShutFirehose, FailOver, recovery
<1> QED BY <1>3, <1>4, <1>5, <1>6

(* When thread 0 redirects the output, nobody is in a job. *)
LEMMA RewireIsQuiet ==
    ASSUME ExitInv, Busy, Rewire(0)
    PROVE  \A u \in Threads : frame[u] = NoFrame
<1>1. pc[0] = "rewire" /\ frame[0] = NoFrame /\ Where(0) = "rewire"
    BY DEF Rewire, Step, Where, Calling
<1>2. RoundsOver
    BY <1>1, ThreadsFacts DEF ExitInv, Phase, BeforeRound, BeforeTurn, DuringTurn, Taking, Through, AfterTurn,
       Over, Looping, Running
<1>3. ASSUME NEW u \in Threads, u # 0 PROVE pc[u] \notin {"ext", "local", "flush", "sources"}
    <2>1. Where(u) \in {"round", "bar4"}
        BY <1>2, <1>3 DEF RoundsOver
    <2>2. back[u] \in {"top", "recovered", "clear", "gather", "settling", "spun", "mined"}
        BY DEF ExitInv, ControlOK
    <2> QED BY <2>1, <2>2 DEF Where, Calling
<1> QED BY <1>1, <1>3 DEF Busy

LEMMA RewiredStays ==
    ASSUME NEW t \in Threads, Thread(t), ~Rewire(t)
    PROVE  rewired' = rewired
BY DEF Thread, JobStep, RunJob, DeleteParent, DeleteDone, Call, JobDone, EmitsDone, Emit, PushNext, PushDone, AddJob,
   Unmark, AddGivesUp, NoDeadlockSeen, ShutFirehose, FailOver, Batch, ExtJob, ExtEnd, LocalJob, LocalEnd,
   FailoverEmpty, FailoverTake, Refill, Run, TopStop, TopRun, TopRecover, Recovered, AllClear, SourcesShut,
   SkipSource, PollSource, SourcesEnd, Polled, EndOfStream, Exit, ReadyToFlush, AllGathered, Gathering, Settled,
   Settling, SettleCount, CountIdle, BeginRound, Leave, SetupTurn, BeginTurn, Mined, EndTurn, Hop, Spinning,
   SpinCount, FlushDone, dispatchVars

(* A job begins with the call of a kid. *)
LEMMA JobBegins ==
    ASSUME RefInv, ControlTypes, NEW t \in Threads, ExtJob(t) \/ LocalJob(t) \/ PollSource(t)
    PROVE  /\ frame'[t].at = "call" /\ \A u \in Threads \ {t} : frame'[u] = frame[u]
           /\ pc'[t] \in {"ext", "local", "flush", "sources"} /\ \A u \in Threads \ {t} : pc'[u] = pc[u]
           /\ UNCHANGED fullshq
<1>t. frame \in [Threads -> {NoFrame} \cup RunFrames \cup DeleteFrames]
    BY DEF RefInv, RefTypes
<1>1. ASSUME NEW d, NEW s, NEW h, frame' = Set(frame, t, JobFrame(d, s, h))
      PROVE  frame'[t].at = "call" /\ \A u \in Threads \ {t} : frame'[u] = frame[u]
    <2>1. PICK g : g = JobFrame(d, s, h)
        OBVIOUS
    <2>2. frame'[t] = g /\ \A u \in Threads \ {t} : frame'[u] = frame[u]
        BY <1>t, <1>1, <2>1 DEF Set
    <2> QED BY <2>1, <2>2 DEF JobFrame
<1>2. CASE ExtJob(t)
    <2>1. UNCHANGED <<pc, fullshq>> /\ pc[t] = "ext"
        BY <1>2 DEF ExtJob, recovery
    <2>2. PICK job : job = Head(shared_jobq[t])
        OBVIOUS
    <2>3. PICK s : s = <<job.kid>>
        OBVIOUS
    <2>4. frame' = Set(frame, t, JobFrame(job.data, s, job.hops))
        BY <1>2, <2>2, <2>3 DEF ExtJob
    <2> QED BY <1>1, <2>1, <2>4
<1>3. CASE LocalJob(t)
    <2>1. UNCHANGED <<pc, fullshq>> /\ pc[t] \in {"local", "flush"}
        BY <1>3 DEF LocalJob, recovery
    <2>2. PICK job : job = Head(jobq[t])
        OBVIOUS
    <2>3. frame' = Set(frame, t, JobFrame(job.data, job.subs, job.hops))
        BY <1>3, <2>2 DEF LocalJob
    <2> QED BY <1>1, <2>1, <2>3
<1>4. CASE PollSource(t)
    <2>1. UNCHANGED fullshq /\ pc' = [pc EXCEPT ![t] = "sources"]
        BY <1>4 DEF PollSource, Step, recovery
    <2>2. pc'[t] = "sources" /\ \A u \in Threads \ {t} : pc'[u] = pc[u]
        BY <2>1 DEF ControlTypes
    <2>3. PICK k : k = Sources[src[t]]
        OBVIOUS
    <2>4. PICK s : s = IF input[k] > 0 THEN <<k>> ELSE <<>>
        OBVIOUS
    <2>5. frame' = Set(frame, t, JobFrame(FreshData, s, MaxHops))
        BY <1>4, <2>3, <2>4 DEF PollSource
    <2> QED BY <1>1, <2>1, <2>2, <2>5
<1> QED BY <1>2, <1>3, <1>4

LEMMA OwnKept ==
    ASSUME RefInv, ControlTypes, NEW t \in Threads, Thread(t), Own, ~rewired
    PROVE  Own'
<1>0. OwnFrame(JobIn(frame[t]), t)
    BY DEF Own
<1>1. ASSUME Touches(t), OwnFrame(JobIn(frame'[t]), t) PROVE Own'
    <2>1. ASSUME NEW u \in Threads
          PROVE  /\ OwnLocal(jobq'[u], u) /\ OwnShared(shared_jobq'[u], u)
                 /\ OwnFrame(JobIn(frame'[u]), u)
        <3>1. CASE u = t
            BY <1>1, <3>1 DEF Touches
        <3>2. CASE u # t
            BY <1>1, <3>2 DEF Touches, Own
        <3> QED BY <3>1, <3>2
    <2> QED BY <2>1 DEF Own, OwnLocal, OwnShared, OwnFrame, JobIn, OwnKids, Outward
<1>2. CASE JobStep(t)
    <2>1. RunJob(t)
        BY <1>2 DEF JobStep
    <2> QED BY <1>0, <1>1, <1>2, <2>1, JobTouches, JobStepFrame
<1>3. CASE ExtJob(t) \/ LocalJob(t)
    BY <1>1, <1>3, TakeTouches
<1>4. CASE PollSource(t)
    BY <1>1, <1>4, PollTouches
<1>5. CASE Control(t)
    <2>1. UNCHANGED <<jobq, frame>> /\ \A u \in Threads : OwnShared(shared_jobq'[u], u)
        BY <1>5, ControlStays, ControlOwn
    <2>2. ASSUME NEW u \in Threads
          PROVE  /\ OwnLocal(jobq'[u], u) /\ OwnShared(shared_jobq'[u], u)
                 /\ OwnFrame(JobIn(frame'[u]), u)
        BY <2>1 DEF Own
    <2> QED BY <2>2 DEF Own, OwnLocal, OwnShared, OwnFrame, JobIn, OwnKids, Outward
<1> QED BY <1>2, <1>3, <1>4, <1>5, ThreadKinds

LEMMA MarkKept ==
    ASSUME Ring, ExitInv, RefInv, MarkInv, [Next]_vars
    PROVE  MarkInv'
<1>0. /\ ControlTypes /\ Busy /\ ControlOK' /\ 0 \in Threads
      /\ \A t \in Threads : Marked(t)
    BY ExitInvKept, ThreadsFacts DEF MarkInv, ExitInv
<1>1. ControlTypes'
    BY <1>0, DomainsKept DEF ControlOK, ControlTypes, Backs
<1>2. ASSUME UNCHANGED <<jobq, shared_jobq, frame, fullshq, rewired>>, Busy' PROVE MarkInv'
    <2>1. Own' <=> Own
        BY <1>2 DEF Own
    <2>2. \A t \in Threads : Marked(t)'
        BY <1>0, <1>2 DEF Marked, At, Target, Recoverable
    <2> QED BY <1>1, <1>2, <2>1, <2>2 DEF MarkInv
<1>3. CASE Barrier
    <2>1. UNCHANGED <<jobq, shared_jobq, frame, fullshq, rewired>> /\ \A t \in Threads : frame[t] = NoFrame
        BY <1>3 DEF Barrier, dispatchVars, queues, recovery
    <2> QED BY <1>2, <2>1 DEF Busy
<1>4. CASE Interrupt \/ AllDone \/ UNCHANGED vars
    BY <1>0, <1>2, <1>4 DEF Interrupt, AllDone, vars, dispatchVars, queues, recovery, control, Busy
<1>5. ASSUME NEW t \in Threads, Thread(t) PROVE MarkInv'
    <2>1. CASE JobStep(t)
        <3>1. RunJob(t) /\ UNCHANGED pc /\ ~Rewire(t) /\ frame[t] # NoFrame
            <4>1. RunJob(t) /\ UNCHANGED pc
                BY <2>1 DEF JobStep, control
            <4> QED BY <4>1, NoJob DEF Rewire, Step
        <3>2. rewired' = rewired
            BY <1>5, <3>1, RewiredStays
        <3>3. Busy'
            <4>1. \A u \in Threads \ {t} : frame'[u] = frame[u]
                BY <3>1, JobStepAt
            <4> QED BY <1>0, <3>1, <4>1 DEF Busy
        <3>4. rewired => \A u \in Threads : frame'[u].at \in LocalPlaces
            BY <3>1, JobStepAt DEF MarkInv
        <3>5. ~rewired => Own'
            BY <1>0, <1>5, OwnKept DEF MarkInv
        <3> QED BY <1>1, <2>1, <3>2, <3>3, <3>4, <3>5, JobMarks DEF MarkInv
    <2>2. CASE ExtJob(t) \/ LocalJob(t) \/ PollSource(t)
        <3>1. /\ frame'[t].at = "call" /\ \A u \in Threads \ {t} : frame'[u] = frame[u]
              /\ pc'[t] \in {"ext", "local", "flush", "sources"} /\ \A u \in Threads \ {t} : pc'[u] = pc[u]
              /\ UNCHANGED fullshq
            BY <1>0, <2>2, JobBegins
        <3>2. rewired' = rewired
            BY <2>2 DEF ExtJob, LocalJob, PollSource
        <3>3. Busy'
            BY <1>0, <3>1 DEF Busy
        <3>4. rewired => \A u \in Threads : frame'[u].at \in LocalPlaces
            BY <3>1 DEF MarkInv, LocalPlaces
        <3>5. ~rewired => Own'
            BY <1>0, <1>5, OwnKept DEF MarkInv
        <3>6. ASSUME NEW u \in Threads PROVE Marked(u)'
            <4>1. CASE u = t
                BY <3>1, <4>1 DEF Marked, At
            <4>2. CASE u # t
                BY <1>0, <3>1, <4>2 DEF Marked, At, Target, Recoverable
            <4> QED BY <4>1, <4>2
        <3> QED BY <1>1, <3>1, <3>2, <3>3, <3>4, <3>5, <3>6 DEF MarkInv
    <2>3. CASE Control(t)
        <3>1. /\ frame[t] = NoFrame /\ UNCHANGED <<jobq, frame, fullshq>>
              /\ \A u \in Threads \ {t} : pc'[u] = pc[u]
            BY <1>0, <2>3, ControlStays
        <3>2. Busy'
            BY <1>0, <3>1 DEF Busy
        <3>3. \A u \in Threads : Marked(u)'
            BY <1>0, <3>1 DEF Marked, At, Target, Recoverable
        <3>4. CASE Rewire(t)
            <4>1. Where(t) = "rewire"
                BY <3>4 DEF Rewire, Step, Where, Calling
            <4>2. t = 0
                BY <4>1, ThreadsFacts DEF ExitInv, Phase, BeforeRound, BeforeTurn, DuringTurn, Taking, Through,
                   AfterTurn, RoundsOver, Over, Looping, Running
            <4>3. \A u \in Threads : frame[u] = NoFrame
                BY <1>0, <3>4, <4>2, RewireIsQuiet
            <4>4. \A u \in Threads : frame'[u].at \in LocalPlaces
                BY <3>1, <4>3 DEF NoFrame, LocalPlaces
            <4>5. rewired'
                BY <3>4 DEF Rewire
            <4> QED BY <1>1, <3>1, <3>2, <3>3, <4>4, <4>5 DEF MarkInv
        <3>5. CASE ~Rewire(t)
            <4>1. rewired' = rewired
                BY <1>5, <3>5, RewiredStays
            <4>2. ~rewired => Own'
                BY <1>0, <1>5, OwnKept DEF MarkInv
            <4>3. rewired => \A u \in Threads : frame'[u].at \in LocalPlaces
                BY <3>1 DEF MarkInv
            <4> QED BY <1>1, <3>1, <3>2, <3>3, <4>1, <4>2, <4>3 DEF MarkInv
        <3> QED BY <3>4, <3>5
    <2> QED BY <1>5, <2>1, <2>2, <2>3, ThreadKinds
<1> QED BY <1>3, <1>4, <1>5 DEF Next

LEMMA InitMarkInv == Init => MarkInv
<1> SUFFICES ASSUME Init PROVE MarkInv
    OBVIOUS
<1>1. /\ fullshq = [i \in DOMAIN Sccs |-> [t \in Threads |-> FALSE]] /\ ~rewired
      /\ frame = [t \in Threads |-> NoFrame]
    BY DEF Init, DispatchInit
<1>2. \A t \in Threads : Marked(t)
    BY <1>1 DEF Marked, At, NoFrame
<1> QED BY <1>1, <1>2, InitSteady DEF MarkInv, Steady

(* When every thread of the cycle was refused by the next one, every mark of *)
(* the cycle is set, whatever the threads did before: ws_set_outdata sees    *)
(* the deadlock (mimo_cycle_deadlock_exist).  In a graph with a second cycle *)
(* it does not.                                                              *)
THEOREM RingDeadlockIsSeen == ASSUME Ring PROVE Spec => []DeadlockSeen
<1>1. Spec => []ExitInv
    BY InitExitInv, ExitInvKept, PTL DEF Spec
<1>2. ExitInv /\ RefInv /\ SrcOK /\ [Next]_vars => RefInv' /\ SrcOK'
    BY RefInvKept, SrcKept DEF ExitInv
<1>3. ExitInv /\ RefInv /\ MarkInv /\ [Next]_vars => MarkInv'
    BY MarkKept
<1>4. MarkInv => DeadlockSeen
    <2> SUFFICES ASSUME MarkInv, NEW c \in Range(Sccs), \A t \in c : At(t, "scan") /\ Full(t, Target(t)),
                        {Target(t) : t \in c} = c
                 PROVE  mimo_cycle_deadlock_exist
        BY DEF DeadlockSeen
    <2>1. c = Sccs[1] /\ 1 \in DOMAIN Sccs
        BY DEF Range, Ring
    <2>2. c \subseteq Threads
        BY SccsAreTheCycles
    <2>3. ASSUME NEW u \in c PROVE fullshq[1][u]
        <3>1. PICK t \in c : u = Target(t)
            OBVIOUS
        <3> QED BY <2>2, <3>1 DEF MarkInv, Marked
    <2> QED BY <2>1, <2>3 DEF mimo_cycle_deadlock_exist
<1> QED BY <1>1, <1>2, <1>3, <1>4, InitRefInv, InitMarkInv, PTL DEF Spec
=============================================================================
