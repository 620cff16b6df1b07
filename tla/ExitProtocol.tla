---------------------------- MODULE ExitProtocol ----------------------------
(***************************************************************************)
(* The end of a run (the second half of mimo_run_threaded_graph, and       *)
(* ws_empty_allqueues_synchronously): a thread that left its loop first    *)
(* waits until all have, then until no thread seems to have an external    *)
(* job; then the threads take turns, thread ithread running everything it  *)
(* has queued while the others run external jobs only, until work_size     *)
(* turns in a row found no job.  Thread 0 then flushes the kids.           *)
(* spinning_on_jobs counts the threads whose last look at their external   *)
(* queue found a job; it is read without the lock that guards its updates. *)
(***************************************************************************)
EXTENDS Engine

-----------------------------------------------------------------------------
(* One call of ws_execute_only_external_jobs, or of mimo_run_exiting_graph *)
(* ("mined"): first an entry of the failover queue, if the graph has a     *)
(* cycle (mimo->mgc).                                                      *)
BeginCall(t, from, b) ==
    /\ Step(t, from, IF graph_has_cycle THEN "failover"
                     ELSE IF b = "mined" THEN "local" ELSE "ext")
    /\ back' = Set(back, t, b)
    /\ extcnt' = Set(extcnt, t, 0)
    /\ worked' = Set(worked, t, FALSE)

ReadyToFlush(t) ==
    /\ Step(t, "stopped", "gather")
    /\ ready_to_flush' = ready_to_flush + 1
    /\ UNCHANGED <<dispatchVars, back, extcnt, worked, held, src, src_out, ithread, toggle,
                   input, do_exit, num_src_threads, spinning_on_jobs, ready_to_exit,
                   hop_to_next_thread_locext>>

(* The do loop until ready_to_flush = work_size, at once with one thread. *)
AllGathered(t) ==
    /\ ready_to_flush = work_size
    /\ Step(t, "gather", "settle")
    /\ UNCHANGED <<dispatchVars, back, extcnt, worked, held, src, src_out, ithread, toggle,
                   input, exitVars>>

Gathering(t) ==
    /\ ready_to_flush # work_size
    /\ BeginCall(t, "gather", "gather")
    /\ UNCHANGED <<dispatchVars, held, src, src_out, ithread, toggle, input, exitVars>>

(* A plausible error: the wait for the external queues is left out. *)
SettledAtOnce(t) ==
    /\ Step(t, "settle", "round")
    /\ UNCHANGED <<dispatchVars, back, extcnt, worked, held, src, src_out, ithread, toggle,
                   input, exitVars>>

(* The while loop until spinning_on_jobs = 0. *)
Settled(t) ==
    /\ spinning_on_jobs = 0
    /\ Step(t, "settle", "round")
    /\ UNCHANGED <<dispatchVars, back, extcnt, worked, held, src, src_out, ithread, toggle,
                   input, exitVars>>

Settling(t) ==
    /\ spinning_on_jobs # 0
    /\ BeginCall(t, "settle", "settling")
    /\ UNCHANGED <<dispatchVars, held, src, src_out, ithread, toggle, input, exitVars>>

(* Under mimo->lock, only when the answer differs from the last one. *)
CountIdle(t, from, to) ==
    /\ Step(t, from, to)
    /\ toggle' = Set(toggle, t, IF worked[t] THEN 0 ELSE 1)
    /\ spinning_on_jobs' =
         CASE ~worked[t] /\ toggle[t] = 0 -> spinning_on_jobs - 1
           [] worked[t] /\ toggle[t] = 1 -> spinning_on_jobs + 1
           [] OTHER -> spinning_on_jobs
    /\ UNCHANGED <<dispatchVars, back, extcnt, worked, held, src, src_out, ithread, input,
                   do_exit, num_src_threads, ready_to_flush, ready_to_exit,
                   hop_to_next_thread_locext>>

SettleCount(t) == CountIdle(t, "settling", "settle")

-----------------------------------------------------------------------------
(* The rounds of turns.                                                    *)

BeginRound(t) ==
    /\ ready_to_exit < work_size
    /\ Step(t, "round", "bar1")
    /\ ithread' = Set(ithread, t, 0)
    /\ toggle' = Set(toggle, t, 0)
    /\ UNCHANGED <<dispatchVars, back, extcnt, worked, held, src, src_out, input, exitVars>>

Leave(t) ==
    /\ ready_to_exit >= work_size
    /\ Step(t, "round", IF t = 0 THEN "rewire" ELSE "bar4")
    /\ UNCHANGED <<dispatchVars, back, extcnt, worked, held, src, src_out, ithread, toggle,
                   input, exitVars>>

(* A plausible error: the hop of the turn before is left standing. *)
SetupTurnKeepsHop(t) ==
    /\ Step(t, "setup", "bar2")
    /\ spinning_on_jobs' = work_size - 1
    /\ UNCHANGED <<dispatchVars, back, extcnt, worked, held, src, src_out, ithread, toggle,
                   input, do_exit, num_src_threads, ready_to_flush, ready_to_exit,
                   hop_to_next_thread_locext>>

(* Thread 0, between the two barriers of a turn. *)
SetupTurn(t) ==
    /\ Step(t, "setup", "bar2")
    /\ hop_to_next_thread_locext' = FALSE
    /\ spinning_on_jobs' = work_size - 1
    /\ UNCHANGED <<dispatchVars, back, extcnt, worked, held, src, src_out, ithread, toggle,
                   input, do_exit, num_src_threads, ready_to_flush, ready_to_exit>>

BeginTurn(t) ==
    /\ ithread[t] = t
    /\ BeginCall(t, "turn", "mined")
    /\ UNCHANGED <<dispatchVars, held, src, src_out, ithread, toggle, input, exitVars>>

(* A plausible error: a turn that ran jobs does not restart the count. *)
MinedNoReset(t) ==
    /\ Step(t, "mined", "hop")
    /\ ready_to_exit' = ready_to_exit + 1
    /\ UNCHANGED <<dispatchVars, back, extcnt, worked, held, src, src_out, ithread, toggle,
                   input, do_exit, num_src_threads, ready_to_flush, spinning_on_jobs,
                   hop_to_next_thread_locext>>

Mined(t) ==
    /\ Step(t, "mined", "hop")
    /\ ready_to_exit' = IF worked[t] THEN 0 ELSE ready_to_exit + 1
    /\ UNCHANGED <<dispatchVars, back, extcnt, worked, held, src, src_out, ithread, toggle,
                   input, do_exit, num_src_threads, ready_to_flush, spinning_on_jobs,
                   hop_to_next_thread_locext>>

(* The for loop: the next turn, or the barrier at the end of the round. *)
NextTurn(t, from) ==
    /\ Step(t, from, IF ithread[t] + 1 < work_size THEN "bar1" ELSE "bar3")
    /\ ithread' = Set(ithread, t, ithread[t] + 1)
    /\ toggle' = Set(toggle, t, 0)

(* A plausible error: the thread whose turn ended does not say so. *)
EndTurnSilently(t) ==
    /\ NextTurn(t, "hop")
    /\ UNCHANGED <<dispatchVars, back, extcnt, worked, held, src, src_out, input, exitVars>>

EndTurn(t) ==
    /\ NextTurn(t, "hop")
    /\ hop_to_next_thread_locext' = TRUE
    /\ UNCHANGED <<dispatchVars, back, extcnt, worked, held, src, src_out, input, do_exit,
                   num_src_threads, ready_to_flush, spinning_on_jobs, ready_to_exit>>

Hop(t) ==
    /\ ithread[t] # t /\ hop_to_next_thread_locext /\ spinning_on_jobs = 0
    /\ NextTurn(t, "turn")
    /\ UNCHANGED <<dispatchVars, back, extcnt, worked, held, src, src_out, input, exitVars>>

Spinning(t) ==
    /\ ithread[t] # t /\ ~(hop_to_next_thread_locext /\ spinning_on_jobs = 0)
    /\ BeginCall(t, "turn", "spun")
    /\ UNCHANGED <<dispatchVars, held, src, src_out, ithread, toggle, input, exitVars>>

SpinCount(t) == CountIdle(t, "spun", "turn")

(* Thread 0 redirects all output to its own local queue, and flushes.      *)
Rewire(t) ==
    /\ Step(t, "rewire", "flush")
    /\ rewired' = TRUE
    /\ UNCHANGED <<queues, recovery, dataVars, frame, back, extcnt, worked, held, src, src_out,
                   ithread, toggle, input, exitVars>>

(* Without a kid to flush, what is in the local queue stays there. *)
FlushDone(t) ==
    /\ jobq[t] = <<>> \/ ~Flushers
    /\ Step(t, "flush", "bar4")
    /\ UNCHANGED <<dispatchVars, back, extcnt, worked, held, src, src_out, ithread, toggle,
                   input, exitVars>>

(* pthread_barrier_wait: the last thread to arrive releases all, wherever  *)
(* in the code each of them waits.                                         *)
AtBarrier(t) == pc[t] \in {"bar1", "bar2", "bar3", "bar4"}
PastBarrier(t) ==
    CASE pc[t] = "bar1" -> IF t = 0 THEN "setup" ELSE "bar2"
      [] pc[t] = "bar2" -> "turn"
      [] pc[t] = "bar3" -> "round"
      [] pc[t] = "bar4" -> "done"

Barrier ==
    /\ \A t \in Threads : AtBarrier(t) /\ frame[t] = NoFrame
    /\ pc' = [t \in Threads |-> PastBarrier(t)]
    /\ UNCHANGED <<dispatchVars, back, extcnt, worked, held, src, src_out, ithread, toggle,
                   input, exitVars>>

Exit(t) ==
    \/ ReadyToFlush(t) \/ AllGathered(t) \/ Gathering(t)
    \/ Settled(t) \/ Settling(t) \/ SettleCount(t)
    \/ BeginRound(t) \/ Leave(t) \/ SetupTurn(t) \/ BeginTurn(t) \/ Mined(t) \/ EndTurn(t)
    \/ Hop(t) \/ Spinning(t) \/ SpinCount(t) \/ Rewire(t) \/ FlushDone(t)

JobStep(t) == RunJob(t) /\ UNCHANGED <<control, input, exitVars>>

Thread(t) == JobStep(t) \/ Batch(t) \/ Run(t) \/ Exit(t)

AllDone == (\A t \in Threads : pc[t] = "done") /\ UNCHANGED vars

Next == Barrier \/ Interrupt \/ AllDone \/ \E t \in Threads : Thread(t)

(* Every thread keeps running, and a barrier lets the threads go. *)
Fairness == WF_vars(Barrier) /\ \A t \in Threads : WF_vars(Thread(t))

Spec == Init /\ [][Next]_vars
FairSpec == Spec /\ Fairness

-----------------------------------------------------------------------------
Running == {"top", "recovered", "clear", "sources", "polled", "eos"}
Turns == {"bar1", "setup", "bar2", "turn", "spun", "mined", "hop", "bar3", "round"}
Places == Running \cup Turns \cup
    {"ext", "local", "failover", "refill", "stopped", "gather", "settle", "settling",
     "rewire", "flush", "bar4", "done"}

Jobs == [kid : Kids, data : Items, from : Threads, hops : 0 .. MaxHops]

TypeOK ==
    /\ pc \in [Threads -> Places]
    /\ references \in [Items -> Nat] /\ pool \subseteq Items
    /\ \A t \in Threads :
        /\ shared_jobq[t] \in Seq(Jobs) /\ failoverq[t] \in Seq(Jobs)
        /\ \A u \in Threads : Cardinality({i \in DOMAIN shared_jobq[t] : shared_jobq[t][i].from = u})
                                <= QueueLength
    /\ spinning_on_jobs \in 0 .. work_size
    /\ num_src_threads \in 0 .. work_size /\ ready_to_flush \in 0 .. work_size
    /\ ready_to_exit \in 0 .. 2 * work_size

(* Each reference of a piece of data is accounted for by a queue entry, by *)
(* a thread that runs, emits or adds it, or by data that was made from it, *)
(* and data without a reference is free or about to be:                    *)
(* wsdata_add_reference and wsdata_delete match along every path through   *)
(* ws_set_outdata, the shared queues, the failover queues, the flush and   *)
(* the delete of children on other threads, so that neither a job nor a    *)
(* child finds its data freed and none is leaked.                          *)
Holds(d) == {t \in Threads : pc[t] = "refill" /\ held[t].data = d}
ReferencesExact ==
    /\ \A d \in Items :
        references[d] = Cardinality(Queued(jobq, d)) + Cardinality(Queued(shared_jobq, d))
                        + Cardinality(Queued(failoverq, d)) + Cardinality(Runs(d))
                        + Cardinality(Emits(d)) + Cardinality(Adds(d))
                        + Cardinality(Holds(d)) + Cardinality(Children(d))
    /\ pool = {d \in Items : references[d] = 0} \ Dying

(* Threads in the rounds wait at the same barrier of the same turn, and    *)
(* only the thread whose turn it is runs its local jobs: no update of      *)
(* ready_to_exit, hop_to_next_thread_locext or spinning_on_jobs lets a     *)
(* thread slip past a barrier the others still wait for.                   *)
InTurn(t) == \/ pc[t] \in {"bar1", "setup", "bar2", "turn", "spun", "mined", "hop", "bar3"}
             \/ back[t] \in {"spun", "mined"} /\ pc[t] \in {"failover", "refill", "local", "ext"}
TurnsAgree ==
    /\ \A t, u \in Threads : AtBarrier(t) /\ AtBarrier(u) =>
            /\ pc[t] = pc[u]
            /\ pc[t] # "bar4" => ithread[t] = ithread[u]
    /\ \A t, u \in Threads : InTurn(t) /\ pc[u] = "local" => back[u] = "mined" /\ ithread[t] = u

(* Jobs only go to threads with higher numbers, as when the threads of a   *)
(* configuration are numbered along the stream, from the sources on.       *)
Forward == ~graph_has_cycle /\ \A t \in Threads : \A u \in Writes(t) : t < u

(* "At this point, all queues are empty of jobs" (the comment before the   *)
(* flush in mimo_run_threaded_graph).                                      *)
EmptyAtFlush ==
    pc[0] = "rewire" =>
        \A t \in Threads : jobq[t] = <<>> /\ shared_jobq[t] = <<>> /\ failoverq[t] = <<>>

(* "ensure that no thread hangs because it cannot enqueue/write metadata   *)
(* in the shared (external) queue of a thread who may be in a barrier_wait"*)
(* (the comment before the while loop on spinning_on_jobs): no thread      *)
(* waits at a barrier while another waits for room in its shared queue.    *)
NoHang ==
    \A t \in Threads :
        frame[t] # NoFrame /\ At(t, "add") /\ Full(t, Target(t)) => ~AtBarrier(Target(t))

(* No job is lost: once all threads are done, all data is free again. *)
NothingLeft == (\A t \in Threads : pc[t] = "done") => pool = Items

(* Once the sources have delivered their last item, all threads get        *)
(* through the protocol: no barrier, turn or count keeps one of them.      *)
Exits == <>(\A t \in Threads : pc[t] = "done")

(* The threads have one cycle, each thread of it written to by one other.  *)
Ring == DOMAIN Sccs = {1} /\ \A u \in Sccs[1] : \A t, v \in Threads : u \in Writes(t) \cap Writes(v) => t = v

(* "we belong to a cycle in the graph...recover from any potential         *)
(* deadlock" (ws_set_outdata): when each thread of a cycle was refused by  *)
(* the full queue of the next one, the check for a deadlock finds it.      *)
DeadlockSeen ==
    \A c \in Range(Sccs) :
        /\ \A t \in c : At(t, "scan") /\ Full(t, Target(t))
        /\ {Target(t) : t \in c} = c
        => mimo_cycle_deadlock_exist

(* "restore normal processing if all queues are empty" (ws_execute_graph): *)
(* sources that were turned off for a deadlock are turned on again, unless *)
(* the run ends first.                                                     *)
Recovers == deadlock_firehose_shutoff ~> (~deadlock_firehose_shutoff \/ do_exit)

(* "check all failover queues and restore normal processing if all queues  *)
(* are empty" (ws_execute_graph): the sources are on only while no job     *)
(* waits in a failover queue.                                              *)
SourcesOffWhileFailedOver ==
    ~deadlock_firehose_shutoff => \A t \in Threads : failoverq[t] = <<>>
=============================================================================
