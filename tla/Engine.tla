------------------------------- MODULE Engine -------------------------------
(***************************************************************************)
(* The worker threads of waterslide-parallel: the loop that polls the      *)
(* sources and runs the queued jobs (ws_execute_graph), the end of the     *)
(* streams or a Ctrl-C, and the protocol by which all threads agree that   *)
(* the queues are empty before thread 0 flushes the kids                   *)
(* (mimo_run_threaded_graph in src/src/include/shared/mimo_shared.h and    *)
(* ws_empty_allqueues_synchronously in wsprocess_shared.h).  The jobs      *)
(* themselves are run by module Dispatch.                                  *)
(***************************************************************************)
EXTENDS Dispatch

CONSTANTS
    Sources,            \* mimo->proc_sources: a sequence of kids
    Input,              \* Input[k]: how many items source k delivers
    MAX_EXTJOBS_LIMIT,  \* external jobs run in a row
    CtrlC,              \* whether the user may interrupt the run
    Flushers            \* whether a kid subscribes to the flush

ASSUME SourceConstants ==
    /\ Sources \in Seq(Kids) /\ Input \in [Range(Sources) -> Nat]
    /\ MAX_EXTJOBS_LIMIT \in Nat \ {0} /\ CtrlC \in BOOLEAN /\ Flushers \in BOOLEAN

VARIABLES
    pc,                 \* where each thread is between jobs
    back,               \* where the batch of external jobs returns to
    extcnt,             \* external jobs run in this batch
    worked,             \* whether this call has run a job
    held,               \* the failover entry a thread has taken out
    src,                \* the next source to poll
    src_out,            \* whether a source delivered
    ithread, toggle,    \* the turn and the idle mark in the exit protocol
    input,              \* what the sources have left
    do_exit, num_src_threads,
    ready_to_flush, spinning_on_jobs, ready_to_exit, hop_to_next_thread_locext

control == <<pc, back, extcnt, worked, held, src, src_out, ithread, toggle>>
exitVars == <<do_exit, num_src_threads, ready_to_flush, spinning_on_jobs,
              ready_to_exit, hop_to_next_thread_locext>>
vars == <<dispatchVars, control, input, exitVars>>

NoEntry == [at |-> "none"]
HasSource(t) == \E i \in DOMAIN Sources : thread_id[Sources[i]] = t

Init ==
    /\ DispatchInit
    /\ pc = [t \in Threads |-> "top"]
    /\ back = [t \in Threads |-> "top"]
    /\ extcnt = [t \in Threads |-> 0]
    /\ worked = [t \in Threads |-> FALSE]
    /\ held = [t \in Threads |-> NoEntry]
    /\ src = [t \in Threads |-> 1]
    /\ src_out = [t \in Threads |-> FALSE]
    /\ ithread = [t \in Threads |-> 0]
    /\ toggle = [t \in Threads |-> 0]
    /\ input = Input
    /\ do_exit = FALSE
    /\ num_src_threads = Cardinality({t \in Threads : HasSource(t)})
    /\ ready_to_flush = 0 /\ ready_to_exit = 0
    /\ spinning_on_jobs = work_size
    /\ hop_to_next_thread_locext = FALSE

(* A control step of t: no job is running. *)
Step(t, from, to) ==
    /\ pc[t] = from /\ frame[t] = NoFrame
    /\ pc' = [pc EXCEPT ![t] = to]

Set(v, t, x) == [v EXCEPT ![t] = x]

-----------------------------------------------------------------------------
(* The shared batch of external jobs (ws_do_external_jobs).                *)

ExtJob(t) ==
    /\ pc[t] = "ext" /\ frame[t] = NoFrame
    /\ extcnt[t] < MAX_EXTJOBS_LIMIT /\ shared_jobq[t] # <<>>
    /\ LET job == Head(shared_jobq[t])
       IN  frame' = Set(frame, t, JobFrame(job.data, <<job.kid>>, job.hops))
    /\ shared_jobq' = Set(shared_jobq, t, Tail(shared_jobq[t]))
    /\ extcnt' = Set(extcnt, t, extcnt[t] + 1)
    /\ worked' = Set(worked, t, TRUE)
    /\ UNCHANGED <<jobq, failoverq, recovery, dataVars, rewired, pc, back, held, src, src_out,
                   ithread, toggle, input, exitVars>>

ExtEnd(t) ==
    /\ extcnt[t] = MAX_EXTJOBS_LIMIT \/ shared_jobq[t] = <<>>
    /\ Step(t, "ext", back[t])
    /\ extcnt' = Set(extcnt, t, 0)
    /\ UNCHANGED <<dispatchVars, back, worked, held, src, src_out, ithread, toggle,
                   input, exitVars>>

(* Enter the batch; where it returns is in b. *)
BeginExt(t, from, b) ==
    /\ Step(t, from, "ext")
    /\ back' = Set(back, t, b)
    /\ extcnt' = Set(extcnt, t, 0)

(* ws_do_local_jobs: the whole local queue, then the external jobs. *)
LocalJob(t) ==
    /\ pc[t] \in {"local", "flush"} /\ frame[t] = NoFrame /\ jobq[t] # <<>>
    /\ LET job == Head(jobq[t])
       IN  frame' = Set(frame, t, JobFrame(job.data, job.subs, job.hops))
    /\ jobq' = Set(jobq, t, Tail(jobq[t]))
    /\ worked' = Set(worked, t, TRUE)
    /\ UNCHANGED <<shared_jobq, failoverq, recovery, dataVars, rewired, pc, back, extcnt, held,
                   src, src_out, ithread, toggle, input, exitVars>>

LocalEnd(t) ==
    /\ jobq[t] = <<>>
    /\ BeginExt(t, "local", back[t])
    /\ UNCHANGED <<dispatchVars, worked, held, src, src_out, ithread, toggle, input, exitVars>>

(* The failover queue: one entry is taken out and offered to its shared    *)
(* queue; if that stays full it goes back to the front.                    *)
AfterFailover(t, took) ==
    CASE back[t] = "clear" -> IF took THEN "clear" ELSE "sources"
      [] back[t] = "mined" -> "local"
      [] OTHER -> "ext"

FailoverEmpty(t) ==
    /\ failoverq[t] = <<>>
    /\ Step(t, "failover", AfterFailover(t, FALSE))
    /\ UNCHANGED <<dispatchVars, back, extcnt, worked, held, src, src_out, ithread, toggle,
                   input, exitVars>>

FailoverTake(t) ==
    /\ failoverq[t] # <<>>
    /\ Step(t, "failover", "refill")
    /\ held' = Set(held, t, Head(failoverq[t]))
    /\ failoverq' = Set(failoverq, t, Tail(failoverq[t]))
    /\ UNCHANGED <<jobq, shared_jobq, recovery, dataVars, frame, rewired, back, extcnt, worked,
                   src, src_out, ithread, toggle, input, exitVars>>

(* A plausible error: the entry goes back to the front in any case. *)
RefillTwice(t) ==
    LET u == thread_id[held[t].kid]
    IN  /\ Step(t, "refill", AfterFailover(t, TRUE))
        /\ failoverq' = Set(failoverq, t, <<held[t]>> \o failoverq[t])
        /\ shared_jobq' = IF Full(t, u) THEN shared_jobq
                          ELSE Set(shared_jobq, u, Append(shared_jobq[u], held[t]))
        /\ held' = Set(held, t, NoEntry)
        /\ UNCHANGED <<jobq, recovery, dataVars, frame, rewired, back, extcnt, worked, src,
                       src_out, ithread, toggle, input, exitVars>>

Refill(t) ==
    LET u == thread_id[held[t].kid]
    IN  /\ Step(t, "refill", AfterFailover(t, TRUE))
        /\ IF Full(t, u)
           THEN /\ failoverq' = Set(failoverq, t, <<held[t]>> \o failoverq[t])
                /\ UNCHANGED shared_jobq
           ELSE /\ shared_jobq' = Set(shared_jobq, u, Append(shared_jobq[u], held[t]))
                /\ UNCHANGED failoverq
        /\ held' = Set(held, t, NoEntry)
        /\ UNCHANGED <<jobq, recovery, dataVars, frame, rewired, back, extcnt, worked, src,
                       src_out, ithread, toggle, input, exitVars>>

-----------------------------------------------------------------------------
(* The running graph: while (!do_exit) mimo_run_graph.                     *)

TopStop(t) ==
    /\ do_exit
    /\ Step(t, "top", "stopped")
    /\ UNCHANGED <<dispatchVars, back, extcnt, worked, held, src, src_out, ithread, toggle,
                   input, exitVars>>

BeginSources(t) ==
    /\ src' = Set(src, t, 1)
    /\ src_out' = Set(src_out, t, FALSE)

TopRun(t) ==
    /\ ~do_exit /\ ~deadlock_firehose_shutoff
    /\ Step(t, "top", "sources")
    /\ BeginSources(t)
    /\ UNCHANGED <<dispatchVars, back, extcnt, worked, held, ithread, toggle, input, exitVars>>

(* After a deadlock: the external jobs first, then the failover queue. *)
TopRecover(t) ==
    /\ ~do_exit /\ deadlock_firehose_shutoff
    /\ BeginExt(t, "top", "recovered")
    /\ BeginSources(t)
    /\ worked' = Set(worked, t, FALSE)
    /\ UNCHANGED <<dispatchVars, held, ithread, toggle, input, exitVars>>

(* A plausible error: the failover queue is left alone. *)
RecoveredSkips(t) ==
    /\ Step(t, "recovered", IF worked[t] THEN "top" ELSE "sources")
    /\ back' = Set(back, t, "clear")
    /\ UNCHANGED <<dispatchVars, extcnt, worked, held, src, src_out, ithread, toggle, input,
                   exitVars>>

Recovered(t) ==
    /\ Step(t, "recovered", IF worked[t] THEN "top" ELSE "failover")
    /\ back' = Set(back, t, "clear")
    /\ UNCHANGED <<dispatchVars, extcnt, worked, held, src, src_out, ithread, toggle, input,
                   exitVars>>

(* Under mimo->lock: all failover queues empty turns the sources on again. *)
AllClear(t) ==
    /\ Step(t, "clear", "sources")
    /\ deadlock_firehose_shutoff' =
         (deadlock_firehose_shutoff /\ \E u \in Threads : failoverq[u] # <<>>)
    /\ UNCHANGED <<queues, fullshq, dataVars, frame, rewired, back, extcnt, worked, held, src,
                   src_out, ithread, toggle, input, exitVars>>

(* The loop over mimo->proc_sources. *)
SourcesShut(t) ==
    /\ src[t] <= Len(Sources) /\ deadlock_firehose_shutoff
    /\ Step(t, "sources", "polled")
    /\ src_out' = Set(src_out, t, TRUE)
    /\ UNCHANGED <<dispatchVars, back, extcnt, worked, held, src, ithread, toggle, input,
                   exitVars>>

SkipSource(t) ==
    /\ src[t] <= Len(Sources) /\ ~deadlock_firehose_shutoff
    /\ thread_id[Sources[src[t]]] # t
    /\ Step(t, "sources", "sources")
    /\ src' = Set(src, t, src[t] + 1)
    /\ UNCHANGED <<dispatchVars, back, extcnt, worked, held, src_out, ithread, toggle, input,
                   exitVars>>

(* The source is given fresh data; it emits until its input is used up.    *)
(* Either way the data is given back when the source returns.              *)
PollSource(t) ==
    /\ src[t] <= Len(Sources) /\ ~deadlock_firehose_shutoff
    /\ Step(t, "sources", "sources")
    /\ LET k == Sources[src[t]]
           delivers == input[k] > 0
       IN  /\ thread_id[k] = t /\ pool # {}
           /\ src_out' = Set(src_out, t, src_out[t] \/ delivers)
           /\ input' = [input EXCEPT ![k] = IF delivers THEN @ - 1 ELSE 0]
           /\ references' = [references EXCEPT ![FreshData] = 1]
           /\ pool' = pool \ {FreshData} /\ UNCHANGED dependency
           /\ frame' = Set(frame, t, JobFrame(FreshData, IF delivers THEN <<k>> ELSE <<>>, MaxHops))
    /\ src' = Set(src, t, src[t] + 1)
    /\ UNCHANGED <<queues, recovery, rewired, back, extcnt, worked, held, ithread, toggle,
                   exitVars>>

(* A thread that polled its sources in vain leaves the loop. *)
SourcesEnd(t) ==
    /\ src[t] > Len(Sources)
    /\ Step(t, "sources", IF HasSource(t) /\ ~src_out[t] THEN "eos" ELSE "polled")
    /\ UNCHANGED <<dispatchVars, back, extcnt, worked, held, src, src_out, ithread, toggle,
                   input, exitVars>>

Polled(t) ==
    /\ Step(t, "polled", "local")
    /\ back' = Set(back, t, "top")
    /\ worked' = Set(worked, t, FALSE)
    /\ UNCHANGED <<dispatchVars, extcnt, held, src, src_out, ithread, toggle, input,
                   exitVars>>

(* Under exit_lock: the last thread with a source stops all others. *)
EndOfStream(t) ==
    /\ Step(t, "eos", "stopped")
    /\ num_src_threads' = num_src_threads - 1
    /\ do_exit' = (do_exit \/ num_src_threads = 1)
    /\ UNCHANGED <<dispatchVars, back, extcnt, worked, held, src, src_out, ithread, toggle,
                   input, ready_to_flush, spinning_on_jobs, ready_to_exit,
                   hop_to_next_thread_locext>>

(* clean_exit, the signal handler. *)
Interrupt ==
    /\ CtrlC /\ ~do_exit
    /\ do_exit' = TRUE
    /\ UNCHANGED <<dispatchVars, control, input, num_src_threads, ready_to_flush,
                   spinning_on_jobs, ready_to_exit, hop_to_next_thread_locext>>

Run(t) ==
    \/ TopStop(t) \/ TopRun(t) \/ TopRecover(t) \/ Recovered(t) \/ AllClear(t)
    \/ SourcesShut(t) \/ SkipSource(t) \/ PollSource(t) \/ SourcesEnd(t) \/ Polled(t)
    \/ EndOfStream(t)

Batch(t) ==
    \/ ExtJob(t) \/ ExtEnd(t) \/ LocalJob(t) \/ LocalEnd(t)
    \/ FailoverEmpty(t) \/ FailoverTake(t) \/ Refill(t)
=============================================================================
