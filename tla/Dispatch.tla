------------------------------ MODULE Dispatch ------------------------------
(***************************************************************************)
(* How the threads of waterslide-parallel hand jobs to one another: the    *)
(* body of a job (ws_do_local_jobs and ws_do_external_jobs call the        *)
(* proc_func of each subscriber and give the data back) and of an emission *)
(* (ws_set_outdata, in src/src/lib/waterslide_io.c, with its reference     *)
(* counting, its blocking adds, and the failover queues that take a job    *)
(* when the threads of a cycle all have full queues).  Module Engine adds  *)
(* the loops that pick the jobs.                                           *)
(*                                                                         *)
(* A kid is what proc_func does, seen from the engine: it emits Outputs[k] *)
(* times per input, its input or data it makes (Maker), which may depend   *)
(* on its input (Deriver).  A job is a kid, a piece of data, the thread    *)
(* that queued it and the number of hops left to it, a bound on the        *)
(* travels of a job round a cycle.  A shared queue is a JobChannel: each   *)
(* writer may hold QueueLength jobs in it.                                 *)
(***************************************************************************)
EXTENDS Naturals, Sequences, FiniteSets, SequencesExt, FiniteSetsExt

CONSTANTS
    work_size,      \* the number of threads
    Kids,           \* the kid instances
    thread_id,      \* thread_id[k]: the thread that runs kid k
    local_subscribers,  \* local_subscribers[k]: the kids that subscribe to k on
                        \* its own thread, in order,
    ext_subscribers,    \* and those on other threads
    Outputs,        \* Outputs[k]: how often k emits per input
    Maker,          \* the kids that emit fresh data rather than their input
    Deriver,        \* the makers whose data points into their input (wsdata_ptr)
    Items,          \* bound: the pieces of data
    QueueLength,    \* jobs of one writer that fit in a shared queue
    Sccs,           \* the cycles of the thread graph: a sequence of sets of threads
    MaxHops         \* bound: how many emissions lead from a source to a job

Threads == 0 .. work_size - 1

(* The thread graph of report_shq_writers: t has an edge to each thread    *)
(* whose shared queue it writes to.  Its strongly connected components     *)
(* with more than one thread are the cycles.                               *)
Writes(t) == {u \in Threads \ {t} :
                \E k \in Kids : thread_id[k] = t /\ \E s \in Range(ext_subscribers[k]) : thread_id[s] = u}

Reach[n \in 0 .. work_size] ==
    [t \in Threads |-> IF n = 0 THEN {t}
                       ELSE Reach[n - 1][t] \cup UNION {Writes(u) : u \in Reach[n - 1][t]}]
SameCycle(t, u) == t \in Reach[work_size][u] /\ u \in Reach[work_size][t]

ASSUME EngineConstants ==
    /\ work_size \in Nat \ {0} /\ QueueLength \in Nat \ {0} /\ MaxHops \in Nat
    /\ thread_id \in [Kids -> Threads]
    /\ local_subscribers \in [Kids -> Seq(Kids)] /\ ext_subscribers \in [Kids -> Seq(Kids)]
    /\ Outputs \in [Kids -> Nat] /\ Maker \subseteq Kids
    /\ Deriver \subseteq Maker

(* ws_init_instance_input: a subscriber on the same thread is local. *)
ASSUME SubscribersByThread ==
    \A k \in Kids : /\ \A s \in Range(local_subscribers[k]) : thread_id[s] = thread_id[k]
                    /\ \A s \in Range(ext_subscribers[k]) : thread_id[s] # thread_id[k]

ASSUME SccsAreTheCycles ==
    Range(Sccs) = {c \in {{u \in Threads : SameCycle(t, u)} : t \in Threads} : Cardinality(c) > 1}

graph_has_cycle == Sccs # <<>>
mimo_thread_in_cycle(t) == \E i \in DOMAIN Sccs : t \in Sccs[i]

VARIABLES
    jobq,           \* each thread's local queue: [subs, data, hops]
    shared_jobq,    \* each thread's shared queue: [kid, data, from, hops]
    failoverq,      \* each thread's failover queue, of the same entries
    fullshq,        \* mgc[i].fullshq[t]: thread t's shared queue was full
    deadlock_firehose_shutoff,
    references,     \* the reference count of each piece of data
    pool,           \* the free data
    dependency,     \* the parents of each piece of data, the latest last
    frame,          \* the job each thread is running
    rewired         \* all output goes to thread 0's local queue (the flush)

queues == <<jobq, shared_jobq, failoverq>>
recovery == <<fullshq, deadlock_firehose_shutoff>>
dataVars == <<references, pool, dependency>>
dispatchVars == <<queues, recovery, dataVars, frame, rewired>>

NoFrame == [at |-> "none"]

(* The frame of a job for the kids subs. *)
JobFrame(d, subs, hops) ==
    [at |-> "call", data |-> d, hops |-> hops, calls |-> subs,
     outs |-> 0, out |-> d, ext |-> <<>>]

DispatchInit ==
    /\ jobq = [t \in Threads |-> <<>>]
    /\ shared_jobq = [t \in Threads |-> <<>>]
    /\ failoverq = [t \in Threads |-> <<>>]
    /\ fullshq = [i \in DOMAIN Sccs |-> [t \in Threads |-> FALSE]]
    /\ deadlock_firehose_shutoff = FALSE
    /\ references = [d \in Items |-> 0]
    /\ pool = Items
    /\ dependency = [d \in Items |-> <<>>]
    /\ frame = [t \in Threads |-> NoFrame]
    /\ rewired = FALSE

Full(t, u) == Cardinality({i \in DOMAIN shared_jobq[u] : shared_jobq[u][i].from = t}) >= QueueLength

(* wsdata_alloc takes one of the free pieces of data; which one is all the *)
(* same.                                                                   *)
FreshData == CHOOSE d \in pool : TRUE

(* A plausible error: the parents are forgotten. *)
DeleteForgetsParents(t, d, next) ==
    /\ references' = [references EXCEPT ![d] = @ - 1]
    /\ pool' = IF references[d] = 1 THEN pool \cup {d} ELSE pool
    /\ frame' = [frame EXCEPT ![t] = next]
    /\ UNCHANGED dependency

(* wsdata_delete: without a reference left the data is returned to its     *)
(* free list, once its parents are given back.  Other threads run between  *)
(* these, so the thread first goes on with a delete frame for the data; it *)
(* does what comes next afterwards.                                        *)
Delete(t, d, next) ==
    /\ references' = [references EXCEPT ![d] = @ - 1]
    /\ LET unlink == references[d] = 1 /\ dependency[d] # <<>>
       IN  /\ pool' = IF references[d] = 1 /\ ~unlink THEN pool \cup {d} ELSE pool
           /\ frame' = [frame EXCEPT ![t] =
                            IF unlink THEN [at |-> "delete", dead |-> <<d>>, then |-> next] ELSE next]
    /\ UNCHANGED dependency

Enter(t, at) == frame' = [frame EXCEPT ![t].at = at]
At(t, at) == frame[t].at = at

-----------------------------------------------------------------------------
(* The job: call the next subscriber, or give the data back.               *)

Call(t) ==
    /\ At(t, "call") /\ frame[t].calls # <<>>
    /\ LET k == Head(frame[t].calls)
       IN  frame' = [frame EXCEPT ![t] =
                        [at |-> "emit", kid |-> k, calls |-> Tail(@.calls),
                         outs |-> IF @.hops = 0 THEN 0 ELSE Outputs[k],
                         data |-> @.data, hops |-> @.hops, out |-> @.data, ext |-> <<>>]]
    /\ UNCHANGED <<queues, recovery, dataVars, rewired>>

JobDone(t) ==
    /\ At(t, "call") /\ frame[t].calls = <<>>
    /\ Delete(t, frame[t].data, NoFrame)
    /\ UNCHANGED <<queues, recovery, rewired>>

(* wsdatatype_default_delete of data without references: a reference of    *)
(* the next parent goes, and a parent without references is deleted in the *)
(* same way before its child is (the call is recursive).                   *)
DeleteParent(t) ==
    /\ At(t, "delete") /\ dependency[Last(frame[t].dead)] # <<>>
    /\ LET d == Last(frame[t].dead)
           parent == Last(dependency[d])
       IN  /\ dependency' = [dependency EXCEPT ![d] = Front(@)]
           /\ references' = [references EXCEPT ![parent] = @ - 1]
           /\ frame' = [frame EXCEPT ![t].dead = IF references[parent] = 1 THEN Append(@, parent) ELSE @]
    /\ UNCHANGED <<queues, recovery, pool, rewired>>

DeleteDone(t) ==
    /\ At(t, "delete") /\ dependency[Last(frame[t].dead)] = <<>>
    /\ pool' = pool \cup {Last(frame[t].dead)}
    /\ LET dead == frame[t].dead
       IN  frame' = [frame EXCEPT ![t] = IF Len(dead) = 1 THEN @.then
                                         ELSE [@ EXCEPT !.dead = Front(dead)]]
    /\ UNCHANGED <<queues, recovery, references, dependency, rewired>>

EmitsDone(t) ==
    /\ At(t, "emit") /\ frame[t].outs = 0
    /\ Enter(t, "call")
    /\ UNCHANGED <<queues, recovery, dataVars, rewired>>

(* The parent joins the stack of the child; Emit adds the reference. *)
AssignDependency(parent, child) == [dependency EXCEPT ![child] = Append(@, parent)]

(* ws_set_outdata: one local job for all local subscribers, and one more   *)
(* reference that is held while the external subscribers are served.  A    *)
(* deriver has made its data depend on its input before                    *)
(* (wsdata_assign_dependency).  Without subscribers the data is deleted    *)
(* at once, which undoes all of it.                                        *)
Emit(t) ==
    /\ At(t, "emit") /\ frame[t].outs > 0
    /\ LET k == frame[t].kid
           local == IF rewired THEN local_subscribers[k] \o ext_subscribers[k] ELSE local_subscribers[k]
           ext == IF rewired THEN <<>> ELSE ext_subscribers[k]
           refs == (IF local = <<>> THEN 0 ELSE 1) + (IF ext = <<>> THEN 0 ELSE 1)
       IN  /\ k \in Maker => pool # {}
           /\ LET d == IF k \in Maker THEN FreshData ELSE frame[t].data
                  derived == k \in Deriver /\ refs > 0
                  counted == [references EXCEPT ![d] = @ + refs]
              IN  /\ references' = IF derived THEN [counted EXCEPT ![frame[t].data] = @ + 1] ELSE counted
                  /\ dependency' = IF derived THEN AssignDependency(frame[t].data, d) ELSE dependency
                  /\ pool' = IF refs = 0 THEN pool ELSE pool \ {d}
                  /\ jobq' = IF local = <<>> THEN jobq
                             ELSE [jobq EXCEPT ![t] =
                                     Append(@, [subs |-> local, data |-> d,
                                                hops |-> frame[t].hops - 1])]
                  /\ frame' = [frame EXCEPT ![t].outs = @ - 1, ![t].out = d, ![t].ext = ext,
                                            ![t].at = IF ext = <<>> THEN "emit" ELSE "push"]
    /\ UNCHANGED <<shared_jobq, failoverq, recovery, rewired>>

(* A plausible error: one reference for all external subscribers. *)
PushNextUncounted(t) ==
    /\ At(t, "push") /\ frame[t].ext # <<>>
    /\ Enter(t, "add")
    /\ UNCHANGED <<queues, recovery, dataVars, rewired>>

(* The next external subscriber takes a reference of its own. *)
PushNext(t) ==
    /\ At(t, "push") /\ frame[t].ext # <<>>
    /\ references' = [references EXCEPT ![frame[t].out] = @ + 1]
    /\ Enter(t, "add")
    /\ UNCHANGED <<queues, recovery, pool, dependency, rewired>>

PushDone(t) ==
    /\ At(t, "push") /\ frame[t].ext = <<>>
    /\ Delete(t, frame[t].out, [frame[t] EXCEPT !.at = "emit"])
    /\ UNCHANGED <<queues, recovery, rewired>>

Target(t) == thread_id[Head(frame[t].ext)]
Pushed(t) == [kid |-> Head(frame[t].ext), data |-> frame[t].out, from |-> t,
              hops |-> frame[t].hops - 1]
Recoverable(t) == graph_has_cycle /\ mimo_thread_in_cycle(Target(t))

(* Served: on to the next external subscriber. *)
Served(t) == frame' = [frame EXCEPT ![t].ext = Tail(@), ![t].at = "push"]

(* shared_queue_add succeeds.  A thread outside the cycles of its target   *)
(* has nothing else to do; while the queue is full it tries again for ever *)
(* and so waits here.                                                      *)
AddJob(t) ==
    /\ At(t, "add") /\ ~Full(t, Target(t))
    /\ shared_jobq' = [shared_jobq EXCEPT ![Target(t)] = Append(@, Pushed(t))]
    /\ IF Recoverable(t) THEN Enter(t, "unmark") ELSE Served(t)
    /\ UNCHANGED <<jobq, failoverq, recovery, dataVars, rewired>>

(* themimo->mgc->fullshq: always the array of the first cycle. *)
Unmark(t) ==
    /\ At(t, "unmark")
    /\ fullshq' = [fullshq EXCEPT ![1][Target(t)] = FALSE]
    /\ Served(t)
    /\ UNCHANGED <<queues, deadlock_firehose_shutoff, dataVars, rewired>>

(* A plausible error: the refusing queue is not marked. *)
AddGivesUpUnmarked(t) ==
    /\ At(t, "add") /\ Full(t, Target(t)) /\ Recoverable(t)
    /\ Enter(t, "scan")
    /\ UNCHANGED <<queues, recovery, dataVars, rewired>>

(* shared_queue_add gives up after SHQ_ADD_ATTEMPT_LIMIT attempts. *)
AddGivesUp(t) ==
    /\ At(t, "add") /\ Full(t, Target(t)) /\ Recoverable(t)
    /\ fullshq' = [fullshq EXCEPT ![1][Target(t)] = TRUE]
    /\ Enter(t, "scan")
    /\ UNCHANGED <<queues, deadlock_firehose_shutoff, dataVars, rewired>>

mimo_cycle_deadlock_exist == \E i \in DOMAIN Sccs : \A u \in Sccs[i] : fullshq[i][u]

NoDeadlockSeen(t) ==
    /\ At(t, "scan") /\ ~mimo_cycle_deadlock_exist
    /\ Enter(t, "add")
    /\ UNCHANGED <<queues, recovery, dataVars, rewired>>

ShutFirehose(t) ==
    /\ At(t, "scan") /\ mimo_cycle_deadlock_exist
    /\ deadlock_firehose_shutoff' = TRUE
    /\ Enter(t, "failover")
    /\ UNCHANGED <<queues, fullshq, dataVars, rewired>>

FailOver(t) ==
    /\ At(t, "failover")
    /\ failoverq' = [failoverq EXCEPT ![t] = Append(@, Pushed(t))]
    /\ Served(t)
    /\ UNCHANGED <<jobq, shared_jobq, recovery, dataVars, rewired>>

RunJob(t) ==
    \/ DeleteParent(t) \/ DeleteDone(t)
    \/ Call(t) \/ JobDone(t) \/ EmitsDone(t) \/ Emit(t)
    \/ PushNext(t) \/ PushDone(t) \/ AddJob(t) \/ Unmark(t)
    \/ AddGivesUp(t) \/ NoDeadlockSeen(t) \/ ShutFirehose(t) \/ FailOver(t)

-----------------------------------------------------------------------------
(* Where a reference to d comes from: an entry of a queue, the job a       *)
(* thread is running, the emission it is in, the entry it is adding, and   *)
(* data made from d.                                                       *)
Queued(q, d) == UNION {{t} \X {i \in DOMAIN q[t] : q[t][i].data = d} : t \in Threads}

Emitting(t) == frame[t].at \in {"push", "add", "unmark", "scan", "failover"}
Adding(t) == frame[t].at \in {"add", "scan", "failover"}
Job(t) == IF At(t, "delete") THEN frame[t].then ELSE frame[t]

Runs(d) == {t \in Threads : Job(t).at # "none" /\ Job(t).data = d}
Emits(d) == {t \in Threads : Emitting(t) /\ frame[t].out = d}
Adds(d) == {t \in Threads : Adding(t) /\ frame[t].out = d}
Children(d) == {c \in Items : d \in Range(dependency[c])}

(* The data a thread is deleting. *)
Dying == UNION {Range(frame[t].dead) : t \in {u \in Threads : At(u, "delete")}}
=============================================================================
