------------------------------- MODULE WorkShare -------------------------------
(* Work is given to whoever is free: workbalance takes the number of a free  *)
(* receiver from a queue, and the receiver (workreceive) puts it back as     *)
(* soon as it has taken up a job (procs/proc_workbalance.c, proc_workreceive.c, *)
(* include/shared/mwmr_queue.h, include/shared/kidshare.h).                  *)
EXTENDS Integers, Sequences, FiniteSets

CONSTANTS Balancers,   \* the workbalance kids of one label, on threads of their own
          Channels,    \* the receivers that follow them
          Jobs         \* jobs that come to each balancer
ASSUME ChannelsAssumption == Channels \in Nat \ {0} /\ Jobs \in Nat /\ Balancers \cap Int = {}
(* Without a balancer nobody makes the queue. *)
ASSUME SomeBalancers == IsFiniteSet(Balancers) /\ Balancers # {}

Receivers == 1..Channels
Kids == Balancers \cup Receivers
max_length == 2 * Channels

VARIABLES sq,      \* the shared queue: numbers of receivers
          cnt,     \* sharers that the label counts
          freed,   \* the queue is given back
          pc,      \* where each kid's thread is
          id,      \* the number a balancer took
          todo,    \* jobs that a balancer still has before it
          wire,    \* jobs on their way to a receiver's thread
          served   \* jobs that a receiver has passed on
vars == <<sq, cnt, freed, pc, id, todo, wire, served>>

Init == /\ sq = <<>> /\ cnt = 0 /\ freed = FALSE
        /\ pc = [t \in Kids |-> "new"] /\ id = [b \in Balancers |-> 0]
        /\ todo = [b \in Balancers |-> Jobs] /\ wire = [i \in Receivers |-> <<>>] /\ served = {}

Goto(t, place) == pc' = [pc EXCEPT ![t] = place]
\* After t's step all who wait on the condition look again.
Broadcast(t, place, cond, again) ==
    pc' = [u \in Kids |-> IF u = t THEN place ELSE IF pc[u] = cond THEN again ELSE pc[u]]

\* All kids are initialised before any starts.  The first balancer makes the queue and
\* fills it; one more is a sharer like any other (ws_kidshare_get, ws_kidshare_put).
proc_init(b) ==
    /\ pc[b] = "new" /\ Goto(b, "idle")
    /\ sq' = IF cnt = 0 THEN [i \in Receivers |-> i] ELSE sq
    /\ cnt' = cnt + 1 /\ UNCHANGED <<freed, id, todo, wire, served>>
proc_init_finish(i) ==
    /\ \A b \in Balancers : pc[b] # "new"
    /\ pc[i] = "new" /\ Goto(i, "idle")
    /\ cnt' = cnt + 1 /\ UNCHANGED <<sq, freed, id, todo, wire, served>>
Running == \A t \in Kids : pc[t] # "new"

\* A look at the queue under its mutex: a number is taken, or the thread waits.
mwmr_queue_remove(b) ==
    /\ IF sq = <<>> THEN Goto(b, "hasdata") /\ UNCHANGED <<sq, id>>
       ELSE Goto(b, "removed") /\ id' = [id EXCEPT ![b] = Head(sq)] /\ sq' = Tail(sq)
    /\ UNCHANGED <<cnt, freed, todo, wire, served>>

\* The same for an add.  Having waited too often it returns 0, and is called again.
mwmr_queue_add(i, number) ==
    /\ IF Len(sq) = max_length THEN Goto(i, "spaceavail") /\ UNCHANGED sq
       ELSE Goto(i, "added") /\ sq' = Append(sq, number)
    /\ UNCHANGED <<cnt, freed, id, todo, wire, served>>

\* A thread may wake up without a broadcast.
Spurious(t) ==
    /\ pc[t] \in {"hasdata", "spaceavail"}
    /\ Goto(t, IF pc[t] = "hasdata" THEN "remove" ELSE "add")
    /\ UNCHANGED <<sq, cnt, freed, id, todo, wire, served>>

\* A plausible error: who waits for room is woken.
WakeReadersSpace(t) == Broadcast(t, "work", "spaceavail", "add")

WakeReaders(t) == Broadcast(t, "work", "hasdata", "remove")
WakeWriters(t) == Broadcast(t, "give", "spaceavail", "add")

\* A job with the label of the number goes to the thread of the receiver behind it.
ProcessBalance(b) ==
    \/ /\ pc[b] = "idle" /\ todo[b] > 0 /\ Running
       /\ Goto(b, "remove") /\ UNCHANGED <<sq, cnt, freed, id, todo, wire, served>>
    \/ pc[b] = "remove" /\ mwmr_queue_remove(b)
    \/ pc[b] = "removed" /\ WakeWriters(b) /\ UNCHANGED <<sq, cnt, freed, id, todo, wire, served>>
    \/ /\ pc[b] = "give" /\ Goto(b, "idle")
       /\ wire' = [wire EXCEPT ![id[b]] = Append(@, <<b, todo[b]>>)]
       /\ todo' = [todo EXCEPT ![b] = @ - 1] /\ id' = [id EXCEPT ![b] = 0]
       /\ UNCHANGED <<sq, cnt, freed, served>>

\* A plausible error: the number is the one in the label, which counts from 0.
my_shared_idOfLabel(i) == i - 1

my_shared_id(i) == i

\* A receiver gives the job out, puts its number back, and only then do the kids behind
\* it work on the job.
ProcessReceive(i) ==
    \/ /\ pc[i] = "idle" /\ wire[i] # <<>> /\ Running
       /\ served' = served \cup {Head(wire[i])} /\ wire' = [wire EXCEPT ![i] = Tail(@)]
       /\ Goto(i, "add") /\ UNCHANGED <<sq, cnt, freed, id, todo>>
    \/ pc[i] = "add" /\ mwmr_queue_add(i, my_shared_id(i))
    \/ pc[i] = "added" /\ WakeReaders(i) /\ UNCHANGED <<sq, cnt, freed, id, todo, wire, served>>
    \/ pc[i] = "work" /\ Goto(i, "idle") /\ UNCHANGED <<sq, cnt, freed, id, todo, wire, served>>

\* Once all threads have ended: the last sharer frees the queue.
Ended == /\ \A b \in Balancers : todo[b] = 0
         /\ \A t \in Kids : pc[t] \in {"idle", "gone"}
         /\ \A i \in Receivers : wire[i] = <<>>
proc_destroy(t) ==
    /\ Ended /\ pc[t] = "idle" /\ Goto(t, "gone")
    /\ cnt' = cnt - 1 /\ freed' = (freed \/ cnt' = 0)
    /\ UNCHANGED <<sq, id, todo, wire, served>>

Next == \/ \E b \in Balancers : proc_init(b) \/ ProcessBalance(b)
        \/ \E i \in Receivers : proc_init_finish(i) \/ ProcessReceive(i)
        \/ \E t \in Kids : Spurious(t) \/ proc_destroy(t)

(* Every thread is scheduled again and again; a wake-up without a broadcast  *)
(* need not happen.                                                          *)
Fairness == /\ \A b \in Balancers : WF_vars(proc_init(b) \/ ProcessBalance(b))
            /\ \A i \in Receivers : WF_vars(proc_init_finish(i) \/ ProcessReceive(i))
            /\ \A t \in Kids : WF_vars(proc_destroy(t))
Spec == Init /\ [][Next]_vars /\ Fairness
-----------------------------------------------------------------------------
Has(b, i) == id[b] = i /\ pc[b] \in {"removed", "give"}
InQueue(i) == {n \in 1..Len(sq) : sq[n] = i}

(* The number of every receiver is in one place, once: in the queue, with    *)
(* one balancer, or with the one job that waits for the receiver.  So a job  *)
(* never waits behind another one, an add never finds the queue full, a      *)
(* balancer waits only while no receiver is free, and a broadcast that is    *)
(* due is the only thing that keeps it from a number that is there.  The     *)
(* queue stays as long as one kid uses it (mwmr_queue_remove,                *)
(* mwmr_queue_add, proc_process of both kids, ws_kidshare_unshare).          *)
TokensConserved ==
    /\ Running => \A i \in Receivers :
         /\ Cardinality(InQueue(i)) + Cardinality({b \in Balancers : Has(b, i)})
              + Len(wire[i]) + (IF pc[i] = "add" THEN 1 ELSE 0) = 1
    /\ Len(sq) <= Channels /\ \A i \in Receivers : pc[i] # "spaceavail"
    /\ (\E b \in Balancers : pc[b] = "hasdata") /\ sq # <<>> => \E i \in Receivers : pc[i] = "added"
    /\ freed <=> \A t \in Kids : pc[t] = "gone"

(* Every job that comes to a balancer is taken up by a receiver, and in the  *)
(* end the queue is given back, as long as the threads are scheduled.        *)
AllServed == <>(served = Balancers \X (1..Jobs) /\ freed)
=============================================================================
