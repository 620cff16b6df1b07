----------------------------- MODULE JobChannel -----------------------------
(***************************************************************************)
(* What a shared queue of src/src/include/shared/shared_queue.h promises   *)
(* the threads that use it, whatever its implementation: a bounded channel *)
(* between some writer threads and one reader thread.  The n-th job that   *)
(* writer w adds is the pair <<w, n>>; a job is delivered once, never      *)
(* before it was added, and the jobs of one writer arrive in the order in  *)
(* which they were added.  SwsrQueue and MwsrQueue implement this module.  *)
(***************************************************************************)
EXTENDS Naturals, Sequences

CONSTANTS Writers,    \* the threads that add jobs
          Capacity,   \* how many jobs the queue holds
          MaxAdds     \* bound: how many jobs one writer adds

VARIABLES queue,      \* the jobs in the queue, the oldest first
          sent,       \* how many jobs each writer has added
          received    \* the last job of each writer that was removed

channelVars == <<queue, sent, received>>

Init ==
    /\ queue = <<>>
    /\ sent = [w \in Writers |-> 0]
    /\ received = [w \in Writers |-> 0]

(* shared_queue_add_nonblock returns 1. *)
Send(w) ==
    /\ Len(queue) < Capacity
    /\ sent[w] < MaxAdds
    /\ queue' = Append(queue, <<w, sent[w] + 1>>)
    /\ sent' = [sent EXCEPT ![w] = @ + 1]
    /\ UNCHANGED received

(* shared_queue_remove_nonblock returns 1. *)
Receive ==
    /\ queue # <<>>
    /\ received' = [received EXCEPT ![Head(queue)[1]] = Head(queue)[2]]
    /\ queue' = Tail(queue)
    /\ UNCHANGED sent

Next == Receive \/ \E w \in Writers : Send(w)

(* The reader polls its queue (ws_do_external_jobs) and a refused writer   *)
(* tries again (the while loop in ws_set_outdata).                         *)
Fairness == WF_channelVars(Receive) /\ WF_channelVars(\E w \in Writers : Send(w))

(* What the queue never does wrong, and that it also does its work. *)
SafeSpec == Init /\ [][Next]_channelVars
Spec == SafeSpec /\ Fairness
=============================================================================
