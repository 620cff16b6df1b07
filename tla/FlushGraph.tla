----------------------------- MODULE FlushGraph -----------------------------
(***************************************************************************)
(* The flush at the end of a run (mimo_flush_graph in                      *)
(* src/src/lib/wsprocess.c): thread 0, to whose local queue all output now *)
(* goes, calls each flusher in the order that module Subscribe made, again *)
(* and again until the call leads to no job, and starts over when a        *)
(* flusher had something to give.                                          *)
(*                                                                         *)
(* A kid with state (a flusher) may keep what it gets, in at most TableLen *)
(* entries, or pass it on; when it is flushed it gives up at least one     *)
(* entry, all of them if nobody subscribes to it.  A job is the list of    *)
(* its subscribers.  graph.no_flush_on_exit is mimo->no_flush_on_exit, an  *)
(* option of the run.                                                      *)
(***************************************************************************)
EXTENDS Subscribe

CONSTANTS
    TableLen,       \* bound: entries in the state table of a kid
    MAX_FLUSHES

ASSUME FlushConstants ==
    /\ TableLen \in Nat /\ MAX_FLUSHES \in Nat \ {0}
    /\ \A g \in Graphs : g.no_flush_on_exit \in BOOLEAN

VARIABLES
    at,             \* where mimo_flush_graph is
    i,              \* the index into flush.sub, from 1
    flushes, jobs,
    jobq,           \* thread 0's local queue
    held            \* how many entries each kid has in its state table

flushVars == <<at, i, flushes, jobs, jobq, held>>
vars == <<initVars, flushVars>>

FlushInit ==
    /\ Init
    /\ at = "init" /\ i = 1
    /\ flushes = 0 /\ jobs = 0
    /\ jobq = <<>>
    /\ held = [k \in Kids |-> 0]

(* All output is redirected: local and external subscribers in one list. *)
Subs(k) == [n \in 1 .. Len(local_subscribers[k] \o ext_subscribers[k]) |->
                (local_subscribers[k] \o ext_subscribers[k])[n][1]]

Emission(k) == IF Subs(k) = <<>> THEN <<>> ELSE <<Subs(k)>>

-----------------------------------------------------------------------------
InitGraph ==
    /\ InitStep
    /\ UNCHANGED flushVars

(* The flush may be switched off on the command line. *)
NoFlush ==
    /\ InitDone /\ at = "init" /\ graph.no_flush_on_exit
    /\ at' = "done"
    /\ UNCHANGED <<initVars, i, flushes, jobs, jobq, held>>

(* The run is over; each flusher the data could get to may have kept some. *)
BeginFlush ==
    /\ InitDone /\ at = "init" /\ ~graph.no_flush_on_exit
    /\ at' = "kid" /\ i' = 1 /\ flushes' = 0
    /\ held' \in {h \in [Kids -> 0 .. TableLen] :
                    \A k \in Kids : h[k] > 0 => k \in Range(flush)}
    /\ UNCHANGED <<initVars, jobs, jobq>>

FlushKid ==
    /\ at = "kid" /\ i <= Len(flush)
    /\ at' = "drain"
    /\ flushes' = flushes + 1 /\ jobs' = 0
    /\ LET k == flush[i]
           gives == IF held[k] = 0 \/ Subs(k) = <<>> THEN {held[k]} ELSE 1 .. held[k]
       IN  \E n \in gives :
            /\ held' = [held EXCEPT ![k] = @ - n]
            /\ jobq' = FlattenSeq([m \in 1 .. n |-> Emission(k)])
    /\ UNCHANGED <<initVars, i>>

(* ws_do_local_jobs: each subscriber keeps the data or passes it on. *)
LocalJob ==
    /\ at = "drain" /\ jobq # <<>>
    /\ \E keep \in SUBSET (Range(Head(jobq)) \cap Range(flush)) :
        /\ held' = [k \in Kids |-> IF k \in keep /\ held[k] < TableLen THEN held[k] + 1 ELSE held[k]]
        /\ jobq' = Tail(jobq) \o FlattenSeq([m \in 1 .. Len(Head(jobq)) |->
                       IF Head(jobq)[m] \in keep THEN <<>> ELSE Emission(Head(jobq)[m])])
    /\ jobs' = jobs + 1
    /\ UNCHANGED <<initVars, at, i, flushes>>

(* A plausible error: each kid is called once only. *)
NeverAgain == FALSE
Again == jobs >= 1 /\ flushes < MAX_FLUSHES

(* A plausible error: the flush starts over after every kid. *)
RestartAlways == 2

(* After a kid that gave something, i = 0 "to start afresh" and then the   *)
(* loop's i++.                                                             *)
Restart == IF flushes > 1 /\ flushes < MAX_FLUSHES THEN 2 ELSE i + 1

Drained ==
    /\ at = "drain" /\ jobq = <<>>
    /\ at' = "kid"
    /\ IF Again THEN UNCHANGED <<i, flushes>>
                ELSE i' = Restart /\ flushes' = 0
    /\ UNCHANGED <<initVars, jobs, jobq, held>>

EndFlush ==
    /\ at = "kid" /\ i > Len(flush)
    /\ at' = "done"
    /\ UNCHANGED <<initVars, i, flushes, jobs, jobq, held>>

FlushStep == InitGraph \/ NoFlush \/ BeginFlush \/ FlushKid \/ LocalJob \/ Drained \/ EndFlush
FlushNext == FlushStep \/ (at = "done" /\ UNCHANGED vars)

FlushSpec == FlushInit /\ [][FlushNext]_vars /\ WF_vars(FlushStep)

-----------------------------------------------------------------------------
FlushTypeOK ==
    /\ TypeOK
    /\ at \in {"init", "kid", "drain", "done"}
    /\ i \in 1 .. Len(flush) + 1 /\ flushes \in 0 .. MAX_FLUSHES
    /\ held \in [Kids -> 0 .. TableLen]
    /\ \A n \in DOMAIN jobq : jobq[n] \in Seq(Kids) /\ jobq[n] # <<>>

(* What a kid of g gives away never comes back to it: some set of kids     *)
(* without it has all that it feeds, and all that those feed.              *)
NeverBack(g) ==
    \A k \in Kids : \E S \in SUBSET (Kids \ {k}) :
        \A j \in S \cup {k} : \A e \in Range(g.edges[j]) : e \in Accepts => e[1] \in S
FlushedAcyclic == \A g \in Graphs : g.no_flush_on_exit \/ NeverBack(g)

(* Once the flush is over no kid but the first of the order has anything   *)
(* left: what a flusher gives to a kid that was flushed before it is       *)
(* flushed out by another pass.                                            *)
OthersFlushed ==
    at = "done" /\ ~graph.no_flush_on_exit => \A n \in 2 .. Len(flush) : held[flush[n]] = 0

(* "we do have the possibility of metadata in previous flushers' proc's",  *)
(* "reset to start afresh" (mimo_flush_graph): once the flush is over no   *)
(* kid has anything left.                                                  *)
AllFlushed == at = "done" /\ ~graph.no_flush_on_exit => \A k \in Kids : held[k] = 0

(* In a graph without cycles the flush ends, however often it starts over. *)
FlushEnds == <>(at = "done")
=============================================================================
