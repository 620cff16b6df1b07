----------------------------- MODULE Subscribe ------------------------------
(***************************************************************************)
(* How the graph of kids becomes lists of subscribers (ws_init_from_sources*)
(* and ws_init_from_instance in src/src/lib/init.c): a walk from the       *)
(* sources that offers the output of each kid to the kids its edges lead   *)
(* to.  A kid that takes the input on that port becomes a local subscriber *)
(* on the same thread, else an external one, and then the thread of the    *)
(* emitting kid is registered as a writer of the other thread's shared     *)
(* queue: a queue with at most one writer becomes a single-writer ring.    *)
(* The walk also builds the order in which the kids are flushed at exit    *)
(* (ws_init_flush).  Each kid emits one type of data.                      *)
(***************************************************************************)
EXTENDS Naturals, Sequences, FiniteSets, SequencesExt

CONSTANTS
    Kids,
    Graphs,         \* the graphs: [edges, thread_id, sources, flushers], see below
    Accepts,        \* the pairs <<kid, port>> whose proc_input_set returns a function
    MAX_FLUSH_SUBS, \* the length of the table of flushers
    NoKid

ASSUME GraphConstants ==
    /\ MAX_FLUSH_SUBS \in Nat \ {0} /\ NoKid \notin Kids
    /\ \A g \in Graphs :
        /\ g.edges \in [Kids -> Seq(Kids \X Nat)]   \* <<subscriber, port>>, in list order
        /\ g.sources \in Seq(Kids) /\ g.flushers \subseteq Kids

VARIABLES
    graph,          \* the graph of this run
    inputs,         \* inputs[k]: the ports of k's input_list
    local_subscribers, ext_subscribers,
    shq_writers,    \* shq_writers[t]: the threads that write to t's shared queue
    flush_register, \* the kids ws_init_flush has seen
    flush,          \* mimo->flush.sub: the kids to flush, in order
    sources,        \* the sources still to be walked
    stack           \* the calls of the walk: [kid, its edges left, its next_level]

initVars == <<graph, inputs, local_subscribers, ext_subscribers, shq_writers,
              flush_register, flush, sources, stack>>

thread_id == graph.thread_id
ThreadIds(g) == {g.thread_id[k] : k \in Kids}

Init ==
    /\ graph \in Graphs
    /\ inputs = [k \in Kids |-> {}]
    /\ local_subscribers = [k \in Kids |-> <<>>]
    /\ ext_subscribers = [k \in Kids |-> <<>>]
    /\ shq_writers = [t \in ThreadIds(graph) |-> {}]
    /\ flush_register = {}
    /\ flush = <<>>
    /\ sources = graph.sources
    /\ stack = <<[kid |-> NoKid, edges |-> <<>>, next_level |-> <<>>]>>

Top == Head(stack)

(* A plausible error: a kid seen before is added once more. *)
FlushAgain(k) ==
    /\ flush_register' = flush_register \cup {k}
    /\ flush' = IF k \in graph.flushers /\ Len(flush) < MAX_FLUSH_SUBS
                THEN Append(flush, k) ELSE flush

(* All behind k slide to the left. *)
MovedToEnd(list, k) ==
    LET at == CHOOSE n \in DOMAIN list : list[n] = k
    IN  [n \in DOMAIN list |-> IF n < at THEN list[n]
                               ELSE IF n = Len(list) THEN k ELSE list[n + 1]]

(* ws_init_flush: a new flusher goes to the end of the order, and one that *)
(* was seen before moves there.                                            *)
ws_init_flush(k) ==
    /\ flush_register' = flush_register \cup {k}
    /\ flush' = CASE k \in Range(flush) -> MovedToEnd(flush, k)
                  [] k \notin flush_register /\ k \in graph.flushers
                         /\ Len(flush) < MAX_FLUSH_SUBS -> Append(flush, k)
                  [] OTHER -> flush

(* A new flusher on another thread counts as an external subscriber. *)
FlushWriter(k, d) ==
    IF d \in graph.flushers \ flush_register /\ thread_id[d] # thread_id[k]
    THEN {thread_id[k]} ELSE {}

(* ws_init_instance_input: the subscriber e of k. *)
Known(e) == e[2] \in inputs[e[1]]
IsNewInput(e) == ~Known(e) /\ e \in Accepts
IsLocal(k, e) == thread_id[k] = thread_id[e[1]]

(* A plausible error: the subscriber is not looked up. *)
AddAlways(list, e) == IF Known(e) \/ IsNewInput(e) THEN <<e>> \o list ELSE list

(* add_uniq_sub *)
AddUnique(list, e) ==
    IF (Known(e) \/ IsNewInput(e)) /\ e \notin Range(list) THEN <<e>> \o list ELSE list

(* A plausible error: only a kid's first input registers a writer. *)
DataWriterFirstOnly(k, e) ==
    IF ~IsLocal(k, e) /\ IsNewInput(e) THEN {thread_id[k]} ELSE {}

DataWriter(k, e) ==
    IF ~IsLocal(k, e) /\ (Known(e) \/ IsNewInput(e)) THEN {thread_id[k]} ELSE {}

NextLevel(e) == IF IsNewInput(e) THEN <<e[1]>> ELSE <<>>

-----------------------------------------------------------------------------
(* The next source. *)
NextSource ==
    /\ Len(stack) = 1 /\ Top.edges = <<>> /\ sources # <<>>
    /\ stack' = <<[Top EXCEPT !.kid = Head(sources), !.edges = graph.edges[Head(sources)]]>>
    /\ sources' = Tail(sources)
    /\ ws_init_flush(Head(sources))
    /\ UNCHANGED <<graph, inputs, local_subscribers, ext_subscribers, shq_writers>>

(* The next edge of the kid on top of the stack. *)
InitEdge ==
    /\ stack # <<>> /\ Top.edges # <<>>
    /\ LET k == Top.kid
           e == Head(Top.edges)
           t == thread_id[e[1]]
       IN  /\ IF IsLocal(k, e)
              THEN /\ local_subscribers' = [local_subscribers EXCEPT ![k] = AddUnique(@, e)]
                   /\ UNCHANGED ext_subscribers
              ELSE /\ ext_subscribers' = [ext_subscribers EXCEPT ![k] = AddUnique(@, e)]
                   /\ UNCHANGED local_subscribers
           /\ inputs' = [inputs EXCEPT ![e[1]] = IF e \in Accepts THEN @ \cup {e[2]} ELSE @]
           /\ shq_writers' = [shq_writers EXCEPT
                                ![t] = @ \cup DataWriter(k, e) \cup FlushWriter(k, e[1])]
           /\ ws_init_flush(e[1])
           /\ stack' = <<[Top EXCEPT !.edges = Tail(@), !.next_level = @ \o NextLevel(e)]>>
                         \o Tail(stack)
    /\ UNCHANGED <<graph, sources>>

LevelDone == stack # <<>> /\ Top.edges = <<>> /\ (Len(stack) = 1 => sources = <<>>)

(* ws_init_from_instance on the next kid of next_level. *)
Descend ==
    /\ LevelDone /\ Top.next_level # <<>>
    /\ LET k == Head(Top.next_level)
       IN  /\ ws_init_flush(k)
           /\ stack' = <<[kid |-> k, edges |-> graph.edges[k], next_level |-> <<>>],
                         [Top EXCEPT !.next_level = Tail(@)]>> \o Tail(stack)
    /\ UNCHANGED <<graph, inputs, local_subscribers, ext_subscribers, shq_writers, sources>>

Return ==
    /\ LevelDone /\ Top.next_level = <<>>
    /\ stack' = Tail(stack)
    /\ UNCHANGED <<graph, inputs, local_subscribers, ext_subscribers, shq_writers,
                   flush_register, flush, sources>>

InitDone == stack = <<>>

InitStep == NextSource \/ InitEdge \/ Descend \/ Return
Next == InitStep \/ (InitDone /\ UNCHANGED initVars)

Spec == Init /\ [][Next]_initVars

-----------------------------------------------------------------------------
TypeOK ==
    /\ inputs \in [Kids -> SUBSET {a[2] : a \in Accepts}]
    /\ \A k \in Kids : local_subscribers[k] \in Seq(Accepts) /\ ext_subscribers[k] \in Seq(Accepts)
    /\ \A t \in DOMAIN shq_writers : shq_writers[t] \subseteq ThreadIds(graph) \ {t}
    /\ flush \in Seq(graph.flushers) /\ Len(flush) <= MAX_FLUSH_SUBS

(* The kids the data of the sources can get to, along any number of edges: *)
(* the smallest set with the sources and with all that its kids feed.      *)
Feeds(k) == {e \in Range(graph.edges[k]) : e \in Accepts}
Closed(S) == Range(graph.sources) \subseteq S /\ \A k \in S : \A e \in Feeds(k) : e[1] \in S
Reached == LET closed == {S \in SUBSET Kids : Closed(S)}
           IN  {k \in Kids : \A S \in closed : k \in S}

(* Each kid the data can reach has each of its subscribers in one list,    *)
(* once: the walk misses no edge of a graph with cycles, several edges     *)
(* between the same kids or several ports, and a subscriber on another     *)
(* thread is never called directly.                                        *)
SubscribersExact ==
    InitDone => LET reached == Reached IN \A k \in Kids :
        LET fed == IF k \in reached THEN Feeds(k) ELSE {}
        IN  /\ Range(local_subscribers[k]) = {e \in fed : thread_id[e[1]] = thread_id[k]}
            /\ Range(ext_subscribers[k]) = {e \in fed : thread_id[e[1]] # thread_id[k]}
            /\ IsInjective(local_subscribers[k]) /\ IsInjective(ext_subscribers[k])

(* A shared queue that report_shq_writers turns into a single-writer ring  *)
(* has one writing thread: each thread that may add to a queue is counted. *)
WritersCounted ==
    \A k \in Kids : \A e \in Range(ext_subscribers[k]) :
        thread_id[k] \in shq_writers[thread_id[e[1]]]

(* Each kid with state to flush that the walk comes to is flushed once.    *)
FlushersOnce ==
    /\ IsInjective(flush)
    /\ Len(flush) < MAX_FLUSH_SUBS => Range(flush) = flush_register \cap graph.flushers
    /\ InitDone => Reached \subseteq flush_register
=============================================================================
