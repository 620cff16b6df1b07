# A TLA+ development for waterslide

Waterslide is a streaming processor of metadata. A configuration file describes
a graph of *kids* (processing modules, `src/src/procs/*.c`) connected by edges
that carry reference-counted data (`wsdata_t`). The serial program
(`util/waterslide.c`) runs the graph in one thread; the parallel program
(`util/waterslide-parallel.c`, built with `WS_PTHREADS`, `USE_ATOMICS` and
`USE_MUTEX_HOMED_FREE_LIST`, the defaults of `common.mk`) spreads the kids over
worker threads that hand *jobs* (a piece of data and a subscriber) to one another
through shared queues. This directory holds TLA+ models of the parallel engine, of the state
tables and of the kids that run on it, configurations that check them with TLC, and
proofs that TLAPS checks. Paths below are relative to `src/src/`.

Contents: [inventory](#1-inventory), [modules and code](#2-modules-and-the-code),
[runs](#3-runs-bounds-and-results), [fairness](#4-fairness),
[proofs](#5-proofs), [disagreements found](#6-where-the-code-and-its-comments-disagree),
[what is left out](#7-what-is-not-modelled), [plan](#8-plan),
[how to run](#9-running-it).

## 1. Inventory

| # | Component | State | Operations | Hard behaviours | What makes it correct |
|---|---|---|---|---|---|
| 1 | Shared queue (`include/shared/shared_queue.h`) | single-writer ring: `elements`, `head`, `tail`; multiple-writer linked queue: cells, `head`, `tail`; mutex build: a ring with a lock and two condition variables | add, nonblocking add and remove; `reset_shq_type` chooses ring or list | no locks, two ends on two threads, stores seen late, a swap and a link that are two steps | jobs of one writer arrive once and in order; no slot or cell has two owners; bounded |
| 2 | Free list (`include/wsfree_list.h`) | per-thread caches of free nodes, a count of allocated ones | allocate, free to the home cache | freed by another thread than the owner | a node is never handed out twice; the limit holds |
| 3 | Data (`include/waterslide.h`, `waterslidedata.h`, `lib/waterslidedata.c`) | `references`, labels with `label_len` and `writer_label_len`, parent and children | allocate, add a reference, delete, add/check/copy labels, assign a dependency | shared by threads after a fan-out | freed exactly when the last reference goes; labels exclusive and complete |
| 4 | Job dispatch (`lib/waterslide_io.c`) | local queue and shared queue of each thread, failover queues, `mgc[i].fullshq`, `deadlock_firehose_shutoff` | `ws_set_outdata` | blocking adds round a cycle of full queues, detection and recovery | no job lost, doubled or freed early; a deadlock of full queues is seen and resolved |
| 5 | Main loop (`lib/wsprocess.c`, `include/shared/wsprocess_shared.h`) | where each thread is, the sources, `num_src_threads`, `do_exit` | poll sources, run local and external jobs, drain failover queues, turn the sources on again | sources stop while others still work | all input is processed |
| 6 | Exit protocol (`include/shared/mimo_shared.h`, `wsprocess_shared.h`, `barrier_init.h`, `lib/setup_exit.c`) | `ready_to_flush`, `spinning_on_jobs`, `ready_to_exit`, `hop_to_next_thread_locext`, barrier | two waits, rounds of turns, rewiring, flush | counters read without a lock; barriers; Ctrl-C | queues are empty before the flush, nobody hangs, everybody leaves |
| 7 | Flush (`lib/wsprocess.c`, `mimo_flush_graph`) | index, number of flushes, thread 0's local queue | flush each kid until dry, start over | kids that feed kids flushed before | nothing is left in a kid; it ends |
| 8 | Graph build (`lib/init.c`, `include/shared/ws_init_threading.h`, `tarjan_graph.h`) | subscriber lists, registered writers, flush order, graph of threads | the walk from the sources, `reset_shq_type`, strongly connected components, placement of kids on threads | cyclic graphs, several edges and ports, several sources | every subscriber once, every writer counted, cycles exact |
| 9a | Work sharing (`shared/mwmr_queue.h`, `shared/kidshare.h`, `proc_workbalance.c`, `proc_workreceive.c`) | a queue of numbers of free receivers, how many kids share it | set up, take a number, put it back, release | several readers and writers on two condition variables | every number is in one place; no wake-up is lost |
| 9b | Containers (`wsqueue.h`, `failoverqueue.h`, `wsstack.h`, `listhash.c`, `wsheap.h`, `heavyhitters.h`, `rbtree.h`, `quicksort.h`, `bloomfilter.h`) | lists, stacks, heaps, trees | insert, remove, sort | rotations and cached extremes of the tree; the position arithmetic of the heap | order; nothing lost |
| 10 | State tables (`stringhash3/5/9a.h`, `existdata_table.h`, `existonly_table.h`, `bloomfilter.h`, `sht_registry.c`, `sht_expire_cnt.c`) | hash buckets in order of use, epochs, the registry | find, attach, mark as used, delete, walk, flush, dump and read | eviction inside a bucket, digests and epochs packed into spare bits, places that callers keep | answers are right; the oldest goes; losses are counted |
| 11 | Configuration (`graph.y`, `graph.l`, `ast.cc`, `graphBuilder.cc`, `so_loader.c`, `mimo.c`) | syntax tree, `parse_graph`, loaded modules | parse, build, load | sequential | |
| 12 | Kids and frameworks (`procs/*.c`, `wsprockeystate.c`, `wsprocbuffer.c`), data types (`datatypes/*.c`) | a table by key, a buffer, a window, a heap, counters, open files and sockets | `proc_init`, `proc_input_set` and a handler for each port, `proc_flush`, `proc_destroy` | state leaves by eviction, query and flush; streams come in pieces; files are cut and opened again | references balance; counts, order, bytes and records are kept |
| 13 | Utilities (`ahocorasick.c`, `stringmatch.c`, `fileout.c`, `sysutil.c`, `wsperf.c`, `wscalc.y`, `util/wsman.c`, `util/wsalias.c`) | | matching, files, statistics, manual pages | sequential | |

How they interact. The configuration (11) yields a graph of kids. The build (8)
walks it from the sources, makes the lists of local and external subscribers of
each kid, registers which thread writes to which shared queue, turns queues with
one writer into rings (1), computes the cycles of threads (one `mgc` entry each)
and the order of the flush. Each worker thread then runs the main loop (5): it
gives fresh data (3) to its sources, and runs jobs. When a kid emits,
`ws_set_outdata` (4) puts one job for all local subscribers into the thread's own
queue and one job for each external subscriber into the shared queue of its
thread, each with a reference. If a shared queue is full the add retries; if the
target thread lies on a cycle it marks the queue, looks for a cycle of full queues,
and if there is one turns off the sources and puts the job into its failover
queue, from which the main loop takes it later. At the end of the input or on
Ctrl-C the exit protocol (6) empties all queues and thread 0 flushes (7).

## 2. Modules and the code

### `JobChannel`, `SwsrQueue`, `MwsrQueue`: the shared queues

`JobChannel` is what a shared queue promises: the writers' jobs go in and come out
in the order they went in, each once; `ImplementsChannel` of both queue modules
instantiates it and is checked as a property.

`SwsrQueue` is the ring (`swsr_shared_queue_add_nonblock`,
`..._remove_nonblock`), one action per memory access. The indices are plain words. The add has a
machine fence between the job's words and `tail`, the remove has only compiler fences (`shared_queue.h:319` doubts
that this is enough); on x86 (the processors it is built for) a store may become visible late but stores of one
thread stay in order. The model gives each end a store buffer for its index: `tail` is what the writer wrote,
`seen_tail` what the reader sees, and `DrainTail` makes it visible at any later moment (`head` and
`seen_head` likewise). `AddPublish` is the fence and the store: it waits until the writer's last `tail` is visible. The
data in a slot is written before the index, so it is visible when the index is.

`MwsrQueue` is the linked queue (`mwsr_shared_queue_*`, `shared_queue_swap`) with
the homed free list of its cells (`wsfree_list_alloc`, `wsfree_list_free`): a
writer takes a cell from its own cache or allocates one up to `max_allocated`,
fills it, swaps it with the head, and links it to the cell it got back
(`AddFirst` and `AddLink` are the two ways). The reader has a fast path
(`RemoveAdvance`) and a slow one for the last cell: clear the tail, compare and swap
the head, and if that fails spin until the writer has linked its cell. Each
step is an action, so every interleaving of the two is explored.

### `Dispatch`, `Engine`, `ExitProtocol`: the engine

Three layers, each extending the one before. `Dispatch` has the state of the
queues and one frame per thread (the job it is running and how far the emission
has come); its actions are the steps of `ws_do_local_jobs` and `ws_set_outdata`:
`Call`, `Emit` (reference counting and the local job), `PushNext` (a
reference for each external job), `AddJob`, `Unmark`, `AddGivesUp` (the
attempt limit, marks `fullshq`), `NoDeadlockSeen`/`ShutFirehose` (the scan of
`mgc`), `FailOver`, `PushDone`, `JobDone`. The reads and writes of
`fullshq` and `deadlock_firehose_shutoff` are steps of their own because the
code takes no lock there. A kid may emit data that points into its input (`Deriver`;
`wsdata_ptr`, `wsdata_assign_dependency`): it holds a reference to it, and the thread that
drops the last reference gives the parents back one by one, parents of parents included
(`DeleteParent`, `DeleteDone`), while other threads go on.

`Engine` adds the loop of a thread: `TopRun`, `PollSource`, `SourcesEnd`, the
local jobs, the batch of at most `MAX_EXTJOBS_LIMIT` external jobs, the way back
from a deadlock (`TopRecover`, `Recovered`, `FailoverTake`, `Refill`,
`AllClear`), and the end of the input (`EndOfStream`) or of patience
(`Interrupt`, the signal handler).

`ExitProtocol` adds what follows the loop: the wait until all threads have left it
(`Gathering`), the wait on `spinning_on_jobs` (`Settling`, `SettleCount`), the
rounds in which thread `ithread` runs local and external jobs while the others
serve their external queues (`BeginRound`, `SetupTurn`, `BeginTurn`, `Mined`,
`Spinning`, `Hop`, `EndTurn`), the barriers, and the flush by thread 0
after `Rewire`.

A kid is seen from the engine: per input it emits `Outputs[k]` times. A shared
queue is a sequence in which each writer may hold `QueueLength` jobs, as both
queue modules implement it. `MCPipeline`, `MCRecovery` and
`MCFanOut` give graphs: `local_subscribers` and `ext_subscribers` are what the build leaves behind, each external
subscriber a kid of another thread (`SubscribersByThread`). The assumption `SccsAreTheCycles` ties the constant `Sccs` to
the graph of threads by reachability; that the code computes just that is what
module `Tarjan` shows.

### `Subscribe`, `Tarjan`: the build of the graph

`Subscribe` is the walk of `ws_init_from_sources` and `ws_init_from_instance` with
its recursion as an explicit stack: `NextSource`, `InitEdge` (all of
`ws_init_instance_input` for one edge: the input list, the subscriber lists, the
writer registration, `ws_init_flush`), `Descend`, `Return`. `Tarjan` is `dfs` of
`tarjan_graph.h`, recursion again as a stack, followed by the loop of `report_shq_writers` over the components, one
step each (`BuildMgc`): a component with more than one thread becomes an entry of `mgc`, and its threads are marked.
The components it should find are defined without a path: `Reachable(v)` are the threads in every set that `v` lies in and
that no edge leaves.

### `FlushGraph`: the flush

Extends `Subscribe`: the flush order is the one the walk builds. Each flusher
holds some data; `FlushKid` flushes one, `LocalJob` lets the subscribers keep or
pass on what it emits, `Drained` decides between another flush of the same kid, the
next kid, and the fresh start. The choice of what a kid keeps is nondeterministic,
so every kid that stores, filters or forwards is covered. `MCGraphs` and `MCFlushGraph` give graphs.

### `LabelList`, `DataLabels`: labels of one piece of data

`LabelList` is an append-only list that is reset as a whole. `DataLabels` is
`wsdata_add_label` in the atomic build: the fetch-and-add that reserves a slot
(`Reserve`) or goes over the limit (`ReserveOver`, `Undo`), the store, and the
wait for `label_len` to come up to the slot (`Publish`); `wsdata_check_label` reads
`label_len` again for each slot; `Recycle` is `wsdata_core_init` for the data's next life
(only when no thread is in a call: it runs after the last reference is gone). The
published labels implement `LabelList`.

### `WorkShare`: work for whoever is free

Balancers and receivers on threads of their own. `proc_init` makes the queue and fills it
with the receivers' numbers, `proc_init_finish` lets each receiver find its label. A
balancer waits for a number (`mwmr_queue_remove`), labels the job with it and passes it on; the
receiver puts its number back (`mwmr_queue_add`). What happens under the mutex is one
step; the broadcast that follows the unlock is another, so that a thread can come in between.
`Spurious` is a wake-up without a broadcast. `proc_destroy` releases the queue with the last sharer.

### `StateTable`, `Stringhash5`, `Stringhash9a`, `Stringhash3`: the state tables

The three tables as functions from a table and a key to what a call returns, what it tells its
callback and the new table. `Stringhash5` keeps the words of a bucket in order of use,
each with a digest, the number of its data bin and one stolen bit of the bucket's epoch;
the two sorts differ in who carries these bits. `Stringhash9a` has digests in
words and further digests cut into the words' spare bytes, as `AfterClear` shows when a delete
disturbs them. `Stringhash3` has chains and one list by age. `StateTable` puts any one of
them under any sequence of calls beside the keys it should hold (`held`) and which of
them was used before which (`before`), two history variables, with `Walk` (the visit may delete), `Jump` (a caller uses a place it kept
from an earlier call) and `Restart` (dump and read).

### `KidBase`, the kids, `Kids`

77 kids, each as its options (`<kid>_cfgs`: every option that changes what it does), its
first state (`<kid>_init`) and its handlers (`<kid>_input_set`, one case for each port). `KidBase`
has what they share: tuples and their members with labels, search by label and by
path, references, `ws_set_outdata`, a table by key that throws out its oldest
record through the kid's callback, and the boundaries of time.

| Module | Kids |
|---|---|
| `KeyedKids` | keycount, keyaverage, keyvariance, keyrate and keyadd (over `wsprockeystate.c`), keyadd_initial, keyflow, keytime, labelstat, cntquery |
| `WindowKids` | firstn, untiln, keepn, keeplast, lastn, appendlast, appendfirstitem |
| `FilterKids` | uniq, uniqexpire, bloom, sample, haslabel, equal, countlabels, stateclimb, bandwidth |
| `MatchKids` | match, match_uint, exactmatch, fixedmatch, label, addlabelmember, labelmultiple |
| `SortKids`, `RbTree` | sort, rbsort, top, heavyhitters, with quicksort, the heap and the red-black tree |
| `TupleKids` | subtuple, mergetuple, jointuple, splittuple, dupetuple, mknest, denest, bundle, unbundle, removefromtuple, fillmissing, mklabelset, data2label, tuplehash, flush |
| `StringKids` | substring, strlen, strings, charcnt, asciihex, encodebase64, base64, dupestring, tr, sed (over `wsprocbuffer.c`), splitstring, combinestrings |
| `SourceKids` | exec_in, csv_in, file_in, source_keygen |
| `SocketKids` | tcpthrow, tcpcatch, udpgen_in, udpgen_in_buf |
| `FileKids` | print, metadice, writebuffer, over `fileout.c` and `sysutil.c` |
| `MiscKids` | loadbalance, keyadd_initial_custom |

`Kids` starts one kid with any options and calls its ports in any order, with the flush
among the calls; what the operating system does (what a pipe holds, how much a socket takes, that
a peer or a command is gone) is part of the call. `hist` and `sent` are the calls and what each gave out.
An invariant about one kid holds of the others because it does not speak of them; `RefsBalanced` speaks of all.

## 3. Runs, bounds and results

The passing runs explore all states within their bounds.

| Run | Bounds | States | What it shows |
|---|---|---|---|
| `swsr` | 4 slots, 9 jobs | 514 | `NoSlotRace`, `InOrder`, `Delivered`, `ImplementsChannel`: the ring works with late stores. Nine jobs go round the ring more than twice. |
| `mwsr` | 2 writers, 2 cells each, 3 adds each | 80,891 | `NoCellShared`, `EmptyIsEmpty`, `SpinEnds`, `ImplementsChannel`: two writers and the reader meet in every order, and a cell is reused while another thread may hold a stale head or tail. |
| `data_labels` | 3 threads, 2 labels, 3 slots | 40,847 | `SlotsExclusive`, `RefusedOnlyFull`, `OwnLabelFound`, `AddEnds`, `ImplementsList`: with as many threads as slots the limit is reached and overrun by several threads at once. |
| `pipeline` | 3 threads, 5 kids, 1 item, 4 pieces of data, queues of 1, at most 4 hops, a Ctrl-C at any time | 473,817 | `ReferencesExact`, `TurnsAgree`, `NoHang`, `EmptyAtFlush`, `NothingLeft`, `Exits` in a pipeline with a fan-out to a local and two external subscribers, where two kids emit data that depends on their input: a parent, its child and its grandchild are freed on two threads. |
| `recovery` | 2 threads, 3 kids, 1 item emitted 3 times, queues of 1, batches of 2 | 212,055 | `ReferencesExact`, `DeadlockSeen`, `Recovers` with the deadlock of two full queues, failover and the way back. |
| `tarjan` | all directed graphs of 4 threads without self-loops | 86,270 | `ComponentsExact`, `InCycleExact`: the components are exact, `mgc` lists the cycles of the graph and no others, and the threads of all of them are marked. Four nodes allow two cycles side by side, nested and overlapping ones. |
| `graph_build` | all graphs of a source with up to 2 edges and two kids (one with two ports) on 1, 2 and 3 threads, not flushed; 4 acyclic graphs of up to 6 kids that are flushed, with tables of up to 2 entries | 303,938 | `SubscribersExact`, `WritersCounted`, `FlushersOnce`: cycles, parallel edges, several ports and kids reached along several ways all occur. `OthersFlushed`, `FlushEnds`: of what a flush gives to kids flushed before, only the first kid's is left. |
| `work_share` | 2 balancers, 3 receivers, 3 jobs for each balancer, spurious wake-ups | 79,076 | `TokensConserved`, `AllServed`: six jobs go round three numbers, so that balancers wait and wake each other up. |
| `state_tables` | each table with 7 keys that share two small buckets, filled up to its limit, then every sequence of 5 calls | 84,990 | `AnswersRight`, `EpochKept`, `VictimIsOldest`, `LossCounted`: five calls are enough to evict, delete, walk, insert again and come back by an old place. |
| `kids` | 77 kids with all combinations of their options, tuples of 0 to 4 members, one record of a table, 1 to 6 calls | 552,665 | `RefsBalanced`, `SortedWhole`, `KeysExact`, `StreamsWhole`, `RecordsKept`: a table of one record throws it out at the next key; rbsort has six calls, enough for both kinds of rotation and for the repair after a removal. |

Runs that end in a violation, each of one property that quotes a comment of the
code (section 6): `fanout`, `flush_first`.

The bounds by name: `MaxAdds` (jobs that are sent), `Items` (pieces of data that exist at
once; `PollSource` and `Emit` wait for a free one where the code would allocate),
`MaxHops` (how often a job is passed on: a job in a cycle of kids would otherwise travel
for ever), `Input` (items a source delivers), `TableLen` (entries a kid keeps),
`max_allocated`, `max_length`, `QueueLength`, `MAX_EXTJOBS_LIMIT` (smaller than in the code
so that limits are reached), `Jobs`, `MaxCalls` (calls of a table or a kid), `Cap` (records of a kid's
table), `EXEC_BUF_MAX`, `HEADER`, `RbNodes`. Deadlock is checked in every run of the engine and the queues: where a model has
come to its end (all threads done, all jobs sent) it has an explicit step that
changes nothing. `state_tables`, `kids` and `work_share` stop at their last call or when the queue is released
(`CHECK_DEADLOCK FALSE`); in `work_share` `AllServed` says that they do not stop before.

The recovery run claims neither `NoHang` nor `Exits`: with two threads in a cycle the
exit protocol has the weakness that run `fanout` shows. `pipeline` has three threads in a row, numbered along the stream, where
it does not occur. `MCPipeline` and `MCRecovery` assume `Forward` and `Ring`, the hypotheses of the theorems about these graphs, so TLC evaluates that the runs
are instances of them.

Each property of a passing run was also checked against a plausible error in the
code (a definition marked "A plausible error" next to the one it would replace):
TLC finds the property violated with each of them.

## 4. Fairness

Every liveness property is checked under weak fairness per thread: a thread that can
take a step at its place in the code takes one eventually, which the operating system's
scheduler guarantees to runnable threads. There is no strong fairness; in particular
nothing says that a thread whose add keeps failing gets in before others.
`WF(Barrier)` says that `pthread_barrier_wait` lets the threads go once all have
arrived. `Interrupt` is not fair: the user need not press Ctrl-C. In `SwsrQueue`
the draining of a store buffer is fair, because processors make stores visible in finite
time. `DataLabels` is fair for each thread inside a call but not for the calls
themselves, nor for `Recycle`; in `WorkShare` each kid's thread is scheduled again and again, and `Spurious` is not
fair, so no job may need a wake-up that nobody sends; `FlushGraph` is sequential and only says that thread 0 goes on.

## 5. Proofs

TLAPS (with Z3, Zenon and LS4) checks eight proof modules, each beside its component; no obligation is left
out. The assumptions are those of the modules, evaluated by TLC in the runs. Each inductive
invariant was first checked with TLC as an invariant of the component's run. The layout is the same everywhere: the invariant as a
conjunction of named parts, one lemma for `Init`, one lemma per action (or kind of action), a lemma
for `[Next]_vars`, and a theorem that combines them.

| Theorem | States | Inductive invariant |
|---|---|---|
| `SwsrQueueProofs!RingSafe`, `EndsApart` | `[](TypeOK /\ InOrder /\ OneSlotFree)`, `[]NoSlotRace` | `RingInv` |
| `SwsrQueueProofs!RingIsAChannel` | `Channel!SafeSpec` | `RingInv` |
| `MwsrQueueProofs!CellsSafe`, `EmptyLooksEmpty` | `[](TypeOK /\ NoCellShared)`, `[]EmptyIsEmpty` | `QueueInv` |
| `MwsrQueueProofs!QueueIsAChannel` | `Channel!SafeSpec` | `QueueInv` |
| `DataLabelsProofs!LabelsSafe`, `LabelsNotRefused` | `[](TypeOK /\ SlotsExclusive /\ CountExact)`, `[]RefusedOnlyFull` | `LabelInv` |
| `DataLabelsProofs!OwnLabelsFound`, `LabelsAreAList` | `[]OwnLabelFound`, `ImplementsList` | `LabelInv`, `OwnLabelThere` |
| `SubscribeProofs!WritersAlwaysCounted` | `[]WritersCounted` | `WalkInv` |
| `SubscribeProofs!SubscribersAreExact` | `[]SubscribersExact` | `WalkInv /\ ListsInv` |
| `SubscribeProofs!FlushersAreOnce` | `[]FlushersOnce` | `WalkInv /\ ListsInv /\ FlushInv` |
| `SubscribeProofs!OthersAreFlushed` | `FlushedAcyclic` implies `[]OthersFlushed`, for `FlushSpec` | `WalkInv /\ ListsInv /\ FlushInv /\ FlushedInv` |
| `SubscribeProofs!FlushIsAWalk` | `FlushSpec => Spec`: the three above hold with the flush too | |
| `WorkShareProofs!TokensAreConserved` | `[]TokensConserved` | `ShareInv` |
| `ExitProtocolProofs!TurnsAlwaysAgree` | `[]TurnsAgree` | `ExitInv` |
| `ExitProtocolProofs!ReferencesAlwaysExact`, `FreeDataIsUnused` | `[]ReferencesExact`, `[]FreeIsUnused` | `RefInv` |
| `ExitProtocolProofs!NothingLeaks` | `[]DrainedIsAllFree`, any graph | `RefInv /\ Ranked` |
| `ExitProtocolProofs!ForwardIsEmptyAtFlush`, `ForwardLeavesNothing` | `Forward` implies `[]EmptyAtFlush`, `[]NothingLeft` | `RefInv /\ Ranked /\ EndInv` |
| `ExitProtocolProofs!RingDeadlockIsSeen` | `Ring` implies `[]DeadlockSeen` | `MarkInv` |
| `TarjanProofs!ComponentsAreExact`, `CyclesAreExact` | `[]ComponentsExact`, `[]InCycleExact` | `SearchInv` |
| `StateTableProofs!EpochsAreKept` | `[]EpochKept` | `Inv` (`Inv5`) |
| `StateTableProofs!AnswersAreRight`, `VictimsAreOldest`, `LossesAreCounted` | without deletes from `stringhash9a`: `[]AnswersRight`, `VictimIsOldest`, `LossCounted` | `Inv` (`Inv5`, `Inv9`, `Inv3`) |

**The ring** (any `max_length > 1`, any number of jobs). None of the safety
properties is inductive: whether a slot is free depends on how stale each end's view
of the other is. `RingInv` says it: the four indices `seen_head`, `head`,
`seen_tail`, `tail` follow one another round the ring within one turn
(`EndsInOrder`), the slots between `head` and `tail` hold the jobs numbered from
`removed + 1` (`Contents`), the number of jobs in the ring is the distance
between the two, and each end knows after its check that the slot it is about to
use is its own (`WriterKnows`, `ReaderKnows`). The lemmas are about distances round
the ring: how they add up and how they change when an end moves by one. For the
refinement, `DrainTail`, which makes a job visible to the reader, is the send, `RemoveAdvance` the receive, and every other step a stutter.

**The linked queue** (any finite set of writers, any number of cells and jobs; `SomeWriters`, `NullIsNoCell`,
`NullIsNoJob`). `QueueInv` has three parts beside the types. `CellInv` gives each allocated
cell one owner: a free list, the queue (`order`, the cells in the order of the swaps, a history
variable), a writer that fills it, or the reader that gives it back. `JobInv` says what is in a cell. `ChainInv` says that
`next` leads along the queue but for the cells whose writer has swapped and not linked yet,
that such a writer knows the cell before its own, and what the two ends point to at each place
of the reader's code. That the compare-and-swap of the reader fails exactly when a writer has swapped is a consequence, and so is
`EmptyIsEmpty`.

**Labels** (any finite set of threads, any labels, any limit). `LabelInv` adds to the properties that the number of slots taken is
`label_len` plus the number of threads between reservation and publication and is at most the
limit, that the slots of those threads lie in exactly that range and are distinct
(`SlotsTaken`), that a slot of a waiting thread holds its label (`Stored`), and that every
slot below `label_len` is filled (`Filled`). The cardinalities of the sets of adding and
refused threads change by one in each step; `FS_AddElement` and `FS_RemoveElement` give that.
`OwnLabelThere` says further that a thread that has added its label and not yet
finished its check has it in front of it. For the refinement, every step of
`DataLabels` is an `Add`, a `Reset` or a stutter of `LabelList`: `Publish` is the `Add`.

**The graph build** (every set of graphs, those with cycles included, any number of kids, ports and threads).
`WritersAlwaysCounted` is what makes the ring usable: a queue with one registered writer has one writer.
`WalkInv` has the types of the stack and of the lists, and that only calls of real kids have edges left.
For `SubscribersAreExact`, `ListsInv` says that what is listed is right (`ListsRight`), that the walk does not leave the
set of kids the data can get to (`FramesRight`), and that nothing is forgotten (`NoneForgotten`): each edge of a kid that the walk has come to and
is not still to visit is listed or is on the stack. `Reached` is the smallest set of kids with the sources and closed under
edges, so the two inclusions are: all that is seen is in each closed set, and when the stack is empty the
kids seen are a closed set. `FlushInv` says that `flush` is injective and has the flushers seen so far; moving a kid to the end
(`MovedToEnd`) permutes the list. The limit `MAX_FLUSH_SUBS` of the code is part of both properties.

**The flush** (any graphs, of which those that are flushed have no cycle; tables of any size `TableLen` with `TableLen + 1 < MAX_FLUSHES`, which is 2^31 - 1 in the code).
`FlushedInv` says when the kids before the one being flushed may have something left: only while jobs of this kid have run, and then the flush starts over (`AtKid`, `AtDrain`).
Why the kid itself ends with nothing: as long as its calls lead to jobs it has given up an entry in each (`held + flushes <= TableLen`), and the jobs do not bring any back, since they
stay in the set of kids behind it (`Behind`). That this set is closed comes from `ListsInv`: what is listed are edges of the graph. So a call that leads to no job comes before `MAX_FLUSHES`
is reached, and it leaves the kid empty. `NeverBack` states the absence of a cycle by such sets, so no induction over paths is needed; `MCFlushGraph` assumes it of its graphs.
The jobs of a call are a `FlattenSeq`, a recursive function: `JoinsExist` shows that it is defined, and `Flattened` what it returns, by the least number for which that would fail (`LeastNat`).

**Work sharing** (any finite nonempty set of balancers, any number of receivers and jobs; without a balancer nobody makes the queue). `ShareInv`
gives the number of each receiver one of four places (`OnePlace`: queued, held by a balancer, on a job, being
put back), each once (`OnceThere`), from the moment the queue is filled. That the queue then has room for
each number that comes back is the pigeonhole principle (`QueueHasRoom`). `Announced` says that a waiting balancer and a number in the queue mean
that a broadcast is due, `Counted` that the queue is freed with its last user.

**The exit protocol** (any number of threads, any graph of kids, any queues, batches and items, an interrupt at any time). The
proof abstracts from the jobs: `ThreadMoves` shows that every step of a thread, those in `Dispatch` and `Engine` included, is
a `Move` of the few variables that the turns depend on; where a thread is in a call is by the place it comes back to (`Where`).
`ExitInv` then says that all threads are in one phase together: before a round, before a turn, during a turn, after the last round, or done.
During a turn no thread is through before the one whose turn it is, because the hop mark is false when
a turn begins and only that thread sets it (`DuringTurn`). `Gathered` says that `ready_to_flush` counts the threads that have left their
loops, so that a thread goes on only when all have; this is why no thread in the rounds meets one that still runs local jobs in its loop.
Neither `spinning_on_jobs` nor the number of jobs is needed.

**References** (any number of threads and pieces of data, any subscribers, queues, batches and emissions, with recovery and exit).
`ReferencesExact` says that `references` of each piece of data is the number of its entries in queues and frames, its holders
and its children. Each of these is a cardinality of a set of positions, so a step is exact when each set gains or loses one element: `QueuedAppend` and
`QueuedTail` say what an add and a remove do to the positions of a queue, `CountChange` what that does to the sum. `RefInv` adds the types of
queues and frames (`RefTypes`), that the counted sets are finite (`Countable`), that a piece of data has at most one parent (`Parents`), and (`DeadOnce`) that the threads that give back the parents of what they delete work on disjoint data to which nobody holds a
reference: otherwise two threads could free a parent twice. `FreeDataIsUnused` follows: what is free is in no queue and no frame, and nothing depends on it. The
assumptions are the constants' types (`EngineConstants`, `SourceConstants`) and that external subscribers are on other threads (`SubscribersByThread`).

**Nothing is left behind** (any graph). `NothingLeaks` is the question that exact counts leave open: data that refers to itself in a circle of
dependencies would keep itself alive with all counts exact. `Ranked` rules that out: each piece of data can be given an age (`Ages`) such that what it depends on has a lower one,
because only data that has just left the free list gets a parent (`NewChild`): it gets an age above all others. So if no queue entry and no job refers to any data,
the last made of the pieces that are not free can be referred to by a child only, and its children would have been made later. That the ages of
these pieces have an extreme is `LeastNat`, from the library's `WFMin`, which needs no operator parameter.

**The end of a run** (`Forward`: no cycle of threads, and each thread writes only to threads with higher numbers). In general
the exit protocol does not end with empty queues (section 6): a job that moves from thread to thread can stay ahead of the turns. If jobs
only move upward, the turns follow them. A round goes from thread 0 upward; `TurnPhase` says that while all turns of the round were idle (`ready_to_exit`), all threads below the one whose turn it is are
idle (`IdleBelow`: no frame, and all three queues empty). An idle thread becomes active only when a thread below writes to it, so it stays idle (`Steady`). The thread whose turn it is has run no job in it only if
it found its local queue and its shared queue empty in one call (`FoundNothing`), and it then is idle too. When the last round has ended without a job all threads are idle, at
the flush and afterwards (`OverIsIdle`). Failover queues are empty because no thread without a cycle fails over (`NoFailover`), and each thread runs only its own kids (`Own`), which is what
makes a job's destination a thread that its own thread writes to. `JobStepAt` and `JobStepFrame` say this of all steps of a job. `ForwardLeavesNothing` is then `NothingLeaks`.

**The deadlock of a ring** (`Ring`: the only cycle of threads has one writer for each of its threads; the ring may be of any length, and there may be any
number of threads beside it). `ws_set_outdata` marks the queue that refused its job, and the mark is cleared by whoever next
gets a job into that queue. `MarkInv` says that a thread about to scan has its mark set: the thread marks before it scans, and the only other thread that could clear the mark would be another writer of the
same queue. Both halves of the hypothesis are needed: with two writers the mark of the one that is stuck can be cleared by the other, and with two cycles the marks go to the wrong
array (section 6). The graph does not stay a ring when the flush has rewired it; until then `Own` holds, after it no thread marks or scans (`LocalPlaces`).

**The cycles of threads** (any number of threads, any graph). `Level(x)` is the height of a node on the stack and does not change while it is
there; `Node(k)` is the node of the `k`-th call. The components found so far are whole components and make up the nodes done (`Components`), from
which no edge leads to any other node (`Walk`). For the call that ends with its own number, the nodes from its node upward all reach that node and are reached from it (`Reaches`), and
none of them has an edge to a node further down: such an edge would have given the node that has it, or the minimum of the call it is in, a lower number (`EdgesLow`), which the minimum
of each enclosing call takes in (`MinKnows`). So they and the nodes done are a set that no edge leaves, and they are one component. A call that ends with a lower number
leaves its node on the stack; it reaches the node of the call before (`LowReaches`), although in this variant of the algorithm `lowlink` is overwritten with the minimum and is then
neither a preorder number nor the lowest that can be reached. `Cycles` says what the loop over the components has made of them so far. Reachability by closed sets needs no induction over paths:
one edge at a time shows what is reached (`ReachableFacts`), one closed set that nothing else is (`ReachableInClosed`). `TypesAreKept` proves `TypeOK`.

**The state tables** (any keys, hashes, numbers and sizes of buckets, bits of epoch and limits, any calls in any order, over dumps that are read back). The three invariants say the same of their tables:
a key is there at most once (`Once`), in a bucket it hashes to (`AtHome`), and the places of a bucket, or the list of `stringhash3`, are in the order of last use that `before` records (`InOrder`, `Queued`); the keys of different
buckets are disjoint, and together they are `held`. What a call throws out is therefore the last place of a bucket, which was used before all others of it: `VictimsAreOldest`. It is one key if the place was taken
and none otherwise, and the drop count goes up just then, although the code decides that from the depths of both buckets (`DepthIs`, `BestBucket`; `ZerosIs` for `stringhash9a`): `LossesAreCounted`.
Beside that, `Inv5` needs that the bins of a bucket are a permutation of its places (`Bins`), or a jump to a bin would not find its word, and that each bin is filled for the key of its word (`Filled`), which gives
`AnswersRight`; `Inv9` that free places are at the end (`Packed`), or an insert could throw a key out of a bucket that has room uncounted (a walk of `stringhash5` does leave holes, and an insert may then throw out the last key of a bucket with a hole, but it counts that, because depth is the last place used); `Inv3` that a key is in its chain if and only if it is in the list.
For the epochs, `Spells` says bit by bit what the lending words hold: the sorts and deletes keep it because they leave these bits in place, `sh5_sort_lru_noepoch` does not, and the `sh5_set_epoch` that follows it writes them again (`Inserted`). That the bits then
add up to the epoch is `BitsSpell`: the sum of the lowest `n` bits is the epoch modulo the `n`-th power of two, by the least number for which it would not be (`LeastNat`).
A delete from `stringhash9a` breaks its invariant (section 6), which is why `"sh9a" \notin Deletable` is the hypothesis of three of these theorems and of the run; `EpochsAreKept` does without it.

Only model-checked:
- all liveness (`Delivered`, `SpinEnds`, `AddEnds`, `AllServed`, `Exits`, `Recovers`, `FlushEnds`, and the fairness part of `ImplementsChannel`), which TLAPS cannot prove;
- `NoHang`, which depends on the graph and on the order in which threads are counted (section 6), for the graph of `pipeline`; `EmptyAtFlush`, `NothingLeft` and `DeadlockSeen`
  do not hold in general either and are proved for the graphs named above;
- the kids, whose modules have recursive operators, and what the delete of `stringhash9a` does.

## 6. Where the code and its comments disagree

Two of these are runs:

1. `flush_first` (`lib/wsprocess.c:353`): "reset to start afresh" sets `i = 0` inside a
   `for` loop with `i++`, so the flush starts over at the second kid. With a short and a long way to the
   same kid, the first kid of the order is fed by a later one and not flushed again.
2. `fanout` (`mimo_shared.h:226`, "ensure that no thread hangs"): a thread that counts as idle gets a job after
   the count reached zero, and waits for room in the queue of a thread at the barrier.

Four more have a counterexample that TLC finds within seconds; `MCTableDelete.cfg` is here to show one of them:

3. `EmptyAtFlush` (`mimo_shared.h:262`, "At this point, all queues are empty of jobs"): a job that moves from thread to
   thread can always be one step away from the thread whose turn it is. Two threads suffice, with a source on thread 1 and a chain of
   four kids that changes thread at every edge. A cycle of threads is not necessary: it also happens on four threads with the jobs going from thread 1
   to 3, from 3 to 2 and from 2 to 0. If all jobs go to higher threads it cannot (`ForwardIsEmptyAtFlush`).
4. `DeadlockSeen` (`lib/waterslide_io.c:168`): `ws_set_outdata` marks `themimo->mgc->fullshq`, which is the
   array of the first cycle, whatever cycle the thread is in. With two cycles (threads 0 and 1, threads 2 and 3), the deadlock
   of the one that is not first is never seen; its threads retry for ever. With one cycle that is a ring it is seen (`RingDeadlockIsSeen`).
5. `SourcesOffWhileFailedOver` of `ExitProtocol`, as an invariant of `MCRecovery.cfg` (`wsprocess.c:153`): the sources are turned on again between the moment a
   thread turns them off and the moment its job is in the failover queue.
6. `MCTableDelete.cfg` with module `MCStateTable`, `DeleteForgetsOne` (`stringhash9a.h:1386`, "delete record at hashkey"): the delete moves words down
   with an assignment that clears their spare bytes, which hold parts of other keys, so a delete makes the table forget
   other keys too; a key that lives in spare bytes is not found by the delete. `uniq` calls it on its port REMOVE. `state_tables`
   leaves this delete out.

Seen while modelling; the models have them as the code does, and the properties of section 3 are stated so that they say what is
kept nevertheless:

- Exit: each call takes only one entry out of the failover queue (`wsprocess.c:280`, an `if` under the comment
  "attempt to empty out all failoverq"), and an entry is not counted as a job, so the flush can begin with entries left.
- Build: a plain edge gives its destination the thread of its source even if the destination already has one
  (`ws_init_threading.h`, `edge_trans`); the 129th flusher is left out without a message (`init.c:418`).
- Work sharing: a second balancer of a label with fewer channels reads beyond its labels; a receiver fed by two labels returns
  one number twice and never the other; a job whose label list is full gets no label, and its number never comes back.
- Windows: `rbsort` does not return from a call after a flush that is not the last (`rbtree.h:950-1007`), so `Kids` flushes it at exit only;
  `top` does not keep the greatest (`wsheap.h:207`); `wsheap_update` moves an element one way only.
- Keys: `keyaverage` has no callback and leaks what its table throws out; `uniqexpire` never removes on REMOVE
  (`proc_uniqexpire.c:384`); two keys of one tuple alias one record's tuple in `keycount` and `keyadd`.
- Tuples: `jointuple` leaves a stored tuple under its other keys (`proc_jointuple.c:538`); `mergetuple` loses what its table throws out;
  `data2label` drops the last two characters.
- Sources: `exec_in` loses what is in the pipe when the command exits (`proc_exec_in.c:454`); an empty file ends `csv_in`
  (`proc_csv_in.c:483-498`); a reordered frame is counted as missed by `udpgen_in`.
- Sockets: when a client is removed the file descriptors move up but not their partial messages (`tcp_rw.h:435-446`), which go to another client;
  `StreamsWhole` leaves these streams out; `tcp_catch_recv_msg` reads for ever when the peer closes within a payload (`tcp_rw.h:525-535`).
- Files: a file that was closed by eviction is opened with mode `w` (`fileout.c:684`; the comment at line 526 says append), so its first
  part is overwritten; `RecordsKept` leaves out the options of `print` with which this happens (`Overwrites`).

## 7. What is not modelled

In the modelled parts: edges with label conditions and the monitors
(`ws_init_from_monitors`) in `Subscribe`, where each kid has one output type; the
129th flusher (`MAX_FLUSH_SUBS`), flush in cyclic graphs (a kid in a
cycle may feed itself for ever; with `no_flush_on_exit`, which is modelled, they are built but not flushed); the second and third Ctrl-C (`_exit`); failure of
memory allocation (so of `keycount -R`, which then releases the key and gives out nothing, only the way that succeeds); kids whose `proc_func` writes to shared state of its own; statistics
(`SQ_PERF`, `WS_PERF`). The models of the queues assume the x86 memory order.

In the tables and kids: tables shared by threads (each call is under a lock of its bucket), the registry that
sizes tables, hashing (keys stand for their digests, and two keys with the same digests are one key), the layout, printing and
hashing of values, the automata behind the matchers (a match is what the pattern finds), errors of system calls other
than a peer or a command that is gone.

Not at all: the mutex build of the shared queue, which the default build does not use; the serial build (one thread of `Engine`
without exit protocol); placement of kids on threads; command line, parser and loader, which are sequential
and end before the engine starts; calc with its language, decodejson and print2json (a parser and a printer),
and the kids that call libraries outside the repository (filemagic, re2, Kafka, Redis, protocol buffers, dpu);
the statistics and the documentation tools. `PROJECT.json` gives a reason for each.

## 8. Plan

Order: what every job goes through first (queues, dispatch, exit), then what decides how
these are used (graph build, flush), then data, then what single kids use.

Done: `JobChannel` <- `SwsrQueue`, `MwsrQueue`; `Dispatch` (with dependent data) <- `Engine` <- `ExitProtocol`;
`Subscribe` <- `FlushGraph`; `Tarjan`; `LabelList` <- `DataLabels`; `WorkShare`; `StateTable` over `Stringhash5`, `Stringhash9a`,
`Stringhash3`; `KidBase` <- the kids' modules <- `Kids`; proofs about `SwsrQueue`, `MwsrQueue`, `DataLabels`, `Subscribe`, `WorkShare`,
`ExitProtocol` (the turns, and with `Dispatch` and `Engine` the references, the end of a run and the deadlock of a ring), `Tarjan` and `StateTable`.

Next, the same for what the kids share: the references of `KidBase` (`RefsBalanced`), for which its recursive operators have to become recursive functions.

Further modelling, if the bounds allow it: the mutex build as `MutexQueue` (its attempts are only counted after a wake-up), the placement of
kids on threads (`edge_trans`).

## 9. Running it

In this directory: `tlc -config SwsrQueue.cfg SwsrQueue.tla` and likewise for the other
runs of `PROJECT.json` (module and configuration are named there); `tlapm SwsrQueueProofs.tla`
and likewise for `MwsrQueueProofs`, `DataLabelsProofs`, `SubscribeProofs`, `WorkShareProofs`, `ExitProtocolProofs`,
`TarjanProofs` and `StateTableProofs`. `pipeline` takes a bit more than two minutes with two workers, `fanout`, `kids` and `state_tables` one to one and a half, everything
else less.
