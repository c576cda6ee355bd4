# A TLA+ verification of XSB's tabling and multi-threading

XSB is a Prolog system: a compiler to byte code (`cmplib/`), an emulator of the SLG-WAM in C
(`emu/`), libraries in Prolog (`syslib/`, `lib/`) and packages. What sets it apart is *tabling*
(SLG resolution: subgoals and answers are memoised, so left-recursive and non-stratified programs
terminate), and, in the multi-threaded build, threads that share tables and exchange messages.
This directory models the parts of the engine whose correctness depends on an order of steps.
All paths below are relative to `src/XSB/`.

## 1. The system

### Concurrency (compiled with `MULTI_THREAD`)

| Component | State | Operations | Interacts with | What makes it correct |
|---|---|---|---|---|
| Message queues (`emu/thread_xsb.c`, `lib/mutex_xsb.P`) | `mq_table`: per entry a list of cells, `size`, `max_size`, `n_threads`, `deleted`, `mutex_owner`, `mq_mutex`, two condition variables; per thread `current_mq_cell`, `cond_var_ptr` | `message_queue_create`, `thread_send_message`, `thread_get_message` (TRY/RETRY/ACCEPT), `thread_peek_message` (PEEK/REPEEK/UNLOCK), `message_queue_destroy` | signals, thread exit, the entry lists | a FIFO mailbox with selective receive; no lost wakeup; a search keeps the mutex; a destroyed queue is freed once; an id never reaches a later queue |
| Signals and cancellation (`XSB_THREAD_INTERRUPT`, `syslib/x_interp.P`, `syslib/thread.P`) | `asynint_val`, `enable_cancel`, `to_be_cancelled`, a signal queue per thread | `thread_signal`, `thread_cancel`, `'_$thread_int'` | message queues, mutexes, exit | a signal is handled, its thread is left consistent |
| Thread table (`th_vec`, `init_thread_table`, `th_new`, `th_delete`, `th_get`) | a free list and an ordered list of entries with incarnation, `detached`, `exited`, `status` | create, exit, join, detach, self, properties | private queues, aliases | ids are unique, a thread is joined or reclaimed once, entries are not lost |
| Queue table (`mq_first_free`, `mq_first_queue`) | a free list and a list of queues through the same link field | pop and insert on creation, unlink and append on deallocation | message queues | the two lists partition the public entries |
| User and system mutexes (`lib/mutex_xsb.P`, `MUTEX_*`, `SYS_MUTEX_*`) | `DYN_MUTEX_FRAME` list with owner and depth; `sys_mutex[]` | create, lock, trylock, unlock, unlock_all, destroy | thread exit | mutual exclusion, recursion depth, nothing held after exit |
| Shared completed tables (`emu/deadlock.c`, `usurp.h`, `slginsts_xsb_i.h`) | per subgoal `tid`, `grabbed`, `leader`; per thread `waiting_for_tid`, `waiting_for_subgoal`, `deadlock_brk_leader` | call of a table another thread evaluates, `would_deadlock`, usurpation, completion wakes the waiters | completion | no cycle of waiting threads, one evaluator per subgoal, a waiter wakes |
| Concurrent completion (`emu/conc_compl.c`, `complete_xsb_i.h`) | inter-thread dependency lists, `num_suspended` | `CompletionLeader`, `WakeOtherThreads`, `CompleteOtherThreads` | completion | a set of mutually dependent subgoals completes only when all are exhausted |
| Reader/writer lock (`emu/rw_lock.c`) | reader count, mutex, condition | lock/unlock for read/write | answer tries | exclusion, no starvation of a writer |
| C calling XSB (`emu/cinterf.c`) | `xsb_ready`, `xsb_mut`, `xsb_synch_mut` | `xsb_ccall_thread_create`, `xsb_query`, `xsb_next`, `xsb_close_query` | thread table | each side runs when the other waits |
| Structure managers (`emu/struct_manager.c`) | blocks and free lists per record type | allocate, deallocate, free private/shared | tables | a record is handed out once |

### Tabling

| Component | State | Operations | What makes it correct |
|---|---|---|---|
| SLG scheduling and local completion (`slginsts_xsb_i.h`, `schedrev_xsb_i.h`, `complete_local.h`, `complete_xsb_i.h`, `scc_xsb.c`, `wfs_xsb_i.h`) | completion stack, approximate SCCs, consumers with unconsumed answers | tabletry, answer return, check-complete | a subgoal is completed when, and only when, no more answers can come |
| Delays and simplification (`slgdelay.c`) | delay lists, PDE and NDE lists | delaying, simplification, answer completion | the residual program has the well-founded model |
| Incremental tabling (`call_graph_xsb.c`, `incr_xsb.c`, `syslib/increval.P`) | call graph with `falsecount`, `changed`, affected list | invalidate, traverse, re-evaluate | an up-to-date table has the answers a fresh evaluation would give |
| Subgoal and answer tries (`tries.c`, `trie_lookup.c`) | trie nodes, hash tables | lookup and insert, delete a branch | a term is stored once |
| Subsumptive tabling (`tst_*.c`, `sub_delete.c`) | time-stamped tries | insert, retrieve answers newer than a time stamp | a consumer sees each answer once |
| Table abolition and its garbage collection (`tr_utils.c`) | deleted-table frames, marks | abolish, mark, sweep | no table that a choice point uses is reclaimed |
| Table inspection (`table_stats.c`, `residual.c`, `trace_xsb.c`) | none of its own | statistics, residual program | reporting only |

### The rest of the engine

Dynamic code and retract (`biassert.c`), symbol and string tables (`psc_xsb.c`, `hash_xsb.c`),
heap garbage collection (`heap_xsb.c`, `gc_*.h`), `findall` (`findall.c`), interned terms
(`struct_intern.c`), backtrackable and permanent storage (`storage_xsb.c`), C hash tables
(`hashtable.c`, `hashtable_xsb.c`), growing stacks (`dynamic_stack.c`, `memory_xsb.c`), the byte-code
loader (`loader_xsb.c`, `dynload.c`), the emulator's instructions (`emuloop.c`, `unify_xsb.h`), the
asynchronous interrupts (`subp.c`, `inst_xsb.c`), I/O and sockets (`io_builtins_xsb.c`,
`token_xsb.c`, `socket_xsb.c`), ODBC, Oracle, InterProlog and DDE interfaces, the compiler
(`cmplib/`), the Prolog libraries, the packages, `gpp`, the build and installation, documentation,
examples and test suites.

### What is hard

* **Interleavings.** Queue operations, signals, destruction and re-creation of the same entry;
  a reader keeps `mq_mutex` across three builtins and the Prolog code between them.
* **Stale state.** A thread sleeps on a queue while it is destroyed; an id outlives its queue; a
  position in a queue is invalid after a wait.
* **Partial failure.** A signal ends a wait, or an exception ends a search, in the middle.
* **Bounds.** Declared sizes, 16-bit counters, tables of fixed size that fill up.
* **Liveness.** Wakeups that must not be lost; threads that wait for each other's tables.
* **Sequences of legal calls** through pointer-linked lists that share one link field.

## 2. The plan

1. `MessageQueue`, and `Mailbox`, its abstract specification (model checked and proved).
2. The lists of the queue table and of the thread table, and the life of a thread.
3. Shared completed tables: deadlock detection and usurpation.
4. Incremental tabling: invalidation and lazy recomputation against what follows from the facts.
5. Local completion of SLG evaluation, against the least model of a small program.
6. Delay and simplification, against the well-founded model.
7. Table abolition and its garbage collection, against a store of tables.
8. Private queues (composition of the queue with exit and creation of its owner), user mutexes,
   the wait for a negative literal on a shared table.

1 to 7 are built, in the state that section 7 tells. Each
component has an abstract specification that says what it promises, and its detailed module is checked to
implement it; the abstract ones are the place where proofs reach furthest, since they have neither
lists nor stacks.

## 3. Modules

| Module | Models | Kind |
|---|---|---|
| `MessageQueue` | one entry of `mq_table` and the threads that use it | detailed |
| `Mailbox` | what a queue promises | abstract, `MessageQueue` implements it |
| `MessageQueueProofs` | the inductive invariant of `MessageQueue`, no lost wakeups, and that it implements `Mailbox` | proofs |
| `SlotTable` | the link fields of `th_vec` and of the public part of `mq_table` | detailed |
| `SlotTableProofs` | the lists of a table that is never full; it implements `SlotPool` | proofs |
| `SlotPool` | a pool of slots | abstract; `SlotTable` implements it, `ThreadTable` uses it |
| `ThreadTable` | create, exit, join, detach | detailed; its entries behave as a `SlotPool` |
| `ThreadTableProofs` | an entry per thread, given back once, its status kept | proofs |
| `SharedTables` | the protocol of shared completed tables | detailed |
| `SharedTablesProofs` | one evaluator, no circle, complete tables, until a deadlock is broken | proofs |
| `CompletedTables` | what threads that share tables rely on | abstract, `SharedTables` implements it |
| `IncrementalTables` | the call graph of incremental tables, invalidation, recomputation | detailed |
| `DynamicProgram` | a program over dynamic facts and its least model | operators for the two around it |
| `CurrentViews` | a query is answered from the facts as they are | abstract, `IncrementalTables` implements it |
| `LocalEvaluation` | generators, consumers, SCCs and scheduling of positive programs | detailed |
| `LocalEvaluationProofs` | its tables are sound, its lists and stacks are kept, the user is given the table | proofs |
| `TableCompletion` | when an answer may be added and tables be completed | abstract, `LocalEvaluation` implements it |
| `DelaySimplification` | conditional answers, delay lists, simplification | detailed |
| `DelaySimplificationProofs` | `DelaySimplification` implements `ResidualProgram`; its answers are sound | proofs |
| `ResidualProgram` | when a literal, a rule, an atom may be decided | abstract, `DelaySimplification` implements it |
| `ResidualProgramProofs` | no decision contradicts the well-founded model | proofs |
| `TableAbolition` | abolishing tables, deleted-table frames, mark and sweep | detailed |
| `TableStore` | tables that are given up and reclaimed, but not while used | abstract, `TableAbolition` implements it |
| `TablesProofs` | of `TableCompletion`: completed tables are the least model; of `TableStore`: no choice point into a reclaimed table | proofs |
| `MC...` | instances of the seven detailed modules | constants of the runs |

Two conventions hold everywhere. A step is what one thread does while it holds the mutex that
protects the data; what it does before or after, a broadcast included, is a step of its own, since
another thread may come between. An operator whose name ends in a remark (`Full_off_by_one`,
`Mark_reset_kept`) is a mistake that the code does *not* make; no action uses it, and each property
is shown to fail when the real operator is exchanged for it.

### `MessageQueue` (`emu/thread_xsb.c`, `lib/mutex_xsb.P`, `syslib/x_interp.P`)

`slot`, `deleted`, `chain`, `size`, `maxSize`, `nThreads`, `mutexOwner` are the fields of the entry;
`lock` is the holder of `mq_mutex`; per thread there are `cur` (`current_mq_cell`), membership in
`woken` (its `pthread_cond_wait` may return) and in `asynint` (the mark of a signal). `gen` counts
the creations; a program holds `handle[t]`, a past creation, and `Id` reduces it to the
incarnation bits that `Check_deleted` compares.

| Actions | Code |
|---|---|
| `Create`, `Init_message_queue` | `MESSAGE_QUEUE_CREATE` pops the entry, then `init_message_queue` |
| `Check_deleted` | the test of id and `deleted` that begins every operation |
| `Send_wait`, `Send`, `Send_broadcast` | `THREAD_SEND_MESSAGE`: wait for room, enqueue, broadcast after the unlock |
| `Try`, `Unify`, `Retry`, `Accept`, `Accept_broadcast` | the four parts of `thread_get_message/1`; `Unify` is the Prolog unification between two builtins, with the mutex held |
| `Peek`, `Peek_unify`, `Repeek`, `Unlock_queue` | `thread_peek_message/1` |
| `Destroy`, `Destroy_broadcast`, `Queue_dealloc` | `XSB_MESSAGE_QUEUE_DESTROY` and `queue_dealloc`, which the last waiter runs when there are waiters |
| `Wait_interrupted`, `Wait_deleted` | the two early returns of `wait_on_queue` |
| `Thread_interrupt`, `Handle_signal`, `Spurious_wakeup` | `thread_signal/2`, `'_$thread_int'`, POSIX |

Terms are model values, and what a goal unifies with is a set of terms. Undefined behaviour (reading
through a `current_mq_cell` that is `NULL` or freed) leads to the place `fault`, where a thread stays.
The module has one public queue. A thread's private queue and signal queue, whose entry is initialised
again with the thread, are not modelled.

### `SlotTable` and `SlotPool`

`next`, `prev`, `firstFree`, `lastFree`, `first` are the pointers of the code; both lists run through
`next_entry`. One module has both tables because they differ only in how an entry enters the list of
those in use: `th_new` searches for its place, `MESSAGE_QUEUE_CREATE` inserts at the head.
`FreeIsUnused` says of pointers what `SlotPool` says of a sequence and a set.

### `ThreadTable` (`emu/thread_xsb.c`, `syslib/thread.P`, `syslib/file_io.P`)

Threads are numbered by creation and `owner[e]` is the thread the entry's incarnation denotes.
`alias`, `assert`, `unsetup`, `spawn`, `valid`, `undo` are the parts of `thread_create/3` between two
accesses to shared state; `exit`, `uncount`, `uncountWrite` those of the end of a thread; `wait`,
`reclaim`, `status` those of `thread_join/2`; `mark`, `retract` those of `thread_detach/1`. The alias
and the exit-ball facts and the count of threads, which is incremented under `th_mutex` and
decremented without it, are variables. A thread asserts at most one exit ball, in front of the
others; `balls[c]` numbers the ends of threads instead of keeping a list (0: no ball), and the first
ball is the one with the highest number.

Assumed or left out: a joinable thread is joined or detached by one caller (`claimed`; POSIX leaves a
second `pthread_join` undefined); incarnations do not wrap; `th_delete` in the two error paths
of creation is atomic although the code does not lock there; `XSB_RECLAIM_THREAD_SETUP` passes an id
where `th_delete` wants an entry and writes outside the table, of which the model has only the effect
that the entry stays in use; exit handlers, `thread_property/2` and the release of memory.

### `SharedTables` and `CompletedTables` (`emu/usurp.h`, `deadlock.c`, `slginsts_xsb_i.h`, `complete_*.h`)

A program gives each subgoal, and each thread, the list of subgoals that its clauses, or its queries,
call. `stack[t]` is the completion stack with the generator choice points: a frame has its subgoal,
the clause it is at, whether it leads an SCC and whether it can be backtracked to. The bottom frame
stands for the thread's queries.

| Actions | Code |
|---|---|
| `New_producer` | first call of a subgoal (`tid`, a frame) |
| `Take_grabbed` | the leader of a deadlock calls a subgoal it grabbed (`usurp.h` 8-14) |
| `Ask`, `Leave_wait`, `Wait`, `Break_deadlock` | a call of a subgoal of another thread: under `completing_mut`, leave, wait, or break the circle that `would_deadlock` finds |
| `Reset_thread`, `Reset_nothing`, `To_next` | `reset_other_threads`, one thread of the circle per step, without the mutex |
| `Usurp` | the leader takes the mutex again and takes the producer over |
| `Consume`, `Return_answers` | a call of an incomplete subgoal of the thread's own, of a completed one |
| `Become_consumer`, `Mark_as_completed`, `Broadcast` | `check_complete`: a non-leader waits for its leader; a leader marks its SCC frame by frame, then wakes |

Abstracted: each clause calls one tabled subgoal, answers are not represented (local evaluation
returns answers when the SCC is completed), the walk of `would_deadlock` and the reset of one
thread's stacks are single steps. Left out: the same wait for a negative literal
(`bineg_xsb_i.h`), early completion, exceptions and abolition, threads that end with incomplete
tables, and the stale `waiting_for_tid` after a re-check. In the sense of the C standard, a thread
that consumes from a frame it does not own has undefined behaviour: the model's thread takes no
further step, and `ConsumesOwn` excludes the state.

### `IncrementalTables`, `DynamicProgram` and `CurrentViews` (`emu/call_graph_xsb.c`, `emu/tables.c`, `emu/tries.c`, `syslib/increval.P`)

`cn` are the callnodes with `falsecount`, `deleted`, `changed`, `no_of_answers` and `prev_call`; `edges`
is the graph, from a goal to a callnode that used it. A subgoal that is recomputed has two callnodes at a time
(`Copies`), which is where edges and counts go wrong if they do.

| Actions | Code |
|---|---|
| `Incr_update`, `Dfs_outedges`, `Dfs_pop`, `Change_fact` | `incr_assert`, `incr_retract` and `dfs_outedges`: an update invalidates upwards, edge by edge, and refuses an incomplete table half way |
| `Abolish`, `Abolished` | an incremental table is abolished |
| `Query`, `Call_leaf`, `Call_table`, `Use_table`, `Recompute` | `handle_incremental_recomputation` of the call of a table |
| `Interrupt`, `Dfs_dependency_edges`, `Add_callnode`, `Return_lazy_call_list`, `Call_if_affected`, `Call_again` | the list of the tables an invalid one depends on, and `increval.P`, which recomputes them first and then repeats the call |
| `New_answer`, `Complete`, `Reclaim`, `Propagate_no_change` | an answer is compared with the previous evaluation's; without a change the invalidation is taken back upwards |
| `Error`, `End_with_error` | an evaluation ends with an error (only in `SpecWithErrors`) |

The passing run has no errors: after one, a callnode keeps its `directly` mark, and a table may be
recomputed before one it depends on (`DependenciesFirst` is false of `SpecWithErrors`, while
`CurrentAnswers` and `IsView` held with two updates, abolishes and errors in the instance of `incr.cfg`).

`CurrentViews` knows facts, a query and its reply only.

### `LocalEvaluation` and `TableCompletion` (`emu/slginsts_xsb_i.h`, `schedrev_xsb_i.h`, `complete_*.h`, `tables.c`)

`cps` is the choice point stack with generators, consumers and choice points into completed tables;
`breg` and `bfreg` (the freeze register) point into it; `frames` is the completion stack, `leaders`
those of its frames that lead an SCC, `sched_heap` the heap of `find_fixpoint`; `sf` the subgoal frames
with their lists of answers and of consumers. `at` is the place in a clause, with the value it has
computed; a clause maps the answers of its literals to an answer, which is all that terms are needed for.

| Actions | Code |
|---|---|
| `CallNew`, `CallIncomplete`, `CallCompleted` | the three cases of `tabletry` |
| `NewAnswer`, `IgnoreAnswer` | `new_answer_dealloc`, with the early completion of a ground subgoal |
| `NextClause`, `AnswerReturn`, `TrieAnswer` | backtracking into a generator, a consumer, a completed table |
| `ScheduleOwnConsumers`, `ScheduleScc` | `check_complete` with `sched_answers` and `find_fixpoint` |
| `CompleteScc`, `makeConsumerFromGenerator` | the end of `check_complete` for a leader and for another |
| `AnswerQuery`, `NextQuery` | the user |

### `DelaySimplification` and `ResidualProgram` (`emu/slgdelay.c`, `bineg_xsb_i.h`, `complete_local.h`)

Each clause of an open goal has a place, its delays and a status (`clause`); `answer` holds what a
goal's answer is, `lists` the back pointers (PDEs and NDEs), `calls` the C stack of nested
simplifications, one step of a loop at a time. `EnterPosUnconditional` to `NextNegFails` are the
entries, loop bodies and exits of the five routines and of `handle_empty_dl_creation` and
`handle_unsupported_answer_subst`. `StartCompletion` to `FinishCompletion` are the completion of an SCC
with the negative literals that wait for it. The clauses of an SCC may run in any order. `HeadOf`, `BodyOf`,
`LeftOf`, `Dead`, `TrueGoals` and `FalseGoals` are the refinement mapping: what is left of a clause are its
delays and the literals it has not come to, and a goal without answers counts as false once its
table is complete or its SCC is being completed.

### `TableAbolition` and `TableStore` (`emu/tr_utils.c`, `tab_structs.h`)

`mem` is the table space: table info frames, call tries (as sets of frames), subgoal frames and deleted
table frames (deltfs), each at an address that is used again once it is free. A list is what its links
lead to (`Along`), so a link to freed memory shows. `cps` are the choice points of generators and into
answers. `AbolishPred` is `abolish_table_pred` with the garbage collection that comes first, `AbolishCall`
is `abolish_table_call`, `AbolishAll` is `abolish_all_tables`, `GC` is `gc_tables`. `Roots` is what the
walk up from a freed leaf of a call trie may end at: anything.

## 4. Runs

Twelve runs. Ten must pass; two show a disagreement between the code and what a comment says of it.

| Run | Instance | What it shows |
|---|---|---|
| `queue` | 3 threads: one creates and sends, one sends and reads, one reads and destroys; 2 terms with a goal each, 2 cells, size 2, 2 creations | Without signals: the queue is a mailbox (`IsMailbox`); nobody sleeps beside room or beside a term it wants; a search has the mutex; a term is in the queue it was sent to; the queue is freed once |
| `signals` | 3 threads: two senders that destroy, one that reads and peeks; a sender and the reader get signals that return or throw; 1 term, 2 cells, size 1, 2 creations | The inductive invariant of the proofs |
| `served` | 3 threads: a sender that destroys, one that sends, reads or peeks, a reader; 2 terms, 1 cell, 1 creation, fairness | A reader whose term is there is served; a destroyed queue's entry returns |
| `slots` | both tables, 4 entries, at most 3 in use | Both lists partition the entries; the table implements the pool |
| `threads` | 2 callers, 3 created threads, 2 entries, an alias, `pthread_create` may fail, fairness | An entry per thread, given back once, and given back at all; status persists |
| `shared` | 3 threads; 3 subgoals, one with at most one call and two with up to 2, every such program up to renaming; fairness | One evaluator per subgoal; no thread consumes from a table that is not its own; no circle; completed means complete; all queries are answered |
| `incr` | 3 tables over 2 facts, one of them recursive; 3 updates or abolishes; fairness | A valid table is a current one; what is above an invalid table is invalid; dependencies first; queries get current answers, and end |
| `eval` | 2880 programs of 3 subgoals, one ground; each queried in turn | `TableCompletion` is implemented; the user gets every answer; consumers stay frozen; queries end |
| `eval_popped` | 1 program | *violation*: a table is completed without an answer |
| `delays` | 324 ground programs of 4 goals with negation, queried in turn | `ResidualProgram` is implemented; delay lists and back pointers agree; nothing stays undecided that is decided; queries end |
| `abolish` | 2 predicates, 3 goals, 4 frames, 3 tries, 3 deltfs, 3 choice points; a predicate, a goal, or everything is abolished again and again | `TableStore` is implemented; chains agree; nothing is lost; the collector leaves only what is used |
| `abolish_two` | the same with two predicates to abolish | *violation*: a table is reclaimed under a choice point |

**Why the bounds are enough.** A queue of size 1 is full and empty in turn, one of size 2 has a
middle; two terms and readers with different goals make a reader pass over a cell; two readers and two
senders are needed for a broadcast that wakes the wrong one; a second creation is the first at which
an old id can reach a new queue. `IncMod` is large: an id that wraps is not detected by the code
and the manual does not promise it. In a table of four entries an entry can be first, last, or
between two others in either list. Three created threads in two entries reuse an entry whose owner
was joined, detached or never started. A circle of three threads is the shortest in which
`would_deadlock` has to walk past the next thread and a leader to reset more than one; a subgoal with
two calls is the least that can join two SCCs.

Three incremental tables make a path, a diamond and a cycle; three updates can invalidate, come
between a recomputation's parts, and invalidate again. The programs of `eval` are all combinations of
clauses that let an SCC be joined while a part of it is already scheduled, complete a ground
subgoal inside it and outside it, and need several rounds to the fixpoint; those of `delays` are built
so that the failure of one goal decides another while a third's list is being walked. The two violations found
in longer programs (below) came from a random comparison with the engine, and each was then reduced to
a program of this size or slightly above. Three choice points can be in three generations of one
predicate's tables, and with four frames and three tries the fourth table takes an address that was used before.

**Against the engine.** The sequential engine was built from this source and given the programs that
the model evaluates. For `LocalEvaluation` the answers of more than 1200 random positive programs agreed,
including those that are wrong in both. For 400 random programs with negation, 7 atoms were
wrong in the engine; all of them are due to the popped frame of `eval_popped`, and none of 800 were wrong
after the bound of the loop in `find_fixpoint` was changed so that the leader's frame stays.

**Deadlock** is checked in all passing runs but `threads`, where all threads may have ended, or a
thread waits in `pthread_join` for one that nothing obliges to end. `LocalEvaluation` and
`DelaySimplification` have a step `Idle` for when the queries are finished and only then, so that the
absence of deadlock says that some step of the engine is enabled until the end.

**Fairness.** `served`: a thread that has begun an operation goes on (`WF` of `Moving`) and one
that asks for `mq_mutex` again and again gets it (`SF` of `Locking`); nobody is obliged to call
anything. `threads`: the threads do not all stop while one is
inside a call or its exit; nothing obliges a thread to begin a call, or its goal to end. `shared`: the
threads do not all stop while one has a step. Both follow from weak fairness of each thread, which
the operating system's scheduler gives, and are less; that they are enough means that no thread can
starve another. Strong fairness of a mutex is what any implementation but an adversarial one
gives, and without it no program that uses one progresses.
`incr`, `eval`, `delays`: one thread, which goes on. Outside `served` fairness is written as
`[]<>P \/ []<><<TRUE>>_vars`, that is `WF_vars(A)` for the steps `A` that change `vars`, with the negation of its
`ENABLED` written out as `P`, since TLC is many times faster then.

**The order of `completing_mut`.** `FifoMutex = TRUE` says that a thread woken by a broadcast gets
the mutex before one that asks for it later; POSIX does not say so. The passing run of `SharedTables`
assumes it. With `FALSE` (`sh_race.cfg`), the thread that completed a subgoal and broadcast may go on,
call a subgoal of the thread it just woke, take it for a waiting one since `waiting_for_tid` is
cleared only once it has the mutex, and reset it; `OneEvaluator` and `IsTables` then fail as well. Even in
order, a victim whose predicate another subgoal shares is woken by that one's broadcast
during its reset (set `Predicate <- OnePredicate` in `shared.cfg`). The positive results are those
of a protocol in which every subgoal has a condition variable and the mutex is fair, and in programs
in which no leader comes upon what another one grabbed: the test in `usurp.h` (8 to 10) asks whether a
subgoal is grabbed and whether the caller is a leader, but not whether it is the leader that the
subgoal was marked for; and `is_deadlock_leader` is cleared nowhere but in the next wait, so that a thread
keeps it when its circle is long complete. `SecondLeader` (below) has such a thread come to a second
circle; `OneEvaluator` and `ConsumesOwn` fail there, while `NoCircle` and `IsTables` hold.

**What `abolish` does not combine.** Its three workloads abolish a predicate, or a goal, or
everything. Each pair of them violates a property in the code (below), so that a passing run cannot have both.

### Findings

* `eval_popped` -- `find_fixpoint` (`schedrev_xsb_i.h` 279) takes the leader's own frame off the heap. When
  the SCC is joined to an older one afterwards, the leader's generator becomes a consumer, and nothing
  schedules it. `e(X) :- d(X). d(1). d(X) :- a(X), e(_). a(X) :- d(X).` with all three tabled: `?- e(X)`
  fails in the engine.
* `abolish_two` -- freeing a deltf makes the next one of *all* deltfs the first of its predicate
  (`tab_structs.h` 93, 115, 141, 163). The predicate's others are then not marked, and their tables are
  reclaimed while a choice point returns from them; in the engine a query returned answers of
  another predicate.

### Further counterexamples

These configurations are kept to be run by hand (`tlc -config X.cfg M`); each ends in a violation and
says what is *not* true of the code. A row with "in" is the configuration named there with this property in
place of its own, and with the constants given.

| Configuration | Module | Property | What happens |
|---|---|---|---|
| in `mq_cancel.cfg` | `MCMessageQueue` | `DeletedWillBeFreed` | The last waiter of a destroyed queue is also signalled: it leaves before it sees `deleted` and nobody frees the queue |
| `mq_cancel.cfg` | `MCMessageQueue` | `MutexNotLeaked` | A reader is cancelled between two builtins and keeps `mq_mutex` for ever |
| in `mq_deaf.cfg` | `MCMessageQueue` | `AcceptHoldsCell` | A reader whose wait a signal ended goes on to accept, without the mutex and with no cell |
| `mq_deaf.cfg` | `MCMessageQueue` | `SignalWakes` | A signal between the look at `asynint_val` and the wait wakes nobody |
| `slots_thfull.cfg` | `MCSlotTable` | `FreeIsUnused` | `th_delete` (`thread_xsb.c` 501) sets `th_first_free` and `th_last_free` to an entry of an exhausted table but not its `next_entry`, which still leads to a thread in use: the next but one `th_new` hands out a running thread's entry |
| in `slots_thfull.cfg`, `Tables = {"mq_table"}` | `MCSlotTable` | `FreeIsUnused` | The same in `mq_table` |
| in `slots_thfull.cfg`, `Entries = 4` | `MCSlotTable` | `Ordered` | `th_new` does not keep the list of threads in the table's order |
| in `th_alias.cfg` | `MCThreadTable` | `DeadIdInvalid` | `xsb_thread_create_1` (643) marks the new thread's entry valid after `pthread_create`, when a detached thread may have ended and cleared it |
| in `th_alias.cfg` | `MCThreadTable` | `JoinOwnStatus` | `thread_join/2` returns another thread's ball |
| `th_alias.cfg` | `MCThreadTable` | `AliasKept` | Joining or detaching a thread removes a running thread's alias |
| `th_unique.cfg` | `MCThreadTable` | `AliasUnique` | Two threads created at once get the same alias |
| in `th_alias.cfg` | `MCThreadTable` | `AliasRemoved` | An alias stays after its thread is gone |
| in `th_unique.cfg` | `MCThreadTable` | `OneThreadActive` | `flags[NUM_THREADS]` loses an increment |
| `sh_race.cfg` | `MCSharedTables` | `ResetSuspended` | A thread that was woken and has not run yet is reset (`usurp.h` 24) |
| `sh_leader.cfg` | `MCSharedTables` | `ConsumesOwn` | A leader that has to wait stops being `is_deadlock_leader` although it still has grabbed subgoals to call (`usurp.h` 35): it consumes from a table nobody evaluates. It takes five subgoals |
| in `sh_leader.cfg`, `Programs <- SecondLeader` | `MCSharedTables` | `OneEvaluator` | A thread that was the leader of a circle takes a subgoal over that the leader of the next one grabbed (`usurp.h` 8): it evaluates a subgoal whose frame names the other (`subg_tid`) |
| `in_refused.cfg` | `MCIncrementalTables` | `CurrentAnswers` | An update inside an evaluation stops at an incomplete table when half of the tables are invalidated; the change is made (or not) all the same |
| `in_error.cfg` | `MCIncrementalTables` | `FreedNotWalked` | An evaluation that ends with an error leaves its previous callnode in the graph |
| `in_wrap.cfg` | `MCIncrementalTables` | `CurrentAnswers` | `falsecount`, 14 bits in the code and one here, wraps to zero: valid |
| `le_lost.cfg` | `MCLocalEvaluation` | `CompletedHasAll` | `sched_answers` (`schedrev_xsb_i.h` 94 to 117) unlinks a live consumer with a completed one |
| `le_pruned.cfg` | `MCLocalEvaluation` | `CompletedHasAll` | Early completion (`slginsts_xsb_i.h` 1231 to 1244) cuts the choice point by which another subgoal of the SCC is answered; confirmed in the engine |
| `ds_depth.cfg` | `MCDelaySimplification` | `DepthIsNesting` | `simplify_neg_fails` (`slgdelay.c` 1398) returns early without lowering `simplification_depth_gl`; in the engine, `t :- n(N), between(1,N,I), b(I), fail. t :- tnot(x). x :- t, fail. b(_) :- tnot(t).` exits with "Too many nested simplifications" from `N = 100` |
| `ab_goals.cfg` | `MCTableAbolition` | `InUseKept` | A goal abolished in use is unlinked through its own links (`tr_utils.c` 2609 to 2613, 2668 to 2672): its neighbours drop out of the predicate's list, and the predicate is abolished without an error while one is incomplete; confirmed in the engine |
| in `ab_goals.cfg` | `MCTableAbolition` | `NothingLost` | A predicate's deltf replaces those of its goals (`tr_utils.c` 2580 to 2585) but does not hold their tables: they are never reclaimed |
| in `ab_goals.cfg`, `Workloads <- PredicateAndAll` | `MCTableAbolition` | `ChainsAgree` | `abolish_all_tables` frees the deltfs and leaves `TIF_DelTF` pointing at them (`tr_utils.c` 4478 to 4490) |

Two larger instances pass and take some minutes more than the runs: in `eval.cfg`, `Subgoals = {"p", "q"}`,
`Ground = {}`, `Programs <- PairPrograms` and `Queries <- PairQueries` (all programs of two subgoals with
one or two clauses), and in `delays.cfg`, `Atoms = {"p", "q"}`, `Programs <- PairPrograms` and `Queries <- PairQueries`
(all programs of two goals with clauses of up to two literals).

## 5. Proofs

`MessageQueueProofs` proves, for any number of threads below 65536, any cells, terms, goals, sizes,
any pattern of calls and of signals, and any bound on creations:

| Theorem | States |
|---|---|
| `QueueInvariant` | `Spec => []QueueInv` |
| `TypeCorrect` | `Spec => []TypeOK` |
| `SearchSafe` | `Spec => []SearchHoldsMutex`: a search keeps the mutex, and its cell stays in the chain |
| `WaitersAreCounted` | `Spec => []WaitersCounted`: `n_threads` is the number of waiters, for any history of interrupted and deleted waits |
| `EntryFreedOnce` | `Spec => []FreedOnce`: nobody waits in an entry that is free, one thread frees it |
| `TermsInRightQueue` | `Spec => []RightQueue`, if creations do not exceed the incarnations (`MaxGen <= IncMod`) |

**The argument.** None of these is inductive alone. That an entry off the list has no waiters needs
that the thread which frees it saw `n_threads` at zero, hence that `n_threads` counts exactly
(`WaitersCounted`), hence that a waiter always leaves through `wait_on_queue`; that it is freed once
needs that a destroyer and a last waiter do not both reach `dealloc`, hence that `deleted` is set once
per creation and that nobody begins to wait in a deleted queue. `EntryConsistent` ties `slot`,
`deleted`, `gen` and `lock` together (a free entry is marked deleted, so a stale handle is turned away
even if its id matches), and `HandlesIssued` says that handles are past creations. `QueueInv` is the
conjunction, and each action preserves it conjunct by conjunct. `RightQueue` is proved from
`QueueInv` and the lemma that `Id` is injective over `IncMod` successive creations. The two numeric
facts, that adding 65535 modulo 65536 subtracts one and that a cardinality below 65536 is its own
remainder, are lemmas; `ThreadsFit` is where the 16 bits of `n_threads` enter.

**Assumptions.** `ConstantsOK` (types and distinct null values) and `ThreadsFit` (fewer than 65536
threads; `max_threads_glc` is 1024 by default). TLC evaluates both on the queue's runs.

### Wakeups and the mailbox: the end of `MessageQueueProofs`

| Theorem | States |
|---|---|
| `SendersNotStranded` | `Spec => []NoStrandedSender`: no sender sleeps beside room with no broadcast on its way, with signals anywhere, and over destruction and creation |
| `ReadersNotStranded` | `Spec => []NoStrandedReader`: no reader sleeps beside a term it wants with no broadcast on its way, with signals anywhere |
| `QueueIsMailbox` | `Signalable = {}` implies `Spec => IsMailbox`: every step is a step of `Mailbox`, or shows nothing of it |

Each adds to `QueueInv`. For senders it is the bound on the size: a queue that was full has
`max_size` cells exactly, so the test in `THREAD_ACCEPT_MESSAGE` is true of the first cell that leaves
and the broadcast is on its way (`SendersInv`). For readers it is `PassedCells`: a reader has asked
every cell before the one it looks at, so that one which reaches the end of the chain and sleeps has
refused them all; it needs that addresses are not twice in the chain (`DistinctCells`), since
`current_mq_cell` names a cell by its address. Terms are appended behind everything that sleepers
have seen, and the sender's broadcast follows; a cell that leaves only shortens what was asked.

The refinement takes two more parts. `AcceptsFirst`: a reader that is about to accept keeps the mutex,
and its cell is the first that its goal unifies with. `SizeIsLength`: `size` is the length of the
chain of a queue in use, so that the mailbox's bound is the code's. The rest is about sequences:
removing the cell is removing the term from the mailbox, and appending is appending. The hypothesis is
needed: a reader that is interrupted can pass a cell by (`NULL` in `current_mq_cell`, see the
counterexamples), which no mailbox does; `Unsignalled` carries it through.

### Entries and threads: `ThreadTableProofs`

For any numbers of entries and threads, any callers, kinds, names and results, with or without
failing `pthread_create`:

| Theorem | States |
|---|---|
| `TableInvariant` | `Spec => []TableInv` |
| `EntriesHaveThreads` | `Spec => []EntryPerThread`: the entries in use are those of the threads not given back, and denote them |
| `StatusKept` | `Spec => []StatusPersists`: the entry of a thread that ended is its own, valid and marked until it is reclaimed |
| `EntriesGivenBackOnce` | `Spec => GivenBackOnce`: the table takes entries from the lists and gives them back only as `SlotPool` allows, and never the main thread's |

That an entry is given back once cannot be seen from the entry. Four steps give one back: the exit of a
thread that is detached, the end of a join, a detach that finds the thread gone, and a creation that
fails. `TableInv` says why no two of them are pending for one thread: `Creation` (a thread that is
being created has one creator, has not run, and is not given back), `Reapers` (a thread that is being
joined or detached is so by one thread, is not given back, and is not detached as yet, so that its own
exit leaves the entry; if the join has returned it is over), `Fields` (of an entry in use, `exited` is
true when its thread has passed `XSB_THREAD_EXIT`, which is what the detach tests), and `Departed`
(who was given back does not run, and nobody can claim it again: it was claimed, or never started, or its
entry is another's, or the entry is still marked detached, which is what the join tests on a stale
id). `NotYet`, `Callees` and `MainHere` delimit them: what is not created has not run, calls are about
threads that were created, the main thread is in entry 0 and does not end. `SlotsDistinct` makes the
free list a sequence without repetitions, disjoint from the entries in use: without it a table could
hand one entry to two threads. TLC checks `TableInv` on the instance of `threads` before it is proved.

### The lists of a table: `SlotTableProofs`

For any number of entries and either kind of table, as long as the table is never full (`MaxUsed < Entries`):

| Theorem | States |
|---|---|
| `PoolInvariant` | `Spec => []PoolInv`: the pointers are two lists |
| `ListOfUsed` | `Spec => []ListHoldsUsed`: the list of entries in use holds each of them once, and `prev_entry` leads back |
| `FreeUnused` | `Spec => []FreeIsUnused`: no entry of the free list is in use |
| `TableIsPool` | `Spec => IsPool`: the table hands out and takes back entries as `SlotPool` does |

The hypothesis is what the code needs and does not check: a table that was full hands out an
entry in use (`slots_thfull.cfg`). With `TableIsPool`, `EntriesGivenBackOnce` speaks of the pointers as
well as of the pool that `ThreadTable` uses.

`PoolInv` says that there are two sequences, `f` from `firstFree` to `lastFree` and `u` from `first`, each
without repetitions, that `next` leads along both of them and `prev` back along the second, and that
between them they hold every entry once. The free list is not empty, which is where the hypothesis
enters: then `lastFree` is its last entry and what is given back goes behind it. Each step has its new
sequences as witnesses (`Rest`, `Added`, `Inserted`, `Removed`), whatever the place at which `th_new`'s loop
ends; `LoopEnds` says only that it ends at an entry in use.

`Chain`, which the properties use, is a recursive function, and the prover has no induction over it.
`WalkIsList` does without: the partial lists satisfy the equation of the recursion (`Round`), so it has
a solution; of any solution, the least argument at which it differs from them (`Least`, from the library's
theorem on well-founded relations) would be a round that `Round` excludes.

### Shared tables: `SharedTablesProofs`

For any finite set of threads, any subgoals and any programs, whatever their recursion, predicates shared or not,
and `completing_mut` given in turn or not. `NoneBroken` is `[][NoBreak]_vars`: no step is `Break_deadlock`.

| Theorem | States |
|---|---|
| `TypeCorrect` | `Spec /\ NoneBroken => []TypeOK` |
| `EvaluatedByOne` | `Spec /\ NoneBroken => []OneEvaluator` |
| `OwnIsConsumed` | `Spec /\ NoneBroken => []ConsumesOwn` |
| `CirclesAreNotClosed` | `Spec /\ NoneBroken => []NoCircle` |
| `TablesComplete` | `Spec /\ NoneBroken => IsTables`, the refinement of `CompletedTables` |
| `NoFalseDeadlock` | `FifoMutex` and `Layered(rank)` imply `Spec => NoneBroken` |
| `LayeredTablesComplete` | `FifoMutex` and `Layered(rank)` imply `Spec => IsTables` |

**The hypothesis.** Once a leader has taken subgoals from other threads the code does not keep these properties: section 4
has the programs in which a subgoal then has two evaluators, or a thread consumes from a frame it does not have, or, with
`completing_mut` out of turn, a table is marked complete that is not. The theorems are about each
behaviour up to the first break: calls, waits, wakes and completions of any number of threads, which is
where each program begins and what most never leave. `Layered(rank)` says that each subgoal calls only
subgoals of a lower rank, that is, that the program has no recursion through tabled subgoals; of these programs
nothing is assumed. `FifoMutex` cannot be left out there: with the mutex out of turn `would_deadlock`
takes a thread that is awake already for a waiting one, and finds a deadlock in `Diamond`, which has no recursion.

**The argument.** The inductive invariant `Inv` has, for each thread (`ThreadIs`), its stack and its waiting. `WellFormed`:
no subgoal is twice on the stack, a frame that is left is exhausted and is not a leader, and each open frame is that of the call at which
the open frame before it stands. `Covered`: whatever a frame has called so far is complete, or is on the
stack not below the leader of the frame's SCC; with it an exhausted leader's SCC is closed under calls
(`SccClosed`), which is the step `Complete` of `CompletedTables`. A thread that is marking has
nothing complete below the leader, and every other one nothing at all; a thread that sleeps is at the call of its
producer, and `waiting_for_tid` is set exactly from the wait until it has the mutex again. `Evaluated` ties
`tid` to the stacks. `Heard`: who waits for what is complete already will be woken by the thread that marks it.
`NoRing` is `NoCircle` said of `waiting_for_tid` whatever it waits for, which is what makes it
inductive: completions do not change it, and a thread that starts to wait has just walked to the end of the chain without
meeting itself (`RingOfWait`; `WalkIs` shows that the walk is defined, from `Recursion`, which builds it up step by
step). For the refinement, the first mark completes the SCC for everybody and the other marks and the broadcast show nothing;
a query is answered when the bottom frame goes on.

For `NoFalseDeadlock` two facts are added. In a layered program every frame is a leader (`Single`), so that the
ranks fall along the stack. Every thread that `would_deadlock` reaches is at a lower rank than the caller's, or
does not wait (`Low`): the owner of what a thread waits for is at most at the rank of that subgoal, and if the subgoal is complete already the
owner is still marking, or has not got the mutex since. So the walk never meets the caller.

**Assumptions.** `ProgramsOK` (types, distinct null values, finitely many threads), which TLC evaluates on the run. What
happens after a break, and `AllAnswered`, stay with TLC.

### The least model: `TablesProofs`

For any subgoals, values and ground rules, infinite sets included:

| Theorem | States |
|---|---|
| `TypeCorrect` | `Spec => []TypeOK` |
| `Soundness` | `Spec => []Sound`: an answer in a table is in every model of the program |
| `Completeness` | `Spec => []CompletedIsLeast`: a completed table holds exactly the least model's atoms of its subgoal, whatever the order of calls, answers and completions |

The argument: the inductive invariant says of every rule whose head's table is complete that it is
exhausted (its head is answered, or a completed table lacks an atom of its body). Then the answers of the completed tables,
with everything for the open ones, are a model. With `eval`, which checks
that the engine's tables take only the steps of `TableCompletion`, this is what a completed table means.

### Scheduling and completion: `LocalEvaluationProofs`

For any subgoals, values, programs and sequences of queries, whatever the recursion, how often SCCs are
joined and in which order answers are returned:

| Theorem | States |
|---|---|
| `TypeCorrect` | `Spec => []TypeOK`: every link, head of a list and register leads into the choice point stack |
| `AnswersSound` | `Spec => []Tables!Sound`: an answer in a table is in every model of the program |
| `TablesFollowRules` | of `ImplementsTables`: the initial states, and every step except `CompleteScc`, which are steps of `TableCompletion` or change no table |
| `CompletedTablesKept` | no step takes a complete table back or changes its answers, `CompleteScc` included |
| `ListsOfConsumersFrozen` | `Spec => []ConsumersFrozen`: the list of consumers of an open subgoal is without a circle and leads to its own consumers only, all of them below the freeze register |
| `QueryGivesTable` | a query that has failed back to the user has a complete table, and he was given its answers, all and no others |
| `QueryAnsweredByTables` | `Spec => [](CompletedHasAll => QueryAnswered)`: he was given what the least model says, wherever complete tables hold that |

**Why no more.** `CompletedHasAll` is false of the code (`eval_popped`, and the two counterexamples of
section 4), and with it, for large enough programs, the completion of an SCC as `TableCompletion`
allows it and `QueryAnswered`. What is proved is all the rest of them: an answer that is missing
for the user was missing when an SCC was completed; it was not lost in a list of consumers, on a
stack that was overwritten, or on the way to the user. That the SCCs of programs of three subgoals are
completed rightly is what `eval` adds.

**The argument** has three layers.

* *Types* (`Typed`). The stack is written in place and parts above its top are used again, so what is there
  must make sense by itself: a choice point is for a subgoal that was called, its continuation is a place in a clause that a run
  against recorded answers has reached (`Derived`), and that place waits for the subgoal. A run stays one as tables grow
  (`Grown`), so dead choice points need no exception. From it follow `AnswersSound` and
  `TablesFollowRules`: an answer that is added is the head of a rule whose body is answered. The scheduling loops
  (`WalkConsumers`, `WalkFrames`) are functions over the steps of their walk; `Iterates` is
  the one induction about them, and `Schedules` and `Fixpoints` say what the walks keep.
* *Stacks* (`Shape`, `Linked`). `Rooted`: the query is at the bottom. `Generators`: the open subgoals are on the
  stack in the order of their calls. `Components`: all that is above the generator of a leader is for its SCC or
  a younger one, and failing there does not leave it. `Frozen`: the freeze register that a leader has saved covers the
  older subgoals that lead no longer, and saved registers do not decrease.
  `Kept`: each consumer and what it fails back to are frozen, and stay so when any SCC younger than
  its subgoal is completed. This is why completion may cut the stack at all; that the consumer's own predecessor is
  safe is needed since failing there is the way on after its answers are taken. `Linked`: some transitive
  and irreflexive relation `E` on the consumers contains every link of a list. The order cannot be that
  of the stack: a generator that becomes a consumer (`makeConsumerFromGenerator`) is the new head of a list of consumers
  that are above it. Scheduling overwrites the predecessors of consumers and cuts members from a list, always along
  `E` (`Relinked`, `Chained`), so that no circle comes of it.
* *The user* (`Delivers`). Until his query is complete nothing is given; then its answers are those given, the one being returned
  and those left in the choice point at the bottom.

TLC checks each of these on the instances of `eval` and of the counterexamples before it is proved.
**Assumptions:** `ProgramsAssumption`, which types the programs and the queries, and `GroundAssumption`, that a
ground subgoal can have one answer only (`Truth`: it has no variables to bind); this is the reason why early completion is
right. TLC evaluates both on the runs.

### The well-founded model: `ResidualProgramProofs`

| Theorem | States |
|---|---|
| `TypeCorrect` | `Spec => []TypeOK` |
| `Soundness` | `Spec => []Sound`: what is made true is true, and what is made false is false, in every partial stable model, of which the well-founded model is the least |

The invariant is relative to one partial stable model: literals that left a body hold in it,
rules that left the program do not fire in it, true and false atoms are so. Atoms that become false
together are an unfounded set, and minimality of the model removes them.

### Delays and simplification: `DelaySimplificationProofs`

For any set of goals, any ground programs with finitely many clauses per goal, and any queries:

| Theorem | States |
|---|---|
| `DelaysInvariant` | `Spec => []Inv` |
| `ListsAlwaysAgree` | `Spec => []ListsAgree`: the lists of a goal lead to just the delay elements on it, at every step of nested simplifications |
| `DelaysImplementResidual` | `Spec => ImplementsResidual`: every step of the evaluation, of a simplification and of completion is one of `ResidualProgram` |
| `AnswersSound` | `Spec => []Residual!Sound`: unconditional answers are true, and goals completed without an answer are false, in every partial stable model of the program |

**The argument.** That the lists agree depends on where simplification may be: a routine that walks the list of
a goal must find in it what a nested call has left, and a call that is entered must find the answer, the
delay list or the clause it was called for (`CallOK`, `TopOK`). The refinement depends on what
completion knows. A step deletes an answer without a delay list left, and a clause that had a delay list
fails, only for a literal that is refuted; a goal of the SCC becomes false when the SCC has no more to do,
and is so for good: `Inv` says what each clause of an SCC is at while it is completed (`ClauseOK`).
Three facts make the rest inductive:

* *Simplification stays in the SCC.* What an open goal has delayed is in its own SCC or in a completed one, and what a
  completed goal still delays is completed (`DelayOK`), so a call of a routine is on a goal of
  `Zone`. Before completion only unconditional answers start one; `unsupported`, `pos_unsupported` and
  `neg_fails` occur in completion only.
* *What was completed early has an unconditional answer* (`EarlyCompleted`), so that
  marking the goals of an SCC one by one makes none of them false that has an answer on the way.
* *What is stalled stays so.* When suspensions are resumed, their literals are delayed although no one has
  shown that they are undefined. `Stalled(F)` names the goals `F` that were without an unconditional answer at such a fixpoint:
  each of their clauses has failed or is stuck at a literal on another one of them in its SCC, on a conditional
  answer of a completed table, or on a negative one that is refuted. So no clause of theirs can be proved before the SCC is
  completed, and what an open goal has delayed negatively does not become true before that: the evaluation
  refutes no delay element, and only completion calls the routines for refuted ones.

Each action of the evaluation is brought to one form (`Evaluated`: one clause steps, from a literal to
the next, to a delay, or to a failure, and the stack grows or joins), each step of simplification to another (`Simplified`), each
step of completion to a third (`Closes`); the invariant and the refinement (`Moves`) are proved of these forms.
`AnswersSound` is `Soundness` of `ResidualProgramProofs` under the refinement mapping.
**Assumptions:** `ProgramsAssumption` and `QueriesAssumption`, which type the constants and which TLC evaluates on
the run. `Decided`, that the answers are also as definite as simplification can make them, speaks of the fixpoint of
a recursion and stays with TLC.

### The store of tables: the end of `TablesProofs`

| Theorem | States |
|---|---|
| `UseIsSafe` | `Store!Spec => []InUseKept`: no choice point is left with a reclaimed table |
| `AbolishedStaysAbolished` | `Store!Spec => []OldIsOld`: an abolished table is not a goal's table again, nor is its space given to another |

The invariant adds the types, and that abolished tables are complete and complete ones allocated,
which is what lets a generator that completes, or a new choice point, find its table there.

**Running the proofs.** `tlapm M.tla` checks each of the eight modules (`DelaySimplificationProofs` and `LocalEvaluationProofs` take some minutes). Where an obligation
mentions `Len`, `Append` or `Tail`, the SMT translation of tlapm 1.4.5 treats the domain of every
function as an interval from 1; on functions whose domain contains 0, as `Threads` and `Slots`, that
can prove what is false. The leaves here keep facts about sequences apart from facts about such
functions, and all of them are also proved with that axiom weakened to sequences.

**Only model-checked.** `SharedTables` after a deadlock is broken; that `IncrementalTables` and `TableAbolition`
implement their abstract specifications, and everything else about these two; of `LocalEvaluation`,
the completion of an SCC as a step of `TableCompletion`, and `QueryAnswered` without the hypothesis
of `QueryAnsweredByTables` (both hold on the instance of `eval`, not of every program); `Decided` of `DelaySimplification`;
`AliasKept` and `AliasUnique`, which are false; all liveness
(`ReadersServed`, `EntryReturns`, `Terminates`, `AllAnswered`, and that queries end), which with `ENABLED` is beyond the
prover. The chains of `TableAbolition` are recursive functions through memory that is used again,
and have no proof yet.

## 6. Not modelled

`PROJECT.json` lists every component with the reason. In short:

* Concurrent completion (`CONC_COMPL`): the source of this commit does not compile in that
  configuration (`perform_early_completion` in `tables_i.h` lacks its closing brace), so there is
  no behaviour to translate.
* User mutexes, private queues and the wait for negative literals on shared tables are open (item 8
  of the plan). Of user mutexes mostly violations could be shown: the first unlock of a mutex that its owner
  locked twice clears the owner, so that `mutex_unlock_all` on exit passes over it, and
  `mutex_trylock` names no owner at all (`thread_xsb.c` 856, 1252).
* Sequential data structures (tries, hash tables, symbol tables, the loader, the emulator's
  instructions, the compiler and libraries) have no order of steps to get wrong; heap garbage
  collection depends on the whole machine state.
* Of modelled components: batched scheduling, untabled choice points and cuts over tables, answers with
  variables, answer completion, subsumptive and opaque tables, conditional answers of incremental
  tables, transitive abolishing, and abolishing shared tables by several threads.

## 7. State of the plan

Done: 1, 2 and 6 (checked and proved), 5 (checked, and proved as far as it is true of every program),
3 (checked, and proved until a deadlock is broken), 4 (checked), 7 (checked; its abstract specification proved).
Next: the refinement of `CurrentViews`. Beyond the first broken deadlock
`SharedTables` can be proved about only under hypotheses on the program (no leader may come to what another one grabbed,
nor lose its flag while it has grabbed subgoals), as the counterexamples of section 4 show; so can the
completion of SCCs in `LocalEvaluation` (no leader that has been scheduled is joined to an older SCC, and no ground subgoal is
completed early within one). Then item 8.
