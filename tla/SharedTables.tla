---------------------------- MODULE SharedTables ----------------------------
(***************************************************************************)
(* Shared completed tables: the protocol by which threads of the           *)
(* multi-threaded engine evaluate tabled subgoals that they share          *)
(* (emu/usurp.h, emu/deadlock.c, and what slginsts_xsb_i.h,                *)
(* complete_xsb_i.h and complete_local.h do for it).                       *)
(*                                                                         *)
(* The first thread to call a subgoal evaluates it.  A thread that calls a *)
(* subgoal another one is evaluating waits until it is completed, unless   *)
(* that would close a circle of waiting threads: then it becomes the       *)
(* leader, resets the stacks of the threads in the circle, and takes over  *)
(* the subgoals they were evaluating.                                      *)
(*                                                                         *)
(* A program is the list of subgoals that the clauses of each subgoal, or  *)
(* the queries of a thread, call.  Answers are left out: local evaluation  *)
(* returns from a call when its subgoal is completed, or when its clauses  *)
(* are exhausted inside a larger SCC.                                      *)
(*                                                                         *)
(* Operators whose names end in a remark (_kept, _none, _too_far, ...) are *)
(* mistakes the code does not make; the properties are tested on them.     *)
(***************************************************************************)
EXTENDS Integers, Sequences, FiniteSets, FiniteSetsExt

CONSTANTS
    Threads,
    Subgoals,
    Predicate,   \* the predicate of each subgoal: its condition variable
    Programs,    \* the programs of an instance: functions from threads and
                 \* subgoals to the subgoals they call
    FifoMutex,   \* TRUE if completing_mut goes to the threads a broadcast
                 \* woke before it goes to one that asks for it later
    NoThread, NoSubgoal

ASSUME ProgramsOK ==
    /\ IsFiniteSet(Threads)
    /\ Threads \cap Subgoals = {}
    /\ NoThread \notin Threads
    /\ NoSubgoal \notin Subgoals
    /\ FifoMutex \in BOOLEAN
    /\ \A c \in Programs : /\ DOMAIN c = Threads \cup Subgoals
                           /\ \A x \in DOMAIN c : c[x] \in Seq(Subgoals)

VARIABLES
    calls,      \* the program
    \* the subgoal frames: every thread reads and writes them
    tid,        \* subg_tid; NoThread: there is no frame
    completed,  \* the subgoals with is_completed
    grabbed,    \* the subgoals with subg_grabbed
    \* each thread's own
    stack,      \* completion stack, below it a frame for the queries
    pc,
    producer,   \* producer_sf, while it waits for it or takes it over
    \* in th_context, where leaders of deadlocks reach them
    waitTid,    \* waiting_for_tid
    waitSub,    \* waiting_for_subgoal
    isLeader,   \* is_deadlock_leader
    reset,      \* reset_thread
    tmpNext,    \* tmp_next
    \* locals of reset_other_threads
    tmp, sgf

tables  == <<tid, completed, grabbed>>
own     == <<stack, pc, producer>>
waits   == <<waitTid, waitSub, isLeader, reset>>
resets  == <<tmpNext, tmp, sgf>>
vars    == <<calls, tid, completed, grabbed, stack, pc, producer, waitTid,
             waitSub, isLeader, reset, tmpNext, tmp, sgf>>

-----------------------------------------------------------------------------
(* A frame: the subgoal, the clause its evaluation is at, whether it is    *)
(* the leader of an SCC (is_leader), and whether its generator choice      *)
(* point is still to be backtracked to.                                    *)
Frame(s) == [sub |-> s, at |-> 1, lead |-> TRUE, open |-> TRUE]

(* The choice point of the newest open frame is the one in breg. *)
Newest(t) == Max({i \in DOMAIN stack[t] : stack[t][i].open})
Breg(t)   == stack[t][Newest(t)]

Calls(t)  == Breg(t).at <= Len(calls[Breg(t).sub])
Callee(t) == calls[Breg(t).sub][Breg(t).at]

(* Where a subgoal is on a thread's completion stack: subg_compl_stack_ptr *)
Frames(t, s) == {i \in DOMAIN stack[t] : stack[t][i].sub = s}

(* The frame of the leader of frame i. *)
LeaderOf(t, i) == Max({j \in 1 .. i : stack[t][j].lead})

(* The newest frame of st goes on to its next clause. *)
Retried(st) ==
    LET i == Max({j \in DOMAIN st : st[j].open})
    IN  [st EXCEPT ![i].at = @ + 1]

Pushed(t, s) == Append(stack[t], Frame(s))

Init ==
    /\ calls \in Programs
    /\ tid = [s \in Subgoals |-> NoThread]
    /\ completed = {}
    /\ grabbed = {}
    /\ stack = [t \in Threads |-> <<Frame(t)>>]
    /\ pc = [t \in Threads |-> "run"]
    /\ producer = [t \in Threads |-> NoSubgoal]
    /\ waitTid = [t \in Threads |-> NoThread]
    /\ waitSub = [t \in Threads |-> NoSubgoal]
    /\ isLeader = [t \in Threads |-> FALSE]
    /\ reset = [t \in Threads |-> FALSE]
    /\ tmpNext = [t \in Threads |-> NoThread]
    /\ tmp = [t \in Threads |-> NoThread]
    /\ sgf = [t \in Threads |-> NoSubgoal]

-----------------------------------------------------------------------------
(* tabletry: a call of subgoal s by a running thread. *)

Tabletry(t, s) ==
    /\ pc[t] = "run"
    /\ Calls(t)
    /\ s = Callee(t)

(* s has no frame: it gets one, under the lock of the call trie. *)
New_producer(t, s) ==
    /\ Tabletry(t, s)
    /\ tid[s] = NoThread
    /\ tid' = [tid EXCEPT ![s] = t]
    /\ stack' = [stack EXCEPT ![t] = Pushed(t, s)]
    /\ UNCHANGED <<calls, completed, grabbed, pc, producer, waits, resets>>

(* A leader comes to a subgoal that was taken from another thread. *)
Take_grabbed(t, s) ==
    /\ Tabletry(t, s)
    /\ s \notin completed
    /\ s \in grabbed
    /\ isLeader[t]
    /\ grabbed' = grabbed \ {s}
    /\ stack' = [stack EXCEPT ![t] = Pushed(t, s)]
    /\ UNCHANGED <<calls, tid, completed, pc, producer, waits, resets>>

(* Another thread evaluates s. *)
Ask(t, s) ==
    /\ Tabletry(t, s)
    /\ s \notin completed
    /\ ~ (s \in grabbed /\ isLeader[t])
    /\ tid[s] \notin {NoThread, t}
    /\ reset' = [reset EXCEPT ![t] = FALSE]
    /\ producer' = [producer EXCEPT ![t] = s]
    /\ pc' = [pc EXCEPT ![t] = "lock"]
    /\ UNCHANGED <<calls, tables, stack, waitTid, waitSub, isLeader, resets>>

Return_answers(t, s) ==
    /\ Tabletry(t, s)
    /\ s \in completed
    /\ stack' = [stack EXCEPT ![t] = Retried(@)]
    /\ UNCHANGED <<calls, tables, pc, producer, waits, resets>>

(* adjust_level: the frames above that of s join its SCC. *)
Joined_none(t, s) == stack[t]
Joined(t, s) ==
    [i \in DOMAIN stack[t] |->
        [stack[t][i] EXCEPT !.lead = @ /\ i <= Max(Frames(t, s))]]

(* The thread waits on a subgoal of its own.  Where subg_compl_stack_ptr   *)
(* leads to a frame that is not on its stack, what adjust_level does is    *)
(* undefined and the thread takes no further step (ConsumesOwn).           *)
Own_incomplete(t, s) ==
    /\ Tabletry(t, s)
    /\ s \notin completed
    /\ tid[s] = t
    /\ ~ (s \in grabbed /\ isLeader[t])

Consume(t, s) ==
    /\ Own_incomplete(t, s)
    /\ Frames(t, s) # {}
    /\ stack' = [stack EXCEPT ![t] = Retried(Joined(t, s))]
    /\ UNCHANGED <<calls, tables, pc, producer, waits, resets>>

-----------------------------------------------------------------------------
(* The loop around pthread_cond_wait.  What a thread does from the time it *)
(* gets completing_mut to the time it gives it back is one step.           *)

(* The threads that would_deadlock looks at, from t on. *)
Walk(t) ==
    LET at[n \in 0 .. Cardinality(Threads)] ==
            IF n = 0 THEN t
            ELSE IF at[n - 1] = NoThread THEN NoThread
            ELSE waitTid[at[n - 1]]
    IN  at

Would_deadlock_next_only(t1, t2) == t2 \in {t1, Walk(t1)[1]}
Would_deadlock(t1, t2) == \E n \in DOMAIN Walk(t1) : Walk(t1)[n] = t2

(* Its loop does not end, and nobody gets completing_mut again.           *)
Endless(t1) == Walk(t1)[Cardinality(Threads)] # NoThread

(* From t1 on, the threads before t2. *)
Circle(t1, t2) ==
    LET last == Min({n \in DOMAIN Walk(t1) : Walk(t1)[n] = t2})
    IN  {Walk(t1)[n] : n \in 0 .. last - 1}

Locked(t) ==
    \/ pc[t] = "woken"
    \/ /\ pc[t] = "lock"
       /\ FifoMutex => \A u \in Threads : pc[u] # "woken"

(* The subgoal is completed: its answers are returned.  A thread that was  *)
(* reset executes the tabletry that its registers point to now.            *)
Waits_no_more(t) ==
    /\ waitTid' = [waitTid EXCEPT ![t] = NoThread]
    /\ waitSub' = [waitSub EXCEPT ![t] = NoSubgoal]

Leave_wait(t) ==
    /\ Locked(t)
    /\ producer[t] \in completed
    /\ Waits_no_more(t)
    /\ producer' = [producer EXCEPT ![t] = NoSubgoal]
    /\ stack' = IF reset[t] THEN stack ELSE [stack EXCEPT ![t] = Retried(@)]
    /\ pc' = [pc EXCEPT ![t] = "run"]
    /\ UNCHANGED <<calls, tables, isLeader, reset, resets>>

Wait(t) ==
    LET owner == tid[producer[t]]
    IN  /\ Locked(t)
        /\ producer[t] \notin completed
        /\ ~ Would_deadlock(owner, t)
        /\ ~ Endless(owner)
        /\ waitSub' = [waitSub EXCEPT ![t] = producer[t]]
        /\ waitTid' = [waitTid EXCEPT ![t] = owner]
        /\ isLeader' = [isLeader EXCEPT ![t] = FALSE]
        /\ pc' = [pc EXCEPT ![t] = "wait"]
        /\ UNCHANGED <<calls, tables, stack, producer, reset, resets>>

(* reset_other_threads, up to the release of completing_mut. *)
Break_deadlock(t) ==
    LET owner == tid[producer[t]]
        circle == Circle(owner, t)
    IN  /\ Locked(t)
        /\ producer[t] \notin completed
        /\ Would_deadlock(owner, t)
        /\ tmpNext' = [u \in Threads |->
                         IF u \in circle THEN waitTid[u] ELSE tmpNext[u]]
        /\ waitTid' = [u \in Threads |->
                         IF u \in circle THEN NoThread ELSE waitTid[u]]
        /\ tmp' = [tmp EXCEPT ![t] = owner]
        /\ sgf' = [sgf EXCEPT ![t] = producer[t]]
        /\ pc' = [pc EXCEPT ![t] = "reset"]
        /\ UNCHANGED <<calls, tables, stack, producer, waitSub, isLeader, reset>>

-----------------------------------------------------------------------------
(* reset_thread, and what reset_other_threads does after it. *)

(* tmp is the victim v, which waits for its turn to be reset. *)
Resetting(t, v) ==
    /\ pc[t] = "reset"
    /\ v = tmp[t]
    /\ v # t

(* From here on v waits for t. *)
To_next(t, v) ==
    /\ sgf' = [sgf EXCEPT ![t] = waitSub[v]]
    /\ waitTid' = [waitTid EXCEPT ![v] = t]
    /\ tmp' = [tmp EXCEPT ![t] = tmpNext[v]]

(* The subgoal was grabbed by another leader meanwhile. *)
Reset_nothing(t, v) ==
    /\ Resetting(t, v)
    /\ tid[sgf[t]] # v
    /\ To_next(t, v)
    /\ UNCHANGED <<calls, tables, own, waitSub, isLeader, reset, tmpNext>>

(* ReclaimDSandMarkReset: the subgoals of these frames are the leader's.   *)
Mark_reset_kept(t, taken) == grabbed' = grabbed \cup taken /\ UNCHANGED tid
Mark_reset(t, taken) ==
    /\ grabbed' = grabbed \cup taken
    /\ tid' = [s \in Subgoals |-> IF s \in taken THEN t ELSE tid[s]]

(* openreg goes below the frame of the bottom leader. *)
Below_too_far(v, bottom) == SubSeq(stack[v], 1, bottom - 2)
Below(v, bottom) == SubSeq(stack[v], 1, bottom - 1)

(* The frames from the leader of the subgoal's SCC on are taken from v,    *)
(* whose breg and pcreg go back to the call of that leader.                *)
Reset_thread(t, v) ==
    /\ Resetting(t, v)
    /\ tid[sgf[t]] = v
    /\ Frames(v, sgf[t]) # {}
    /\ LET bottom == LeaderOf(v, Max(Frames(v, sgf[t])))
           taken  == {stack[v][i].sub : i \in bottom .. Len(stack[v])} \ completed
       IN  /\ Mark_reset(t, taken)
           /\ stack' = [stack EXCEPT ![v] = Below(v, bottom)]
           /\ waitSub' = [waitSub EXCEPT ![v] = stack[v][bottom].sub]
    /\ reset' = [reset EXCEPT ![v] = TRUE]
    /\ To_next(t, v)
    /\ UNCHANGED <<calls, completed, pc, producer, isLeader, tmpNext>>

(* Every thread of the circle is reset: t is the leader and evaluates the  *)
(* subgoal it called.                                                      *)
Lead_untold(t) == UNCHANGED isLeader
Lead(t) == isLeader' = [isLeader EXCEPT ![t] = TRUE]

Usurp(t) ==
    /\ pc[t] = "reset"
    /\ tmp[t] = t
    /\ Lead(t)
    /\ grabbed' = grabbed \ {producer[t]}
    /\ stack' = [stack EXCEPT ![t] = Pushed(t, producer[t])]
    /\ producer' = [producer EXCEPT ![t] = NoSubgoal]
    /\ tmp' = [tmp EXCEPT ![t] = NoThread]
    /\ sgf' = [sgf EXCEPT ![t] = NoSubgoal]
    /\ pc' = [pc EXCEPT ![t] = "run"]
    /\ UNCHANGED <<calls, tid, completed, waitTid, waitSub, reset, tmpNext>>

-----------------------------------------------------------------------------
(* check_complete: the clauses of the subgoal are exhausted. *)

Exhausted(t) ==
    /\ pc[t] = "run"
    /\ ~ Calls(t)
    /\ Newest(t) > 1

(* Inside a larger SCC the generator becomes a consumer. *)
Become_consumer(t) ==
    /\ Exhausted(t)
    /\ ~ Breg(t).lead
    /\ stack' = [stack EXCEPT
                    ![t] = Retried([@ EXCEPT ![Newest(t)].open = FALSE])]
    /\ UNCHANGED <<calls, tables, pc, producer, waits, resets>>

Scc(t) == {stack[t][i].sub : i \in Newest(t) .. Len(stack[t])}

(* mark_as_completed, from the leader up, one frame at a time. *)
Mark_as_completed(t) ==
    /\ \/ Exhausted(t) /\ Breg(t).lead
       \/ pc[t] = "mark"
    /\ \E i \in Newest(t) .. Len(stack[t]) :
        /\ stack[t][i].sub \notin completed
        /\ \A j \in Newest(t) .. i - 1 : stack[t][j].sub \in completed
        /\ completed' = completed \cup {stack[t][i].sub}
    /\ pc' = [pc EXCEPT ![t] = "mark"]
    /\ UNCHANGED <<calls, tid, grabbed, stack, producer, waits, resets>>

(* The threads that are completing an SCC. *)
Marking == {t \in Threads : pc[t] = "mark"}

(* Those who wait on the predicates of the SCC are woken, its frames are   *)
(* popped and the caller goes on.                                          *)
Woken_by_leader(t) ==
    {u \in Threads : /\ pc[u] = "wait"
                     /\ Predicate[Breg(t).sub] = Predicate[producer[u]]}
Woken(t) ==
    {u \in Threads : /\ pc[u] = "wait"
                     /\ \E s \in Scc(t) : Predicate[s] = Predicate[producer[u]]}

Broadcast(t) ==
    /\ pc[t] = "mark"
    /\ Scc(t) \subseteq completed
    /\ FifoMutex => \A u \in Threads : pc[u] # "woken"
    /\ pc' = [u \in Threads |-> IF u = t THEN "run"
                                ELSE IF u \in Woken(t) THEN "woken" ELSE pc[u]]
    /\ stack' = [stack EXCEPT ![t] = Retried(SubSeq(@, 1, Newest(t) - 1))]
    /\ UNCHANGED <<calls, tables, producer, waits, resets>>

-----------------------------------------------------------------------------
Step(t) ==
    \/ \E s \in Subgoals :
        \/ New_producer(t, s) \/ Take_grabbed(t, s) \/ Ask(t, s)
        \/ Return_answers(t, s) \/ Consume(t, s)
    \/ Leave_wait(t) \/ Wait(t) \/ Break_deadlock(t)
    \/ \E v \in Threads :
        Reset_nothing(t, v) \/ Reset_thread(t, v)
    \/ Usurp(t) \/ Become_consumer(t) \/ Mark_as_completed(t) \/ Broadcast(t)

Answered(t) == stack[t][1].at > Len(calls[t])

(* A thread whose queries are answered has nothing to do here. *)
Idle(t) ==
    /\ pc[t] = "run"
    /\ Answered(t)
    /\ UNCHANGED vars

Next == \E t \in Threads : Step(t) \/ Idle(t)

Spec == Init /\ [][Next]_vars

(* A thread has no step while it waits, nor when its queries are answered. *)
Asleep(t) == pc[t] = "wait" \/ (pc[t] = "run" /\ Answered(t))

(* The threads do not all stop while one is awake: it is                   *)
(* WF_vars(\E t \in Threads : Step(t)), weaker than fairness to each       *)
(* thread, with ENABLED written out; only steps change vars.               *)
Fairness == []<>(\A t \in Threads : Asleep(t)) \/ []<><<TRUE>>_vars

FairSpec == Spec /\ Fairness

-----------------------------------------------------------------------------
(* Properties *)

FrameType == [sub : Threads \cup Subgoals, at : Nat, lead : BOOLEAN, open : BOOLEAN]

(* All variables keep their types; the frame of its queries stays at the   *)
(* bottom of each thread's stack.                                          *)
TypeOK ==
    /\ calls \in Programs
    /\ tid \in [Subgoals -> Threads \cup {NoThread}]
    /\ completed \subseteq Subgoals
    /\ grabbed \subseteq Subgoals
    /\ DOMAIN stack = Threads
    /\ \A t \in Threads :
        /\ stack[t] # <<>> /\ stack[t][1].sub = t
        /\ \A i \in DOMAIN stack[t] : stack[t][i] \in FrameType
    /\ pc \in [Threads -> {"run", "lock", "wait", "woken", "reset", "mark"}]
    /\ producer \in [Threads -> Subgoals \cup {NoSubgoal}]
    /\ waitTid \in [Threads -> Threads \cup {NoThread}]
    /\ waitSub \in [Threads -> Subgoals \cup {NoSubgoal}]
    /\ isLeader \in [Threads -> BOOLEAN]
    /\ reset \in [Threads -> BOOLEAN]
    /\ tmpNext \in [Threads -> Threads \cup {NoThread}]
    /\ tmp \in [Threads -> Threads \cup {NoThread}]
    /\ sgf \in [Threads -> Subgoals \cup {NoSubgoal}]

(* An incomplete subgoal is on the completion stack of the one thread that *)
(* its frame names, unless it was grabbed and not called again yet.  (The  *)
(* code makes it false where a leader calls what another leader grabbed:   *)
(* MCSharedTables, SecondLeader.)                                          *)
OneEvaluator ==
    \A s \in Subgoals \ completed :
        \/ s \in grabbed /\ \A t \in Threads : Frames(t, s) = {}
        \/ \A t \in Threads : Frames(t, s) # {} <=> t = tid[s]

(* "Subgoal is marked to be computed for leader in deadlock detection": a  *)
(* thread that calls a subgoal it is to compute finds it on its own stack, *)
(* or takes it over as a leader.  It never consumes from a frame that was  *)
(* on the stack of a thread it reset.                                      *)
ConsumesOwn ==
    \A t \in Threads, s \in Subgoals : Own_incomplete(t, s) => Frames(t, s) # {}

(* "Thread_b suspends until the SCC is complete": while a leader resets    *)
(* the stacks of a thread, which it does without completing_mut, that      *)
(* thread sleeps.                                                          *)
ResetSuspended ==
    \A t \in Threads : pc[t] = "reset" /\ tmp[t] # t => pc[tmp[t]] = "wait"

(* No threads wait for each other's subgoals in a circle, by what the      *)
(* frames say and not by waiting_for_tid, in which would_deadlock believes.*)
NoCircle ==
    \A W \in (SUBSET Threads) \ {{}} :
        \E t \in W : \/ pc[t] # "wait"
                     \/ producer[t] \in completed
                     \/ tid[producer[t]] \notin W

(* The threads implement complete tables: when the first subgoal of an SCC *)
(* is marked, all that its subgoals call is complete or in the SCC, and    *)
(* the answers a query gets come from a complete table.                    *)
T == INSTANCE CompletedTables WITH
        complete <- completed \cup UNION {Scc(t) : t \in Marking},
        answered <- [t \in Threads |-> stack[t][1].at - 1]
IsTables == T!Spec

(* Every thread gets the answers to its queries: no waiting thread is      *)
(* forgotten, and leaders do not go on resetting each other.               *)
AllAnswered == <>(\A t \in Threads : Answered(t))
=============================================================================
