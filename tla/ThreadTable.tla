----------------------------- MODULE ThreadTable -----------------------------
(***************************************************************************)
(* The life of threads: thread_create, exit, thread_join and thread_detach *)
(* (syslib/thread.P), the builtins they call, and the entries of th_vec    *)
(* (emu/thread_xsb.c) with the aliases and the exit balls that go with     *)
(* them.  What a builtin does under th_mutex is one step; the accesses it  *)
(* makes without th_mutex are steps of their own.                          *)
(*                                                                         *)
(* Operators whose names end in a remark (_untested, _unmarked, ..) are    *)
(* mistakes the code does not make; the properties are tested on them.     *)
(*                                                                         *)
(* The lists of entries are abstracted by SlotPool, which SlotTable        *)
(* implements.  Threads are numbered by creation, and owner[e] is the last *)
(* creation that got entry e: an id (entry and incarnation) matches the    *)
(* entry while its thread is the owner.                                    *)
(***************************************************************************)
EXTENDS Integers, Sequences, FiniteSets, SequencesExt

CONSTANTS
    Entries,    \* number of entries of th_vec: max_threads_glc
    MaxCreated, \* bound on the threads created, far below the incarnations
    Callers,    \* the threads that create, join and detach others
    Kinds,      \* threads are created "joinable" or "detached"
    Aliases,    \* the names given to threads
    NoAlias,    \* a thread created without a name
    Results,    \* how a thread ends: a subset of Ends
    Refusals    \* whether pthread_create may fail: a subset of BOOLEAN

Created == 1 .. MaxCreated
Threads == 0 .. MaxCreated       \* 0 is the main thread
Slots   == 0 .. Entries - 1

(* "true" and "false": the goal succeeds or fails; "error": a standard     *)
(* error (or cancellation); "ball": thread_exit/1 or any other ball.       *)
Ends == {"true", "false", "error", "ball"}

ASSUME ConstantsOK ==
    /\ Entries \in Nat \ {0}
    /\ MaxCreated \in Nat
    /\ Callers \subseteq Threads
    /\ Kinds \subseteq {"joinable", "detached"}
    /\ NoAlias \notin Aliases
    /\ Results \subseteq Ends
    /\ Refusals \subseteq BOOLEAN

VARIABLES
    free, used,  \* the lists of th_vec
    owner,       \* the incarnation of each entry, as the thread it denotes
    valid, detached, exited, aliased,  \* the fields of each entry
    created,     \* number of threads created
    entryOf,     \* the entry in the id of each thread
    nameOf,      \* the alias each thread was created with
    pc,          \* where each thread is
    on,          \* the thread its current call is about
    result,      \* how each thread ended
    claimed,     \* threads that a thread has begun to join or detach
    gone,        \* threads whose entry was given back
    aliasFacts,  \* '_$alias_dynamic': names and the threads they denote
    balls,       \* '_$thread_exit_ball': when the ball of each thread was asserted
    numThreads,  \* flags[NUM_THREADS]
    seen,        \* the value of numThreads an exiting thread has read
    got          \* whose status thread_join returned to each thread

table   == <<free, used, gone>>
fields  == <<owner, valid, detached, exited, aliased>>
ids     == <<created, entryOf, nameOf>>
facts   == <<aliasFacts, balls>>
counts  == <<numThreads, seen>>
vars == <<table, fields, ids, pc, on, result, claimed, facts, counts, got>>

-----------------------------------------------------------------------------
Nobody == -1

Places == {"none", "alias", "assert", "unsetup", "spawn", "valid", "undo",
           "start", "run", "exit", "uncount", "uncountWrite", "over",
           "wait", "reclaim", "status", "mark", "retract"}

(* th_get and VALID_THREAD. *)
Valid(c) == owner[entryOf[c]] = c /\ valid[entryOf[c]]

Goto(t, place) == pc' = [pc EXCEPT ![t] = place]

(* th_delete: the entry of thread c goes back to the free list. *)
Th_delete(c) ==
    /\ free' = Append(free, entryOf[c])
    /\ used' = used \ {entryOf[c]}
    /\ gone' = gone \cup {c}
    /\ valid' = [valid EXCEPT ![entryOf[c]] = FALSE]
    /\ UNCHANGED <<owner, detached, exited, aliased>>

(* The free list once the main thread has its entry. *)
AfterMain == [i \in 1 .. Entries - 1 |-> i]

(* The system initialises the table and enters the main thread, which runs *)
(* and is not aliased or detached.                                         *)
Init ==
    /\ free = AfterMain
    /\ used = {0}
    /\ owner = [e \in Slots |-> IF e = 0 THEN 0 ELSE Nobody]
    /\ valid = [e \in Slots |-> e = 0]
    /\ detached = [e \in Slots |-> FALSE]
    /\ exited = [e \in Slots |-> FALSE]
    /\ aliased = [e \in Slots |-> FALSE]
    /\ created = 0
    /\ entryOf = [c \in Threads |-> 0]
    /\ nameOf = [c \in Threads |-> NoAlias]
    /\ pc = [t \in Threads |-> IF t = 0 THEN "run" ELSE "none"]
    /\ on = [t \in Threads |-> 0]
    /\ result = [t \in Threads |-> "none"]
    /\ claimed = {}
    /\ gone = {}
    /\ aliasFacts = {}
    /\ balls = [t \in Threads |-> 0]
    /\ numThreads = 1
    /\ seen = [t \in Threads |-> 0]
    /\ got = [t \in Threads |-> 0]

-----------------------------------------------------------------------------
(* thread_create *)

(* xsb_thread_setup and th_new: an entry for the new thread.  A thread with *)
(* an alias is set up by a builtin of its own, before the alias is added.   *)
Setup(t, kind, name) ==
    LET c == created + 1
        e == Head(free)
    IN  /\ pc[t] = "run" /\ t \in Callers
        /\ created < MaxCreated
        /\ free # <<>>
        /\ free' = Tail(free)
        /\ used' = used \cup {e}
        /\ owner' = [owner EXCEPT ![e] = c]
        /\ valid' = [valid EXCEPT ![e] = FALSE]
        /\ detached' = [detached EXCEPT ![e] = kind = "detached"]
        /\ exited' = [exited EXCEPT ![e] = FALSE]
        /\ aliased' = [aliased EXCEPT ![e] = name # NoAlias]
        /\ created' = c
        /\ entryOf' = [entryOf EXCEPT ![c] = e]
        /\ on' = [on EXCEPT ![t] = c]
        /\ numThreads' = numThreads + 1
        /\ nameOf' = [nameOf EXCEPT ![c] = name]
        /\ Goto(t, IF name = NoAlias THEN "spawn" ELSE "alias")
        /\ UNCHANGED <<gone, result, claimed, facts, seen, got>>

(* add_alias_flag_error looks for the name .. *)
Look_for_alias(t) ==
    /\ pc[t] = "alias"
    /\ Goto(t, IF \E f \in aliasFacts : f.name = nameOf[on[t]]
                 THEN "unsetup" ELSE "assert")
    /\ UNCHANGED <<table, fields, ids, on, result, claimed, facts, counts, got>>

(* .. and asserts the alias. *)
Assert_alias(t) ==
    /\ pc[t] = "assert"
    /\ aliasFacts' = aliasFacts \cup {[name |-> nameOf[on[t]], of |-> on[t]]}
    /\ Goto(t, "spawn")
    /\ UNCHANGED <<table, fields, ids, on, result, claimed, balls, counts, got>>

(* No thread had the entry of c before: the incarnation in its id is 0. *)
FirstUse(c) == \A b \in 1 .. c - 1 : entryOf[b] # entryOf[c]

(* XSB_RECLAIM_THREAD_SETUP, without th_mutex.  It passes the id, not the  *)
(* entry, to th_delete: they are the same number for the first incarnation *)
(* of an entry; for a later one th_delete works outside the table and the  *)
(* entry stays in use.                                                     *)
Reclaim_setup(t) ==
    LET c == on[t]
    IN  /\ pc[t] = "unsetup"
        /\ numThreads' = numThreads - 1
        /\ IF FirstUse(c) THEN Th_delete(c) ELSE UNCHANGED <<table, fields>>
        /\ Goto(t, "run")
        /\ UNCHANGED <<ids, on, result, claimed, facts, seen, got>>

(* xsb_thread_create_1: pthread_create starts the new thread, *)
Spawn(t) ==
    LET c == on[t]
    IN  /\ pc[t] = "spawn"
        /\ pc' = [pc EXCEPT ![t] = "valid", ![c] = "start"]
        /\ UNCHANGED <<table, fields, ids, on, result, claimed, facts, counts,
                       got>>

(* or it fails. *)
Spawn_refused(t) ==
    /\ pc[t] = "spawn"
    /\ TRUE \in Refusals
    /\ valid' = [valid EXCEPT ![entryOf[on[t]]] = TRUE]
    /\ Goto(t, "undo")
    /\ UNCHANGED <<table, owner, detached, exited, aliased, ids, on, result,
                   claimed, facts, counts, got>>

(* The entry and the count of a thread that could not be started are       *)
(* given back; an alias it was given stays.                                *)
Undo(t) ==
    /\ pc[t] = "undo"
    /\ numThreads' = numThreads - 1
    /\ Th_delete(on[t])
    /\ Goto(t, "run")
    /\ UNCHANGED <<ids, on, result, claimed, facts, seen, got>>

(* The creator marks the entry valid without th_mutex, whatever the new    *)
(* thread did meanwhile.                                                   *)
Mark_valid(t) ==
    /\ pc[t] = "valid"
    /\ valid' = [valid EXCEPT ![entryOf[on[t]]] = TRUE]
    /\ Goto(t, "run")
    /\ UNCHANGED <<table, owner, detached, exited, aliased, ids, on, result,
                   claimed, facts, counts, got>>

Create(t) ==
    \/ \E kind \in Kinds, name \in Aliases \cup {NoAlias} : Setup(t, kind, name)
    \/ Look_for_alias(t) \/ Assert_alias(t) \/ Reclaim_setup(t)
    \/ Spawn(t) \/ Spawn_refused(t) \/ Undo(t) \/ Mark_valid(t)

-----------------------------------------------------------------------------
(* A thread runs and ends *)

(* xsb_thread_run enters the thread in its entry. *)
Xsb_thread_run(c) ==
    /\ pc[c] = "start"
    /\ valid' = [valid EXCEPT ![entryOf[c]] = TRUE]
    /\ Goto(c, "run")
    /\ UNCHANGED <<table, owner, detached, exited, aliased, ids, on, result,
                   claimed, facts, counts, got>>

Without_alias(c) == {f \in aliasFacts : f.of # c}

(* The clauses of '_$thread_exit_ball' are asserted at the front, one by a  *)
(* thread at its end: balls[c] counts the ends so far, and is 0 when there *)
(* is no clause of c.                                                      *)
Now == Cardinality({c \in Threads : result[c] # "none"}) + 1
FirstBall(b) == balls[b] # 0 /\ \A c \in Threads : balls[c] <= balls[b]
NoBall == \A b \in Threads : balls[b] = 0

(* The handlers of thread.P and error_handler.P look at the entry without  *)
(* th_mutex, remove the aliases of a detached thread and keep the ball of  *)
(* one that is not detached.  thread_exit_handler and                      *)
(* thread_exception_handler call remove_alias with an unbound id.          *)
End_with(c, how) ==
    LET isDetached == detached[entryOf[c]]
        isAliased  == aliased[entryOf[c]]
    IN  /\ pc[c] = "run" /\ c # 0
        /\ result' = [result EXCEPT ![c] = how]
        /\ aliasFacts' = IF ~ (isDetached /\ isAliased) THEN aliasFacts
                         ELSE IF how = "ball" THEN {} ELSE Without_alias(c)
        /\ balls' = IF how \in {"error", "ball"} /\ ~isDetached
                      THEN [balls EXCEPT ![c] = Now] ELSE balls
        /\ Goto(c, "exit")
        /\ UNCHANGED <<table, fields, ids, on, claimed, counts, got>>

(* XSB_THREAD_EXIT, under th_mutex: the entry of a detached thread is      *)
(* given back, that of a joinable one waits to be joined or detached.      *)
Thread_exit_gives_back(c) ==
    /\ pc[c] = "exit"
    /\ Th_delete(c)
    /\ Goto(c, "uncount")
    /\ UNCHANGED <<ids, on, result, claimed, facts, counts, got>>
Thread_exit_unmarked(c) ==
    /\ pc[c] = "exit"
    /\ IF detached[entryOf[c]] THEN Th_delete(c) ELSE UNCHANGED <<table, fields>>
    /\ Goto(c, "uncount")
    /\ UNCHANGED <<ids, on, result, claimed, facts, counts, got>>
Thread_exit(c) ==
    /\ pc[c] = "exit"
    /\ IF detached[entryOf[c]]
         THEN Th_delete(c)
         ELSE /\ exited' = [exited EXCEPT ![entryOf[c]] = TRUE]
              /\ UNCHANGED <<table, owner, valid, detached, aliased>>
    /\ Goto(c, "uncount")
    /\ UNCHANGED <<ids, on, result, claimed, facts, counts, got>>

(* flags[NUM_THREADS]-- after th_mutex was released: the value is read,    *)
(* then written; then pthread_exit.                                        *)
Read_count(c) ==
    /\ pc[c] = "uncount"
    /\ seen' = [seen EXCEPT ![c] = numThreads]
    /\ Goto(c, "uncountWrite")
    /\ UNCHANGED <<table, fields, ids, on, result, claimed, facts, numThreads,
                   got>>

Write_count(c) ==
    /\ pc[c] = "uncountWrite"
    /\ numThreads' = seen[c] - 1
    /\ seen' = [seen EXCEPT ![c] = 0]
    /\ Goto(c, "over")
    /\ UNCHANGED <<table, fields, ids, on, result, claimed, facts, got>>

End(c) ==
    \/ \E how \in Results : End_with(c, how)
    \/ Thread_exit(c) \/ Read_count(c) \/ Write_count(c)

-----------------------------------------------------------------------------
(* thread_join and thread_detach.  A program claims a joinable thread once: *)
(* the behaviour of pthread_join on a thread that was joined or detached is *)
(* undefined.  Its id is known once pthread_create was called.              *)
Claim(t, c) ==
    /\ pc[t] = "run"
    /\ pc[c] # "none"
    /\ c \notin claimed
    /\ Valid(c) /\ ~detached[entryOf[c]]
    /\ claimed' = claimed \cup {c}
    /\ on' = [on EXCEPT ![t] = c]

(* XSB_THREAD_JOIN: th_get under th_mutex, *)
Join(t, c) ==
    /\ t \in Callers /\ t # c
    /\ Claim(t, c)
    /\ Goto(t, "wait")
    /\ UNCHANGED <<table, fields, ids, result, facts, counts, got>>

(* pthread_join, *)
Pthread_join(t) ==
    /\ pc[t] = "wait"
    /\ pc[on[t]] = "over"
    /\ Goto(t, "reclaim")
    /\ UNCHANGED <<table, fields, ids, on, result, claimed, facts, counts, got>>

(* and th_delete under th_mutex. *)
Reclaim(t) ==
    /\ pc[t] = "reclaim"
    /\ Th_delete(on[t])
    /\ Goto(t, "status")
    /\ UNCHANGED <<ids, on, result, claimed, facts, counts, got>>

(* thread_join_1: the aliases are removed, and the status is the exit code *)
(* or the first ball, both with an unbound id.                             *)
Join_status(t) ==
    LET c == on[t]
    IN  /\ pc[t] = "status"
        /\ aliasFacts' = IF nameOf[c] # NoAlias THEN {} ELSE aliasFacts
        /\ \/ /\ result[c] \in {"true", "false"}
              /\ got' = [got EXCEPT ![t] = c]
              /\ UNCHANGED balls
           \/ /\ result[c] \notin {"true", "false"}
              /\ \E b \in Threads :
                    /\ FirstBall(b)
                    /\ got' = [got EXCEPT ![t] = b]
                    /\ balls' = [balls EXCEPT ![b] = 0]
           \/ /\ result[c] \notin {"true", "false"} /\ NoBall
              /\ UNCHANGED <<got, balls>>
        /\ Goto(t, "run")
        /\ UNCHANGED <<table, fields, ids, on, result, claimed, counts>>

(* XSB_THREAD_DETACH: th_get under th_mutex, pthread_detach, *)
Detach(t, c) ==
    /\ t \in Callers \/ t = c
    /\ Claim(t, c)
    /\ Goto(t, "mark")
    /\ UNCHANGED <<table, fields, ids, result, facts, counts, got>>

(* and under th_mutex again the entry of a thread that has exited is given *)
(* back, that of another is marked.                                        *)
Detach_mark_at_once(t) ==
    /\ pc[t] = "mark"
    /\ Th_delete(on[t])
    /\ Goto(t, "retract")
    /\ UNCHANGED <<ids, on, result, claimed, facts, counts, got>>
Detach_mark_untested(t) ==
    /\ pc[t] = "mark"
    /\ detached' = [detached EXCEPT ![entryOf[on[t]]] = TRUE]
    /\ Goto(t, "run")
    /\ UNCHANGED <<table, owner, valid, exited, aliased>>
    /\ UNCHANGED <<ids, on, result, claimed, facts, counts, got>>
Detach_mark(t) ==
    LET e == entryOf[on[t]]
    IN  /\ pc[t] = "mark"
        /\ IF exited[e]
             THEN /\ Th_delete(on[t])
                  /\ Goto(t, "retract")
             ELSE /\ detached' = [detached EXCEPT ![e] = TRUE]
                  /\ Goto(t, "run")
                  /\ UNCHANGED <<table, owner, valid, exited, aliased>>
        /\ UNCHANGED <<ids, on, result, claimed, facts, counts, got>>

(* thread_detach_1 removes the aliases and the ball of a thread that had   *)
(* exited.                                                                 *)
Detach_retract(t) ==
    /\ pc[t] = "retract"
    /\ aliasFacts' = Without_alias(on[t])
    /\ balls' = [balls EXCEPT ![on[t]] = 0]
    /\ Goto(t, "run")
    /\ UNCHANGED <<table, fields, ids, on, result, claimed, counts, got>>

Reap(t) ==
    \/ \E c \in Created : Join(t, c) \/ Detach(t, c)
    \/ Pthread_join(t) \/ Reclaim(t) \/ Join_status(t)
    \/ Detach_mark(t) \/ Detach_retract(t)

Next == \E t \in Threads : Create(t) \/ Xsb_thread_run(t) \/ End(t) \/ Reap(t)

Spec == Init /\ [][Next]_vars

(* The thread is in a call or in its exit and has a step to take.          *)
On_its_way(t) ==
    /\ pc[t] \notin {"none", "run", "over"}
    /\ pc[t] = "wait" => pc[on[t]] = "over"

(* The threads do not all stop while one is on its way: weak fairness of   *)
(* each thread's own steps in calls and exits implies it.  Nothing obliges *)
(* a thread to begin a call or to end.                                     *)
Fairness == []<>(\A t \in Threads : ~On_its_way(t)) \/ []<><<TRUE>>_vars

FairSpec == Spec /\ Fairness

-----------------------------------------------------------------------------
(* Properties *)

Calling == {"alias", "assert", "unsetup", "spawn", "valid", "undo",
            "wait", "reclaim", "status", "mark", "retract"}

(* The thread's Prolog code runs, be it inside a call. *)
Running(c) == pc[c] \in Calling \cup {"run", "exit"}

(* All variables keep their types. *)
TypeOK ==
    /\ free \in Seq(Slots) /\ used \subseteq Slots
    /\ owner \in [Slots -> Threads \cup {Nobody}]
    /\ valid \in [Slots -> BOOLEAN] /\ detached \in [Slots -> BOOLEAN]
    /\ exited \in [Slots -> BOOLEAN] /\ aliased \in [Slots -> BOOLEAN]
    /\ created \in 0 .. MaxCreated
    /\ entryOf \in [Threads -> Slots]
    /\ nameOf \in [Threads -> Aliases \cup {NoAlias}]
    /\ pc \in [Threads -> Places]
    /\ on \in [Threads -> Threads]
    /\ result \in [Threads -> Ends \cup {"none"}]
    /\ claimed \subseteq Created /\ gone \subseteq Created
    /\ aliasFacts \subseteq [name : Aliases, of : Created]
    /\ balls \in [Threads -> Nat]
    /\ numThreads \in Int
    /\ seen \in [Threads -> Int]
    /\ got \in [Threads -> Threads]

(* The table takes entries from the lists and gives them back as SlotPool  *)
(* allows: whatever the order of exit, join and detach, an entry is given  *)
(* back once, and the main thread's never is.                              *)
P == INSTANCE SlotPool WITH Initial <- AfterMain, Taken <- {0}, Pinned <- {0}
GivenBackOnce == P!Pool

(* Each entry in use belongs to one thread that has not been reclaimed,    *)
(* and the entry still denotes that thread.                                *)
EntryPerThread ==
    /\ TypeOK
    /\ LET here == (0 .. created) \ gone
       IN  /\ used = {entryOf[c] : c \in here}
           /\ \A c \in here : owner[entryOf[c]] = c

(* "status information persists until some other thread joins it": a       *)
(* thread that ended and was not reclaimed is valid and marked as exited.  *)
StatusPersists ==
    \A c \in (1 .. created) \ gone :
        pc[c] \in {"uncount", "uncountWrite", "over"}
            => Valid(c) /\ exited[entryOf[c]]

(* The entry of a thread that is joined, or detached before or after its   *)
(* end, returns to the free list.                                          *)
EntryReturns ==
    \A c \in Created :
        (pc[c] = "over" /\ (c \in claimed \/ detached[entryOf[c]])) ~> c \in gone

(* "A thread is valid if it has not yet terminated, or if it is joinable   *)
(* and has not yet been joined": the id of a reclaimed thread is not.      *)
DeadIdInvalid == \A c \in gone : ~Valid(c)

(* thread_join/2 returns the status of the thread it was asked to join.    *)
JoinOwnStatus == [][\A t \in Threads : Join_status(t) => got'[t] = on[t]]_vars

(* The alias of a thread is not removed while the thread runs. *)
AliasKept ==
    \A c \in Created :
        pc[c] = "run" /\ nameOf[c] # NoAlias
            => [name |-> nameOf[c], of |-> c] \in aliasFacts

(* No two threads have the same alias. *)
AliasUnique ==
    \A f, g \in aliasFacts : f.name = g.name => f = g

(* The alias of a thread is gone when the thread has been reclaimed and    *)
(* nobody is about to remove it.                                           *)
AliasRemoved ==
    \A f \in aliasFacts :
        pc[f.of] = "over" /\ f.of \in gone
            => \E t \in Threads : on[t] = f.of /\ pc[t] \in {"status", "retract"}

(* flags[NUM_THREADS] is 1 only when a single thread is active. *)
OneThreadActive ==
    numThreads <= 1 => \A c \in Created : ~Running(c)
=============================================================================
