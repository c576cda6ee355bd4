---------------------------- MODULE MessageQueue ----------------------------
(***************************************************************************)
(* One entry of mq_table (emu/thread_xsb.c) and the threads that use it:   *)
(* the builtins MESSAGE_QUEUE_CREATE, THREAD_SEND_MESSAGE,                 *)
(* THREAD_TRY/RETRY/ACCEPT_MESSAGE, THREAD_PEEK/REPEEK_MESSAGE,            *)
(* THREAD_UNLOCK_QUEUE and XSB_MESSAGE_QUEUE_DESTROY as the Prolog code of *)
(* lib/mutex_xsb.P calls them, wait_on_queue, and the interrupt that       *)
(* thread_signal/2 sends to a thread that waits.                           *)
(*                                                                         *)
(* An entry is reused: every creation gives it a new id.  gen counts the   *)
(* creations; the id a program holds is Id(g) for some past creation g.    *)
(*                                                                         *)
(* What a builtin does from the moment it has mq_mutex to the moment it    *)
(* gives it up is one step; the broadcasts that follow the unlock, and the *)
(* Prolog code a reader runs between two builtins while it keeps the       *)
(* mutex, are steps of their own.                                          *)
(***************************************************************************)
EXTENDS Integers, Sequences, FiniteSets, SequencesExt

CONSTANTS
    Threads,     \* the threads of the program
    Cells,       \* addresses of message cells: MQ_Cell blocks of the heap
    Terms,       \* the terms that are sent
    Goals,       \* what a reader asks for: the sets of terms that unify with it
    Sizes,       \* declared sizes; 0 (MQ_UNBOUNDED) is an unbounded queue
    IncMod,      \* number of incarnations (INC_MASK_RIGHT + 1)
    MaxGen,      \* bound on the number of creations
    Does,        \* Does[t]: the operations thread t calls
    Signalable,  \* the threads to which signals are sent
    Outcomes,    \* how a signal's goal ends: "return", "throw"
    NoThread,    \* mq_mutex is free, mutex_owner is -1
    NoCell       \* current_mq_cell is NULL

(* n_threads is a field of 16 bits. *)
NThreadsMod == 65536

Operations == {"create", "send", "get", "peek", "destroy"}

ASSUME ConstantsOK ==
    /\ NoThread \notin Threads
    /\ NoCell \notin Cells
    /\ Goals \subseteq SUBSET Terms
    /\ Sizes \subseteq Nat
    /\ IncMod \in Nat \ {0}
    /\ MaxGen \in Nat
    /\ Does \in [Threads -> SUBSET Operations]
    /\ Signalable \subseteq Threads
    /\ Outcomes \subseteq {"return", "throw"}

(* max_threads_glc, 1024 by default, is far below the range of n_threads. *)
ASSUME ThreadsFit == IsFiniteSet(Threads) /\ Cardinality(Threads) < NThreadsMod

VARIABLES
    slot,        \* where the entry is: in the free list, popped, in the queue list
    gen,         \* how often the entry has been created
    deleted,     \* q->deleted
    chain,       \* the cells from first_message to last_message
    size,        \* q->size
    maxSize,     \* q->max_size
    nThreads,    \* q->n_threads, 16 bits
    mutexOwner,  \* q->mutex_owner
    lock,        \* the thread that holds mq_mutex
    pc,          \* where each thread is
    handle,      \* the creation whose id the thread's operation was given
    arg,         \* what the operation's term argument unifies with
    cur,         \* current_mq_cell of each thread
    woken,       \* waiting threads whose pthread_cond_wait may return
    asynint      \* threads with THREADINT_MARK in asynint_val

vars == <<slot, gen, deleted, chain, size, maxSize, nThreads,
          mutexOwner, lock, pc, handle, arg, cur, woken, asynint>>

entry == <<slot, gen, deleted, maxSize>>
store == <<chain, size>>
mutex == <<mutexOwner, lock>>
waits == <<nThreads, woken>>
call  == <<handle, arg>>

(* A cell of the chain: its address, its term, and (for the properties     *)
(* only) the creation of the queue its sender addressed.                   *)
Cell == [addr : Cells, term : Terms, to : 1..MaxGen]

(* The last IncMod creations have different ids. *)
Id(g) == (g - 1) % IncMod

(* The condition variable a waiting thread's cond_var_ptr points to is     *)
(* mq_has_free_cells for a sender and mq_has_messages for a reader.        *)
Waiting == {"sendWait", "getWait"}

(* A reader or a peeker in these places looks at a cell of the chain; in   *)
(* the others of Searching it has found its answer.  It keeps mq_mutex.    *)
Looking   == {"unify", "retry", "peekUnify", "repeek"}
Searching == Looking \cup {"peekDone"}

(* Places where a builtin has returned, Prolog code runs and the engine    *)
(* looks at asynint_val before the thread goes on.                         *)
InProlog == {"idle", "unify", "peekUnify", "peekDone", "sendInt", "getInt"}

Places == Waiting \cup Searching \cup InProlog
            \cup {"init", "send", "sendCast", "try", "accept", "acceptCast",
                  "peek", "destroy", "destroyCast", "dealloc", "fault"}

Init ==
    /\ slot = "free"
    /\ gen = 0
    /\ deleted = FALSE
    /\ chain = <<>>
    /\ size = 0
    /\ maxSize = 0
    /\ nThreads = 0
    /\ mutexOwner = NoThread
    /\ lock = NoThread
    /\ pc = [t \in Threads |-> "idle"]
    /\ handle = [t \in Threads |-> 0]
    /\ arg = [t \in Threads |-> {}]
    /\ cur = [t \in Threads |-> NoCell]
    /\ woken = {}
    /\ asynint = {}

-----------------------------------------------------------------------------
(* Building blocks *)

Goto(t, place) == pc' = [pc EXCEPT ![t] = place]

Addrs == {chain[i].addr : i \in DOMAIN chain}
Pos(a) == CHOOSE i \in DOMAIN chain : chain[i].addr = a
LastAddr == chain[Len(chain)].addr

(* check_deleted: the id is not the queue's, or the queue is deleted. *)
Gone_ignoring_id(t) == deleted
Gone(t) == Id(handle[t]) # Id(gen) \/ deleted

(* The operators whose names end in a remark (_off_by_one, _forgotten, ..) *)
(* are mistakes the code does not make; the properties are tested on them. *)
Full == maxSize # 0 /\ size >= maxSize

(* The loop around wait_on_queue tests for room again after each wait. *)
Room(t) == ~Full

(* THREAD_ACCEPT_MESSAGE frees a cell of a full queue. *)
RoomMade_off_by_one == size - 1 = maxSize
RoomMade == size = maxSize

(* pthread_cond_broadcast on the condition variable of a kind of waiter. *)
Broadcast(conds) == woken' = woken \cup {t \in Threads : pc[t] \in conds}

(* q->n_threads-- in wait_on_queue. *)
OneLess == (nThreads + NThreadsMod - 1) % NThreadsMod

(* A waiting thread whose pthread_cond_wait returns. *)
Returns(t) == pc[t] \in Waiting /\ t \in woken /\ lock = NoThread

(* The loops around wait_on_queue: a thread in a builtin has the mutex and *)
(* tests the queue for the first time, or after a wait that was neither    *)
(* interrupted nor ended by the deletion of the queue.                     *)
Tests(t, place, wait) ==
    \/ pc[t] = place /\ lock = NoThread /\ ~Gone(t)
    \/ pc[t] = wait /\ Returns(t) /\ t \notin asynint /\ ~deleted

(* n_threads once thread t has left its wait, if it was in one. *)
Others(t) == IF pc[t] \in Waiting THEN OneLess ELSE nThreads

(* wait_on_queue up to pthread_cond_wait.  Its test of q->deleted is false *)
(* here: every caller has just made it.                                    *)
Wait_on_queue(t, wait) ==
    /\ Goto(t, wait)
    /\ nThreads' = (Others(t) + 1) % NThreadsMod
    /\ mutexOwner' = NoThread
    /\ lock' = NoThread
    /\ woken' = woken \ {t}

(* The thread is out of its wait and has the mutex. *)
Leave_wait_uncounted(t) == UNCHANGED nThreads /\ woken' = woken \ {t}
Leave_wait(t) == nThreads' = Others(t) /\ woken' = woken \ {t}

(* It was the last one: it frees a queue that is deleted. *)
LastOut_untested(t) == TRUE
LastOut(t) == Others(t) = 0

(* A search begins: the builtin returns with the mutex locked. *)
Keep_mutex_forgotten(t) == mutexOwner' = t /\ UNCHANGED lock
Keep_mutex(t) == mutexOwner' = t /\ lock' = t

(* unlock_message_queue at the end of a search. *)
Give_back_mutex == mutexOwner' = NoThread /\ lock' = NoThread

(* The chain without the cell a reader accepts. *)
Unlinked_first(t) == Tail(chain)
Unlinked(t) == RemoveAt(chain, Pos(cur[t]))

-----------------------------------------------------------------------------
(* Calls: a thread starts an operation with the id of some creation. *)

Call(t, op, place, args) ==
    /\ pc[t] = "idle" /\ t \notin asynint
    /\ op \in Does[t]
    /\ \E g \in 1..gen : handle' = [handle EXCEPT ![t] = g]
    /\ \E a \in args : arg' = [arg EXCEPT ![t] = a]
    /\ Goto(t, place)
    /\ UNCHANGED <<entry, store, waits, mutex, cur, asynint>>

Call_send(t)    == Call(t, "send", "send", {{tm} : tm \in Terms})
Call_get(t)     == Call(t, "get", "try", Goals)
Call_peek(t)    == Call(t, "peek", "peek", Goals)
Call_destroy(t) == Call(t, "destroy", "destroy", {{}})

(* check_deleted fails: an existence error.  The builtins that lock with   *)
(* lock_message_queue leave their mark in mutex_owner.                     *)
Check_deleted(t) ==
    /\ pc[t] \in {"send", "try", "peek", "destroy"} /\ lock = NoThread
    /\ Gone(t)
    /\ mutexOwner' = IF pc[t] \in {"send", "try"} THEN t ELSE mutexOwner
    /\ Goto(t, "idle")
    /\ UNCHANGED <<entry, store, waits, call, lock, cur, asynint>>

(* An interrupted wait ends with the mutex unlocked; the builtin succeeds. *)
Wait_interrupted(t) ==
    /\ Returns(t)
    /\ t \in asynint
    /\ Leave_wait(t)
    /\ mutexOwner' = t
    /\ Goto(t, IF pc[t] = "sendWait" THEN "sendInt" ELSE "getInt")
    /\ UNCHANGED <<entry, store, call, lock, cur, asynint>>

(* The last waiter of a deleted queue gives its space back. *)
Wait_deleted(t) ==
    /\ Returns(t)
    /\ t \notin asynint /\ deleted
    /\ Leave_wait(t)
    /\ mutexOwner' = t
    /\ Goto(t, IF LastOut(t) THEN "dealloc" ELSE "idle")
    /\ UNCHANGED <<entry, store, call, lock, cur, asynint>>

-----------------------------------------------------------------------------
(* message_queue_create/1,2: the entry is popped under pub_mq_mutex ...    *)
Create(t) ==
    /\ pc[t] = "idle" /\ t \notin asynint
    /\ "create" \in Does[t]
    /\ slot = "free" /\ gen < MaxGen
    /\ slot' = "popped"
    /\ Goto(t, "init")
    /\ UNCHANGED <<gen, deleted, maxSize, store, waits, mutex, call, cur, asynint>>

(* ... and then init_message_queue gives it a new id under mq_mutex.       *)
Init_message_queue(t) ==
    /\ pc[t] = "init" /\ lock = NoThread
    /\ chain' = <<>>
    /\ size' = 0
    /\ nThreads' = 0
    /\ deleted' = FALSE
    /\ mutexOwner' = NoThread
    /\ maxSize' \in Sizes
    /\ gen' = gen + 1
    /\ slot' = "listed"
    /\ Goto(t, "idle")
    /\ UNCHANGED <<lock, call, cur, woken, asynint>>

-----------------------------------------------------------------------------
(* thread_send_message/2 *)

Send_wait(t) ==
    /\ Tests(t, "send", "sendWait") /\ Full
    /\ Wait_on_queue(t, "sendWait")
    /\ UNCHANGED <<entry, store, call, cur, asynint>>

(* The new cell goes to the end of the chain. *)
Send(t) ==
    /\ Tests(t, "send", "sendWait") /\ Room(t)
    /\ Leave_wait(t)
    /\ \E a \in Cells \ Addrs, tm \in arg[t] :
          chain' = Append(chain, [addr |-> a, term |-> tm, to |-> handle[t]])
    /\ size' = size + 1
    /\ mutexOwner' = NoThread
    /\ Goto(t, "sendCast")
    /\ UNCHANGED <<entry, call, lock, cur, asynint>>

(* The broadcast that follows the unlock. *)
Send_broadcast_to_senders(t) ==
    /\ pc[t] = "sendCast"
    /\ Broadcast({"sendWait"})
    /\ Goto(t, "idle")
    /\ UNCHANGED <<entry, store, nThreads, mutex, call, cur, asynint>>

Send_broadcast(t) ==
    /\ pc[t] = "sendCast"
    /\ Broadcast({"getWait"})
    /\ Goto(t, "idle")
    /\ UNCHANGED <<entry, store, nThreads, mutex, call, cur, asynint>>

(* After an interrupted wait the send is over too. *)
Send_return(t) ==
    /\ pc[t] = "sendInt" /\ t \notin asynint
    /\ Goto(t, "idle")
    /\ UNCHANGED <<entry, store, waits, mutex, call, cur, asynint>>

-----------------------------------------------------------------------------
(* thread_get_message/2 *)

Try_wait(t) ==
    /\ Tests(t, "try", "getWait") /\ chain = <<>>
    /\ Wait_on_queue(t, "getWait")
    /\ UNCHANGED <<entry, store, call, cur, asynint>>

(* The reader looks at the first cell, and keeps the mutex. *)
Try(t) ==
    /\ Tests(t, "try", "getWait") /\ chain # <<>>
    /\ Leave_wait(t)
    /\ cur' = [cur EXCEPT ![t] = chain[1].addr]
    /\ Keep_mutex(t)
    /\ Goto(t, "unify")
    /\ UNCHANGED <<entry, store, call, asynint>>

(* MaybeMessage = Message: the goal unifies with the cell's term or not.   *)
Unify(t) ==
    /\ pc[t] = "unify" /\ t \notin asynint
    /\ Goto(t, IF chain[Pos(cur[t])].term \in arg[t] THEN "accept" ELSE "retry")
    /\ UNCHANGED <<entry, store, waits, mutex, call, cur, asynint>>

(* After an interrupted wait no term was read: MaybeMessage is a fresh     *)
(* variable, which unifies with any goal.                                  *)
Unify_unread(t) ==
    /\ pc[t] = "getInt" /\ t \notin asynint
    /\ Goto(t, "accept")
    /\ UNCHANGED <<entry, store, waits, mutex, call, cur, asynint>>

(* THREAD_RETRY_MESSAGE: wait after the last cell, or go to the next one.  *)
Retry_wait(t) ==
    /\ pc[t] = "retry" /\ cur[t] = LastAddr
    /\ Wait_on_queue(t, "getWait")
    /\ UNCHANGED <<entry, store, call, cur, asynint>>

Retry(t) ==
    /\ pc[t] = "retry" /\ cur[t] # LastAddr
    /\ cur' = [cur EXCEPT ![t] = chain[Pos(cur[t]) + 1].addr]
    /\ Goto(t, "unify")
    /\ UNCHANGED <<entry, store, waits, mutex, call, asynint>>

(* THREAD_ACCEPT_MESSAGE: unlink current_mq_cell and release the mutex.    *)
(* checklock_message_queue locks unless mutex_owner is the thread's, so a  *)
(* stale mutex_owner lets it in without the mutex.  Changing the chain     *)
(* without the mutex, or through a null or dangling current_mq_cell, has   *)
(* no defined outcome: the thread stops in "fault".                        *)
Accept(t) ==
    /\ pc[t] = "accept"
    /\ mutexOwner = t \/ lock = NoThread
    /\ IF (lock = t \/ mutexOwner # t) /\ cur[t] \in Addrs
         THEN /\ chain' = Unlinked(t)
              /\ size' = size - 1
              /\ Give_back_mutex
              /\ Goto(t, IF RoomMade THEN "acceptCast" ELSE "idle")
         ELSE Goto(t, "fault") /\ UNCHANGED <<store, mutex>>
    /\ UNCHANGED <<entry, waits, call, cur, asynint>>

Accept_broadcast(t) ==
    /\ pc[t] = "acceptCast"
    /\ Broadcast({"sendWait"})
    /\ Goto(t, "idle")
    /\ UNCHANGED <<entry, store, nThreads, mutex, call, cur, asynint>>

-----------------------------------------------------------------------------
(* thread_peek_message/2: it locks and unlocks without touching            *)
(* mutex_owner, and holds the mutex until THREAD_UNLOCK_QUEUE.             *)

Peek(t) ==
    /\ pc[t] = "peek" /\ lock = NoThread /\ ~Gone(t)
    /\ lock' = t
    /\ IF chain = <<>>
         THEN Goto(t, "peekDone") /\ UNCHANGED cur
         ELSE Goto(t, "peekUnify") /\ cur' = [cur EXCEPT ![t] = chain[1].addr]
    /\ UNCHANGED <<entry, store, waits, mutexOwner, call, asynint>>

Peek_unify(t) ==
    /\ pc[t] = "peekUnify" /\ t \notin asynint
    /\ Goto(t, IF chain[Pos(cur[t])].term \in arg[t] THEN "peekDone" ELSE "repeek")
    /\ UNCHANGED <<entry, store, waits, mutex, call, cur, asynint>>

(* THREAD_REPEEK_MESSAGE: the last cell ends the search, without a match.  *)
Repeek(t) ==
    /\ pc[t] = "repeek"
    /\ IF cur[t] = LastAddr
         THEN Goto(t, "peekDone") /\ UNCHANGED cur
         ELSE /\ Goto(t, "peekUnify")
              /\ cur' = [cur EXCEPT ![t] = chain[Pos(cur[t]) + 1].addr]
    /\ UNCHANGED <<entry, store, waits, mutex, call, asynint>>

Unlock_queue(t) ==
    /\ pc[t] = "peekDone" /\ t \notin asynint
    /\ lock' = NoThread
    /\ Goto(t, "idle")
    /\ UNCHANGED <<entry, store, waits, mutexOwner, call, cur, asynint>>

-----------------------------------------------------------------------------
(* message_queue_destroy/1: destroy_message_queue marks the queue; with no *)
(* waiter it goes on to queue_dealloc, otherwise the last waiter will.     *)
Unused_untested == TRUE
Unused == nThreads = 0

Destroy(t) ==
    /\ pc[t] = "destroy" /\ lock = NoThread /\ ~Gone(t)
    /\ deleted' = TRUE
    /\ Goto(t, IF Unused THEN "dealloc" ELSE "destroyCast")
    /\ UNCHANGED <<slot, gen, maxSize, store, waits, mutex, call, cur, asynint>>

Destroy_broadcast_to_readers(t) ==
    /\ pc[t] = "destroyCast"
    /\ Broadcast({"getWait"})
    /\ Goto(t, "idle")
    /\ UNCHANGED <<entry, store, nThreads, mutex, call, cur, asynint>>

Destroy_broadcast(t) ==
    /\ pc[t] = "destroyCast"
    /\ Broadcast({"getWait", "sendWait"})
    /\ Goto(t, "idle")
    /\ UNCHANGED <<entry, store, nThreads, mutex, call, cur, asynint>>

(* queue_dealloc: the cells are freed, the entry joins the free list.      *)
Queue_dealloc(t) ==
    /\ pc[t] = "dealloc"
    /\ chain' = <<>>
    /\ slot' = "free"
    /\ Goto(t, "idle")
    /\ UNCHANGED <<gen, deleted, maxSize, size, waits, mutex, call, cur, asynint>>

-----------------------------------------------------------------------------
(* Signals *)

(* XSB_THREAD_INTERRUPT: mark the thread; if it waits, broadcast on the    *)
(* condition variable its cond_var_ptr points to.                          *)
Thread_interrupt(t) ==
    /\ t \in Signalable
    /\ asynint' = asynint \cup {t}
    /\ Broadcast(Waiting \cap {pc[t]})
    /\ UNCHANGED <<entry, store, nThreads, mutex, pc, call, cur>>

(* '_$thread_int': run the goals of the signal queue; the thread goes on,  *)
(* or an exception ends its operation where it is.                         *)
Handle_signal(t) ==
    /\ t \in asynint
    /\ pc[t] \in InProlog
    /\ asynint' = asynint \ {t}
    /\ \/ "return" \in Outcomes /\ UNCHANGED pc
       \/ "throw" \in Outcomes /\ Goto(t, "idle")
    /\ UNCHANGED <<entry, store, waits, mutex, call, cur>>

(* POSIX lets pthread_cond_wait return unasked. *)
Spurious_wakeup(t) ==
    /\ pc[t] \in Waiting
    /\ woken' = woken \cup {t}
    /\ UNCHANGED <<entry, store, nThreads, mutex, pc, call, cur, asynint>>

-----------------------------------------------------------------------------
Calls(t) == Call_send(t) \/ Call_get(t) \/ Call_peek(t) \/ Call_destroy(t)
              \/ Create(t)

(* Steps that take mq_mutex. *)
Locking(t) == Check_deleted(t) \/ Wait_interrupted(t) \/ Wait_deleted(t)
                \/ Init_message_queue(t) \/ Send_wait(t) \/ Send(t)
                \/ Try_wait(t) \/ Try(t) \/ Peek(t) \/ Destroy(t)

(* Steps that a thread takes on its own. *)
Moving(t) == Send_broadcast(t) \/ Send_return(t) \/ Unify(t) \/ Unify_unread(t)
               \/ Retry_wait(t) \/ Retry(t) \/ Accept(t) \/ Accept_broadcast(t)
               \/ Peek_unify(t) \/ Repeek(t) \/ Unlock_queue(t)
               \/ Destroy_broadcast(t) \/ Queue_dealloc(t) \/ Handle_signal(t)

Next == \E t \in Threads :
           Calls(t) \/ Locking(t) \/ Moving(t) \/ Thread_interrupt(t)
             \/ Spurious_wakeup(t)

Spec == Init /\ [][Next]_vars

(* A thread that can run does run, and a thread that tries to lock         *)
(* mq_mutex again and again gets it in the end.                            *)
Fairness == \A t \in Threads : WF_vars(Moving(t)) /\ SF_vars(Locking(t))

FairSpec == Spec /\ Fairness
-----------------------------------------------------------------------------
(* Properties *)

TypeOK ==
    /\ slot \in {"free", "popped", "listed"}
    /\ gen \in 0..MaxGen
    /\ deleted \in BOOLEAN
    /\ chain \in Seq(Cell)
    /\ size \in Int
    /\ maxSize \in Nat
    /\ nThreads \in 0..(NThreadsMod - 1)
    /\ mutexOwner \in Threads \cup {NoThread}
    /\ lock \in Threads \cup {NoThread}
    /\ pc \in [Threads -> Places]
    /\ handle \in [Threads -> 0..MaxGen]
    /\ arg \in [Threads -> SUBSET Terms]
    /\ cur \in [Threads -> Cells \cup {NoCell}]
    /\ woken \subseteq Threads
    /\ asynint \subseteq Threads

Waiters == {t \in Threads : pc[t] \in Waiting}

(* A reader or a peeker holds the mutex from the first cell it looks at to *)
(* the last, and the cell it looks at stays in the chain.                  *)
SearchHoldsMutex ==
    \A t \in Threads :
        /\ pc[t] \in Searching => lock = t
        /\ pc[t] \in Looking => cur[t] \in Addrs

(* Nobody keeps the mutex when its search is over: no path through the     *)
(* builtins and the Prolog code between them leaves it locked.             *)
MutexNotLeaked == lock # NoThread => pc[lock] \in Searching \cup {"accept"}

(* THREAD_ACCEPT_MESSAGE is reached only by the thread that holds the      *)
(* mutex, with current_mq_cell in the chain.                               *)
AcceptHoldsCell ==
    \A t \in Threads : pc[t] = "accept" => lock = t /\ cur[t] \in Addrs

(* n_threads counts the threads inside wait_on_queue: destruction decides  *)
(* by it who frees the queue.                                              *)
WaitersCounted == nThreads = Cardinality(Waiters)

(* An entry out of the queue list is left alone, and a deleted queue is    *)
(* put on the free list by one thread, once, when nobody waits on it.      *)
FreedOnce ==
    /\ slot # "listed" =>
         lock = NoThread /\ Waiters = {} /\ \A t \in Threads : pc[t] # "dealloc"
    /\ \A t \in Threads : pc[t] = "dealloc" =>
         /\ deleted /\ nThreads = 0
         /\ \A u \in Threads \ {t} : pc[u] # "dealloc"

(* A term is only ever in the queue it was sent to: an id of an earlier    *)
(* creation of the entry does not reach the present one.                   *)
RightQueue ==
    slot = "listed" => \A i \in DOMAIN chain : chain[i].to = gen

(* No lost wakeup: when a reader sleeps and no broadcast is on its way,    *)
(* no term in the queue unifies with its goal.                             *)
NoStrandedReader ==
    \A t \in Threads :
        /\ pc[t] = "getWait" /\ t \notin woken /\ ~deleted
        /\ \A u \in Threads : pc[u] # "sendCast"
        => \A i \in DOMAIN chain : chain[i].term \notin arg[t]

(* No lost wakeup: when a sender sleeps and no broadcast is on its way,    *)
(* the queue is full.                                                      *)
NoStrandedSender ==
    \A t \in Threads :
        /\ pc[t] = "sendWait" /\ t \notin woken /\ ~deleted
        /\ \A u \in Threads : pc[u] # "acceptCast"
        => Full

(* "if there are threads waiting in the queue, mark it as deleted, wake up *)
(* the thread, and let the last one really delete it": a deleted queue has *)
(* somebody left who will free it.                                         *)
DeletedWillBeFreed ==
    deleted /\ slot = "listed" =>
        \/ \E t \in Threads : pc[t] = "dealloc"
        \/ /\ Waiters # {}
           /\ Waiters \subseteq woken \/ \E t \in Threads : pc[t] = "destroyCast"

(* The ids a thread was given and the state of the entry they lead to;     *)
(* together with the properties above, an inductive invariant.             *)
HandlesIssued ==
    \A t \in Threads :
        /\ handle[t] <= gen
        /\ pc[t] \in {"send", "sendWait", "try", "peek", "destroy"} => 1 <= handle[t]

EntryConsistent ==
    /\ slot # "listed" => deleted \/ gen = 0
    /\ slot = "listed" => gen > 0
    /\ slot = "popped" => gen < MaxGen
    /\ lock # NoThread => slot = "listed" /\ ~deleted
    /\ \A t \in Threads : pc[t] = "init" =>
         slot = "popped" /\ \A u \in Threads \ {t} : pc[u] # "init"

QueueInv ==
    /\ TypeOK
    /\ SearchHoldsMutex
    /\ WaitersCounted
    /\ FreedOnce
    /\ HandlesIssued
    /\ EntryConsistent

(* The queue implements the mailbox: until it is deleted its terms are the *)
(* box, and a reader between its call and its answer has a request.        *)
Getting == {"try", "getWait", "unify", "retry", "accept"}
isOpen  == slot = "listed" /\ ~deleted
contents == [i \in DOMAIN chain |-> chain[i].term]

Box == INSTANCE Mailbox WITH
          open <- isOpen,
          bound <- IF isOpen THEN maxSize ELSE 0,
          box <- IF isOpen THEN contents ELSE <<>>,
          request <- [t \in Threads |-> IF pc[t] \in Getting THEN arg[t] ELSE {}]

IsMailbox == Box!Spec

(* A reader whose goal a term in the queue satisfies gets a term, unless   *)
(* others take it or the queue is deleted.                                 *)
Servable(t) ==
    pc[t] \in Getting /\ ~Gone(t) /\ \E i \in DOMAIN chain : chain[i].term \in arg[t]
ReadersServed == \A t \in Threads : Servable(t) ~> ~Servable(t)

(* A destroyed queue's entry returns to the free list. *)
EntryReturns == (deleted /\ slot = "listed") ~> (slot = "free")

(* cond_var_ptr is set "so that the signal handler can wake up the         *)
(* thread": a signalled thread does not sleep.                             *)
SignalWakes == \A t \in asynint : pc[t] \in Waiting => t \in woken
=============================================================================
