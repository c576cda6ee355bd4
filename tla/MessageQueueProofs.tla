------------------------- MODULE MessageQueueProofs -------------------------
(* Proofs about MessageQueue for any numbers of threads, cells and terms:  *)
(* the queue itself, then what its users see: no wakeup is lost, and a      *)
(* queue without signals is a mailbox.                                     *)
EXTENDS MessageQueue, FiniteSetTheorems, SequenceTheorems, TLAPS

(* RemoveAt, which unlinks an accepted cell, leaves a sequence of cells. *)
LEMMA RemoveAtType ==
    ASSUME NEW S, NEW s \in Seq(S), NEW i \in 1..Len(s)
    PROVE  RemoveAt(s, i) \in Seq(S)
<1>1. SubSeq(s, 1, i - 1) \in Seq(S)
  BY SubSeqProperties, ElementOfSeq, LenProperties
<1>2. SubSeq(s, i + 1, Len(s)) \in Seq(S)
  BY SubSeqProperties, ElementOfSeq, LenProperties
<1> QED BY <1>1, <1>2, ConcatProperties DEF RemoveAt

(* Pos finds the place of a cell whose address is in the chain. *)
LEMMA PosInChain ==
    ASSUME TypeOK, NEW a \in Addrs
    PROVE  Pos(a) \in 1..Len(chain) /\ chain[Pos(a)].addr = a /\ DOMAIN chain = 1..Len(chain)
<1>1. DOMAIN chain = 1..Len(chain)
  BY LenProperties DEF TypeOK
<1> QED BY <1>1 DEF Pos, Addrs

(* A chain that is not empty has a first cell. *)
LEMMA FirstCell ==
    ASSUME TypeOK, chain # <<>>
    PROVE  chain[1].addr \in Cells /\ chain[1].addr \in Addrs
<1>1. chain \in Seq(Cell)
  BY DEF TypeOK
<1>2. 1 \in 1..Len(chain) /\ DOMAIN chain = 1..Len(chain)
  BY <1>1, EmptySeq, LenProperties
<1>3. chain[1] \in Cell
  BY <1>1, <1>2, ElementOfSeq
<1> QED BY <1>2, <1>3 DEF Cell, Addrs

(* The cell after one that is not the last is in the chain too. *)
LEMMA NextCell ==
    ASSUME TypeOK, NEW a \in Addrs, a # LastAddr
    PROVE  chain[Pos(a) + 1].addr \in Cells /\ chain[Pos(a) + 1].addr \in Addrs
<1>1. chain \in Seq(Cell)
  BY DEF TypeOK
<1>2. Pos(a) \in 1..Len(chain) /\ chain[Pos(a)].addr = a /\ DOMAIN chain = 1..Len(chain)
  BY PosInChain
<1>3. Pos(a) + 1 \in 1..Len(chain)
  BY <1>1, <1>2, LenProperties DEF LastAddr
<1>4. chain[Pos(a) + 1] \in Cell
  BY <1>1, <1>3, ElementOfSeq
<1> QED BY <1>2, <1>3, <1>4 DEF Cell, Addrs

(* Every value that Goto gives to pc is a place. *)
LEMMA PlacesAre ==
    /\ {"idle", "unify", "peekUnify", "peekDone", "sendInt", "getInt"} \subseteq Places
    /\ {"sendWait", "getWait", "retry", "repeek"} \subseteq Places
    /\ {"init", "send", "sendCast", "try", "accept", "acceptCast"} \subseteq Places
    /\ {"peek", "destroy", "destroyCast", "dealloc", "fault"} \subseteq Places
BY DEF Places, Waiting, Searching, Looking, InProlog

(* mq_table as init_mq_table leaves it is well typed. *)
LEMMA InitType == Init => TypeOK
<1> SUFFICES ASSUME Init PROVE TypeOK
  OBVIOUS
<1>1. chain \in Seq(Cell)
  BY EmptySeq DEF Init
<1>2. pc \in [Threads -> Places]
  BY PlacesAre DEF Init
<1>3. arg \in [Threads -> SUBSET Terms]
  BY DEF Init
<1>4. /\ gen \in 0..MaxGen
      /\ handle \in [Threads -> 0..MaxGen]
      /\ nThreads \in 0..(NThreadsMod - 1)
  BY ConstantsOK DEF Init, NThreadsMod
<1>5. cur \in [Threads -> Cells \cup {NoCell}]
  BY DEF Init
<1>6. slot \in {"free", "popped", "listed"} /\ size \in Int /\ maxSize \in Nat
  BY DEF Init
<1>8. deleted \in BOOLEAN
  BY Zenon DEF Init
<1>7. /\ mutexOwner \in Threads \cup {NoThread}
      /\ lock \in Threads \cup {NoThread}
      /\ woken \subseteq Threads
      /\ asynint \subseteq Threads
  BY DEF Init
<1> QED BY <1>1, <1>2, <1>3, <1>4, <1>5, <1>6, <1>7, <1>8 DEF TypeOK

(* A number modulo m is in the range of m. *)
LEMMA ModRange ==
    ASSUME NEW m \in Nat \ {0}, NEW n \in 0..(m - 1)
    PROVE  (n + m - 1) % m \in 0..(m - 1) /\ (n + 1) % m \in 0..(m - 1)
OBVIOUS

(* Adding m - 1 to a count above zero takes one off. *)
LEMMA ModLess ==
    ASSUME NEW m \in Nat \ {0}, NEW n \in 1..(m - 1)
    PROVE  (n + m - 1) % m = n - 1
OBVIOUS

(* Adding one to a count whose successor fits adds one. *)
LEMMA ModMore ==
    ASSUME NEW m \in Nat \ {0}, NEW n \in 0..(m - 2)
    PROVE  (n + 1) % m = n + 1
OBVIOUS

(* The lemmas on counting apply to 16 bits. *)
LEMMA ModulusPositive == NThreadsMod \in Nat \ {0}
BY DEF NThreadsMod

(* n_threads stays in its 16 bits, whatever is added to it. *)
LEMMA CountType ==
    ASSUME TypeOK, NEW t \in Threads
    PROVE  /\ Others(t) \in 0..(NThreadsMod - 1)
           /\ (Others(t) + 1) % NThreadsMod \in 0..(NThreadsMod - 1)
<1>1. Others(t) \in 0..(NThreadsMod - 1)
  BY ModRange, ModulusPositive DEF TypeOK, Others, OneLess
<1> QED BY <1>1, ModRange, ModulusPositive

(* Every step keeps the types. *)
LEMMA StepType ==
    ASSUME QueueInv, [Next]_vars
    PROVE  TypeOK'
<1> USE PlacesAre DEF QueueInv, entry, store, waits, mutex, call
<1>1. ASSUME UNCHANGED vars PROVE TypeOK'
  BY <1>1 DEF TypeOK, vars
<1>2. ASSUME NEW t \in Threads, Call_send(t) PROVE TypeOK'
  BY <1>2, ConstantsOK DEF TypeOK, Call_send, Call, Goto
<1>3. ASSUME NEW t \in Threads, Call_get(t) PROVE TypeOK'
  BY <1>3, ConstantsOK DEF TypeOK, Call_get, Call, Goto
<1>4. ASSUME NEW t \in Threads, Call_peek(t) PROVE TypeOK'
  BY <1>4, ConstantsOK DEF TypeOK, Call_peek, Call, Goto
<1>5. ASSUME NEW t \in Threads, Call_destroy(t) PROVE TypeOK'
  BY <1>5, ConstantsOK DEF TypeOK, Call_destroy, Call, Goto
<1>6. ASSUME NEW t \in Threads, Create(t) PROVE TypeOK'
  BY <1>6 DEF TypeOK, Create, Goto
<1>7. ASSUME NEW t \in Threads, Check_deleted(t) PROVE TypeOK'
  BY <1>7 DEF TypeOK, Check_deleted, Goto
<1>8. ASSUME NEW t \in Threads, Wait_interrupted(t) PROVE TypeOK'
  BY <1>8, CountType DEF TypeOK, Wait_interrupted, Leave_wait, Goto
<1>9. ASSUME NEW t \in Threads, Wait_deleted(t) PROVE TypeOK'
  BY <1>9, CountType DEF TypeOK, Wait_deleted, Leave_wait, Goto, LastOut
<1>10. ASSUME NEW t \in Threads, Send_wait(t) PROVE TypeOK'
  BY <1>10, CountType DEF TypeOK, Send_wait, Wait_on_queue, Goto
<1>11. ASSUME NEW t \in Threads, Send_broadcast(t) PROVE TypeOK'
  BY <1>11 DEF TypeOK, Send_broadcast, Broadcast, Goto
<1>12. ASSUME NEW t \in Threads, Send_return(t) PROVE TypeOK'
  BY <1>12 DEF TypeOK, Send_return, Goto
<1>13. ASSUME NEW t \in Threads, Try_wait(t) PROVE TypeOK'
  BY <1>13, CountType DEF TypeOK, Try_wait, Wait_on_queue, Goto
<1>14. ASSUME NEW t \in Threads, Unify(t) PROVE TypeOK'
  BY <1>14 DEF TypeOK, Unify, Goto
<1>15. ASSUME NEW t \in Threads, Unify_unread(t) PROVE TypeOK'
  BY <1>15 DEF TypeOK, Unify_unread, Goto
<1>16. ASSUME NEW t \in Threads, Retry_wait(t) PROVE TypeOK'
  BY <1>16, CountType DEF TypeOK, Retry_wait, Wait_on_queue, Goto
<1>17. ASSUME NEW t \in Threads, Accept_broadcast(t) PROVE TypeOK'
  BY <1>17 DEF TypeOK, Accept_broadcast, Broadcast, Goto
<1>18. ASSUME NEW t \in Threads, Peek_unify(t) PROVE TypeOK'
  BY <1>18 DEF TypeOK, Peek_unify, Goto
<1>19. ASSUME NEW t \in Threads, Unlock_queue(t) PROVE TypeOK'
  BY <1>19 DEF TypeOK, Unlock_queue, Goto
<1>20. ASSUME NEW t \in Threads, Destroy_broadcast(t) PROVE TypeOK'
  BY <1>20 DEF TypeOK, Destroy_broadcast, Broadcast, Goto
<1>21. ASSUME NEW t \in Threads, Thread_interrupt(t) PROVE TypeOK'
  BY <1>21 DEF TypeOK, Thread_interrupt, Broadcast
<1>22. ASSUME NEW t \in Threads, Handle_signal(t) PROVE TypeOK'
  BY <1>22 DEF TypeOK, Handle_signal, Goto
<1>23. ASSUME NEW t \in Threads, Spurious_wakeup(t) PROVE TypeOK'
  BY <1>23 DEF TypeOK, Spurious_wakeup
<1>24. ASSUME NEW t \in Threads, Init_message_queue(t) PROVE TypeOK'
  <2>1. chain' \in Seq(Cell)
    BY <1>24, EmptySeq DEF Init_message_queue
  <2>2. deleted' \in BOOLEAN
    BY <1>24, Zenon DEF Init_message_queue
  <2>3. gen' \in 0..MaxGen
    BY <1>24, ConstantsOK DEF Init_message_queue, TypeOK, EntryConsistent
  <2>4. nThreads' \in 0..(NThreadsMod - 1)
    BY <1>24, ModulusPositive DEF Init_message_queue
  <2> QED BY <1>24, <2>1, <2>2, <2>3, <2>4, ConstantsOK DEF TypeOK, Init_message_queue, Goto
<1>25. ASSUME NEW t \in Threads, Send(t) PROVE TypeOK'
  <2>1. chain' \in Seq(Cell)
    BY <1>25, ConstantsOK, AppendProperties
       DEF Send, Tests, TypeOK, Cell, HandlesIssued, Room
  <2> QED BY <1>25, <2>1, CountType DEF TypeOK, Send, Leave_wait, Goto, Room
<1>26. ASSUME NEW t \in Threads, Try(t) PROVE TypeOK'
  <2>1. chain[1].addr \in Cells
    BY <1>26, FirstCell DEF Try, Keep_mutex
  <2> QED BY <1>26, <2>1, CountType DEF TypeOK, Try, Leave_wait, Goto, Keep_mutex
<1>27. ASSUME NEW t \in Threads, pc[t] \in Looking, cur[t] # LastAddr
       PROVE  chain[Pos(cur[t]) + 1].addr \in Cells
  BY <1>27, NextCell DEF SearchHoldsMutex
<1>28. ASSUME NEW t \in Threads, Retry(t) PROVE TypeOK'
  BY <1>27, <1>28 DEF TypeOK, Retry, Goto, Looking
<1>29. ASSUME NEW t \in Threads, Accept(t) PROVE TypeOK'
  <2>1. CASE (lock = t \/ mutexOwner # t) /\ cur[t] \in Addrs
    <3>1. chain' \in Seq(Cell)
      BY <1>29, <2>1, PosInChain, RemoveAtType DEF Accept, TypeOK, Give_back_mutex, Unlinked, RoomMade
    <3>2. pc' \in [Threads -> Places]
      BY <1>29, <2>1 DEF Accept, TypeOK, Goto, Give_back_mutex, Unlinked, RoomMade
    <3> QED BY <1>29, <2>1, <3>1, <3>2 DEF TypeOK, Accept, Give_back_mutex, Unlinked, RoomMade
  <2>2. CASE ~((lock = t \/ mutexOwner # t) /\ cur[t] \in Addrs)
    BY <1>29, <2>2 DEF TypeOK, Accept, Goto, Give_back_mutex, Unlinked, RoomMade
  <2> QED BY <2>1, <2>2
<1>30. ASSUME NEW t \in Threads, Peek(t) PROVE TypeOK'
  BY <1>30, FirstCell DEF TypeOK, Peek, Goto
<1>31. ASSUME NEW t \in Threads, Repeek(t) PROVE TypeOK'
  BY <1>27, <1>31 DEF TypeOK, Repeek, Goto, Looking
<1>32. ASSUME NEW t \in Threads, Destroy(t) PROVE TypeOK'
  <2>1. deleted' \in BOOLEAN
    BY <1>32, Zenon DEF Destroy, Unused
  <2> QED BY <1>32, <2>1 DEF TypeOK, Destroy, Goto, Unused
<1>33. ASSUME NEW t \in Threads, Queue_dealloc(t) PROVE TypeOK'
  <2>1. chain' \in Seq(Cell)
    BY <1>33, EmptySeq DEF Queue_dealloc
  <2> QED BY <1>33, <2>1 DEF TypeOK, Queue_dealloc, Goto
<1> QED
  BY <1>1, <1>2, <1>3, <1>4, <1>5, <1>6, <1>7, <1>8, <1>9, <1>10, <1>11, <1>12,
     <1>13, <1>14, <1>15, <1>16, <1>17, <1>18, <1>19, <1>20, <1>21, <1>22, <1>23,
     <1>24, <1>25, <1>26, <1>28, <1>29, <1>30, <1>31, <1>32, <1>33
     DEF Next, Calls, Locking, Moving

(* A search keeps the mutex, and its cell stays where it is. *)
LEMMA StepSearch ==
    ASSUME QueueInv, [Next]_vars
    PROVE  SearchHoldsMutex'
<1> USE ConstantsOK DEF QueueInv, TypeOK, SearchHoldsMutex, Searching, Looking, entry, store, waits, mutex, call
<1>0. ASSUME UNCHANGED vars PROVE SearchHoldsMutex'
  BY <1>0 DEF vars, Addrs
<1>1. ASSUME NEW t \in Threads, Call_send(t) PROVE SearchHoldsMutex'
  BY <1>1 DEF Call_send, Call, Goto, Addrs
<1>2. ASSUME NEW t \in Threads, Call_get(t) PROVE SearchHoldsMutex'
  BY <1>2 DEF Call_get, Call, Goto, Addrs
<1>3. ASSUME NEW t \in Threads, Call_peek(t) PROVE SearchHoldsMutex'
  BY <1>3 DEF Call_peek, Call, Goto, Addrs
<1>4. ASSUME NEW t \in Threads, Call_destroy(t) PROVE SearchHoldsMutex'
  BY <1>4 DEF Call_destroy, Call, Goto, Addrs
<1>5. ASSUME NEW t \in Threads, Create(t) PROVE SearchHoldsMutex'
  BY <1>5 DEF Create, Goto, Addrs
<1>6. ASSUME NEW t \in Threads, Check_deleted(t) PROVE SearchHoldsMutex'
  BY <1>6 DEF Check_deleted, Goto, Addrs
<1>7. ASSUME NEW t \in Threads, Wait_interrupted(t) PROVE SearchHoldsMutex'
  BY <1>7 DEF Wait_interrupted, Leave_wait, Returns, Goto, Addrs
<1>8. ASSUME NEW t \in Threads, Wait_deleted(t) PROVE SearchHoldsMutex'
  BY <1>8 DEF Wait_deleted, Leave_wait, Returns, Goto, Addrs, LastOut
<1>9. ASSUME NEW t \in Threads, Init_message_queue(t) PROVE SearchHoldsMutex'
  BY <1>9 DEF Init_message_queue, Goto
<1>10. ASSUME NEW t \in Threads, Send_wait(t) PROVE SearchHoldsMutex'
  BY <1>10 DEF Send_wait, Wait_on_queue, Tests, Returns, Goto, Addrs
<1>11. ASSUME NEW t \in Threads, Send(t) PROVE SearchHoldsMutex'
  BY <1>11 DEF Send, Leave_wait, Tests, Returns, Goto, Room
<1>12. ASSUME NEW t \in Threads, Try_wait(t) PROVE SearchHoldsMutex'
  BY <1>12 DEF Try_wait, Wait_on_queue, Tests, Returns, Goto, Addrs
<1>13. ASSUME NEW t \in Threads, Try(t) PROVE SearchHoldsMutex'
  BY <1>13, FirstCell DEF Try, Leave_wait, Tests, Returns, Goto, Addrs, Keep_mutex
<1>14. ASSUME NEW t \in Threads, Peek(t) PROVE SearchHoldsMutex'
  <2>1. Addrs' = Addrs
    BY <1>14 DEF Peek, Addrs
  <2> QED BY <1>14, <2>1, FirstCell DEF Peek, Goto
<1>15. ASSUME NEW t \in Threads, Destroy(t) PROVE SearchHoldsMutex'
  BY <1>15 DEF Destroy, Goto, Addrs, Unused
<1>16. ASSUME NEW t \in Threads, Send_broadcast(t) PROVE SearchHoldsMutex'
  BY <1>16 DEF Send_broadcast, Broadcast, Goto, Addrs
<1>17. ASSUME NEW t \in Threads, Send_return(t) PROVE SearchHoldsMutex'
  BY <1>17 DEF Send_return, Goto, Addrs
<1>18. ASSUME NEW t \in Threads, Unify(t) PROVE SearchHoldsMutex'
  BY <1>18 DEF Unify, Goto, Addrs
<1>19. ASSUME NEW t \in Threads, Unify_unread(t) PROVE SearchHoldsMutex'
  BY <1>19 DEF Unify_unread, Goto, Addrs
<1>20. ASSUME NEW t \in Threads, Retry_wait(t) PROVE SearchHoldsMutex'
  BY <1>20 DEF Retry_wait, Wait_on_queue, Goto, Addrs
<1>21. ASSUME NEW t \in Threads, Retry(t) PROVE SearchHoldsMutex'
  <2>1. Addrs' = Addrs
    BY <1>21 DEF Retry, Addrs
  <2> QED BY <1>21, <2>1, NextCell DEF Retry, Goto
<1>22. ASSUME NEW t \in Threads, Accept(t) PROVE SearchHoldsMutex'
  <2>1. CASE lock = t \/ lock = NoThread
    <3>1. \A u \in Threads \ {t} : pc[u] \notin Searching
      BY <2>1
    <3> QED BY <1>22, <3>1 DEF Accept, Goto, Give_back_mutex, Unlinked, RoomMade
  <2>2. CASE lock \notin {t, NoThread}
    <3>1. UNCHANGED <<chain, lock, cur>> /\ Goto(t, "fault")
      BY <1>22, <2>2 DEF Accept, Give_back_mutex, Unlinked, RoomMade
    <3> QED BY <3>1 DEF Goto, Addrs
  <2> QED BY <2>1, <2>2
<1>23. ASSUME NEW t \in Threads, Accept_broadcast(t) PROVE SearchHoldsMutex'
  BY <1>23 DEF Accept_broadcast, Broadcast, Goto, Addrs
<1>24. ASSUME NEW t \in Threads, Peek_unify(t) PROVE SearchHoldsMutex'
  BY <1>24 DEF Peek_unify, Goto, Addrs
<1>25. ASSUME NEW t \in Threads, Repeek(t) PROVE SearchHoldsMutex'
  <2>1. Addrs' = Addrs
    BY <1>25 DEF Repeek, Addrs
  <2> QED BY <1>25, <2>1, NextCell DEF Repeek, Goto
<1>26. ASSUME NEW t \in Threads, Unlock_queue(t) PROVE SearchHoldsMutex'
  BY <1>26 DEF Unlock_queue, Goto, Addrs
<1>27. ASSUME NEW t \in Threads, Destroy_broadcast(t) PROVE SearchHoldsMutex'
  BY <1>27 DEF Destroy_broadcast, Broadcast, Goto, Addrs
<1>28. ASSUME NEW t \in Threads, Queue_dealloc(t) PROVE SearchHoldsMutex'
  BY <1>28 DEF Queue_dealloc, Goto, FreedOnce, EntryConsistent
<1>29. ASSUME NEW t \in Threads, Handle_signal(t) PROVE SearchHoldsMutex'
  BY <1>29 DEF Handle_signal, Goto, Addrs
<1>30. ASSUME NEW t \in Threads, Thread_interrupt(t) PROVE SearchHoldsMutex'
  BY <1>30 DEF Thread_interrupt, Broadcast, Addrs
<1>31. ASSUME NEW t \in Threads, Spurious_wakeup(t) PROVE SearchHoldsMutex'
  BY <1>31 DEF Spurious_wakeup, Addrs
<1> QED
  BY <1>0, <1>1, <1>2, <1>3, <1>4, <1>5, <1>6, <1>7, <1>8, <1>9, <1>10,
     <1>11, <1>12, <1>13, <1>14, <1>15, <1>16, <1>17, <1>18, <1>19, <1>20,
     <1>21, <1>22, <1>23, <1>24, <1>25, <1>26, <1>27, <1>28, <1>29, <1>30,
     <1>31
     DEF Next, Calls, Locking, Moving

(* Counting the waiters: fewer than the modulus of n_threads, so that a    *)
(* thread that leaves or enters a wait changes the count by one.           *)
LEMMA WaitersFit ==
    /\ IsFiniteSet(Waiters)
    /\ Cardinality(Waiters) \in 0..(NThreadsMod - 1)
    /\ \A t \in Threads : t \notin Waiters => Cardinality(Waiters) + 1 \in 1..(NThreadsMod - 1)
<1>1. Waiters \subseteq Threads
  BY DEF Waiters
<1>2. IsFiniteSet(Waiters) /\ Cardinality(Waiters) \in Nat /\ Cardinality(Threads) \in Nat
  BY <1>1, FS_Subset, FS_CardinalityType, ThreadsFit
<1>3. Cardinality(Waiters) <= Cardinality(Threads)
  BY <1>1, FS_Subset, ThreadsFit
<1>4. ASSUME NEW t \in Threads, t \notin Waiters
      PROVE  Cardinality(Waiters) + 1 <= Cardinality(Threads)
  <2>1. Waiters \cup {t} \subseteq Threads
    BY <1>1
  <2>2. Cardinality(Waiters \cup {t}) <= Cardinality(Threads)
    BY <2>1, FS_Subset, ThreadsFit
  <2>3. Cardinality(Waiters \cup {t}) = Cardinality(Waiters) + 1
    BY <1>2, <1>4, FS_AddElement
  <2> QED BY <2>2, <2>3
<1>5. Cardinality(Threads) < NThreadsMod /\ NThreadsMod \in Nat
  BY ThreadsFit, ModulusPositive
<1> QED BY <1>2, <1>3, <1>4, <1>5

(* n_threads is zero exactly when nobody waits. *)
LEMMA NobodyWaits ==
    ASSUME WaitersCounted
    PROVE  nThreads = 0 <=> Waiters = {}
BY WaitersFit, FS_EmptySet DEF WaitersCounted

(* A thread that goes to a place outside a wait, or into one, keeps the    *)
(* count of the waiters.                                                   *)
LEMMA CountLeaving ==
    ASSUME TypeOK, WaitersCounted, NEW t \in Threads, NEW place \in Places \ Waiting,
           Goto(t, place), nThreads' = Others(t)
    PROVE  WaitersCounted'
<1>1. Waiters' = Waiters \ {t}
  BY DEF Waiters, Goto, TypeOK
<1>2. CASE t \in Waiters
  <2>1. Cardinality(Waiters \ {t}) = Cardinality(Waiters) - 1
    BY <1>2, WaitersFit, FS_RemoveElement
  <2>2. Cardinality(Waiters) # 0
    BY <1>2, WaitersFit, FS_EmptySet
  <2>3. nThreads \in 1..(NThreadsMod - 1)
    BY <2>2, WaitersFit DEF WaitersCounted
  <2>4. OneLess = nThreads - 1
    BY <2>3, ModLess, ModulusPositive DEF OneLess
  <2> QED BY <1>1, <1>2, <2>1, <2>4 DEF WaitersCounted, Others, Waiters
<1>3. CASE t \notin Waiters
  BY <1>1, <1>3, WaitersFit DEF WaitersCounted, Others, Waiters
<1> QED BY <1>2, <1>3

(* The same for a thread that goes into a wait. *)
LEMMA CountEntering ==
    ASSUME TypeOK, WaitersCounted, NEW t \in Threads, NEW wait \in Waiting,
           Goto(t, wait), nThreads' = (Others(t) + 1) % NThreadsMod
    PROVE  WaitersCounted'
<1>1. Waiters' = Waiters \cup {t}
  BY DEF Waiters, Goto, TypeOK
<1>2. CASE t \in Waiters
  <2>1. Cardinality(Waiters) # 0 /\ Waiters' = Waiters
    BY <1>1, <1>2, WaitersFit, FS_EmptySet
  <2>2. nThreads \in 1..(NThreadsMod - 1)
    BY <2>1, WaitersFit DEF WaitersCounted
  <2>3. OneLess = nThreads - 1
    BY <2>2, ModLess, ModulusPositive DEF OneLess
  <2>4. (nThreads - 1 + 1) % NThreadsMod = nThreads
    BY <2>2, ModMore, ModulusPositive
  <2> QED BY <1>2, <2>1, <2>3, <2>4 DEF WaitersCounted, Others, Waiters
<1>3. CASE t \notin Waiters
  <2>1. Cardinality(Waiters \cup {t}) = Cardinality(Waiters) + 1
    BY <1>3, WaitersFit, FS_AddElement
  <2>2. nThreads \in 0..(NThreadsMod - 2)
    BY <1>3, WaitersFit, ModulusPositive DEF WaitersCounted, Waiters
  <2>3. (nThreads + 1) % NThreadsMod = nThreads + 1
    BY <2>2, ModMore, ModulusPositive
  <2> QED BY <1>1, <1>3, <2>1, <2>3 DEF WaitersCounted, Others, Waiters
<1> QED BY <1>2, <1>3

(* n_threads counts the waiters after every step. *)
LEMMA StepWaiters ==
    ASSUME QueueInv, [Next]_vars
    PROVE  WaitersCounted'
<1> USE DEF QueueInv, entry, store, waits, mutex, call
<1>0. ASSUME UNCHANGED vars PROVE WaitersCounted'
  BY <1>0 DEF vars, Waiters, WaitersCounted
<1>1. ASSUME NEW t \in Threads, Call_send(t) PROVE WaitersCounted'
  <2>1. Waiters' = Waiters
    BY <1>1 DEF Call_send, Call, Goto, Waiters, TypeOK, Waiting
  <2> QED BY <1>1, <2>1 DEF Call_send, Call, WaitersCounted
<1>2. ASSUME NEW t \in Threads, Call_get(t) PROVE WaitersCounted'
  <2>1. Waiters' = Waiters
    BY <1>2 DEF Call_get, Call, Goto, Waiters, TypeOK, Waiting
  <2> QED BY <1>2, <2>1 DEF Call_get, Call, WaitersCounted
<1>3. ASSUME NEW t \in Threads, Call_peek(t) PROVE WaitersCounted'
  <2>1. Waiters' = Waiters
    BY <1>3 DEF Call_peek, Call, Goto, Waiters, TypeOK, Waiting
  <2> QED BY <1>3, <2>1 DEF Call_peek, Call, WaitersCounted
<1>4. ASSUME NEW t \in Threads, Call_destroy(t) PROVE WaitersCounted'
  <2>1. Waiters' = Waiters
    BY <1>4 DEF Call_destroy, Call, Goto, Waiters, TypeOK, Waiting
  <2> QED BY <1>4, <2>1 DEF Call_destroy, Call, WaitersCounted
<1>5. ASSUME NEW t \in Threads, Create(t) PROVE WaitersCounted'
  <2>1. Waiters' = Waiters
    BY <1>5 DEF Create, Goto, Waiters, TypeOK, Waiting
  <2> QED BY <1>5, <2>1 DEF Create, WaitersCounted
<1>6. ASSUME NEW t \in Threads, Check_deleted(t) PROVE WaitersCounted'
  <2>1. Waiters' = Waiters
    BY <1>6 DEF Check_deleted, Goto, Waiters, TypeOK, Waiting
  <2> QED BY <1>6, <2>1 DEF Check_deleted, WaitersCounted
<1>7. ASSUME NEW t \in Threads, Wait_interrupted(t) PROVE WaitersCounted'
  <2>1. \E place \in Places \ Waiting : Goto(t, place)
    BY <1>7, PlacesAre DEF Wait_interrupted, Waiting
  <2> QED BY <1>7, <2>1, CountLeaving DEF Wait_interrupted, Leave_wait
<1>8. ASSUME NEW t \in Threads, Wait_deleted(t) PROVE WaitersCounted'
  <2>1. \E place \in Places \ Waiting : Goto(t, place)
    BY <1>8, PlacesAre DEF Wait_deleted, Waiting, LastOut
  <2> QED BY <1>8, <2>1, CountLeaving DEF Wait_deleted, Leave_wait, LastOut
<1>9. ASSUME NEW t \in Threads, Init_message_queue(t) PROVE WaitersCounted'
  <2>1. Waiters = {}
    BY <1>9 DEF Init_message_queue, EntryConsistent, FreedOnce
  <2>2. Waiters' = {}
    BY <1>9, <2>1 DEF Init_message_queue, Goto, Waiters, TypeOK, Waiting
  <2> QED BY <1>9, <2>2, FS_EmptySet DEF Init_message_queue, WaitersCounted
<1>10. ASSUME NEW t \in Threads, Send_wait(t) PROVE WaitersCounted'
  BY <1>10, CountEntering DEF Send_wait, Wait_on_queue, Waiting
<1>11. ASSUME NEW t \in Threads, Send(t) PROVE WaitersCounted'
  <2>1. \E place \in Places \ Waiting : Goto(t, place)
    BY <1>11, PlacesAre DEF Send, Waiting, Room
  <2> QED BY <1>11, <2>1, CountLeaving DEF Send, Leave_wait, Room
<1>12. ASSUME NEW t \in Threads, Try_wait(t) PROVE WaitersCounted'
  BY <1>12, CountEntering DEF Try_wait, Wait_on_queue, Waiting
<1>13. ASSUME NEW t \in Threads, Try(t) PROVE WaitersCounted'
  <2>1. \E place \in Places \ Waiting : Goto(t, place)
    BY <1>13, PlacesAre DEF Try, Waiting, Keep_mutex
  <2> QED BY <1>13, <2>1, CountLeaving DEF Try, Leave_wait, Keep_mutex
<1>14. ASSUME NEW t \in Threads, Peek(t) PROVE WaitersCounted'
  <2>1. Waiters' = Waiters
    BY <1>14 DEF Peek, Goto, Waiters, TypeOK, Waiting
  <2> QED BY <1>14, <2>1 DEF Peek, WaitersCounted
<1>15. ASSUME NEW t \in Threads, Destroy(t) PROVE WaitersCounted'
  <2>1. Waiters' = Waiters
    BY <1>15 DEF Destroy, Goto, Waiters, TypeOK, Waiting, Unused
  <2> QED BY <1>15, <2>1 DEF Destroy, WaitersCounted, Unused
<1>16. ASSUME NEW t \in Threads, Send_broadcast(t) PROVE WaitersCounted'
  <2>1. Waiters' = Waiters
    BY <1>16 DEF Send_broadcast, Broadcast, Goto, Waiters, TypeOK, Waiting
  <2> QED BY <1>16, <2>1 DEF Send_broadcast, Broadcast, WaitersCounted
<1>17. ASSUME NEW t \in Threads, Send_return(t) PROVE WaitersCounted'
  <2>1. Waiters' = Waiters
    BY <1>17 DEF Send_return, Goto, Waiters, TypeOK, Waiting
  <2> QED BY <1>17, <2>1 DEF Send_return, WaitersCounted
<1>18. ASSUME NEW t \in Threads, Unify(t) PROVE WaitersCounted'
  <2>1. Waiters' = Waiters
    BY <1>18 DEF Unify, Goto, Waiters, TypeOK, Waiting
  <2> QED BY <1>18, <2>1 DEF Unify, WaitersCounted
<1>19. ASSUME NEW t \in Threads, Unify_unread(t) PROVE WaitersCounted'
  <2>1. Waiters' = Waiters
    BY <1>19 DEF Unify_unread, Goto, Waiters, TypeOK, Waiting
  <2> QED BY <1>19, <2>1 DEF Unify_unread, WaitersCounted
<1>20. ASSUME NEW t \in Threads, Retry_wait(t) PROVE WaitersCounted'
  BY <1>20, CountEntering DEF Retry_wait, Wait_on_queue, Waiting
<1>21. ASSUME NEW t \in Threads, Retry(t) PROVE WaitersCounted'
  <2>1. Waiters' = Waiters
    BY <1>21 DEF Retry, Goto, Waiters, TypeOK, Waiting
  <2> QED BY <1>21, <2>1 DEF Retry, WaitersCounted
<1>22. ASSUME NEW t \in Threads, Accept(t) PROVE WaitersCounted'
  <2>1. Waiters' = Waiters
    BY <1>22 DEF Accept, Goto, Waiters, TypeOK, Waiting, Give_back_mutex, Unlinked, RoomMade
  <2> QED BY <1>22, <2>1 DEF Accept, WaitersCounted, Give_back_mutex, Unlinked, RoomMade
<1>23. ASSUME NEW t \in Threads, Accept_broadcast(t) PROVE WaitersCounted'
  <2>1. Waiters' = Waiters
    BY <1>23 DEF Accept_broadcast, Broadcast, Goto, Waiters, TypeOK, Waiting
  <2> QED BY <1>23, <2>1 DEF Accept_broadcast, Broadcast, WaitersCounted
<1>24. ASSUME NEW t \in Threads, Peek_unify(t) PROVE WaitersCounted'
  <2>1. Waiters' = Waiters
    BY <1>24 DEF Peek_unify, Goto, Waiters, TypeOK, Waiting
  <2> QED BY <1>24, <2>1 DEF Peek_unify, WaitersCounted
<1>25. ASSUME NEW t \in Threads, Repeek(t) PROVE WaitersCounted'
  <2>1. Waiters' = Waiters
    BY <1>25 DEF Repeek, Goto, Waiters, TypeOK, Waiting
  <2> QED BY <1>25, <2>1 DEF Repeek, WaitersCounted
<1>26. ASSUME NEW t \in Threads, Unlock_queue(t) PROVE WaitersCounted'
  <2>1. Waiters' = Waiters
    BY <1>26 DEF Unlock_queue, Goto, Waiters, TypeOK, Waiting
  <2> QED BY <1>26, <2>1 DEF Unlock_queue, WaitersCounted
<1>27. ASSUME NEW t \in Threads, Destroy_broadcast(t) PROVE WaitersCounted'
  <2>1. Waiters' = Waiters
    BY <1>27 DEF Destroy_broadcast, Broadcast, Goto, Waiters, TypeOK, Waiting
  <2> QED BY <1>27, <2>1 DEF Destroy_broadcast, Broadcast, WaitersCounted
<1>28. ASSUME NEW t \in Threads, Queue_dealloc(t) PROVE WaitersCounted'
  <2>1. Waiters' = Waiters
    BY <1>28 DEF Queue_dealloc, Goto, Waiters, TypeOK, Waiting
  <2> QED BY <1>28, <2>1 DEF Queue_dealloc, WaitersCounted
<1>29. ASSUME NEW t \in Threads, Handle_signal(t) PROVE WaitersCounted'
  <2>1. Waiters' = Waiters
    BY <1>29 DEF Handle_signal, Goto, Waiters, TypeOK, Waiting, InProlog
  <2> QED BY <1>29, <2>1 DEF Handle_signal, WaitersCounted
<1>30. ASSUME NEW t \in Threads, Thread_interrupt(t) PROVE WaitersCounted'
  BY <1>30 DEF Thread_interrupt, Waiters, WaitersCounted
<1>31. ASSUME NEW t \in Threads, Spurious_wakeup(t) PROVE WaitersCounted'
  BY <1>31 DEF Spurious_wakeup, Waiters, WaitersCounted
<1> QED
  BY <1>0, <1>1, <1>2, <1>3, <1>4, <1>5, <1>6, <1>7, <1>8, <1>9, <1>10,
     <1>11, <1>12, <1>13, <1>14, <1>15, <1>16, <1>17, <1>18, <1>19, <1>20,
     <1>21, <1>22, <1>23, <1>24, <1>25, <1>26, <1>27, <1>28, <1>29, <1>30,
     <1>31
     DEF Next, Calls, Locking, Moving

(* A thread whose id is good, and the owner of the mutex, see an entry     *)
(* that is in use and that nobody is about to free.                        *)
LEMMA InUse ==
    ASSUME QueueInv, NEW t \in Threads,
           \/ ~Gone(t) /\ pc[t] \in {"send", "try", "peek", "destroy"}
           \/ lock = t
    PROVE  slot = "listed" /\ ~deleted /\ \A u \in Threads : pc[u] # "dealloc"
<1>1. gen \in Int /\ handle[t] \in Int
  BY ConstantsOK DEF QueueInv, TypeOK
<1>2. ~deleted
  BY ConstantsOK DEF QueueInv, EntryConsistent, Gone
<1>3. slot = "listed"
  BY <1>1, <1>2, ConstantsOK DEF QueueInv, EntryConsistent, HandlesIssued
<1> QED BY <1>2, <1>3 DEF QueueInv, FreedOnce

(* An entry leaves the queue list once, when nobody uses it. *)
LEMMA StepFreed ==
    ASSUME QueueInv, [Next]_vars
    PROVE  FreedOnce'
<1> USE ConstantsOK DEF QueueInv, entry, store, waits, mutex, call
<1>0. ASSUME UNCHANGED vars PROVE FreedOnce'
  BY <1>0 DEF vars, FreedOnce, Waiters
<1>1. ASSUME NEW t \in Threads, Call_send(t) PROVE FreedOnce'
  <2>1. Waiters' = Waiters
    BY <1>1 DEF Call_send, Call, Goto, Waiters, TypeOK, Waiting
  <2> QED BY <1>1, <2>1 DEF Call_send, Call, Goto, FreedOnce, TypeOK
<1>2. ASSUME NEW t \in Threads, Call_get(t) PROVE FreedOnce'
  <2>1. Waiters' = Waiters
    BY <1>2 DEF Call_get, Call, Goto, Waiters, TypeOK, Waiting
  <2> QED BY <1>2, <2>1 DEF Call_get, Call, Goto, FreedOnce, TypeOK
<1>3. ASSUME NEW t \in Threads, Call_peek(t) PROVE FreedOnce'
  <2>1. Waiters' = Waiters
    BY <1>3 DEF Call_peek, Call, Goto, Waiters, TypeOK, Waiting
  <2> QED BY <1>3, <2>1 DEF Call_peek, Call, Goto, FreedOnce, TypeOK
<1>4. ASSUME NEW t \in Threads, Call_destroy(t) PROVE FreedOnce'
  <2>1. Waiters' = Waiters
    BY <1>4 DEF Call_destroy, Call, Goto, Waiters, TypeOK, Waiting
  <2> QED BY <1>4, <2>1 DEF Call_destroy, Call, Goto, FreedOnce, TypeOK
<1>5. ASSUME NEW t \in Threads, Create(t) PROVE FreedOnce'
  <2>1. Waiters' = Waiters
    BY <1>5 DEF Create, Goto, Waiters, TypeOK, Waiting
  <2> QED BY <1>5, <2>1 DEF Create, Goto, FreedOnce, TypeOK
<1>6. ASSUME NEW t \in Threads, Check_deleted(t) PROVE FreedOnce'
  <2>1. Waiters' = Waiters
    BY <1>6 DEF Check_deleted, Goto, Waiters, TypeOK, Waiting
  <2> QED BY <1>6, <2>1 DEF Check_deleted, Goto, FreedOnce, TypeOK
<1>7. ASSUME NEW t \in Threads, Wait_interrupted(t) PROVE FreedOnce'
  <2>1. slot = "listed" /\ \A u \in Threads : pc[u] # "dealloc"
    BY <1>7, InUse, NobodyWaits DEF Wait_interrupted, Leave_wait, Returns, Waiters, Waiting, FreedOnce, SearchHoldsMutex, EntryConsistent, Searching, Looking
  <2> QED BY <1>7, <2>1 DEF Wait_interrupted, Leave_wait, Returns, Goto, FreedOnce, TypeOK
<1>8. ASSUME NEW t \in Threads, Wait_deleted(t) PROVE FreedOnce'
  <2>1. slot = "listed" /\ \A u \in Threads : pc[u] # "dealloc"
    BY <1>8, NobodyWaits DEF Wait_deleted, Leave_wait, Returns, Waiters, FreedOnce, LastOut
  <2> QED BY <1>8, <2>1 DEF Wait_deleted, Leave_wait, Returns, Goto, FreedOnce, TypeOK, LastOut
<1>9. ASSUME NEW t \in Threads, Init_message_queue(t) PROVE FreedOnce'
  <2>1. \A u \in Threads : pc[u] # "dealloc"
    BY <1>9 DEF Init_message_queue, FreedOnce, EntryConsistent
  <2> QED BY <1>9, <2>1 DEF Init_message_queue, Goto, FreedOnce, TypeOK
<1>10. ASSUME NEW t \in Threads, Send_wait(t) PROVE FreedOnce'
  <2>1. slot = "listed" /\ \A u \in Threads : pc[u] # "dealloc"
    BY <1>10, InUse, NobodyWaits DEF Send_wait, Wait_on_queue, Tests, Returns, Waiters, Waiting, FreedOnce, SearchHoldsMutex, EntryConsistent, Searching, Looking
  <2> QED BY <1>10, <2>1 DEF Send_wait, Wait_on_queue, Tests, Returns, Goto, FreedOnce, TypeOK
<1>11. ASSUME NEW t \in Threads, Send(t) PROVE FreedOnce'
  <2>1. slot = "listed" /\ \A u \in Threads : pc[u] # "dealloc"
    BY <1>11, InUse, NobodyWaits DEF Send, Leave_wait, Tests, Returns, Waiters, Waiting, FreedOnce, SearchHoldsMutex, EntryConsistent, Searching, Looking, Room
  <2> QED BY <1>11, <2>1 DEF Send, Leave_wait, Tests, Returns, Goto, FreedOnce, TypeOK, Room
<1>12. ASSUME NEW t \in Threads, Try_wait(t) PROVE FreedOnce'
  <2>1. slot = "listed" /\ \A u \in Threads : pc[u] # "dealloc"
    BY <1>12, InUse, NobodyWaits DEF Try_wait, Wait_on_queue, Tests, Returns, Waiters, Waiting, FreedOnce, SearchHoldsMutex, EntryConsistent, Searching, Looking
  <2> QED BY <1>12, <2>1 DEF Try_wait, Wait_on_queue, Tests, Returns, Goto, FreedOnce, TypeOK
<1>13. ASSUME NEW t \in Threads, Try(t) PROVE FreedOnce'
  <2>1. slot = "listed" /\ \A u \in Threads : pc[u] # "dealloc"
    BY <1>13, InUse, NobodyWaits DEF Try, Leave_wait, Tests, Returns, Waiters, Waiting, FreedOnce, SearchHoldsMutex, EntryConsistent, Searching, Looking, Keep_mutex
  <2> QED BY <1>13, <2>1 DEF Try, Leave_wait, Tests, Returns, Goto, FreedOnce, TypeOK, Keep_mutex
<1>14. ASSUME NEW t \in Threads, Peek(t) PROVE FreedOnce'
  <2>1. Waiters' = Waiters /\ slot = "listed" /\ \A u \in Threads : pc[u] # "dealloc"
    BY <1>14, InUse DEF Peek, Goto, TypeOK, Waiters, Waiting
  <2> QED BY <1>14, <2>1 DEF Peek, Goto, FreedOnce, TypeOK
<1>15. ASSUME NEW t \in Threads, Destroy(t) PROVE FreedOnce'
  <2>1. Waiters' = Waiters /\ slot = "listed" /\ \A u \in Threads : pc[u] # "dealloc"
    BY <1>15, InUse DEF Destroy, Goto, TypeOK, Waiters, Waiting, Unused
  <2> QED BY <1>15, <2>1 DEF Destroy, Goto, FreedOnce, TypeOK, Unused
<1>16. ASSUME NEW t \in Threads, Send_broadcast(t) PROVE FreedOnce'
  <2>1. Waiters' = Waiters
    BY <1>16 DEF Send_broadcast, Broadcast, Goto, Waiters, TypeOK, Waiting
  <2> QED BY <1>16, <2>1 DEF Send_broadcast, Broadcast, Goto, FreedOnce, TypeOK
<1>17. ASSUME NEW t \in Threads, Send_return(t) PROVE FreedOnce'
  <2>1. Waiters' = Waiters
    BY <1>17 DEF Send_return, Goto, Waiters, TypeOK, Waiting
  <2> QED BY <1>17, <2>1 DEF Send_return, Goto, FreedOnce, TypeOK
<1>18. ASSUME NEW t \in Threads, Unify(t) PROVE FreedOnce'
  <2>1. Waiters' = Waiters
    BY <1>18 DEF Unify, Goto, Waiters, TypeOK, Waiting
  <2> QED BY <1>18, <2>1 DEF Unify, Goto, FreedOnce, TypeOK
<1>19. ASSUME NEW t \in Threads, Unify_unread(t) PROVE FreedOnce'
  <2>1. Waiters' = Waiters
    BY <1>19 DEF Unify_unread, Goto, Waiters, TypeOK, Waiting
  <2> QED BY <1>19, <2>1 DEF Unify_unread, Goto, FreedOnce, TypeOK
<1>20. ASSUME NEW t \in Threads, Retry_wait(t) PROVE FreedOnce'
  <2>1. slot = "listed" /\ \A u \in Threads : pc[u] # "dealloc"
    BY <1>20, InUse, NobodyWaits DEF Retry_wait, Wait_on_queue, Waiters, Waiting, FreedOnce, SearchHoldsMutex, EntryConsistent, Searching, Looking
  <2> QED BY <1>20, <2>1 DEF Retry_wait, Wait_on_queue, Goto, FreedOnce, TypeOK
<1>21. ASSUME NEW t \in Threads, Retry(t) PROVE FreedOnce'
  <2>1. Waiters' = Waiters
    BY <1>21 DEF Retry, Goto, Waiters, TypeOK, Waiting
  <2> QED BY <1>21, <2>1 DEF Retry, Goto, FreedOnce, TypeOK
<1>22. ASSUME NEW t \in Threads, Accept(t) PROVE FreedOnce'
  <2>1. Waiters' = Waiters
    BY <1>22 DEF Accept, Goto, Waiters, TypeOK, Waiting, Give_back_mutex, Unlinked, RoomMade
  <2> QED BY <1>22, <2>1 DEF Accept, Goto, FreedOnce, TypeOK, Give_back_mutex, Unlinked, RoomMade
<1>23. ASSUME NEW t \in Threads, Accept_broadcast(t) PROVE FreedOnce'
  <2>1. Waiters' = Waiters
    BY <1>23 DEF Accept_broadcast, Broadcast, Goto, Waiters, TypeOK, Waiting
  <2> QED BY <1>23, <2>1 DEF Accept_broadcast, Broadcast, Goto, FreedOnce, TypeOK
<1>24. ASSUME NEW t \in Threads, Peek_unify(t) PROVE FreedOnce'
  <2>1. Waiters' = Waiters
    BY <1>24 DEF Peek_unify, Goto, Waiters, TypeOK, Waiting
  <2> QED BY <1>24, <2>1 DEF Peek_unify, Goto, FreedOnce, TypeOK
<1>25. ASSUME NEW t \in Threads, Repeek(t) PROVE FreedOnce'
  <2>1. Waiters' = Waiters
    BY <1>25 DEF Repeek, Goto, Waiters, TypeOK, Waiting
  <2> QED BY <1>25, <2>1 DEF Repeek, Goto, FreedOnce, TypeOK
<1>26. ASSUME NEW t \in Threads, Unlock_queue(t) PROVE FreedOnce'
  <2>1. Waiters' = Waiters
    BY <1>26 DEF Unlock_queue, Goto, Waiters, TypeOK, Waiting
  <2> QED BY <1>26, <2>1 DEF Unlock_queue, Goto, FreedOnce, TypeOK
<1>27. ASSUME NEW t \in Threads, Destroy_broadcast(t) PROVE FreedOnce'
  <2>1. Waiters' = Waiters
    BY <1>27 DEF Destroy_broadcast, Broadcast, Goto, Waiters, TypeOK, Waiting
  <2> QED BY <1>27, <2>1 DEF Destroy_broadcast, Broadcast, Goto, FreedOnce, TypeOK
<1>28. ASSUME NEW t \in Threads, Queue_dealloc(t) PROVE FreedOnce'
  <2>1. Waiters = {} /\ lock = NoThread
    BY <1>28, NobodyWaits DEF Queue_dealloc, FreedOnce, EntryConsistent
  <2>2. Waiters' = {}
    BY <1>28, <2>1 DEF Queue_dealloc, Goto, TypeOK, Waiters, Waiting
  <2> QED BY <1>28, <2>1, <2>2 DEF Queue_dealloc, Goto, FreedOnce, TypeOK
<1>29. ASSUME NEW t \in Threads, Handle_signal(t) PROVE FreedOnce'
  <2>1. Waiters' = Waiters
    BY <1>29 DEF Handle_signal, Goto, Waiters, TypeOK, Waiting, InProlog
  <2> QED BY <1>29, <2>1 DEF Handle_signal, Goto, FreedOnce, TypeOK
<1>30. ASSUME NEW t \in Threads, Thread_interrupt(t) PROVE FreedOnce'
  BY <1>30 DEF Thread_interrupt, Broadcast, FreedOnce, Waiters
<1>31. ASSUME NEW t \in Threads, Spurious_wakeup(t) PROVE FreedOnce'
  BY <1>31 DEF Spurious_wakeup, FreedOnce, Waiters
<1> QED
  BY <1>0, <1>1, <1>2, <1>3, <1>4, <1>5, <1>6, <1>7, <1>8, <1>9, <1>10,
     <1>11, <1>12, <1>13, <1>14, <1>15, <1>16, <1>17, <1>18, <1>19, <1>20,
     <1>21, <1>22, <1>23, <1>24, <1>25, <1>26, <1>27, <1>28, <1>29, <1>30,
     <1>31
     DEF Next, Calls, Locking, Moving

(* Ids are given out before they are used, and the count only grows. *)
LEMMA StepHandles ==
    ASSUME QueueInv, [Next]_vars
    PROVE  HandlesIssued'
<1> USE ConstantsOK DEF QueueInv, TypeOK, entry, store, waits, mutex, call
<1>0. ASSUME UNCHANGED vars PROVE HandlesIssued'
  BY <1>0 DEF vars, HandlesIssued
<1>1. ASSUME NEW t \in Threads, Call_send(t) PROVE HandlesIssued'
  BY <1>1 DEF Call_send, Call, Goto, HandlesIssued
<1>2. ASSUME NEW t \in Threads, Call_get(t) PROVE HandlesIssued'
  BY <1>2 DEF Call_get, Call, Goto, HandlesIssued
<1>3. ASSUME NEW t \in Threads, Call_peek(t) PROVE HandlesIssued'
  BY <1>3 DEF Call_peek, Call, Goto, HandlesIssued
<1>4. ASSUME NEW t \in Threads, Call_destroy(t) PROVE HandlesIssued'
  BY <1>4 DEF Call_destroy, Call, Goto, HandlesIssued
<1>5. ASSUME NEW t \in Threads, Create(t) PROVE HandlesIssued'
  BY <1>5 DEF Create, Goto, HandlesIssued
<1>6. ASSUME NEW t \in Threads, Check_deleted(t) PROVE HandlesIssued'
  BY <1>6 DEF Check_deleted, Goto, HandlesIssued
<1>7. ASSUME NEW t \in Threads, Wait_interrupted(t) PROVE HandlesIssued'
  BY <1>7 DEF Wait_interrupted, Leave_wait, Returns, Goto, HandlesIssued
<1>8. ASSUME NEW t \in Threads, Wait_deleted(t) PROVE HandlesIssued'
  BY <1>8 DEF Wait_deleted, Leave_wait, Returns, Goto, HandlesIssued, LastOut
<1>9. ASSUME NEW t \in Threads, Init_message_queue(t) PROVE HandlesIssued'
  BY <1>9 DEF Init_message_queue, Goto, HandlesIssued
<1>10. ASSUME NEW t \in Threads, Send_wait(t) PROVE HandlesIssued'
  BY <1>10 DEF Send_wait, Wait_on_queue, Tests, Goto, HandlesIssued
<1>11. ASSUME NEW t \in Threads, Send(t) PROVE HandlesIssued'
  BY <1>11 DEF Send, Leave_wait, Tests, Returns, Goto, HandlesIssued, Room
<1>12. ASSUME NEW t \in Threads, Try_wait(t) PROVE HandlesIssued'
  BY <1>12 DEF Try_wait, Wait_on_queue, Tests, Goto, HandlesIssued
<1>13. ASSUME NEW t \in Threads, Try(t) PROVE HandlesIssued'
  BY <1>13 DEF Try, Leave_wait, Tests, Returns, Goto, HandlesIssued, Keep_mutex
<1>14. ASSUME NEW t \in Threads, Peek(t) PROVE HandlesIssued'
  BY <1>14 DEF Peek, Goto, HandlesIssued
<1>15. ASSUME NEW t \in Threads, Destroy(t) PROVE HandlesIssued'
  BY <1>15 DEF Destroy, Goto, HandlesIssued, Unused
<1>16. ASSUME NEW t \in Threads, Send_broadcast(t) PROVE HandlesIssued'
  BY <1>16 DEF Send_broadcast, Broadcast, Goto, HandlesIssued
<1>17. ASSUME NEW t \in Threads, Send_return(t) PROVE HandlesIssued'
  BY <1>17 DEF Send_return, Goto, HandlesIssued
<1>18. ASSUME NEW t \in Threads, Unify(t) PROVE HandlesIssued'
  BY <1>18 DEF Unify, Goto, HandlesIssued
<1>19. ASSUME NEW t \in Threads, Unify_unread(t) PROVE HandlesIssued'
  BY <1>19 DEF Unify_unread, Goto, HandlesIssued
<1>20. ASSUME NEW t \in Threads, Retry_wait(t) PROVE HandlesIssued'
  BY <1>20 DEF Retry_wait, Wait_on_queue, Goto, HandlesIssued
<1>21. ASSUME NEW t \in Threads, Retry(t) PROVE HandlesIssued'
  BY <1>21 DEF Retry, Goto, HandlesIssued
<1>22. ASSUME NEW t \in Threads, Accept(t) PROVE HandlesIssued'
  BY <1>22 DEF Accept, Goto, HandlesIssued, Give_back_mutex, Unlinked, RoomMade
<1>23. ASSUME NEW t \in Threads, Accept_broadcast(t) PROVE HandlesIssued'
  BY <1>23 DEF Accept_broadcast, Broadcast, Goto, HandlesIssued
<1>24. ASSUME NEW t \in Threads, Peek_unify(t) PROVE HandlesIssued'
  BY <1>24 DEF Peek_unify, Goto, HandlesIssued
<1>25. ASSUME NEW t \in Threads, Repeek(t) PROVE HandlesIssued'
  BY <1>25 DEF Repeek, Goto, HandlesIssued
<1>26. ASSUME NEW t \in Threads, Unlock_queue(t) PROVE HandlesIssued'
  BY <1>26 DEF Unlock_queue, Goto, HandlesIssued
<1>27. ASSUME NEW t \in Threads, Destroy_broadcast(t) PROVE HandlesIssued'
  BY <1>27 DEF Destroy_broadcast, Broadcast, Goto, HandlesIssued
<1>28. ASSUME NEW t \in Threads, Queue_dealloc(t) PROVE HandlesIssued'
  BY <1>28 DEF Queue_dealloc, Goto, HandlesIssued
<1>29. ASSUME NEW t \in Threads, Handle_signal(t) PROVE HandlesIssued'
  BY <1>29 DEF Handle_signal, Goto, HandlesIssued
<1>30. ASSUME NEW t \in Threads, Thread_interrupt(t) PROVE HandlesIssued'
  BY <1>30 DEF Thread_interrupt, Broadcast, Goto, HandlesIssued
<1>31. ASSUME NEW t \in Threads, Spurious_wakeup(t) PROVE HandlesIssued'
  BY <1>31 DEF Spurious_wakeup, Goto, HandlesIssued
<1> QED
  BY <1>0, <1>1, <1>2, <1>3, <1>4, <1>5, <1>6, <1>7, <1>8, <1>9, <1>10,
     <1>11, <1>12, <1>13, <1>14, <1>15, <1>16, <1>17, <1>18, <1>19, <1>20,
     <1>21, <1>22, <1>23, <1>24, <1>25, <1>26, <1>27, <1>28, <1>29, <1>30,
     <1>31
     DEF Next, Calls, Locking, Moving

(* The entry's place, its id and its mutex stay consistent. *)
LEMMA StepEntry ==
    ASSUME QueueInv, [Next]_vars
    PROVE  EntryConsistent'
<1> USE ConstantsOK DEF QueueInv, TypeOK, entry, store, waits, mutex, call
<1>0. ASSUME UNCHANGED vars PROVE EntryConsistent'
  BY <1>0 DEF vars, EntryConsistent
<1>1. ASSUME NEW t \in Threads, Call_send(t) PROVE EntryConsistent'
  BY <1>1 DEF Call_send, Call, Goto, EntryConsistent
<1>2. ASSUME NEW t \in Threads, Call_get(t) PROVE EntryConsistent'
  BY <1>2 DEF Call_get, Call, Goto, EntryConsistent
<1>3. ASSUME NEW t \in Threads, Call_peek(t) PROVE EntryConsistent'
  BY <1>3 DEF Call_peek, Call, Goto, EntryConsistent
<1>4. ASSUME NEW t \in Threads, Call_destroy(t) PROVE EntryConsistent'
  BY <1>4 DEF Call_destroy, Call, Goto, EntryConsistent
<1>5. ASSUME NEW t \in Threads, Create(t) PROVE EntryConsistent'
  BY <1>5 DEF Create, Goto, EntryConsistent, FreedOnce
<1>6. ASSUME NEW t \in Threads, Check_deleted(t) PROVE EntryConsistent'
  BY <1>6 DEF Check_deleted, Goto, EntryConsistent
<1>7. ASSUME NEW t \in Threads, Wait_interrupted(t) PROVE EntryConsistent'
  BY <1>7 DEF Wait_interrupted, Leave_wait, Returns, Goto, EntryConsistent
<1>8. ASSUME NEW t \in Threads, Wait_deleted(t) PROVE EntryConsistent'
  BY <1>8 DEF Wait_deleted, Leave_wait, Returns, Goto, EntryConsistent, LastOut
<1>9. ASSUME NEW t \in Threads, Init_message_queue(t) PROVE EntryConsistent'
  BY <1>9 DEF Init_message_queue, Goto, EntryConsistent
<1>10. ASSUME NEW t \in Threads, Send_wait(t) PROVE EntryConsistent'
  BY <1>10 DEF Send_wait, Wait_on_queue, Tests, Returns, Goto, EntryConsistent
<1>11. ASSUME NEW t \in Threads, Send(t) PROVE EntryConsistent'
  BY <1>11 DEF Send, Leave_wait, Tests, Returns, Goto, EntryConsistent, Room
<1>12. ASSUME NEW t \in Threads, Try_wait(t) PROVE EntryConsistent'
  BY <1>12 DEF Try_wait, Wait_on_queue, Tests, Returns, Goto, EntryConsistent
<1>13. ASSUME NEW t \in Threads, Try(t) PROVE EntryConsistent'
  <2>1. slot = "listed" /\ ~deleted
    BY <1>13, InUse DEF Try, Tests, Returns, FreedOnce, Waiters, Waiting, Keep_mutex
  <2> QED BY <1>13, <2>1 DEF Try, Leave_wait, Tests, Returns, Goto, EntryConsistent, Keep_mutex
<1>14. ASSUME NEW t \in Threads, Peek(t) PROVE EntryConsistent'
  BY <1>14, InUse DEF Peek, Goto, EntryConsistent
<1>15. ASSUME NEW t \in Threads, Destroy(t) PROVE EntryConsistent'
  BY <1>15, InUse DEF Destroy, Goto, EntryConsistent, Unused
<1>16. ASSUME NEW t \in Threads, Send_broadcast(t) PROVE EntryConsistent'
  BY <1>16 DEF Send_broadcast, Broadcast, Goto, EntryConsistent
<1>17. ASSUME NEW t \in Threads, Send_return(t) PROVE EntryConsistent'
  BY <1>17 DEF Send_return, Goto, EntryConsistent
<1>18. ASSUME NEW t \in Threads, Unify(t) PROVE EntryConsistent'
  BY <1>18 DEF Unify, Goto, EntryConsistent
<1>19. ASSUME NEW t \in Threads, Unify_unread(t) PROVE EntryConsistent'
  BY <1>19 DEF Unify_unread, Goto, EntryConsistent
<1>20. ASSUME NEW t \in Threads, Retry_wait(t) PROVE EntryConsistent'
  BY <1>20 DEF Retry_wait, Wait_on_queue, Goto, EntryConsistent
<1>21. ASSUME NEW t \in Threads, Retry(t) PROVE EntryConsistent'
  BY <1>21 DEF Retry, Goto, EntryConsistent
<1>22. ASSUME NEW t \in Threads, Accept(t) PROVE EntryConsistent'
  BY <1>22 DEF Accept, Goto, EntryConsistent, Give_back_mutex, Unlinked, RoomMade
<1>23. ASSUME NEW t \in Threads, Accept_broadcast(t) PROVE EntryConsistent'
  BY <1>23 DEF Accept_broadcast, Broadcast, Goto, EntryConsistent
<1>24. ASSUME NEW t \in Threads, Peek_unify(t) PROVE EntryConsistent'
  BY <1>24 DEF Peek_unify, Goto, EntryConsistent
<1>25. ASSUME NEW t \in Threads, Repeek(t) PROVE EntryConsistent'
  BY <1>25 DEF Repeek, Goto, EntryConsistent
<1>26. ASSUME NEW t \in Threads, Unlock_queue(t) PROVE EntryConsistent'
  BY <1>26 DEF Unlock_queue, Goto, EntryConsistent
<1>27. ASSUME NEW t \in Threads, Destroy_broadcast(t) PROVE EntryConsistent'
  BY <1>27 DEF Destroy_broadcast, Broadcast, Goto, EntryConsistent
<1>28. ASSUME NEW t \in Threads, Queue_dealloc(t) PROVE EntryConsistent'
  BY <1>28 DEF Queue_dealloc, Goto, EntryConsistent, FreedOnce
<1>29. ASSUME NEW t \in Threads, Handle_signal(t) PROVE EntryConsistent'
  BY <1>29 DEF Handle_signal, Goto, EntryConsistent
<1>30. ASSUME NEW t \in Threads, Thread_interrupt(t) PROVE EntryConsistent'
  BY <1>30 DEF Thread_interrupt, Broadcast, Goto, EntryConsistent
<1>31. ASSUME NEW t \in Threads, Spurious_wakeup(t) PROVE EntryConsistent'
  BY <1>31 DEF Spurious_wakeup, Goto, EntryConsistent
<1> QED
  BY <1>0, <1>1, <1>2, <1>3, <1>4, <1>5, <1>6, <1>7, <1>8, <1>9, <1>10,
     <1>11, <1>12, <1>13, <1>14, <1>15, <1>16, <1>17, <1>18, <1>19, <1>20,
     <1>21, <1>22, <1>23, <1>24, <1>25, <1>26, <1>27, <1>28, <1>29, <1>30,
     <1>31
     DEF Next, Calls, Locking, Moving

(* The invariant QueueInv is inductive. *)
LEMMA InitInv == Init => QueueInv
<1> SUFFICES ASSUME Init PROVE QueueInv
  OBVIOUS
<1>1. Waiters = {}
  BY DEF Init, Waiters, Waiting
<1>2. WaitersCounted
  BY <1>1, FS_EmptySet DEF Init, WaitersCounted
<1>3. SearchHoldsMutex /\ FreedOnce
  BY <1>1 DEF Init, SearchHoldsMutex, Searching, Looking, FreedOnce
<1>4. HandlesIssued /\ EntryConsistent
  BY DEF Init, HandlesIssued, EntryConsistent
<1> QED BY <1>2, <1>3, <1>4, InitType DEF QueueInv

(* QueueInv is inductive, so it holds in every reachable state. *)
THEOREM QueueInvariant == Spec => []QueueInv
<1>1. QueueInv /\ [Next]_vars => QueueInv'
  BY StepType, StepSearch, StepWaiters, StepFreed, StepHandles, StepEntry DEF QueueInv
<1> QED BY InitInv, <1>1, PTL DEF Spec

(* Every variable keeps its type: in particular n_threads stays in its     *)
(* 16 bits, and current_mq_cell never points outside the cells.            *)
THEOREM TypeCorrect == Spec => []TypeOK
<1>1. QueueInv => TypeOK
  BY DEF QueueInv
<1> QED BY <1>1, QueueInvariant, PTL

(* A reader or a peeker that looks at a cell has the mutex and the cell is *)
(* in the chain, whatever signals, destructions and wakeups happen.        *)
THEOREM SearchSafe == Spec => []SearchHoldsMutex
<1>1. QueueInv => SearchHoldsMutex
  BY DEF QueueInv
<1> QED BY <1>1, QueueInvariant, PTL

(* The field n_threads is the number of threads inside wait_on_queue, for  *)
(* any number of threads that fits its 16 bits.                            *)
THEOREM WaitersAreCounted == Spec => []WaitersCounted
<1>1. QueueInv => WaitersCounted
  BY DEF QueueInv
<1> QED BY <1>1, QueueInvariant, PTL

(* A destroyed queue is freed by one thread only, when nobody waits on it, *)
(* and an entry in the free list is not locked or waited on.               *)
THEOREM EntryFreedOnce == Spec => []FreedOnce
<1>1. QueueInv => FreedOnce
  BY DEF QueueInv
<1> QED BY <1>1, QueueInvariant, PTL

-----------------------------------------------------------------------------
(* While there are no more creations than incarnations, an id belongs to   *)
(* one creation.                                                           *)
LEMMA SmallMod ==
    ASSUME NEW m \in Nat \ {0}, NEW n \in 0..(m - 1)
    PROVE  n % m = n
OBVIOUS

(* Up to IncMod creations of an entry get different ids. *)
LEMMA IdsDiffer ==
    ASSUME MaxGen <= IncMod, NEW g \in 1..MaxGen, NEW h \in 1..MaxGen, Id(g) = Id(h)
    PROVE  g = h
<1>1. g - 1 \in 0..(IncMod - 1) /\ h - 1 \in 0..(IncMod - 1)
  BY ConstantsOK
<1>2. (g - 1) % IncMod = g - 1 /\ (h - 1) % IncMod = h - 1
  BY <1>1, SmallMod, ConstantsOK
<1> QED BY <1>1, <1>2 DEF Id

(* What makes RightQueue inductive: a sender that waits holds the present  *)
(* id of the entry, and the cells of a queue in use were sent to it.       *)
MyCells(g) == {c \in Cell : c.to = g}
Addressed ==
    slot = "listed" =>
        /\ chain \in Seq(MyCells(gen))
        /\ \A t \in Threads : pc[t] = "sendWait" => handle[t] = gen

(* A sender that passed check_deleted, then or before it waited, holds the *)
(* present id.                                                             *)
LEMMA SenderCurrent ==
    ASSUME MaxGen <= IncMod, QueueInv, Addressed, slot = "listed",
           NEW t \in Threads, Tests(t, "send", "sendWait")
    PROVE  handle[t] = gen
<1>1. CASE pc[t] = "send"
  <2>1. handle[t] \in 1..MaxGen /\ gen \in 1..MaxGen
    BY <1>1, ConstantsOK DEF QueueInv, TypeOK, HandlesIssued
  <2> QED BY <1>1, <2>1, IdsDiffer DEF Tests, Gone
<1>2. CASE pc[t] = "sendWait"
  BY <1>2 DEF Addressed
<1> QED BY <1>1, <1>2 DEF Tests

(* No step puts a term in a queue it was not sent to. *)
LEMMA StepAddressed ==
    ASSUME MaxGen <= IncMod, QueueInv, Addressed, [Next]_vars
    PROVE  Addressed'
<1> USE ConstantsOK DEF QueueInv, TypeOK, entry, store, waits, mutex, call
<1>0. ASSUME UNCHANGED vars PROVE Addressed'
  BY <1>0 DEF vars, Addressed
<1>1. ASSUME NEW t \in Threads, Call_send(t) PROVE Addressed'
  <2>1. \A u \in Threads : pc'[u] = "sendWait" => u # t /\ pc[u] = "sendWait" /\ handle'[u] = handle[u]
    BY <1>1 DEF Call_send, Call, Goto
  <2> QED BY <1>1, <2>1 DEF Call_send, Call, Addressed
<1>2. ASSUME NEW t \in Threads, Call_get(t) PROVE Addressed'
  <2>1. \A u \in Threads : pc'[u] = "sendWait" => u # t /\ pc[u] = "sendWait" /\ handle'[u] = handle[u]
    BY <1>2 DEF Call_get, Call, Goto
  <2> QED BY <1>2, <2>1 DEF Call_get, Call, Addressed
<1>3. ASSUME NEW t \in Threads, Call_peek(t) PROVE Addressed'
  <2>1. \A u \in Threads : pc'[u] = "sendWait" => u # t /\ pc[u] = "sendWait" /\ handle'[u] = handle[u]
    BY <1>3 DEF Call_peek, Call, Goto
  <2> QED BY <1>3, <2>1 DEF Call_peek, Call, Addressed
<1>4. ASSUME NEW t \in Threads, Call_destroy(t) PROVE Addressed'
  <2>1. \A u \in Threads : pc'[u] = "sendWait" => u # t /\ pc[u] = "sendWait" /\ handle'[u] = handle[u]
    BY <1>4 DEF Call_destroy, Call, Goto
  <2> QED BY <1>4, <2>1 DEF Call_destroy, Call, Addressed
<1>5. ASSUME NEW t \in Threads, Create(t) PROVE Addressed'
  BY <1>5 DEF Create, Goto, Addressed
<1>6. ASSUME NEW t \in Threads, Check_deleted(t) PROVE Addressed'
  BY <1>6 DEF Check_deleted, Goto, Addressed
<1>7. ASSUME NEW t \in Threads, Wait_interrupted(t) PROVE Addressed'
  BY <1>7 DEF Wait_interrupted, Leave_wait, Returns, Goto, Addressed
<1>8. ASSUME NEW t \in Threads, Wait_deleted(t) PROVE Addressed'
  BY <1>8 DEF Wait_deleted, Leave_wait, Returns, Goto, Addressed, LastOut
<1>9. ASSUME NEW t \in Threads, Init_message_queue(t) PROVE Addressed'
  <2>1. chain' \in Seq(MyCells(gen'))
    BY <1>9, EmptySeq DEF Init_message_queue
  <2>2. Waiters = {}
    BY <1>9 DEF Init_message_queue, EntryConsistent, FreedOnce
  <2> QED BY <1>9, <2>1, <2>2 DEF Init_message_queue, Goto, Addressed, Waiters, Waiting
<1>10. ASSUME NEW t \in Threads, Send_wait(t) PROVE Addressed'
  <2>1. slot = "listed" => handle[t] = gen
    BY <1>10, SenderCurrent DEF Send_wait
  <2> QED BY <1>10, <2>1 DEF Send_wait, Wait_on_queue, Goto, Addressed
<1>11. ASSUME NEW t \in Threads, Send(t) PROVE Addressed'
  <2>1. SUFFICES ASSUME slot = "listed" PROVE Addressed'
    BY <1>11 DEF Send, Addressed, Room
  <2>2. handle[t] = gen
    BY <1>11, <2>1, SenderCurrent DEF Send, Room
  <2>3. PICK a \in Cells, tm \in Terms :
          chain' = Append(chain, [addr |-> a, term |-> tm, to |-> handle[t]])
    BY <1>11 DEF Send, Room
  <2>4. [addr |-> a, term |-> tm, to |-> handle[t]] \in MyCells(gen)
    BY <2>1, <2>2 DEF MyCells, Cell, EntryConsistent
  <2>5. chain' \in Seq(MyCells(gen))
    BY <2>1, <2>3, <2>4, AppendProperties DEF Addressed
  <2> QED BY <1>11, <2>5 DEF Send, Goto, Addressed, Room
<1>12. ASSUME NEW t \in Threads, Try_wait(t) PROVE Addressed'
  BY <1>12 DEF Try_wait, Wait_on_queue, Goto, Addressed
<1>13. ASSUME NEW t \in Threads, Try(t) PROVE Addressed'
  BY <1>13 DEF Try, Leave_wait, Tests, Returns, Goto, Addressed, Keep_mutex
<1>14. ASSUME NEW t \in Threads, Peek(t) PROVE Addressed'
  BY <1>14 DEF Peek, Goto, Addressed
<1>15. ASSUME NEW t \in Threads, Destroy(t) PROVE Addressed'
  BY <1>15 DEF Destroy, Goto, Addressed, Unused
<1>16. ASSUME NEW t \in Threads, Send_broadcast(t) PROVE Addressed'
  BY <1>16 DEF Send_broadcast, Broadcast, Goto, Addressed
<1>17. ASSUME NEW t \in Threads, Send_return(t) PROVE Addressed'
  BY <1>17 DEF Send_return, Goto, Addressed
<1>18. ASSUME NEW t \in Threads, Unify(t) PROVE Addressed'
  BY <1>18 DEF Unify, Goto, Addressed
<1>19. ASSUME NEW t \in Threads, Unify_unread(t) PROVE Addressed'
  BY <1>19 DEF Unify_unread, Goto, Addressed
<1>20. ASSUME NEW t \in Threads, Retry_wait(t) PROVE Addressed'
  BY <1>20 DEF Retry_wait, Wait_on_queue, Goto, Addressed
<1>21. ASSUME NEW t \in Threads, Retry(t) PROVE Addressed'
  BY <1>21 DEF Retry, Goto, Addressed
<1>22. ASSUME NEW t \in Threads, Accept(t) PROVE Addressed'
  <2>1. CASE (lock = t \/ mutexOwner # t) /\ cur[t] \in Addrs
    <3>1. slot = "listed" => chain' \in Seq(MyCells(gen))
      BY <1>22, <2>1, PosInChain, RemoveAtType DEF Accept, Addressed, Give_back_mutex, Unlinked, RoomMade
    <3> QED BY <1>22, <2>1, <3>1 DEF Accept, Goto, Addressed, Give_back_mutex, Unlinked, RoomMade
  <2>2. CASE ~((lock = t \/ mutexOwner # t) /\ cur[t] \in Addrs)
    BY <1>22, <2>2 DEF Accept, Goto, Addressed, Give_back_mutex, Unlinked, RoomMade
  <2> QED BY <2>1, <2>2
<1>23. ASSUME NEW t \in Threads, Accept_broadcast(t) PROVE Addressed'
  BY <1>23 DEF Accept_broadcast, Broadcast, Goto, Addressed
<1>24. ASSUME NEW t \in Threads, Peek_unify(t) PROVE Addressed'
  BY <1>24 DEF Peek_unify, Goto, Addressed
<1>25. ASSUME NEW t \in Threads, Repeek(t) PROVE Addressed'
  BY <1>25 DEF Repeek, Goto, Addressed
<1>26. ASSUME NEW t \in Threads, Unlock_queue(t) PROVE Addressed'
  BY <1>26 DEF Unlock_queue, Goto, Addressed
<1>27. ASSUME NEW t \in Threads, Destroy_broadcast(t) PROVE Addressed'
  BY <1>27 DEF Destroy_broadcast, Broadcast, Goto, Addressed
<1>28. ASSUME NEW t \in Threads, Queue_dealloc(t) PROVE Addressed'
  BY <1>28 DEF Queue_dealloc, Goto, Addressed
<1>29. ASSUME NEW t \in Threads, Handle_signal(t) PROVE Addressed'
  BY <1>29 DEF Handle_signal, Goto, Addressed
<1>30. ASSUME NEW t \in Threads, Thread_interrupt(t) PROVE Addressed'
  BY <1>30 DEF Thread_interrupt, Broadcast, Goto, Addressed
<1>31. ASSUME NEW t \in Threads, Spurious_wakeup(t) PROVE Addressed'
  BY <1>31 DEF Spurious_wakeup, Goto, Addressed
<1> QED
  BY <1>0, <1>1, <1>2, <1>3, <1>4, <1>5, <1>6, <1>7, <1>8, <1>9, <1>10,
     <1>11, <1>12, <1>13, <1>14, <1>15, <1>16, <1>17, <1>18, <1>19, <1>20,
     <1>21, <1>22, <1>23, <1>24, <1>25, <1>26, <1>27, <1>28, <1>29, <1>30,
     <1>31
     DEF Next, Calls, Locking, Moving

(* A term is only in the queue it was sent to, as long as the entry has    *)
(* not been created so often that an id comes again.                       *)
THEOREM TermsInRightQueue ==
    ASSUME MaxGen <= IncMod
    PROVE  Spec => []RightQueue
<1>1. Init => Addressed
  BY DEF Init, Addressed
<1>2. QueueInv /\ Addressed /\ [Next]_vars => Addressed'
  BY StepAddressed
<1>3. QueueInv /\ Addressed => RightQueue
  <2> SUFFICES ASSUME QueueInv, Addressed, slot = "listed", NEW i \in DOMAIN chain
               PROVE  chain[i].to = gen
    BY DEF RightQueue
  <2>1. chain \in Seq(MyCells(gen))
    BY DEF Addressed
  <2>2. chain[i] \in MyCells(gen)
    BY <2>1, ElementOfSeq, LenProperties
  <2> QED BY <2>2 DEF MyCells
<1> QED BY <1>1, <1>2, <1>3, QueueInvariant, PTL DEF Spec

-----------------------------------------------------------------------------
(* Senders that wait *)

(* The loop around wait_on_queue keeps a bounded queue within its bound.   *)
SizeBounded == ~deleted /\ maxSize # 0 => size <= maxSize

(* With the bound, NoStrandedSender is inductive: a cell that leaves a     *)
(* full queue is one of max_size cells, so RoomMade is true of it.         *)
SendersInv == SizeBounded /\ NoStrandedSender

(* Every step keeps sleeping senders in front of a full queue. *)
LEMMA StepSenders ==
    ASSUME QueueInv, SendersInv, [Next]_vars
    PROVE  SendersInv'
<1> USE DEF QueueInv, TypeOK, SendersInv, SizeBounded, NoStrandedSender, Full, entry, store, waits, mutex, call
<1>0. ASSUME UNCHANGED vars PROVE SendersInv'
  BY <1>0 DEF vars
<1>1. ASSUME NEW t \in Threads, Call_send(t) PROVE SendersInv'
  BY <1>1 DEF Call_send, Call, Goto
<1>2. ASSUME NEW t \in Threads, Call_get(t) PROVE SendersInv'
  BY <1>2 DEF Call_get, Call, Goto
<1>3. ASSUME NEW t \in Threads, Call_peek(t) PROVE SendersInv'
  BY <1>3 DEF Call_peek, Call, Goto
<1>4. ASSUME NEW t \in Threads, Call_destroy(t) PROVE SendersInv'
  BY <1>4 DEF Call_destroy, Call, Goto
<1>5. ASSUME NEW t \in Threads, Create(t) PROVE SendersInv'
  BY <1>5 DEF Create, Goto
<1>6. ASSUME NEW t \in Threads, Check_deleted(t) PROVE SendersInv'
  BY <1>6 DEF Check_deleted, Goto
<1>7. ASSUME NEW t \in Threads, Wait_interrupted(t) PROVE SendersInv'
  <2>1. /\ \A u \in Threads : pc'[u] = "sendWait" => u # t /\ pc[u] = "sendWait"
        /\ \A u \in Threads : pc'[u] # "acceptCast" => pc[u] # "acceptCast"
    BY <1>7 DEF Wait_interrupted, Returns, Goto, Waiting
  <2> QED BY <1>7, <2>1 DEF Wait_interrupted, Leave_wait
<1>8. ASSUME NEW t \in Threads, Wait_deleted(t) PROVE SendersInv'
  BY <1>8 DEF Wait_deleted, Leave_wait, Returns, LastOut, Goto
<1>9. ASSUME NEW t \in Threads, Init_message_queue(t) PROVE SendersInv'
  <2>1. Waiters = {}
    BY <1>9 DEF Init_message_queue, EntryConsistent, FreedOnce
  <2> QED BY <1>9, <2>1, ConstantsOK DEF Init_message_queue, Goto, Waiters, Waiting
<1>10. ASSUME NEW t \in Threads, Send_wait(t) PROVE SendersInv'
  BY <1>10 DEF Send_wait, Wait_on_queue, Tests, Returns, Goto
<1>11. ASSUME NEW t \in Threads, Send(t) PROVE SendersInv'
  BY <1>11 DEF Send, Leave_wait, Tests, Returns, Room, Goto
<1>12. ASSUME NEW t \in Threads, Try_wait(t) PROVE SendersInv'
  BY <1>12 DEF Try_wait, Wait_on_queue, Tests, Returns, Goto
<1>13. ASSUME NEW t \in Threads, Try(t) PROVE SendersInv'
  BY <1>13 DEF Try, Leave_wait, Tests, Returns, Keep_mutex, Goto
<1>14. ASSUME NEW t \in Threads, Peek(t) PROVE SendersInv'
  BY <1>14 DEF Peek, Goto
<1>15. ASSUME NEW t \in Threads, Destroy(t) PROVE SendersInv'
  BY <1>15 DEF Destroy, Unused, Goto
<1>16. ASSUME NEW t \in Threads, Send_broadcast(t) PROVE SendersInv'
  BY <1>16 DEF Send_broadcast, Broadcast, Goto
<1>17. ASSUME NEW t \in Threads, Send_return(t) PROVE SendersInv'
  BY <1>17 DEF Send_return, Goto
<1>18. ASSUME NEW t \in Threads, Unify(t) PROVE SendersInv'
  BY <1>18 DEF Unify, Goto
<1>19. ASSUME NEW t \in Threads, Unify_unread(t) PROVE SendersInv'
  BY <1>19 DEF Unify_unread, Goto
<1>20. ASSUME NEW t \in Threads, Retry_wait(t) PROVE SendersInv'
  BY <1>20 DEF Retry_wait, Wait_on_queue, Goto
<1>21. ASSUME NEW t \in Threads, Retry(t) PROVE SendersInv'
  BY <1>21 DEF Retry, Goto
<1>22. ASSUME NEW t \in Threads, Accept(t) PROVE SendersInv'
  BY <1>22 DEF Accept, Give_back_mutex, Unlinked, RoomMade, Goto
<1>23. ASSUME NEW t \in Threads, Accept_broadcast(t) PROVE SendersInv'
  BY <1>23 DEF Accept_broadcast, Broadcast, Goto
<1>24. ASSUME NEW t \in Threads, Peek_unify(t) PROVE SendersInv'
  BY <1>24 DEF Peek_unify, Goto
<1>25. ASSUME NEW t \in Threads, Repeek(t) PROVE SendersInv'
  BY <1>25 DEF Repeek, Goto
<1>26. ASSUME NEW t \in Threads, Unlock_queue(t) PROVE SendersInv'
  BY <1>26 DEF Unlock_queue, Goto
<1>27. ASSUME NEW t \in Threads, Destroy_broadcast(t) PROVE SendersInv'
  BY <1>27 DEF Destroy_broadcast, Broadcast, Goto
<1>28. ASSUME NEW t \in Threads, Queue_dealloc(t) PROVE SendersInv'
  BY <1>28 DEF Queue_dealloc, Goto
<1>29. ASSUME NEW t \in Threads, Handle_signal(t) PROVE SendersInv'
  BY <1>29 DEF Handle_signal, Goto, InProlog
<1>30. ASSUME NEW t \in Threads, Thread_interrupt(t) PROVE SendersInv'
  BY <1>30 DEF Thread_interrupt, Broadcast
<1>31. ASSUME NEW t \in Threads, Spurious_wakeup(t) PROVE SendersInv'
  BY <1>31 DEF Spurious_wakeup
<1> QED
  BY <1>0, <1>1, <1>2, <1>3, <1>4, <1>5, <1>6, <1>7, <1>8, <1>9,
     <1>10, <1>11, <1>12, <1>13, <1>14, <1>15, <1>16, <1>17, <1>18,
     <1>19, <1>20, <1>21, <1>22, <1>23, <1>24, <1>25, <1>26, <1>27,
     <1>28, <1>29, <1>30, <1>31
     DEF Next, Calls, Locking, Moving

(* No lost wakeup for senders: one that sleeps in a queue in use, with no  *)
(* broadcast on its way, has a full queue in front of it, whatever signals *)
(* interrupt it and whoever destroys and creates the queue.                *)
THEOREM SendersNotStranded == Spec => []NoStrandedSender
<1>1. Init => SendersInv
  BY DEF Init, SendersInv, SizeBounded, NoStrandedSender
<1>2. QueueInv /\ SendersInv /\ [Next]_vars => SendersInv'
  BY StepSenders
<1>3. SendersInv => NoStrandedSender
  BY DEF SendersInv
<1> QED BY <1>1, <1>2, <1>3, QueueInvariant, PTL DEF Spec

-----------------------------------------------------------------------------
(* Readers that wait *)

(* What RemoveAt makes of a sequence. *)
LEMMA RemoveAtProperties ==
    ASSUME NEW S, NEW s \in Seq(S), NEW i \in 1..Len(s)
    PROVE  /\ RemoveAt(s, i) \in Seq(S)
           /\ Len(RemoveAt(s, i)) = Len(s) - 1
           /\ \A j \in 1..(Len(s) - 1) :
                 RemoveAt(s, i)[j] = IF j < i THEN s[j] ELSE s[j + 1]
<1>1. Len(s) \in Nat /\ \A j \in 1..Len(s) : s[j] \in S
  BY LenProperties, ElementOfSeq
<1> DEFINE before == SubSeq(s, 1, i - 1)
           after == SubSeq(s, i + 1, Len(s))
<1>2. /\ before \in Seq(S) /\ Len(before) = i - 1
      /\ \A j \in 1..(i - 1) : before[j] = s[j]
  <2>1. \A j \in 1..(i - 1) : s[j] \in S
    BY <1>1
  <2>2. /\ before \in Seq(S)
        /\ Len(before) = IF 1 <= i - 1 THEN i - 1 - 1 + 1 ELSE 0
        /\ \A j \in 1..(i - 1 - 1 + 1) : before[j] = s[1 + j - 1]
    BY <2>1, SubSeqProperties
  <2> QED BY <2>2
<1>3. /\ after \in Seq(S) /\ Len(after) = Len(s) - i
      /\ \A j \in 1..(Len(s) - i) : after[j] = s[i + j]
  <2>1. \A j \in (i + 1)..Len(s) : s[j] \in S
    BY <1>1
  <2>2. /\ after \in Seq(S)
        /\ Len(after) = IF i + 1 <= Len(s) THEN Len(s) - (i + 1) + 1 ELSE 0
        /\ \A j \in 1..(Len(s) - (i + 1) + 1) : after[j] = s[i + 1 + j - 1]
    BY <1>1, <2>1, SubSeqProperties
  <2> QED BY <1>1, <2>2
<1>4. RemoveAt(s, i) = before \o after
  BY DEF RemoveAt
<1> HIDE DEF before, after
<1>5. PICK r : r = before \o after
  OBVIOUS
<1>6. /\ r \in Seq(S) /\ Len(r) = Len(s) - 1
      /\ \A j \in 1..(Len(s) - 1) : r[j] = IF j <= i - 1 THEN before[j] ELSE after[j - (i - 1)]
  <2>1. /\ r \in Seq(S) /\ Len(r) = Len(before) + Len(after)
        /\ \A j \in 1..(Len(before) + Len(after)) :
              r[j] = IF j <= Len(before) THEN before[j] ELSE after[j - Len(before)]
    BY <1>2, <1>3, <1>5, ConcatProperties
  <2>2. Len(before) = i - 1 /\ Len(before) + Len(after) = Len(s) - 1
    BY <1>1, <1>2, <1>3
  <2> QED BY <2>1, <2>2
<1>7. ASSUME NEW j \in 1..(Len(s) - 1)
      PROVE  r[j] = IF j < i THEN s[j] ELSE s[j + 1]
  <2>1. CASE j <= i - 1
    BY <1>1, <1>2, <1>6, <2>1
  <2>2. CASE ~(j <= i - 1)
    <3>1. j - (i - 1) \in 1..(Len(s) - i) /\ i + (j - (i - 1)) = j + 1 /\ ~(j < i)
      BY <1>1, <2>2
    <3> QED BY <1>3, <1>6, <2>2, <3>1
  <2> QED BY <2>1, <2>2
<1> QED BY <1>4, <1>5, <1>6, <1>7

(* What the chain is after a step. *)
Sent(t) == \E a \in Cells \ Addrs, tm \in arg[t] :
              chain' = Append(chain, [addr |-> a, term |-> tm, to |-> handle[t]])
Removed(t) == cur[t] \in Addrs /\ chain' = RemoveAt(chain, Pos(cur[t]))

(* Only four operations touch the chain. *)
LEMMA ChainSteps ==
    ASSUME [Next]_vars
    PROVE  \/ UNCHANGED chain
           \/ chain' = <<>>
           \/ \E t \in Threads : Send(t) /\ Sent(t)
           \/ \E t \in Threads : Accept(t) /\ Removed(t)
<1> USE DEF store, Sent, Removed
<1> DEFINE Changed == \/ UNCHANGED chain
                      \/ chain' = <<>>
                      \/ \E t \in Threads : Send(t) /\ Sent(t)
                      \/ \E t \in Threads : Accept(t) /\ Removed(t)
<1>0. ASSUME UNCHANGED vars PROVE Changed
  BY <1>0 DEF vars
<1>1. ASSUME NEW t \in Threads, Calls(t) PROVE Changed
  BY <1>1 DEF Calls, Call_send, Call_get, Call_peek, Call_destroy, Call, Create
<1>2. ASSUME NEW t \in Threads, Locking(t) PROVE Changed
  <2>1. CASE Send(t)
    BY <2>1 DEF Send, Room
  <2>2. CASE ~Send(t)
    BY <1>2, <2>2 DEF Locking, Check_deleted, Wait_interrupted, Wait_deleted, Init_message_queue,
       Send_wait, Try_wait, Try, Peek, Destroy
  <2> QED BY <2>1, <2>2
<1>3. ASSUME NEW t \in Threads, Moving(t) PROVE Changed
  <2>1. CASE Accept(t)
    BY <2>1 DEF Accept, Unlinked
  <2>2. CASE ~Accept(t)
    BY <1>3, <2>2 DEF Moving, Send_broadcast, Send_return, Unify, Unify_unread, Retry_wait, Retry,
       Accept_broadcast, Peek_unify, Repeek, Unlock_queue, Destroy_broadcast, Queue_dealloc, Handle_signal
  <2> QED BY <2>1, <2>2
<1>4. ASSUME NEW t \in Threads, Thread_interrupt(t) \/ Spurious_wakeup(t) PROVE Changed
  BY <1>4 DEF Thread_interrupt, Spurious_wakeup
<1> QED BY <1>0, <1>1, <1>2, <1>3, <1>4 DEF Next

(* No address is in the chain twice: a sender takes a cell that is free. *)
DistinctCells ==
    \A i, j \in DOMAIN chain : chain[i].addr = chain[j].addr => i = j

(* Every step keeps the addresses of the cells different. *)
LEMMA StepDistinct ==
    ASSUME TypeOK, DistinctCells, [Next]_vars
    PROVE  DistinctCells'
<1>1. chain \in Seq(Cell) /\ DOMAIN chain = 1..Len(chain) /\ Len(chain) \in Nat
  BY LenProperties DEF TypeOK
<1>2. ASSUME UNCHANGED chain PROVE DistinctCells'
  BY <1>2 DEF DistinctCells
<1>3. ASSUME chain' = <<>> PROVE DistinctCells'
  BY <1>3 DEF DistinctCells
<1>4. ASSUME NEW t \in Threads, Send(t), Sent(t) PROVE DistinctCells'
  <2>1. PICK a \in Cells \ Addrs, tm \in arg[t] :
          chain' = Append(chain, [addr |-> a, term |-> tm, to |-> handle[t]])
    BY <1>4 DEF Sent
  <2>2. /\ DOMAIN chain' = 1..(Len(chain) + 1)
        /\ chain'[Len(chain) + 1].addr = a
        /\ \A i \in 1..Len(chain) : chain'[i] = chain[i] /\ chain[i].addr # a
    BY <1>1, <2>1 DEF Addrs
  <2> QED BY <1>1, <2>2 DEF DistinctCells
<1>5. ASSUME NEW t \in Threads, Accept(t), Removed(t) PROVE DistinctCells'
  <2> DEFINE k == Pos(cur[t])
  <2>1. k \in 1..Len(chain)
    BY <1>5, PosInChain DEF Removed
  <2>2. chain' = RemoveAt(chain, k)
    BY <1>5 DEF Removed
  <2> HIDE DEF k
  <2>3. /\ chain' \in Seq(Cell) /\ Len(chain') = Len(chain) - 1
        /\ \A j \in 1..(Len(chain) - 1) : chain'[j] = IF j < k THEN chain[j] ELSE chain[j + 1]
    BY <1>1, <2>1, <2>2, RemoveAtProperties
  <2>4. DOMAIN chain' = 1..(Len(chain) - 1)
    BY <2>3, LenProperties
  <2> SUFFICES ASSUME NEW i \in 1..(Len(chain) - 1), NEW j \in 1..(Len(chain) - 1),
                      chain'[i].addr = chain'[j].addr
               PROVE  i = j
    BY <2>4 DEF DistinctCells
  <2> DEFINE before(n) == IF n < k THEN n ELSE n + 1
  <2>5. /\ before(i) \in DOMAIN chain /\ chain'[i] = chain[before(i)]
        /\ before(j) \in DOMAIN chain /\ chain'[j] = chain[before(j)]
    BY <1>1, <2>1, <2>3
  <2>6. before(i) = before(j)
    BY <2>5 DEF DistinctCells
  <2> QED BY <1>1, <2>1, <2>6
<1> QED BY <1>2, <1>3, <1>4, <1>5, ChainSteps

(* A reader has asked every cell before the one it looks at, and that one  *)
(* too when it turns to the next.                                          *)
PassedCells ==
    \A t \in Threads : \A i, j \in DOMAIN chain :
        chain[j].addr = cur[t] /\ chain[i].term \in arg[t] =>
            /\ pc[t] = "unify" => i >= j
            /\ pc[t] = "retry" => i > j

(* While nobody searches, PassedCells says nothing. *)
LEMMA NobodySearches ==
    ASSUME QueueInv, lock = NoThread
    PROVE  \A t \in Threads : pc[t] \notin {"unify", "retry"}
BY ConstantsOK DEF QueueInv, SearchHoldsMutex, Searching, Looking

(* Every step keeps the cells that a searching reader has passed without a *)
(* term it takes.                                                          *)
LEMMA StepPassed ==
    ASSUME QueueInv, DistinctCells, PassedCells, [Next]_vars
    PROVE  PassedCells'
<1> USE DEF QueueInv, TypeOK, entry, store, waits, mutex, call
<1>a. chain \in Seq(Cell) /\ DOMAIN chain = 1..Len(chain) /\ Len(chain) \in Nat
  BY LenProperties
<1>b. \A t \in Threads : cur[t] \in Addrs =>
        Pos(cur[t]) \in DOMAIN chain /\ chain[Pos(cur[t])].addr = cur[t]
  BY PosInChain
<1>0. ASSUME UNCHANGED vars PROVE PassedCells'
  BY <1>0 DEF vars, PassedCells
<1>1. ASSUME NEW t \in Threads, Call_send(t) PROVE PassedCells'
  BY <1>1 DEF Call_send, Call, Goto, PassedCells
<1>2. ASSUME NEW t \in Threads, Call_get(t) PROVE PassedCells'
  BY <1>2 DEF Call_get, Call, Goto, PassedCells
<1>3. ASSUME NEW t \in Threads, Call_peek(t) PROVE PassedCells'
  BY <1>3 DEF Call_peek, Call, Goto, PassedCells
<1>4. ASSUME NEW t \in Threads, Call_destroy(t) PROVE PassedCells'
  BY <1>4 DEF Call_destroy, Call, Goto, PassedCells
<1>5. ASSUME NEW t \in Threads, Create(t) PROVE PassedCells'
  BY <1>5 DEF Create, Goto, PassedCells
<1>6. ASSUME NEW t \in Threads, Check_deleted(t) PROVE PassedCells'
  BY <1>6 DEF Check_deleted, Goto, PassedCells
<1>7. ASSUME NEW t \in Threads, Wait_interrupted(t) PROVE PassedCells'
  BY <1>7 DEF Wait_interrupted, Leave_wait, Returns, Goto, PassedCells
<1>8. ASSUME NEW t \in Threads, Wait_deleted(t) PROVE PassedCells'
  BY <1>8 DEF Wait_deleted, Leave_wait, Returns, LastOut, Goto, PassedCells
<1>9. ASSUME NEW t \in Threads, Init_message_queue(t) PROVE PassedCells'
  <2>1. \A u \in Threads : pc'[u] \notin {"unify", "retry"}
    BY <1>9, NobodySearches DEF Init_message_queue, Goto
  <2> QED BY <2>1 DEF PassedCells
<1>10. ASSUME NEW t \in Threads, Send_wait(t) PROVE PassedCells'
  BY <1>10 DEF Send_wait, Wait_on_queue, Tests, Returns, Goto, PassedCells
<1>11. ASSUME NEW t \in Threads, Send(t) PROVE PassedCells'
  <2>1. \A u \in Threads : pc'[u] \notin {"unify", "retry"}
    BY <1>11, NobodySearches DEF Send, Tests, Returns, Goto, Room
  <2> QED BY <2>1 DEF PassedCells
<1>12. ASSUME NEW t \in Threads, Try_wait(t) PROVE PassedCells'
  BY <1>12 DEF Try_wait, Wait_on_queue, Tests, Returns, Goto, PassedCells
<1>13. ASSUME NEW t \in Threads, Try(t) PROVE PassedCells'
  <2>1. \A u \in Threads \ {t} : pc'[u] \notin {"unify", "retry"}
    BY <1>13, NobodySearches DEF Try, Tests, Returns, Goto
  <2>2. UNCHANGED <<chain, arg>> /\ pc'[t] = "unify" /\ cur'[t] = chain[1].addr
    BY <1>13 DEF Try, Goto
  <2>3. chain # <<>>
    BY <1>13 DEF Try
  <2>4. 1 \in DOMAIN chain
    BY <1>a, <2>3, EmptySeq
  <2>5. \A j \in DOMAIN chain : chain[j].addr = cur'[t] => j = 1
    BY <2>2, <2>4 DEF DistinctCells
  <2>6. \A i \in DOMAIN chain : i >= 1
    BY <1>a
  <2> HIDE DEF TypeOK
  <2> QED BY <2>1, <2>2, <2>5, <2>6 DEF PassedCells
<1>14. ASSUME NEW t \in Threads, Peek(t) PROVE PassedCells'
  BY <1>14 DEF Peek, Goto, PassedCells
<1>15. ASSUME NEW t \in Threads, Destroy(t) PROVE PassedCells'
  BY <1>15 DEF Destroy, Unused, Goto, PassedCells
<1>16. ASSUME NEW t \in Threads, Send_broadcast(t) PROVE PassedCells'
  BY <1>16 DEF Send_broadcast, Broadcast, Goto, PassedCells
<1>17. ASSUME NEW t \in Threads, Send_return(t) PROVE PassedCells'
  BY <1>17 DEF Send_return, Goto, PassedCells
<1>18. ASSUME NEW t \in Threads, Unify(t) PROVE PassedCells'
  <2>1. cur[t] \in Addrs
    BY <1>18 DEF Unify, SearchHoldsMutex, Looking
  <2>2. Pos(cur[t]) \in DOMAIN chain /\ chain[Pos(cur[t])].addr = cur[t]
    BY <1>b, <2>1
  <2>3. /\ UNCHANGED <<chain, arg, cur>> /\ pc[t] = "unify"
        /\ pc'[t] = "retry" => chain[Pos(cur[t])].term \notin arg[t]
        /\ pc'[t] # "unify"
        /\ \A u \in Threads \ {t} : pc'[u] = pc[u]
    BY <1>18 DEF Unify, Goto
  <2> QED BY <1>a, <2>2, <2>3 DEF PassedCells, DistinctCells
<1>19. ASSUME NEW t \in Threads, Unify_unread(t) PROVE PassedCells'
  BY <1>19 DEF Unify_unread, Goto, PassedCells
<1>20. ASSUME NEW t \in Threads, Retry_wait(t) PROVE PassedCells'
  BY <1>20 DEF Retry_wait, Wait_on_queue, Goto, PassedCells
<1>21. ASSUME NEW t \in Threads, Retry(t) PROVE PassedCells'
  <2>1. cur[t] \in Addrs
    BY <1>21 DEF Retry, SearchHoldsMutex, Looking
  <2>2. Pos(cur[t]) \in DOMAIN chain /\ chain[Pos(cur[t])].addr = cur[t]
    BY <1>b, <2>1
  <2>3. Pos(cur[t]) # Len(chain)
    BY <1>21, <2>2 DEF Retry, LastAddr
  <2>4. Pos(cur[t]) + 1 \in DOMAIN chain
    BY <1>a, <2>2, <2>3
  <2>5. /\ UNCHANGED <<chain, arg>> /\ pc[t] = "retry" /\ pc'[t] = "unify"
        /\ cur'[t] = chain[Pos(cur[t]) + 1].addr
        /\ \A u \in Threads \ {t} : pc'[u] = pc[u] /\ cur'[u] = cur[u]
    BY <1>21 DEF Retry, Goto
  <2> HIDE DEF TypeOK
  <2> QED BY <1>a, <2>2, <2>4, <2>5 DEF PassedCells, DistinctCells
<1>22. ASSUME NEW t \in Threads, Accept(t) PROVE PassedCells'
  <2>1. CASE lock = t \/ lock = NoThread
    <3>1. \A u \in Threads : pc'[u] \notin {"unify", "retry"}
      BY <1>22, <2>1, ConstantsOK DEF Accept, Goto, SearchHoldsMutex, Searching, Looking
    <3> QED BY <3>1 DEF PassedCells
  <2>2. CASE lock \notin {t, NoThread}
    BY <1>22, <2>2 DEF Accept, Goto, Unlinked, RoomMade, PassedCells
  <2> QED BY <2>1, <2>2
<1>23. ASSUME NEW t \in Threads, Accept_broadcast(t) PROVE PassedCells'
  BY <1>23 DEF Accept_broadcast, Broadcast, Goto, PassedCells
<1>24. ASSUME NEW t \in Threads, Peek_unify(t) PROVE PassedCells'
  BY <1>24 DEF Peek_unify, Goto, PassedCells
<1>25. ASSUME NEW t \in Threads, Repeek(t) PROVE PassedCells'
  BY <1>25 DEF Repeek, Goto, PassedCells
<1>26. ASSUME NEW t \in Threads, Unlock_queue(t) PROVE PassedCells'
  BY <1>26 DEF Unlock_queue, Goto, PassedCells
<1>27. ASSUME NEW t \in Threads, Destroy_broadcast(t) PROVE PassedCells'
  BY <1>27 DEF Destroy_broadcast, Broadcast, Goto, PassedCells
<1>28. ASSUME NEW t \in Threads, Queue_dealloc(t) PROVE PassedCells'
  BY <1>28 DEF Queue_dealloc, Goto, PassedCells
<1>29. ASSUME NEW t \in Threads, Handle_signal(t) PROVE PassedCells'
  BY <1>29 DEF Handle_signal, InProlog, Goto, PassedCells
<1>30. ASSUME NEW t \in Threads, Thread_interrupt(t) PROVE PassedCells'
  BY <1>30 DEF Thread_interrupt, Broadcast, PassedCells
<1>31. ASSUME NEW t \in Threads, Spurious_wakeup(t) PROVE PassedCells'
  BY <1>31 DEF Spurious_wakeup, PassedCells
<1> QED
  BY <1>0, <1>1, <1>2, <1>3, <1>4, <1>5, <1>6, <1>7, <1>8, <1>9,
     <1>10, <1>11, <1>12, <1>13, <1>14, <1>15, <1>16, <1>17, <1>18,
     <1>19, <1>20, <1>21, <1>22, <1>23, <1>24, <1>25, <1>26, <1>27,
     <1>28, <1>29, <1>30, <1>31
     DEF Next, Calls, Locking, Moving

(* Every step keeps sleeping readers in front of a queue without a term    *)
(* for them, or a broadcast to them on its way.                            *)
LEMMA StepReaders ==
    ASSUME QueueInv, DistinctCells, PassedCells, NoStrandedReader, [Next]_vars
    PROVE  NoStrandedReader'
<1> USE DEF QueueInv, TypeOK, entry, store, waits, mutex, call
<1>a. chain \in Seq(Cell) /\ DOMAIN chain = 1..Len(chain) /\ Len(chain) \in Nat
  BY LenProperties
<1>0. ASSUME UNCHANGED vars PROVE NoStrandedReader'
  BY <1>0 DEF vars, NoStrandedReader
<1>1. ASSUME NEW t \in Threads, Call_send(t) PROVE NoStrandedReader'
  BY <1>1 DEF Call_send, Call, Goto, NoStrandedReader
<1>2. ASSUME NEW t \in Threads, Call_get(t) PROVE NoStrandedReader'
  BY <1>2 DEF Call_get, Call, Goto, NoStrandedReader
<1>3. ASSUME NEW t \in Threads, Call_peek(t) PROVE NoStrandedReader'
  BY <1>3 DEF Call_peek, Call, Goto, NoStrandedReader
<1>4. ASSUME NEW t \in Threads, Call_destroy(t) PROVE NoStrandedReader'
  BY <1>4 DEF Call_destroy, Call, Goto, NoStrandedReader
<1>5. ASSUME NEW t \in Threads, Create(t) PROVE NoStrandedReader'
  BY <1>5 DEF Create, Goto, NoStrandedReader
<1>6. ASSUME NEW t \in Threads, Check_deleted(t) PROVE NoStrandedReader'
  BY <1>6 DEF Check_deleted, Goto, NoStrandedReader
<1>7. ASSUME NEW t \in Threads, Wait_interrupted(t) PROVE NoStrandedReader'
  <2>1. /\ \A u \in Threads : pc'[u] = "getWait" => u # t /\ pc[u] = "getWait"
        /\ \A u \in Threads : pc'[u] # "sendCast" => pc[u] # "sendCast"
    BY <1>7 DEF Wait_interrupted, Returns, Goto, Waiting
  <2> QED BY <1>7, <2>1 DEF Wait_interrupted, Leave_wait, NoStrandedReader
<1>8. ASSUME NEW t \in Threads, Wait_deleted(t) PROVE NoStrandedReader'
  BY <1>8 DEF Wait_deleted, Leave_wait, Returns, LastOut, Goto, NoStrandedReader
<1>9. ASSUME NEW t \in Threads, Init_message_queue(t) PROVE NoStrandedReader'
  <2>1. DOMAIN chain' = {}
    BY <1>9 DEF Init_message_queue
  <2> QED BY <2>1 DEF NoStrandedReader
<1>10. ASSUME NEW t \in Threads, Send_wait(t) PROVE NoStrandedReader'
  BY <1>10 DEF Send_wait, Wait_on_queue, Tests, Returns, Goto, NoStrandedReader
<1>11. ASSUME NEW t \in Threads, Send(t) PROVE NoStrandedReader'
  <2>1. pc'[t] = "sendCast"
    BY <1>11 DEF Send, Goto
  <2> QED BY <2>1 DEF NoStrandedReader
<1>12. ASSUME NEW t \in Threads, Try_wait(t) PROVE NoStrandedReader'
  <2>1. /\ DOMAIN chain = {} /\ UNCHANGED chain
    BY <1>12 DEF Try_wait
  <2> QED BY <2>1 DEF NoStrandedReader
<1>13. ASSUME NEW t \in Threads, Try(t) PROVE NoStrandedReader'
  BY <1>13 DEF Try, Leave_wait, Tests, Returns, Keep_mutex, Goto, NoStrandedReader
<1>14. ASSUME NEW t \in Threads, Peek(t) PROVE NoStrandedReader'
  BY <1>14 DEF Peek, Goto, NoStrandedReader
<1>15. ASSUME NEW t \in Threads, Destroy(t) PROVE NoStrandedReader'
  BY <1>15 DEF Destroy, Unused, Goto, NoStrandedReader
<1>16. ASSUME NEW t \in Threads, Send_broadcast(t) PROVE NoStrandedReader'
  BY <1>16 DEF Send_broadcast, Broadcast, Goto, NoStrandedReader
<1>17. ASSUME NEW t \in Threads, Send_return(t) PROVE NoStrandedReader'
  BY <1>17 DEF Send_return, Goto, NoStrandedReader
<1>18. ASSUME NEW t \in Threads, Unify(t) PROVE NoStrandedReader'
  BY <1>18 DEF Unify, Goto, NoStrandedReader
<1>19. ASSUME NEW t \in Threads, Unify_unread(t) PROVE NoStrandedReader'
  BY <1>19 DEF Unify_unread, Goto, NoStrandedReader
<1>20. ASSUME NEW t \in Threads, Retry_wait(t) PROVE NoStrandedReader'
  <2>1. cur[t] \in Addrs
    BY <1>20 DEF Retry_wait, SearchHoldsMutex, Looking
  <2>2. Pos(cur[t]) \in DOMAIN chain /\ chain[Pos(cur[t])].addr = cur[t]
    BY <2>1, PosInChain
  <2>3. Len(chain) \in DOMAIN chain /\ chain[Len(chain)].addr = cur[t]
    BY <1>20, <1>a, <2>2 DEF Retry_wait, LastAddr
  <2>4. \A i \in DOMAIN chain : ~(i > Len(chain))
    BY <1>a
  <2>5. \A i \in DOMAIN chain : chain[i].term \notin arg[t]
    BY <1>20, <2>3, <2>4 DEF Retry_wait, PassedCells
  <2>6. /\ UNCHANGED <<chain, arg, deleted>> /\ woken' = woken \ {t}
        /\ pc[t] = "retry"
        /\ \A u \in Threads \ {t} : pc'[u] = pc[u]
    BY <1>20 DEF Retry_wait, Wait_on_queue, Goto
  <2> QED BY <2>5, <2>6 DEF NoStrandedReader
<1>21. ASSUME NEW t \in Threads, Retry(t) PROVE NoStrandedReader'
  BY <1>21 DEF Retry, Goto, NoStrandedReader
<1>22. ASSUME NEW t \in Threads, Accept(t) PROVE NoStrandedReader'
  <2>1. /\ UNCHANGED <<arg, deleted, woken>>
        /\ \A u \in Threads : pc'[u] = "getWait" => pc[u] = "getWait"
        /\ \A u \in Threads : pc[u] = "sendCast" => pc'[u] = "sendCast"
    BY <1>22 DEF Accept, Goto
  <2>2. CASE UNCHANGED chain
    BY <2>1, <2>2 DEF NoStrandedReader
  <2>3. CASE Removed(t)
    <3>1. Pos(cur[t]) \in 1..Len(chain) /\ chain' = RemoveAt(chain, Pos(cur[t]))
      BY <2>3, PosInChain DEF Removed
    <3>2. /\ chain' \in Seq(Cell) /\ Len(chain') = Len(chain) - 1
          /\ \A j \in 1..(Len(chain) - 1) : chain'[j] = chain[j] \/ chain'[j] = chain[j + 1]
      BY <1>a, <3>1, RemoveAtProperties
    <3>3. DOMAIN chain' = 1..(Len(chain) - 1)
      BY <3>2, LenProperties
    <3>4. \A j \in DOMAIN chain' : \E i \in DOMAIN chain : chain'[j] = chain[i]
      <4> TAKE j \in DOMAIN chain'
      <4>1. j \in DOMAIN chain /\ j + 1 \in DOMAIN chain
        BY <1>a, <3>3
      <4>2. chain'[j] = chain[j] \/ chain'[j] = chain[j + 1]
        BY <3>2, <3>3
      <4> QED BY <4>1, <4>2
    <3> QED BY <2>1, <3>4 DEF NoStrandedReader
  <2> QED BY <1>22, <2>2, <2>3 DEF Accept, Unlinked, Removed, store
<1>23. ASSUME NEW t \in Threads, Accept_broadcast(t) PROVE NoStrandedReader'
  BY <1>23 DEF Accept_broadcast, Broadcast, Goto, NoStrandedReader
<1>24. ASSUME NEW t \in Threads, Peek_unify(t) PROVE NoStrandedReader'
  BY <1>24 DEF Peek_unify, Goto, NoStrandedReader
<1>25. ASSUME NEW t \in Threads, Repeek(t) PROVE NoStrandedReader'
  BY <1>25 DEF Repeek, Goto, NoStrandedReader
<1>26. ASSUME NEW t \in Threads, Unlock_queue(t) PROVE NoStrandedReader'
  BY <1>26 DEF Unlock_queue, Goto, NoStrandedReader
<1>27. ASSUME NEW t \in Threads, Destroy_broadcast(t) PROVE NoStrandedReader'
  BY <1>27 DEF Destroy_broadcast, Broadcast, Goto, NoStrandedReader
<1>28. ASSUME NEW t \in Threads, Queue_dealloc(t) PROVE NoStrandedReader'
  <2>1. DOMAIN chain' = {}
    BY <1>28 DEF Queue_dealloc
  <2> QED BY <2>1 DEF NoStrandedReader
<1>29. ASSUME NEW t \in Threads, Handle_signal(t) PROVE NoStrandedReader'
  BY <1>29 DEF Handle_signal, InProlog, Goto, NoStrandedReader, NoStrandedReader
<1>30. ASSUME NEW t \in Threads, Thread_interrupt(t) PROVE NoStrandedReader'
  BY <1>30 DEF Thread_interrupt, Broadcast, NoStrandedReader
<1>31. ASSUME NEW t \in Threads, Spurious_wakeup(t) PROVE NoStrandedReader'
  BY <1>31 DEF Spurious_wakeup, NoStrandedReader
<1> QED
  BY <1>0, <1>1, <1>2, <1>3, <1>4, <1>5, <1>6, <1>7, <1>8, <1>9,
     <1>10, <1>11, <1>12, <1>13, <1>14, <1>15, <1>16, <1>17, <1>18,
     <1>19, <1>20, <1>21, <1>22, <1>23, <1>24, <1>25, <1>26, <1>27,
     <1>28, <1>29, <1>30, <1>31
     DEF Next, Calls, Locking, Moving

(* No lost wakeup for readers: one that sleeps, with no broadcast on its   *)
(* way, has passed every term of the queue, and none is for it: terms sent *)
(* after it began to search wake it, and a search it gave up for the wait  *)
(* left none behind.                                                       *)
THEOREM ReadersNotStranded == Spec => []NoStrandedReader
<1>1. Init => DistinctCells /\ PassedCells /\ NoStrandedReader
  BY DEF Init, DistinctCells, PassedCells, NoStrandedReader
<1>2. QueueInv /\ DistinctCells /\ PassedCells /\ NoStrandedReader /\ [Next]_vars
        => DistinctCells' /\ PassedCells' /\ NoStrandedReader'
  BY StepDistinct, StepPassed, StepReaders DEF QueueInv
<1> QED BY <1>1, <1>2, QueueInvariant, PTL DEF Spec

-----------------------------------------------------------------------------
(* The mailbox: what the queue is to its users when no signals are sent.   *)

(* Nothing interrupts a wait. *)
Unsignalled ==
    asynint = {} /\ \A t \in Threads : pc[t] \notin {"sendInt", "getInt"}

(* A reader on its way to THREAD_ACCEPT_MESSAGE keeps the mutex and the    *)
(* first cell of the chain whose term its goal unifies with.               *)
AcceptsFirst ==
    \A t \in Threads : pc[t] = "accept" =>
        /\ lock = t /\ cur[t] \in Addrs
        /\ \A i, j \in DOMAIN chain : chain[j].addr = cur[t] =>
              /\ chain[j].term \in arg[t]
              /\ chain[i].term \in arg[t] => i >= j

(* q->size is the number of cells of a queue in use. *)
SizeIsLength == slot = "listed" => size = Len(chain)

(* Without signals nothing interrupts. *)
LEMMA StepUnsignalled ==
    ASSUME Signalable = {}, QueueInv, Unsignalled, [Next]_vars
    PROVE  Unsignalled'
<1> USE DEF QueueInv, TypeOK, Unsignalled, entry, store, waits, mutex, call
<1>0. ASSUME UNCHANGED vars PROVE Unsignalled'
  BY <1>0 DEF vars
<1>1. ASSUME NEW t \in Threads, Call_send(t) PROVE Unsignalled'
  BY <1>1 DEF Call_send, Call, Goto
<1>2. ASSUME NEW t \in Threads, Call_get(t) PROVE Unsignalled'
  BY <1>2 DEF Call_get, Call, Goto
<1>3. ASSUME NEW t \in Threads, Call_peek(t) PROVE Unsignalled'
  BY <1>3 DEF Call_peek, Call, Goto
<1>4. ASSUME NEW t \in Threads, Call_destroy(t) PROVE Unsignalled'
  BY <1>4 DEF Call_destroy, Call, Goto
<1>5. ASSUME NEW t \in Threads, Create(t) PROVE Unsignalled'
  BY <1>5 DEF Create, Goto
<1>6. ASSUME NEW t \in Threads, Check_deleted(t) PROVE Unsignalled'
  BY <1>6 DEF Check_deleted, Goto
<1>7. ASSUME NEW t \in Threads, Wait_interrupted(t) PROVE Unsignalled'
  BY <1>7 DEF Wait_interrupted, Leave_wait, Returns, Goto
<1>8. ASSUME NEW t \in Threads, Wait_deleted(t) PROVE Unsignalled'
  BY <1>8 DEF Wait_deleted, Leave_wait, Returns, LastOut, Goto
<1>9. ASSUME NEW t \in Threads, Init_message_queue(t) PROVE Unsignalled'
  BY <1>9 DEF Init_message_queue, Goto
<1>10. ASSUME NEW t \in Threads, Send_wait(t) PROVE Unsignalled'
  BY <1>10 DEF Send_wait, Wait_on_queue, Tests, Returns, Goto
<1>11. ASSUME NEW t \in Threads, Send(t) PROVE Unsignalled'
  BY <1>11 DEF Send, Leave_wait, Tests, Returns, Room, Goto
<1>12. ASSUME NEW t \in Threads, Try_wait(t) PROVE Unsignalled'
  BY <1>12 DEF Try_wait, Wait_on_queue, Tests, Returns, Goto
<1>13. ASSUME NEW t \in Threads, Try(t) PROVE Unsignalled'
  BY <1>13 DEF Try, Leave_wait, Tests, Returns, Keep_mutex, Goto
<1>14. ASSUME NEW t \in Threads, Peek(t) PROVE Unsignalled'
  BY <1>14 DEF Peek, Goto
<1>15. ASSUME NEW t \in Threads, Destroy(t) PROVE Unsignalled'
  BY <1>15 DEF Destroy, Unused, Goto
<1>16. ASSUME NEW t \in Threads, Send_broadcast(t) PROVE Unsignalled'
  BY <1>16 DEF Send_broadcast, Broadcast, Goto
<1>17. ASSUME NEW t \in Threads, Send_return(t) PROVE Unsignalled'
  BY <1>17 DEF Send_return, Goto
<1>18. ASSUME NEW t \in Threads, Unify(t) PROVE Unsignalled'
  BY <1>18 DEF Unify, Goto
<1>19. ASSUME NEW t \in Threads, Unify_unread(t) PROVE Unsignalled'
  BY <1>19 DEF Unify_unread, Goto
<1>20. ASSUME NEW t \in Threads, Retry_wait(t) PROVE Unsignalled'
  BY <1>20 DEF Retry_wait, Wait_on_queue, Goto
<1>21. ASSUME NEW t \in Threads, Retry(t) PROVE Unsignalled'
  BY <1>21 DEF Retry, Goto
<1>22. ASSUME NEW t \in Threads, Accept(t) PROVE Unsignalled'
  BY <1>22 DEF Accept, Give_back_mutex, Unlinked, RoomMade, Goto
<1>23. ASSUME NEW t \in Threads, Accept_broadcast(t) PROVE Unsignalled'
  BY <1>23 DEF Accept_broadcast, Broadcast, Goto
<1>24. ASSUME NEW t \in Threads, Peek_unify(t) PROVE Unsignalled'
  BY <1>24 DEF Peek_unify, Goto
<1>25. ASSUME NEW t \in Threads, Repeek(t) PROVE Unsignalled'
  BY <1>25 DEF Repeek, Goto
<1>26. ASSUME NEW t \in Threads, Unlock_queue(t) PROVE Unsignalled'
  BY <1>26 DEF Unlock_queue, Goto
<1>27. ASSUME NEW t \in Threads, Destroy_broadcast(t) PROVE Unsignalled'
  BY <1>27 DEF Destroy_broadcast, Broadcast, Goto
<1>28. ASSUME NEW t \in Threads, Queue_dealloc(t) PROVE Unsignalled'
  BY <1>28 DEF Queue_dealloc, Goto
<1>29. ASSUME NEW t \in Threads, Handle_signal(t) PROVE Unsignalled'
  BY <1>29 DEF Handle_signal, InProlog, Goto
<1>30. ASSUME NEW t \in Threads, Thread_interrupt(t) PROVE Unsignalled'
  BY <1>30 DEF Thread_interrupt, Broadcast
<1>31. ASSUME NEW t \in Threads, Spurious_wakeup(t) PROVE Unsignalled'
  BY <1>31 DEF Spurious_wakeup
<1> QED
  BY <1>0, <1>1, <1>2, <1>3, <1>4, <1>5, <1>6, <1>7, <1>8, <1>9,
     <1>10, <1>11, <1>12, <1>13, <1>14, <1>15, <1>16, <1>17, <1>18,
     <1>19, <1>20, <1>21, <1>22, <1>23, <1>24, <1>25, <1>26, <1>27,
     <1>28, <1>29, <1>30, <1>31
     DEF Next, Calls, Locking, Moving

(* Every step keeps size equal to the length of the chain. *)
LEMMA StepSize ==
    ASSUME QueueInv, SizeIsLength, [Next]_vars
    PROVE  SizeIsLength'
<1> USE DEF QueueInv, TypeOK, SizeIsLength, entry, store, waits, mutex, call
<1>0. ASSUME UNCHANGED vars PROVE SizeIsLength'
  BY <1>0 DEF vars
<1>1. ASSUME NEW t \in Threads, Call_send(t) PROVE SizeIsLength'
  BY <1>1 DEF Call_send, Call, Goto
<1>2. ASSUME NEW t \in Threads, Call_get(t) PROVE SizeIsLength'
  BY <1>2 DEF Call_get, Call, Goto
<1>3. ASSUME NEW t \in Threads, Call_peek(t) PROVE SizeIsLength'
  BY <1>3 DEF Call_peek, Call, Goto
<1>4. ASSUME NEW t \in Threads, Call_destroy(t) PROVE SizeIsLength'
  BY <1>4 DEF Call_destroy, Call, Goto
<1>5. ASSUME NEW t \in Threads, Create(t) PROVE SizeIsLength'
  BY <1>5 DEF Create, Goto
<1>6. ASSUME NEW t \in Threads, Check_deleted(t) PROVE SizeIsLength'
  BY <1>6 DEF Check_deleted, Goto
<1>7. ASSUME NEW t \in Threads, Wait_interrupted(t) PROVE SizeIsLength'
  BY <1>7 DEF Wait_interrupted, Leave_wait, Returns, Goto
<1>8. ASSUME NEW t \in Threads, Wait_deleted(t) PROVE SizeIsLength'
  BY <1>8 DEF Wait_deleted, Leave_wait, Returns, LastOut, Goto
<1>9. ASSUME NEW t \in Threads, Init_message_queue(t) PROVE SizeIsLength'
  <2>1. chain' = <<>> /\ size' = 0
    BY <1>9 DEF Init_message_queue
  <2> QED BY <2>1, EmptySeq
<1>10. ASSUME NEW t \in Threads, Send_wait(t) PROVE SizeIsLength'
  BY <1>10 DEF Send_wait, Wait_on_queue, Tests, Returns, Goto
<1>11. ASSUME NEW t \in Threads, Send(t) PROVE SizeIsLength'
  <2>1. size' = size + 1 /\ UNCHANGED slot /\ Sent(t)
    BY <1>11 DEF Send, Sent, Room
  <2>2. Len(chain') = Len(chain) + 1
    BY <2>1 DEF Sent
  <2> QED BY <2>1, <2>2
<1>12. ASSUME NEW t \in Threads, Try_wait(t) PROVE SizeIsLength'
  BY <1>12 DEF Try_wait, Wait_on_queue, Tests, Returns, Goto
<1>13. ASSUME NEW t \in Threads, Try(t) PROVE SizeIsLength'
  BY <1>13 DEF Try, Leave_wait, Tests, Returns, Keep_mutex, Goto
<1>14. ASSUME NEW t \in Threads, Peek(t) PROVE SizeIsLength'
  BY <1>14 DEF Peek, Goto
<1>15. ASSUME NEW t \in Threads, Destroy(t) PROVE SizeIsLength'
  BY <1>15 DEF Destroy, Unused, Goto
<1>16. ASSUME NEW t \in Threads, Send_broadcast(t) PROVE SizeIsLength'
  BY <1>16 DEF Send_broadcast, Broadcast, Goto
<1>17. ASSUME NEW t \in Threads, Send_return(t) PROVE SizeIsLength'
  BY <1>17 DEF Send_return, Goto
<1>18. ASSUME NEW t \in Threads, Unify(t) PROVE SizeIsLength'
  BY <1>18 DEF Unify, Goto
<1>19. ASSUME NEW t \in Threads, Unify_unread(t) PROVE SizeIsLength'
  BY <1>19 DEF Unify_unread, Goto
<1>20. ASSUME NEW t \in Threads, Retry_wait(t) PROVE SizeIsLength'
  BY <1>20 DEF Retry_wait, Wait_on_queue, Goto
<1>21. ASSUME NEW t \in Threads, Retry(t) PROVE SizeIsLength'
  BY <1>21 DEF Retry, Goto
<1>22. ASSUME NEW t \in Threads, Accept(t) PROVE SizeIsLength'
  <2>1. CASE UNCHANGED <<chain, size, slot>>
    BY <2>1
  <2>2. CASE size' = size - 1 /\ UNCHANGED slot /\ Removed(t)
    <3>1. Pos(cur[t]) \in 1..Len(chain) /\ chain' = RemoveAt(chain, Pos(cur[t]))
      BY <2>2, PosInChain DEF Removed
    <3>2. Len(chain') = Len(chain) - 1
      BY <3>1, RemoveAtProperties
    <3> QED BY <2>2, <3>2
  <2> QED BY <1>22, <2>1, <2>2 DEF Accept, Unlinked, Removed
<1>23. ASSUME NEW t \in Threads, Accept_broadcast(t) PROVE SizeIsLength'
  BY <1>23 DEF Accept_broadcast, Broadcast, Goto
<1>24. ASSUME NEW t \in Threads, Peek_unify(t) PROVE SizeIsLength'
  BY <1>24 DEF Peek_unify, Goto
<1>25. ASSUME NEW t \in Threads, Repeek(t) PROVE SizeIsLength'
  BY <1>25 DEF Repeek, Goto
<1>26. ASSUME NEW t \in Threads, Unlock_queue(t) PROVE SizeIsLength'
  BY <1>26 DEF Unlock_queue, Goto
<1>27. ASSUME NEW t \in Threads, Destroy_broadcast(t) PROVE SizeIsLength'
  BY <1>27 DEF Destroy_broadcast, Broadcast, Goto
<1>28. ASSUME NEW t \in Threads, Queue_dealloc(t) PROVE SizeIsLength'
  BY <1>28 DEF Queue_dealloc, Goto
<1>29. ASSUME NEW t \in Threads, Handle_signal(t) PROVE SizeIsLength'
  BY <1>29 DEF Handle_signal, InProlog, Goto
<1>30. ASSUME NEW t \in Threads, Thread_interrupt(t) PROVE SizeIsLength'
  BY <1>30 DEF Thread_interrupt, Broadcast
<1>31. ASSUME NEW t \in Threads, Spurious_wakeup(t) PROVE SizeIsLength'
  BY <1>31 DEF Spurious_wakeup
<1> QED
  BY <1>0, <1>1, <1>2, <1>3, <1>4, <1>5, <1>6, <1>7, <1>8, <1>9,
     <1>10, <1>11, <1>12, <1>13, <1>14, <1>15, <1>16, <1>17, <1>18,
     <1>19, <1>20, <1>21, <1>22, <1>23, <1>24, <1>25, <1>26, <1>27,
     <1>28, <1>29, <1>30, <1>31
     DEF Next, Calls, Locking, Moving

(* Every step keeps the cell that a reader accepts the first it takes. *)
LEMMA StepAccepts ==
    ASSUME QueueInv, DistinctCells, PassedCells, Unsignalled, AcceptsFirst, [Next]_vars
    PROVE  AcceptsFirst'
<1> USE DEF QueueInv, TypeOK, entry, store, waits, mutex, call
<1>a. \A t \in Threads : cur[t] \in Addrs =>
        Pos(cur[t]) \in DOMAIN chain /\ chain[Pos(cur[t])].addr = cur[t]
  BY PosInChain
<1>b. NoThread \notin Threads
  BY ConstantsOK
<1>0. ASSUME UNCHANGED vars PROVE AcceptsFirst'
  BY <1>0 DEF vars, AcceptsFirst, Addrs
<1>1. ASSUME NEW t \in Threads, Call_send(t) PROVE AcceptsFirst'
  BY <1>1 DEF Call_send, Call, Goto, AcceptsFirst, Addrs
<1>2. ASSUME NEW t \in Threads, Call_get(t) PROVE AcceptsFirst'
  BY <1>2 DEF Call_get, Call, Goto, AcceptsFirst, Addrs
<1>3. ASSUME NEW t \in Threads, Call_peek(t) PROVE AcceptsFirst'
  BY <1>3 DEF Call_peek, Call, Goto, AcceptsFirst, Addrs
<1>4. ASSUME NEW t \in Threads, Call_destroy(t) PROVE AcceptsFirst'
  BY <1>4 DEF Call_destroy, Call, Goto, AcceptsFirst, Addrs
<1>5. ASSUME NEW t \in Threads, Create(t) PROVE AcceptsFirst'
  BY <1>5 DEF Create, Goto, AcceptsFirst, Addrs
<1>6. ASSUME NEW t \in Threads, Check_deleted(t) PROVE AcceptsFirst'
  BY <1>6 DEF Check_deleted, Goto, AcceptsFirst, Addrs
<1>7. ASSUME NEW t \in Threads, Wait_interrupted(t) PROVE AcceptsFirst'
  <2>1. UNCHANGED <<chain, cur, arg>> /\ lock = NoThread
    BY <1>7 DEF Wait_interrupted, Leave_wait, Returns
  <2>2. \A u \in Threads : pc[u] # "accept"
    BY <1>b, <2>1 DEF AcceptsFirst
  <2>3. \A u \in Threads : pc'[u] # "accept"
    BY <1>7, <2>2 DEF Wait_interrupted, Goto
  <2> QED BY <2>3 DEF AcceptsFirst
<1>8. ASSUME NEW t \in Threads, Wait_deleted(t) PROVE AcceptsFirst'
  <2>1. lock = NoThread
    BY <1>8 DEF Wait_deleted, Returns
  <2>2. \A u \in Threads : pc[u] # "accept"
    BY <1>b, <2>1 DEF AcceptsFirst
  <2>3. \A u \in Threads : pc'[u] # "accept"
    BY <1>8, <2>2 DEF Wait_deleted, Goto
  <2> QED BY <2>3 DEF AcceptsFirst
<1>9. ASSUME NEW t \in Threads, Init_message_queue(t) PROVE AcceptsFirst'
  <2>1. \A u \in Threads : pc'[u] # "accept"
    BY <1>9, <1>b DEF Init_message_queue, Goto, AcceptsFirst
  <2> QED BY <2>1 DEF AcceptsFirst
<1>10. ASSUME NEW t \in Threads, Send_wait(t) PROVE AcceptsFirst'
  BY <1>10 DEF Send_wait, Wait_on_queue, Tests, Returns, Goto, AcceptsFirst, Addrs
<1>11. ASSUME NEW t \in Threads, Send(t) PROVE AcceptsFirst'
  <2>1. \A u \in Threads : pc'[u] # "accept"
    BY <1>11, <1>b DEF Send, Tests, Returns, Goto, AcceptsFirst
  <2> QED BY <2>1 DEF AcceptsFirst
<1>12. ASSUME NEW t \in Threads, Try_wait(t) PROVE AcceptsFirst'
  BY <1>12 DEF Try_wait, Wait_on_queue, Tests, Returns, Goto, AcceptsFirst, Addrs
<1>13. ASSUME NEW t \in Threads, Try(t) PROVE AcceptsFirst'
  <2>1. \A u \in Threads : pc'[u] # "accept"
    BY <1>13, <1>b DEF Try, Tests, Returns, Goto, AcceptsFirst
  <2> QED BY <2>1 DEF AcceptsFirst
<1>14. ASSUME NEW t \in Threads, Peek(t) PROVE AcceptsFirst'
  <2>1. \A u \in Threads : pc'[u] # "accept"
    <3>1. lock = NoThread
      BY <1>14 DEF Peek
    <3>2. \A u \in Threads : pc[u] # "accept"
      BY <1>b, <3>1 DEF AcceptsFirst
    <3> QED BY <1>14, <3>2 DEF Peek, Goto
  <2> QED BY <2>1 DEF AcceptsFirst
<1>15. ASSUME NEW t \in Threads, Destroy(t) PROVE AcceptsFirst'
  BY <1>15 DEF Destroy, Unused, Goto, AcceptsFirst, Addrs
<1>16. ASSUME NEW t \in Threads, Send_broadcast(t) PROVE AcceptsFirst'
  BY <1>16 DEF Send_broadcast, Broadcast, Goto, AcceptsFirst, Addrs
<1>17. ASSUME NEW t \in Threads, Send_return(t) PROVE AcceptsFirst'
  BY <1>17 DEF Send_return, Goto, AcceptsFirst, Addrs
<1>18. ASSUME NEW t \in Threads, Unify(t) PROVE AcceptsFirst'
  <2>1. cur[t] \in Addrs /\ lock = t
    BY <1>18 DEF Unify, SearchHoldsMutex, Looking, Searching
  <2>2. Pos(cur[t]) \in DOMAIN chain /\ chain[Pos(cur[t])].addr = cur[t]
    BY <1>a, <2>1
  <2>3. /\ UNCHANGED <<chain, arg, cur, lock>> /\ pc[t] = "unify"
        /\ pc'[t] = "accept" => chain[Pos(cur[t])].term \in arg[t]
        /\ \A u \in Threads \ {t} : pc'[u] = pc[u]
    BY <1>18 DEF Unify, Goto
  <2>4. Addrs' = Addrs
    BY <2>3 DEF Addrs
  <2>5. pc'[t] = "accept" => \A i, j \in DOMAIN chain : chain[j].addr = cur[t] =>
              /\ chain[j].term \in arg[t]
              /\ chain[i].term \in arg[t] => i >= j
    BY <2>2, <2>3 DEF PassedCells, DistinctCells
  <2> QED BY <2>1, <2>3, <2>4, <2>5 DEF AcceptsFirst
<1>19. ASSUME NEW t \in Threads, Unify_unread(t) PROVE AcceptsFirst'
  BY <1>19 DEF Unify_unread, Unsignalled
<1>20. ASSUME NEW t \in Threads, Retry_wait(t) PROVE AcceptsFirst'
  <2>1. \A u \in Threads : pc'[u] # "accept"
    BY <1>20, <1>b DEF Retry_wait, Wait_on_queue, Goto, AcceptsFirst, SearchHoldsMutex, Searching, Looking
  <2> QED BY <2>1 DEF AcceptsFirst
<1>21. ASSUME NEW t \in Threads, Retry(t) PROVE AcceptsFirst'
  BY <1>21 DEF Retry, Goto, AcceptsFirst, Addrs
<1>22. ASSUME NEW t \in Threads, Accept(t) PROVE AcceptsFirst'
  <2>1. \A u \in Threads : pc'[u] # "accept"
    BY <1>22, <1>b DEF Accept, Goto, AcceptsFirst
  <2> QED BY <2>1 DEF AcceptsFirst
<1>23. ASSUME NEW t \in Threads, Accept_broadcast(t) PROVE AcceptsFirst'
  BY <1>23 DEF Accept_broadcast, Broadcast, Goto, AcceptsFirst, Addrs
<1>24. ASSUME NEW t \in Threads, Peek_unify(t) PROVE AcceptsFirst'
  BY <1>24 DEF Peek_unify, Goto, AcceptsFirst, Addrs
<1>25. ASSUME NEW t \in Threads, Repeek(t) PROVE AcceptsFirst'
  BY <1>25 DEF Repeek, Goto, AcceptsFirst, Addrs
<1>26. ASSUME NEW t \in Threads, Unlock_queue(t) PROVE AcceptsFirst'
  <2>1. \A u \in Threads : pc'[u] # "accept"
    BY <1>26, <1>b DEF Unlock_queue, Goto, AcceptsFirst, SearchHoldsMutex, Searching
  <2> QED BY <2>1 DEF AcceptsFirst
<1>27. ASSUME NEW t \in Threads, Destroy_broadcast(t) PROVE AcceptsFirst'
  BY <1>27 DEF Destroy_broadcast, Broadcast, Goto, AcceptsFirst, Addrs
<1>28. ASSUME NEW t \in Threads, Queue_dealloc(t) PROVE AcceptsFirst'
  <2>1. \A u \in Threads : pc'[u] # "accept"
    BY <1>28, <1>b DEF Queue_dealloc, Goto, AcceptsFirst, FreedOnce, EntryConsistent
  <2> QED BY <2>1 DEF AcceptsFirst
<1>29. ASSUME NEW t \in Threads, Handle_signal(t) PROVE AcceptsFirst'
  BY <1>29 DEF Handle_signal, InProlog, Goto, AcceptsFirst, Addrs, AcceptsFirst, Addrs
<1>30. ASSUME NEW t \in Threads, Thread_interrupt(t) PROVE AcceptsFirst'
  BY <1>30 DEF Thread_interrupt, Broadcast, AcceptsFirst, Addrs
<1>31. ASSUME NEW t \in Threads, Spurious_wakeup(t) PROVE AcceptsFirst'
  BY <1>31 DEF Spurious_wakeup, AcceptsFirst, Addrs
<1> QED
  BY <1>0, <1>1, <1>2, <1>3, <1>4, <1>5, <1>6, <1>7, <1>8, <1>9,
     <1>10, <1>11, <1>12, <1>13, <1>14, <1>15, <1>16, <1>17, <1>18,
     <1>19, <1>20, <1>21, <1>22, <1>23, <1>24, <1>25, <1>26, <1>27,
     <1>28, <1>29, <1>30, <1>31
     DEF Next, Calls, Locking, Moving

(* What the queue is to the mailbox: the terms and the bound of a queue in *)
(* use, and the goals of the threads that are in thread_get_message.       *)
HeldTerms == IF isOpen THEN contents ELSE <<>>
HeldBound == IF isOpen THEN maxSize ELSE 0
Asked(t)  == IF pc[t] \in Getting THEN arg[t] ELSE {}
Requests  == [t \in Threads |-> Asked(t)]

(* They are what the refinement mapping substitutes. *)
LEMMA BoxState ==
    ASSUME UNCHANGED <<isOpen, HeldBound, HeldTerms, Requests>>
    PROVE  UNCHANGED Box!vars
BY DEF Box!vars, HeldTerms, HeldBound, Requests, Asked

(* A step that leaves the entry and the chain alone leaves the box alone.  *)
LEMMA BoxKept ==
    ASSUME UNCHANGED <<slot, deleted, maxSize, chain>>
    PROVE  UNCHANGED <<isOpen, HeldBound, HeldTerms>>
BY DEF isOpen, HeldBound, HeldTerms, contents

(* A step of thread t changes no request but its own. *)
LEMMA RequestOf ==
    ASSUME TypeOK, TypeOK', NEW t \in Threads,
           \A u \in Threads \ {t} : pc'[u] = pc[u] /\ arg'[u] = arg[u]
    PROVE  /\ Requests' = [Requests EXCEPT ![t] = Asked(t)']
           /\ Asked(t)' = Asked(t) => UNCHANGED Requests
           /\ Requests[t] = Asked(t)
<1>1. \A u \in Threads \ {t} : Asked(u)' = Asked(u)
  BY DEF Asked
<1>2. Requests' = [u \in Threads |-> IF u = t THEN Asked(t)' ELSE Requests[u]]
  BY <1>1 DEF Requests
<1>3. Requests' = [Requests EXCEPT ![t] = Asked(t)']
  BY <1>2 DEF Requests
<1>4. Requests[t] = Asked(t)
  BY DEF Requests
<1>5. [Requests EXCEPT ![t] = Requests[t]] = Requests
  BY DEF Requests
<1> QED BY <1>3, <1>4, <1>5

(* A cell of the chain holds a term. *)
LEMMA CellTerm ==
    ASSUME NEW s \in Seq(Cell), NEW i \in 1..Len(s)
    PROVE  s[i].term \in Terms
<1>1. s[i] \in Cell
  BY ElementOfSeq
<1> QED BY <1>1 DEF Cell

(* The terms of the chain, one by one. *)
LEMMA ContentsLength ==
    ASSUME TypeOK
    PROVE  /\ contents \in Seq(Terms) /\ Len(contents) = Len(chain)
           /\ DOMAIN contents = 1..Len(chain)
           /\ \A i \in 1..Len(chain) : contents[i] = chain[i].term
<1>1. chain \in Seq(Cell) /\ Len(chain) \in Nat /\ DOMAIN chain = 1..Len(chain)
  BY LenProperties DEF TypeOK
<1>2. \A i \in 1..Len(chain) : chain[i].term \in Terms
  BY <1>1, CellTerm
<1> QED BY <1>1, <1>2 DEF contents

(* The terms of a chain with one more cell, and with one less. *)
LEMMA ContentsAppend ==
    ASSUME TypeOK, NEW c \in Cell, chain' = Append(chain, c)
    PROVE  contents' = Append(contents, c.term)
<1>1. chain \in Seq(Cell) /\ Len(chain) \in Nat /\ DOMAIN chain = 1..Len(chain)
  BY LenProperties DEF TypeOK
<1>2. chain' \in Seq(Cell) /\ Len(chain') = Len(chain) + 1
      /\ \A i \in 1..(Len(chain) + 1) : chain'[i] = IF i <= Len(chain) THEN chain[i] ELSE c
  BY <1>1, AppendProperties
<1>3. DOMAIN chain' = 1..(Len(chain) + 1)
  BY <1>2, LenProperties
<1>4. contents \in Seq(Terms) /\ Len(contents) = Len(chain)
  BY ContentsLength
<1>5. c.term \in Terms
  BY DEF Cell
<1>6. /\ Append(contents, c.term) \in Seq(Terms)
      /\ Len(Append(contents, c.term)) = Len(chain) + 1
      /\ \A i \in 1..(Len(chain) + 1) : Append(contents, c.term)[i] =
             IF i <= Len(chain) THEN contents[i] ELSE c.term
  BY <1>1, <1>4, <1>5, AppendProperties
<1>7. /\ contents' \in Seq(Terms) /\ Len(contents') = Len(chain) + 1
      /\ \A i \in 1..(Len(chain) + 1) : contents'[i] = chain'[i].term
  <2>1. \A i \in 1..(Len(chain) + 1) : chain'[i].term \in Terms
    BY <1>2, CellTerm
  <2> QED BY <1>1, <1>3, <2>1 DEF contents
<1>8. \A i \in 1..(Len(chain) + 1) : contents'[i] = Append(contents, c.term)[i]
  BY <1>1, <1>2, <1>6, <1>7 DEF contents
<1> QED BY <1>6, <1>7, <1>8, SeqEqual

(* Removing a cell from the chain removes its term from the contents. *)
LEMMA ContentsRemove ==
    ASSUME TypeOK, NEW k \in 1..Len(chain), chain' = RemoveAt(chain, k)
    PROVE  contents' = RemoveAt(contents, k)
<1>1. chain \in Seq(Cell) /\ Len(chain) \in Nat /\ DOMAIN chain = 1..Len(chain)
  BY LenProperties DEF TypeOK
<1>2. chain' \in Seq(Cell) /\ Len(chain') = Len(chain) - 1
      /\ \A i \in 1..(Len(chain) - 1) : chain'[i] = IF i < k THEN chain[i] ELSE chain[i + 1]
  BY <1>1, RemoveAtProperties
<1>3. DOMAIN chain' = 1..(Len(chain) - 1) /\ Len(chain) - 1 \in Nat
  BY <1>1, <1>2, LenProperties
<1>4. contents \in Seq(Terms) /\ Len(contents) = Len(chain)
  BY ContentsLength
<1>6. /\ RemoveAt(contents, k) \in Seq(Terms)
      /\ Len(RemoveAt(contents, k)) = Len(chain) - 1
      /\ \A i \in 1..(Len(chain) - 1) : RemoveAt(contents, k)[i] =
             IF i < k THEN contents[i] ELSE contents[i + 1]
  BY <1>1, <1>4, RemoveAtProperties
<1>7. /\ contents' \in Seq(Terms) /\ Len(contents') = Len(chain) - 1
      /\ \A i \in 1..(Len(chain) - 1) : contents'[i] = chain'[i].term
  <2>1. \A i \in 1..(Len(chain) - 1) : chain'[i].term \in Terms
    BY <1>2, CellTerm
  <2> QED BY <1>1, <1>3, <2>1 DEF contents
<1>8. \A i \in 1..(Len(chain) - 1) : contents'[i] = RemoveAt(contents, k)[i]
  <2> TAKE i \in 1..(Len(chain) - 1)
  <2>1. i \in DOMAIN chain /\ i + 1 \in DOMAIN chain
    BY <1>1
  <2> QED BY <1>2, <1>6, <1>7, <2>1 DEF contents
<1> QED BY <1>6, <1>7, <1>8, SeqEqual

(* What holds of a queue to which no signal is sent. *)
MailInv ==
    /\ QueueInv
    /\ DistinctCells
    /\ PassedCells
    /\ AcceptsFirst
    /\ SizeIsLength
    /\ Unsignalled

(* Take, read with the substitutions. *)
LEMMA TakeStep ==
    ASSUME NEW t \in Threads, isOpen,
           \E i \in DOMAIN HeldTerms :
              Box!FirstMatch(i, Requests[t]) /\ HeldTerms' = RemoveAt(HeldTerms, i),
           Requests' = [Requests EXCEPT ![t] = {}],
           UNCHANGED <<isOpen, HeldBound>>
    PROVE  Box!Take(t)
BY DEF Box!Take, Box!FirstMatch, Box!RemoveAt, RemoveAt, HeldTerms, HeldBound, Requests, Asked

(* Every step is a step of the mailbox, or does not show in it. *)
BoxStep == Box!Next \/ UNCHANGED <<isOpen, HeldBound, HeldTerms, Requests>>

(* Every step is a step of the mailbox or leaves the mailbox as it is. *)
LEMMA StepBox ==
    ASSUME MailInv, MailInv', [Next]_vars
    PROVE  BoxStep
<1> USE DEF entry, store, waits, mutex, call
<1>a. TypeOK /\ TypeOK'
  BY DEF MailInv, QueueInv
<1>b. ASSUME NEW t \in Threads, UNCHANGED <<slot, deleted, maxSize, chain>>, Asked(t)' = Asked(t),
             \A u \in Threads \ {t} : pc'[u] = pc[u] /\ arg'[u] = arg[u]
      PROVE  BoxStep
  BY <1>a, <1>b, BoxKept, RequestOf DEF BoxStep
<1>c. \A t \in Threads, place \in Places : Goto(t, place) =>
        pc'[t] = place /\ \A u \in Threads \ {t} : pc'[u] = pc[u]
  BY <1>a DEF TypeOK, Goto
<1> USE PlacesAre
<1>0. ASSUME UNCHANGED vars PROVE BoxStep
  <2>1. UNCHANGED <<isOpen, HeldBound, HeldTerms, Requests>>
    BY <1>0 DEF vars, isOpen, HeldBound, HeldTerms, contents, Requests, Asked
  <2> QED BY <2>1 DEF BoxStep
<1>1. ASSUME NEW t \in Threads, Call_send(t) PROVE BoxStep
  <2>1. UNCHANGED <<slot, deleted, maxSize, chain>>
    BY <1>1 DEF Call_send, Call
  <2>2. Asked(t)' = Asked(t) /\ \A u \in Threads \ {t} : pc'[u] = pc[u] /\ arg'[u] = arg[u]
    BY <1>1, <1>a DEF Call_send, Call, Goto, TypeOK, Asked, Getting
  <2> QED BY <1>b, <2>1, <2>2
<1>2. ASSUME NEW t \in Threads, Call_get(t) PROVE BoxStep
  <2>1. UNCHANGED <<slot, deleted, maxSize, chain>>
    BY <1>2 DEF Call_get, Call
  <2>2. /\ \A u \in Threads \ {t} : pc'[u] = pc[u] /\ arg'[u] = arg[u]
        /\ Asked(t) = {}
        /\ \E goal \in Goals : Asked(t)' = goal
    BY <1>2, <1>a DEF Call_get, Call, Goto, TypeOK, Asked, Getting
  <2>3. PICK goal \in Goals : Asked(t)' = goal
    BY <2>2
  <2>4. Box!Ask(t, goal)
    BY <1>a, <2>1, <2>2, <2>3, BoxKept, RequestOf
       DEF Box!Ask, HeldTerms, HeldBound, Requests, Asked
  <2> QED BY <2>4 DEF BoxStep, Box!Next
<1>3. ASSUME NEW t \in Threads, Call_peek(t) PROVE BoxStep
  <2>1. UNCHANGED <<slot, deleted, maxSize, chain>>
    BY <1>3 DEF Call_peek, Call
  <2>2. Asked(t)' = Asked(t) /\ \A u \in Threads \ {t} : pc'[u] = pc[u] /\ arg'[u] = arg[u]
    BY <1>3, <1>a DEF Call_peek, Call, Goto, TypeOK, Asked, Getting
  <2> QED BY <1>b, <2>1, <2>2
<1>4. ASSUME NEW t \in Threads, Call_destroy(t) PROVE BoxStep
  <2>1. UNCHANGED <<slot, deleted, maxSize, chain>>
    BY <1>4 DEF Call_destroy, Call
  <2>2. Asked(t)' = Asked(t) /\ \A u \in Threads \ {t} : pc'[u] = pc[u] /\ arg'[u] = arg[u]
    BY <1>4, <1>a DEF Call_destroy, Call, Goto, TypeOK, Asked, Getting
  <2> QED BY <1>b, <2>1, <2>2
<1>5. ASSUME NEW t \in Threads, Create(t) PROVE BoxStep
  <2>1. isOpen = FALSE /\ isOpen' = FALSE /\ UNCHANGED arg
    BY <1>5 DEF Create, isOpen
  <2>2. Asked(t)' = Asked(t) /\ \A u \in Threads \ {t} : pc'[u] = pc[u]
    BY <1>5, <1>a DEF Create, Goto, TypeOK, Asked, Getting
  <2>3. UNCHANGED Requests
    BY <1>a, <2>1, <2>2, RequestOf
  <2> QED BY <2>1, <2>3 DEF BoxStep, HeldBound, HeldTerms
<1>6. ASSUME NEW t \in Threads, Check_deleted(t) PROVE BoxStep
  <2>1. UNCHANGED <<slot, deleted, maxSize, chain, arg>>
    BY <1>6 DEF Check_deleted
  <2>2. Asked(t)' = {} /\ \A u \in Threads \ {t} : pc'[u] = pc[u]
    BY <1>6, <1>a DEF Check_deleted, Goto, TypeOK, Asked, Getting
  <2>3. CASE Asked(t) = {}
    BY <1>b, <2>1, <2>2, <2>3
  <2>4. CASE Asked(t) # {}
    <3>1. Box!GiveUp(t)
      BY <1>a, <2>1, <2>2, <2>4, BoxKept, RequestOf
         DEF Box!GiveUp, HeldTerms, HeldBound, Requests, Asked
    <3> QED BY <3>1 DEF BoxStep, Box!Next
  <2> QED BY <2>3, <2>4
<1>7. ASSUME NEW t \in Threads, Wait_interrupted(t) PROVE BoxStep
  BY <1>7 DEF Wait_interrupted, MailInv, Unsignalled
<1>8. ASSUME NEW t \in Threads, Wait_deleted(t) PROVE BoxStep
  <2>1. UNCHANGED <<slot, deleted, maxSize, chain, arg>>
    BY <1>8 DEF Wait_deleted
  <2>2. Asked(t)' = {} /\ \A u \in Threads \ {t} : pc'[u] = pc[u]
    BY <1>8, <1>a DEF Wait_deleted, Goto, TypeOK, Asked, Getting
  <2>3. CASE Asked(t) = {}
    BY <1>b, <2>1, <2>2, <2>3
  <2>4. CASE Asked(t) # {}
    <3>1. Box!GiveUp(t)
      BY <1>a, <2>1, <2>2, <2>4, BoxKept, RequestOf
         DEF Box!GiveUp, HeldTerms, HeldBound, Requests, Asked
    <3> QED BY <3>1 DEF BoxStep, Box!Next
  <2> QED BY <2>3, <2>4
<1>9. ASSUME NEW t \in Threads, Init_message_queue(t) PROVE BoxStep
  <2>1. ~isOpen /\ isOpen' /\ chain' = <<>> /\ maxSize' \in Nat /\ UNCHANGED arg
    BY <1>9, ConstantsOK DEF Init_message_queue, isOpen, MailInv, QueueInv, EntryConsistent
  <2>2. Asked(t)' = Asked(t) /\ \A u \in Threads \ {t} : pc'[u] = pc[u]
    BY <1>9, <1>a DEF Init_message_queue, Goto, TypeOK, Asked, Getting
  <2>3. UNCHANGED Requests
    BY <1>a, <2>1, <2>2, RequestOf
  <2>4. contents' = <<>>
    BY <2>1 DEF contents
  <2>5. Box!Open
    BY <2>1, <2>3, <2>4 DEF Box!Open, HeldBound, HeldTerms, Requests, Asked
  <2> QED BY <2>5 DEF BoxStep, Box!Next
<1>10. ASSUME NEW t \in Threads, Send_wait(t) PROVE BoxStep
  <2>1. UNCHANGED <<slot, deleted, maxSize, chain, arg>>
    BY <1>10 DEF Send_wait
  <2>2. Asked(t)' = Asked(t) /\ \A u \in Threads \ {t} : pc'[u] = pc[u]
    BY <1>10, <1>a DEF Send_wait, Wait_on_queue, Tests, Returns, Goto, TypeOK, Asked, Getting
  <2> QED BY <1>b, <2>1, <2>2
<1>11. ASSUME NEW t \in Threads, Send(t) PROVE BoxStep
  <2>1. /\ UNCHANGED <<slot, deleted, maxSize, arg>>
        /\ ~Full
    BY <1>11 DEF Send, Room
  <2>2. isOpen /\ isOpen'
    BY <1>11, <2>1, InUse DEF Send, Tests, Returns, isOpen, MailInv, QueueInv, FreedOnce, Waiters, Waiting
  <2>3. PICK a \in Cells, tm \in arg[t] :
          chain' = Append(chain, [addr |-> a, term |-> tm, to |-> handle[t]])
    BY <1>11 DEF Send
  <2>4. [addr |-> a, term |-> tm, to |-> handle[t]] \in Cell /\ tm \in Terms
    BY <1>11, <1>a, ConstantsOK DEF Cell, TypeOK, MailInv, QueueInv, HandlesIssued, Send, Tests
  <2>5. contents' = Append(contents, tm)
    BY <1>a, <2>3, <2>4, ContentsAppend
  <2>6. Asked(t)' = Asked(t) /\ \A u \in Threads \ {t} : pc'[u] = pc[u]
    BY <1>11, <1>a DEF Send, Tests, Goto, TypeOK, Asked, Getting
  <2>7. UNCHANGED Requests
    BY <1>a, <2>1, <2>6, RequestOf
  <2>8. maxSize # 0 => Len(contents) < maxSize
    <3>1. size = Len(chain) /\ size \in Int /\ maxSize \in Int
      BY <1>a, <2>2 DEF MailInv, SizeIsLength, isOpen, TypeOK
    <3>2. Len(contents) = Len(chain)
      BY <1>a, ContentsLength
    <3> QED BY <2>1, <3>1, <3>2 DEF Full
  <2>9. Box!Put(tm)
    BY <2>1, <2>2, <2>5, <2>7, <2>8 DEF Box!Put, HeldBound, HeldTerms, Requests, Asked
  <2> QED BY <2>4, <2>9 DEF BoxStep, Box!Next
<1>12. ASSUME NEW t \in Threads, Try_wait(t) PROVE BoxStep
  <2>1. UNCHANGED <<slot, deleted, maxSize, chain, arg>>
    BY <1>12 DEF Try_wait
  <2>2. Asked(t)' = Asked(t) /\ \A u \in Threads \ {t} : pc'[u] = pc[u]
    BY <1>12, <1>a DEF Try_wait, Wait_on_queue, Tests, Returns, Goto, TypeOK, Asked, Getting
  <2> QED BY <1>b, <2>1, <2>2
<1>13. ASSUME NEW t \in Threads, Try(t) PROVE BoxStep
  <2>1. UNCHANGED <<slot, deleted, maxSize, chain, arg>>
    BY <1>13 DEF Try
  <2>2. Asked(t)' = Asked(t) /\ \A u \in Threads \ {t} : pc'[u] = pc[u]
    BY <1>13, <1>a DEF Try, Leave_wait, Tests, Returns, Keep_mutex, Goto, TypeOK, Asked, Getting
  <2> QED BY <1>b, <2>1, <2>2
<1>14. ASSUME NEW t \in Threads, Peek(t) PROVE BoxStep
  <2>1. UNCHANGED <<slot, deleted, maxSize, chain, arg>>
    BY <1>14 DEF Peek
  <2>2. Asked(t)' = Asked(t) /\ \A u \in Threads \ {t} : pc'[u] = pc[u]
    BY <1>14, <1>a DEF Peek, Goto, TypeOK, Asked, Getting
  <2> QED BY <1>b, <2>1, <2>2
<1>15. ASSUME NEW t \in Threads, Destroy(t) PROVE BoxStep
  <2>1. isOpen /\ ~isOpen' /\ UNCHANGED arg
    BY <1>15, InUse DEF Destroy, isOpen, MailInv
  <2>2. Asked(t)' = Asked(t) /\ \A u \in Threads \ {t} : pc'[u] = pc[u]
    BY <1>15, <1>a DEF Destroy, Goto, TypeOK, Asked, Getting
  <2>3. UNCHANGED Requests
    BY <1>a, <2>1, <2>2, RequestOf
  <2>4. Box!Close
    BY <2>1, <2>3 DEF Box!Close, HeldBound, HeldTerms, Requests, Asked
  <2> QED BY <2>4 DEF BoxStep, Box!Next
<1>16. ASSUME NEW t \in Threads, Send_broadcast(t) PROVE BoxStep
  <2>1. UNCHANGED <<slot, deleted, maxSize, chain, arg>>
    BY <1>16 DEF Send_broadcast
  <2>2. Asked(t)' = Asked(t) /\ \A u \in Threads \ {t} : pc'[u] = pc[u]
    BY <1>16, <1>a DEF Send_broadcast, Broadcast, Goto, TypeOK, Asked, Getting
  <2> QED BY <1>b, <2>1, <2>2
<1>17. ASSUME NEW t \in Threads, Send_return(t) PROVE BoxStep
  <2>1. UNCHANGED <<slot, deleted, maxSize, chain, arg>>
    BY <1>17 DEF Send_return
  <2>2. Asked(t)' = Asked(t) /\ \A u \in Threads \ {t} : pc'[u] = pc[u]
    BY <1>17, <1>a DEF Send_return, Goto, TypeOK, Asked, Getting
  <2> QED BY <1>b, <2>1, <2>2
<1>18. ASSUME NEW t \in Threads, Unify(t) PROVE BoxStep
  <2>1. UNCHANGED <<slot, deleted, maxSize, chain, arg>>
    BY <1>18 DEF Unify
  <2>2. Asked(t)' = Asked(t) /\ \A u \in Threads \ {t} : pc'[u] = pc[u]
    BY <1>18, <1>a DEF Unify, Goto, TypeOK, Asked, Getting
  <2> QED BY <1>b, <2>1, <2>2
<1>19. ASSUME NEW t \in Threads, Unify_unread(t) PROVE BoxStep
  BY <1>19 DEF Unify_unread, MailInv, Unsignalled
<1>20. ASSUME NEW t \in Threads, Retry_wait(t) PROVE BoxStep
  <2>1. UNCHANGED <<slot, deleted, maxSize, chain, arg>>
    BY <1>20 DEF Retry_wait
  <2>2. Asked(t)' = Asked(t) /\ \A u \in Threads \ {t} : pc'[u] = pc[u]
    BY <1>20, <1>a DEF Retry_wait, Wait_on_queue, Goto, TypeOK, Asked, Getting
  <2> QED BY <1>b, <2>1, <2>2
<1>21. ASSUME NEW t \in Threads, Retry(t) PROVE BoxStep
  <2>1. UNCHANGED <<slot, deleted, maxSize, chain, arg>>
    BY <1>21 DEF Retry
  <2>2. Asked(t)' = Asked(t) /\ \A u \in Threads \ {t} : pc'[u] = pc[u]
    BY <1>21, <1>a DEF Retry, Goto, TypeOK, Asked, Getting
  <2> QED BY <1>b, <2>1, <2>2
<1>22. ASSUME NEW t \in Threads, Accept(t) PROVE BoxStep
  <2>1. lock = t /\ cur[t] \in Addrs
    BY <1>22 DEF Accept, MailInv, AcceptsFirst
  <2>2. isOpen /\ slot = "listed" /\ ~deleted
    BY <2>1, InUse DEF isOpen, MailInv
  <2>3. /\ chain' = RemoveAt(chain, Pos(cur[t]))
        /\ UNCHANGED <<slot, deleted, maxSize, arg>>
        /\ Asked(t)' = {} /\ \A u \in Threads \ {t} : pc'[u] = pc[u]
        /\ pc[t] = "accept" /\ Asked(t) = arg[t]
    BY <1>22, <1>a, <2>1 DEF Accept, Unlinked, Goto, TypeOK, Asked, Getting
  <2> DEFINE k == Pos(cur[t])
  <2>4. k \in 1..Len(chain) /\ chain[k].addr = cur[t] /\ DOMAIN chain = 1..Len(chain)
    BY <1>a, <2>1, PosInChain
  <2>5. contents' = RemoveAt(contents, k)
    BY <1>a, <2>3, <2>4, ContentsRemove
  <2> HIDE DEF k
  <2>6. isOpen'
    BY <2>2, <2>3 DEF isOpen
  <2>7. Len(contents) = Len(chain) /\ DOMAIN contents = 1..Len(chain)
        /\ \A i \in 1..Len(chain) : contents[i] = chain[i].term
    BY <1>a, ContentsLength
  <2>8. contents[k] \in arg[t] /\ \A j \in 1..(k - 1) : contents[j] \notin arg[t]
    <3>1. Len(chain) \in Nat
      BY <1>a, LenProperties DEF TypeOK
    <3>2. chain[k].term \in arg[t] /\ \A i \in DOMAIN chain : chain[i].term \in arg[t] => i >= k
      BY <2>3, <2>4 DEF MailInv, AcceptsFirst
    <3>3. ASSUME NEW j \in 1..(k - 1) PROVE j \in DOMAIN chain /\ ~(j >= k)
      BY <2>4, <3>1
    <3> QED BY <2>4, <2>7, <3>2, <3>3
  <2>9. Requests[t] = arg[t] /\ Requests' = [Requests EXCEPT ![t] = {}]
    BY <1>a, <2>3, RequestOf
  <2>10. Box!FirstMatch(k, Requests[t])
    BY <2>2, <2>8, <2>9 DEF Box!FirstMatch, HeldTerms
  <2>11. Box!Take(t)
    <3>1. isOpen = TRUE /\ isOpen' = TRUE
      BY <2>2, <2>6 DEF isOpen
    <3>2. k \in DOMAIN HeldTerms /\ HeldTerms' = RemoveAt(HeldTerms, k)
      BY <2>4, <2>5, <2>7, <3>1 DEF HeldTerms
    <3>3. UNCHANGED <<isOpen, HeldBound>>
      BY <2>3, <3>1 DEF HeldBound
    <3>4. \E i \in DOMAIN HeldTerms :
            Box!FirstMatch(i, Requests[t]) /\ HeldTerms' = RemoveAt(HeldTerms, i)
      BY <2>10, <3>2
    <3> QED BY <2>2, <2>9, <3>3, <3>4, TakeStep
  <2> QED BY <2>11 DEF BoxStep, Box!Next
<1>23. ASSUME NEW t \in Threads, Accept_broadcast(t) PROVE BoxStep
  <2>1. UNCHANGED <<slot, deleted, maxSize, chain, arg>>
    BY <1>23 DEF Accept_broadcast
  <2>2. Asked(t)' = Asked(t) /\ \A u \in Threads \ {t} : pc'[u] = pc[u]
    BY <1>23, <1>a DEF Accept_broadcast, Broadcast, Goto, TypeOK, Asked, Getting
  <2> QED BY <1>b, <2>1, <2>2
<1>24. ASSUME NEW t \in Threads, Peek_unify(t) PROVE BoxStep
  <2>1. UNCHANGED <<slot, deleted, maxSize, chain, arg>>
    BY <1>24 DEF Peek_unify
  <2>2. Asked(t)' = Asked(t) /\ \A u \in Threads \ {t} : pc'[u] = pc[u]
    BY <1>24, <1>a DEF Peek_unify, Goto, TypeOK, Asked, Getting
  <2> QED BY <1>b, <2>1, <2>2
<1>25. ASSUME NEW t \in Threads, Repeek(t) PROVE BoxStep
  <2>1. UNCHANGED <<slot, deleted, maxSize, chain, arg>>
    BY <1>25 DEF Repeek
  <2>2. Asked(t)' = Asked(t) /\ \A u \in Threads \ {t} : pc'[u] = pc[u]
    BY <1>25, <1>a DEF Repeek, Goto, TypeOK, Asked, Getting
  <2> QED BY <1>b, <2>1, <2>2
<1>26. ASSUME NEW t \in Threads, Unlock_queue(t) PROVE BoxStep
  <2>1. UNCHANGED <<slot, deleted, maxSize, chain, arg>>
    BY <1>26 DEF Unlock_queue
  <2>2. Asked(t)' = Asked(t) /\ \A u \in Threads \ {t} : pc'[u] = pc[u]
    BY <1>26, <1>a DEF Unlock_queue, Goto, TypeOK, Asked, Getting
  <2> QED BY <1>b, <2>1, <2>2
<1>27. ASSUME NEW t \in Threads, Destroy_broadcast(t) PROVE BoxStep
  <2>1. UNCHANGED <<slot, deleted, maxSize, chain, arg>>
    BY <1>27 DEF Destroy_broadcast
  <2>2. Asked(t)' = Asked(t) /\ \A u \in Threads \ {t} : pc'[u] = pc[u]
    BY <1>27, <1>a DEF Destroy_broadcast, Broadcast, Goto, TypeOK, Asked, Getting
  <2> QED BY <1>b, <2>1, <2>2
<1>28. ASSUME NEW t \in Threads, Queue_dealloc(t) PROVE BoxStep
  <2>1. isOpen = FALSE /\ isOpen' = FALSE /\ UNCHANGED arg
    BY <1>28 DEF Queue_dealloc, isOpen, MailInv, QueueInv, FreedOnce
  <2>2. Asked(t)' = Asked(t) /\ \A u \in Threads \ {t} : pc'[u] = pc[u]
    BY <1>28, <1>a DEF Queue_dealloc, Goto, TypeOK, Asked, Getting
  <2>3. UNCHANGED Requests
    BY <1>a, <2>1, <2>2, RequestOf
  <2> QED BY <2>1, <2>3 DEF BoxStep, HeldBound, HeldTerms
<1>29. ASSUME NEW t \in Threads, Handle_signal(t) PROVE BoxStep
  BY <1>29 DEF Handle_signal, MailInv, Unsignalled
<1>30. ASSUME NEW t \in Threads, Thread_interrupt(t) PROVE BoxStep
  BY <1>30, <1>b DEF Thread_interrupt, Asked
<1>31. ASSUME NEW t \in Threads, Spurious_wakeup(t) PROVE BoxStep
  BY <1>31, <1>b DEF Spurious_wakeup, Asked
<1> QED
  BY <1>0, <1>1, <1>2, <1>3, <1>4, <1>5, <1>6, <1>7, <1>8, <1>9,
     <1>10, <1>11, <1>12, <1>13, <1>14, <1>15, <1>16, <1>17, <1>18,
     <1>19, <1>20, <1>21, <1>22, <1>23, <1>24, <1>25, <1>26, <1>27,
     <1>28, <1>29, <1>30, <1>31
     DEF Next, Calls, Locking, Moving

(* An entry in the free list is a mailbox that is not open. *)
LEMMA InitBox == Init => Box!Init
<1> SUFFICES ASSUME Init PROVE Box!Init
  OBVIOUS
<1>1. isOpen = FALSE
  BY DEF Init, isOpen
<1>2. Requests = [t \in Threads |-> {}]
  BY DEF Init, Requests, Asked, Getting
<1>3. HeldTerms = <<>> /\ HeldBound = 0
  BY <1>1 DEF HeldTerms, HeldBound
<1> QED BY <1>1, <1>2, <1>3 DEF Box!Init, HeldTerms, HeldBound, Requests, Asked

(* MailInv holds as long as no signals are sent. *)
LEMMA MailInvariant ==
    ASSUME Signalable = {}
    PROVE  Spec => []MailInv
<1>1. Init => DistinctCells /\ PassedCells /\ AcceptsFirst /\ SizeIsLength /\ Unsignalled
  BY DEF Init, DistinctCells, PassedCells, AcceptsFirst, SizeIsLength, Unsignalled
<1>2. Init => MailInv
  BY <1>1, InitInv DEF MailInv
<1>3. MailInv /\ [Next]_vars => MailInv'
  <2> SUFFICES ASSUME MailInv, [Next]_vars PROVE MailInv'
    OBVIOUS
  <2>1. QueueInv'
    BY StepType, StepSearch, StepWaiters, StepFreed, StepHandles, StepEntry DEF MailInv, QueueInv
  <2>2. DistinctCells'
    BY StepDistinct DEF MailInv, QueueInv
  <2>3. PassedCells' /\ SizeIsLength' /\ AcceptsFirst' /\ Unsignalled'
    BY StepPassed, StepSize, StepAccepts, StepUnsignalled DEF MailInv
  <2> QED BY <2>1, <2>2, <2>3 DEF MailInv
<1> QED BY <1>2, <1>3, PTL DEF Spec

(* A message queue to which no signals are sent is a mailbox, for any      *)
(* threads, goals, sizes and numbers of cells and creations: a reader gets *)
(* the first term that its goal unifies with, no term is lost or taken     *)
(* twice, a bounded queue keeps its bound, and what is sent after the      *)
(* destruction is not seen.                                                *)
THEOREM QueueIsMailbox ==
    ASSUME Signalable = {}
    PROVE  Spec => IsMailbox
<1>1. MailInv /\ MailInv' /\ [Next]_vars => [Box!Next]_(Box!vars)
  <2> SUFFICES ASSUME MailInv, MailInv', [Next]_vars PROVE [Box!Next]_(Box!vars)
    OBVIOUS
  <2>1. BoxStep
    BY StepBox
  <2> QED BY <2>1, BoxState DEF BoxStep
<1> QED BY <1>1, InitBox, MailInvariant, PTL DEF Spec, IsMailbox, Box!Spec
=============================================================================
