-------------------------- MODULE ThreadTableProofs --------------------------
(* Proofs about ThreadTable for any numbers of entries, threads and names. *)
EXTENDS ThreadTable, FiniteSetTheorems, SequenceTheorems, TLAPS

-----------------------------------------------------------------------------
(* What makes EntryPerThread and StatusPersists inductive *)

(* The threads that were created and whose entries were not given back. *)
Here == (0 .. created) \ gone

(* An entry is in the free list once, or in use. *)
SlotsDistinct ==
    /\ \A i, j \in DOMAIN free : free[i] = free[j] => i = j
    /\ \A i \in DOMAIN free : free[i] \notin used

(* The main thread is in the first entry and never begins to end. *)
MainHere == entryOf[0] = 0 /\ pc[0] \in Calling \cup {"run"}

(* Calls are about threads that were created. *)
Callees == \A t \in Threads : pc[t] \in Calling => on[t] \in 1 .. created

(* What is not created has not run, and what was joined has. *)
NotYet ==
    /\ gone \subseteq 1 .. created
    /\ \A c \in Created : c > created => pc[c] = "none"
    /\ \A c \in claimed : pc[c] # "none"

(* A thread that is being created has one creator, and did not run yet. *)
Creating == {"alias", "assert", "unsetup", "spawn", "undo"}
Creation ==
    \A t \in Threads : pc[t] \in Creating =>
        /\ pc[on[t]] = "none" /\ on[t] \notin gone
        /\ pc[t] \in {"alias", "assert"} => nameOf[on[t]] # NoAlias
        /\ \A u \in Threads : pc[u] \in Creating /\ on[u] = on[t] => u = t

(* A thread that is being joined or detached is so by one thread; until    *)
(* then it is joinable, so its own exit leaves the entry.                  *)
Reaping == {"wait", "reclaim", "mark"}
Reapers ==
    \A t \in Threads : pc[t] \in Reaping =>
        /\ on[t] \in claimed \ gone /\ ~detached[entryOf[on[t]]]
        /\ pc[t] = "reclaim" => pc[on[t]] = "over"
        /\ \A u \in Threads : pc[u] \in Reaping /\ on[u] = on[t] => u = t

(* The fields of an entry in use tell where its thread is. *)
Ended == {"uncount", "uncountWrite", "over"}
Fields ==
    \A c \in Here :
        /\ exited[entryOf[c]] <=> pc[c] \in Ended
        /\ pc[c] \notin {"none", "start"} => valid[entryOf[c]]

(* A thread whose entry was given back does not run, and nobody can claim  *)
(* it: it did not start, or was claimed, or the entry is another's or      *)
(* marked as detached.                                                     *)
Departed ==
    \A c \in gone :
        /\ pc[c] \in {"none"} \cup Ended
        /\ pc[c] = "none" \/ c \in claimed
             \/ (owner[entryOf[c]] = c => detached[entryOf[c]])

TableInv ==
    /\ EntryPerThread
    /\ SlotsDistinct
    /\ MainHere
    /\ Callees
    /\ NotYet
    /\ Creation
    /\ Reapers
    /\ Fields
    /\ Departed

-----------------------------------------------------------------------------
(* Types *)

(* The number of threads that have ended is a number. *)
LEMMA NowType == Now \in Nat
<1> DEFINE ended == {c \in Threads : result[c] # "none"}
<1>1. IsFiniteSet(Threads)
  BY ConstantsOK, FS_Interval DEF Threads
<1>2. ended \subseteq Threads
  OBVIOUS
<1>3. Cardinality(ended) \in Nat
  BY <1>1, <1>2, FS_Subset, FS_CardinalityType
<1> QED BY <1>3 DEF Now

(* The main thread and those created are threads. *)
LEMMA ThreadNumbers ==
    /\ 0 \in Threads /\ Created \subseteq Threads /\ 0 \notin Created
    /\ Threads = Created \cup {0}
    /\ 0 \in Slots /\ Slots \subseteq Int /\ Threads \subseteq Int
BY ConstantsOK DEF Threads, Created, Slots

(* Every value that Goto gives to pc is a place. *)
LEMMA PlacesAre ==
    /\ {"none", "alias", "assert", "unsetup", "spawn", "valid", "undo"} \subseteq Places
    /\ {"start", "run", "exit", "uncount", "uncountWrite", "over"} \subseteq Places
    /\ {"wait", "reclaim", "status", "mark", "retract"} \subseteq Places
BY DEF Places

(* The first entry of a free list that is not empty. *)
LEMMA HeadFree ==
    ASSUME free \in Seq(Slots), free # <<>>
    PROVE  /\ Head(free) \in Slots /\ Head(free) = free[1] /\ 1 \in DOMAIN free
           /\ Tail(free) \in Seq(Slots)
           /\ DOMAIN Tail(free) = 1 .. Len(free) - 1
           /\ Len(free) \in Nat /\ DOMAIN free = 1 .. Len(free)
           /\ \A i \in 1 .. Len(free) - 1 : Tail(free)[i] = free[i + 1]
<1>1. Len(free) \in Nat \ {0} /\ DOMAIN free = 1 .. Len(free)
  BY EmptySeq, LenProperties
<1>2. /\ Head(free) \in Slots /\ Tail(free) \in Seq(Slots) /\ Len(Tail(free)) = Len(free) - 1
      /\ \A i \in 1 .. Len(Tail(free)) : Tail(free)[i] = free[i + 1]
  BY HeadTailProperties
<1>3. DOMAIN Tail(free) = 1 .. Len(free) - 1
  BY <1>2, LenProperties
<1> QED BY <1>1, <1>2, <1>3

(* What happens to the table when an entry is taken, and given back. *)
LEMMA DeleteType ==
    ASSUME TypeOK, NEW c \in Created, Th_delete(c)
    PROVE  /\ free' \in Seq(Slots) /\ used' \subseteq Slots /\ gone' \subseteq Created
           /\ valid' \in [Slots -> BOOLEAN] /\ detached' \in [Slots -> BOOLEAN]
           /\ exited' \in [Slots -> BOOLEAN] /\ aliased' \in [Slots -> BOOLEAN]
           /\ owner' = owner
<1>1. entryOf[c] \in Slots
  BY ThreadNumbers DEF TypeOK
<1>2. free' \in Seq(Slots)
  BY <1>1, AppendProperties DEF Th_delete, TypeOK
<1> QED BY <1>1, <1>2 DEF Th_delete, TypeOK

(* The types of what no deletion touches. *)
CallerTyped ==
    /\ created \in 0 .. MaxCreated
    /\ entryOf \in [Threads -> Slots]
    /\ nameOf \in [Threads -> Aliases \cup {NoAlias}]
    /\ pc \in [Threads -> Places]
    /\ on \in [Threads -> Threads]
    /\ result \in [Threads -> Ends \cup {"none"}]
    /\ claimed \subseteq Created
    /\ aliasFacts \subseteq [name : Aliases, of : Created]
    /\ balls \in [Threads -> Nat]
    /\ seen \in [Threads -> Int]
    /\ got \in [Threads -> Threads]

(* Every step keeps the types. *)
LEMMA StepType ==
    ASSUME TableInv, [Next]_vars
    PROVE  TypeOK'
<1> USE ThreadNumbers, PlacesAre DEF table, fields, ids, facts, counts
<1>a. TypeOK
  BY DEF TableInv, EntryPerThread
<1>b. \A t \in Threads : pc[t] \in Calling => on[t] \in Created
  BY <1>a DEF TableInv, Callees, TypeOK, Created
<1>0. ASSUME UNCHANGED vars PROVE TypeOK'
  BY <1>0, <1>a DEF vars, TypeOK
<1>1. ASSUME NEW t \in Threads, NEW kind \in Kinds, NEW name \in Aliases \cup {NoAlias},
              Setup(t, kind, name)
       PROVE  TypeOK'
  <2>1. created + 1 \in Created /\ created' \in 0 .. MaxCreated
    BY <1>1, <1>a, ConstantsOK DEF Setup, TypeOK, Created
  <2>2. Head(free) \in Slots /\ Tail(free) \in Seq(Slots)
    BY <1>1, <1>a, HeadFree DEF Setup, TypeOK
  <2>3. (kind = "detached") \in BOOLEAN /\ (name # NoAlias) \in BOOLEAN
    OBVIOUS
  <2>4. /\ valid' \in [Slots -> BOOLEAN] /\ detached' \in [Slots -> BOOLEAN]
        /\ exited' \in [Slots -> BOOLEAN] /\ aliased' \in [Slots -> BOOLEAN]
    BY <1>1, <1>a, <2>2, <2>3 DEF Setup, TypeOK
  <2>5. free' \in Seq(Slots) /\ used' \subseteq Slots
    BY <1>1, <1>a, <2>2 DEF Setup, TypeOK
  <2>8. numThreads' \in Int /\ owner' \in [Slots -> Threads \cup {Nobody}]
    BY <1>1, <1>a, <2>1, <2>2 DEF Setup, TypeOK
  <2>6. CallerTyped'
    BY <1>1, <1>a, <2>1, <2>2 DEF Setup, Goto, TypeOK, CallerTyped
  <2>7. gone' \subseteq Created
    BY <1>1, <1>a DEF Setup, TypeOK
  <2> QED BY <2>4, <2>5, <2>6, <2>7, <2>8 DEF CallerTyped, TypeOK
<1>2. ASSUME NEW t \in Threads, Look_for_alias(t) PROVE TypeOK'
  BY <1>2, <1>a DEF Look_for_alias, Goto, TypeOK
<1>3. ASSUME NEW t \in Threads, Assert_alias(t) PROVE TypeOK'
  <2>1. on[t] \in Created /\ nameOf[on[t]] \in Aliases
    <3>1. on[t] \in Created /\ pc[t] = "assert"
      BY <1>3, <1>b DEF Assert_alias, Calling
    <3>2. nameOf[on[t]] # NoAlias
      BY <3>1 DEF TableInv, Creation, Creating
    <3> QED BY <1>a, <3>1, <3>2 DEF TypeOK
  <2>2. pc' \in [Threads -> Places]
    BY <1>3, <1>a DEF Assert_alias, Goto, TypeOK
  <2>3. [name |-> nameOf[on[t]], of |-> on[t]] \in [name : Aliases, of : Created]
    BY <2>1
  <2>4. aliasFacts' \subseteq [name : Aliases, of : Created]
    BY <1>3, <1>a, <2>3 DEF Assert_alias, TypeOK
  <2> QED BY <1>3, <1>a, <2>2, <2>4 DEF Assert_alias, TypeOK
<1>4. ASSUME NEW t \in Threads, Reclaim_setup(t) PROVE TypeOK'
  <2>1. on[t] \in Created
    BY <1>4, <1>b DEF Reclaim_setup, Calling
  <2>6. pc' \in [Threads -> Places]
    BY <1>4, <1>a DEF Reclaim_setup, Goto, TypeOK
  <2>2. CallerTyped'
    BY <1>4, <1>a, <2>6 DEF Reclaim_setup, CallerTyped, TypeOK
  <2>3. numThreads' \in Int
    BY <1>4, <1>a DEF Reclaim_setup, TypeOK
  <2>4. CASE Th_delete(on[t])
    BY <1>a, <2>1, <2>2, <2>3, <2>4, DeleteType DEF CallerTyped, TypeOK
  <2>5. CASE ~Th_delete(on[t])
    <3>1. UNCHANGED <<free, used, gone, owner, valid, aliased>>
      BY <1>4, <2>5 DEF Reclaim_setup
    <3>2. detached' \in [Slots -> BOOLEAN] /\ exited' \in [Slots -> BOOLEAN]
      BY <1>4, <1>a, <2>5 DEF Reclaim_setup, TypeOK
    <3> QED BY <1>a, <2>2, <2>3, <3>1, <3>2 DEF CallerTyped, TypeOK
  <2> QED BY <2>4, <2>5
<1>5. ASSUME NEW t \in Threads, Spawn(t) PROVE TypeOK'
  BY <1>5, <1>a DEF Spawn, Goto, TypeOK
<1>6. ASSUME NEW t \in Threads, Spawn_refused(t) PROVE TypeOK'
  BY <1>6, <1>a DEF Spawn_refused, Goto, TypeOK
<1>7. ASSUME NEW t \in Threads, Undo(t) PROVE TypeOK'
  <2>1. on[t] \in Created
    BY <1>7, <1>b DEF Undo, Calling
  <2>6. pc' \in [Threads -> Places]
    BY <1>7, <1>a DEF Undo, Goto, TypeOK
  <2>2. CallerTyped'
    BY <1>7, <1>a, <2>6 DEF Undo, CallerTyped, TypeOK
  <2>3. numThreads' \in Int
    BY <1>7, <1>a DEF Undo, TypeOK
  <2>4. CASE Th_delete(on[t])
    BY <1>a, <2>1, <2>2, <2>3, <2>4, DeleteType DEF CallerTyped, TypeOK
  <2>5. CASE ~Th_delete(on[t])
    <3>1. UNCHANGED <<free, used, gone, owner, valid, aliased>>
      BY <1>7, <2>5 DEF Undo
    <3>2. detached' \in [Slots -> BOOLEAN] /\ exited' \in [Slots -> BOOLEAN]
      BY <1>7, <1>a, <2>5 DEF Undo, TypeOK
    <3> QED BY <1>a, <2>2, <2>3, <3>1, <3>2 DEF CallerTyped, TypeOK
  <2> QED BY <2>4, <2>5
<1>8. ASSUME NEW t \in Threads, Mark_valid(t) PROVE TypeOK'
  BY <1>8, <1>a DEF Mark_valid, Goto, TypeOK
<1>9. ASSUME NEW t \in Threads, Xsb_thread_run(t) PROVE TypeOK'
  BY <1>9, <1>a DEF Xsb_thread_run, Goto, TypeOK
<1>10. ASSUME NEW t \in Threads, NEW how \in Results,
              End_with(t, how)
       PROVE  TypeOK'
  <2>1. pc' \in [Threads -> Places] /\ result' \in [Threads -> Ends \cup {"none"}]
    BY <1>10, <1>a, ConstantsOK DEF End_with, Goto, TypeOK
  <2>2. aliasFacts' \subseteq [name : Aliases, of : Created]
    BY <1>10, <1>a DEF End_with, Without_alias, TypeOK
  <2>3. balls' \in [Threads -> Nat]
    BY <1>10, <1>a, NowType DEF End_with, TypeOK
  <2> QED BY <1>10, <1>a, <2>1, <2>2, <2>3 DEF End_with, TypeOK
<1>11. ASSUME NEW t \in Threads, Thread_exit(t) PROVE TypeOK'
  <2>1. t \in Created
    BY <1>11 DEF Thread_exit, TableInv, MainHere, Calling
  <2>6. pc' \in [Threads -> Places]
    BY <1>11, <1>a DEF Thread_exit, Goto, TypeOK
  <2>2. CallerTyped'
    BY <1>11, <1>a, <2>6 DEF Thread_exit, CallerTyped, TypeOK
  <2>3. numThreads' \in Int
    BY <1>11, <1>a DEF Thread_exit, TypeOK
  <2>4. CASE Th_delete(t)
    BY <1>a, <2>1, <2>2, <2>3, <2>4, DeleteType DEF CallerTyped, TypeOK
  <2>5. CASE ~Th_delete(t)
    <3>1. UNCHANGED <<free, used, gone, owner, valid, aliased>>
      BY <1>11, <2>5 DEF Thread_exit
    <3>2. detached' \in [Slots -> BOOLEAN] /\ exited' \in [Slots -> BOOLEAN]
      BY <1>11, <1>a, <2>5 DEF Thread_exit, TypeOK
    <3> QED BY <1>a, <2>2, <2>3, <3>1, <3>2 DEF CallerTyped, TypeOK
  <2> QED BY <2>4, <2>5
<1>12. ASSUME NEW t \in Threads, Read_count(t) PROVE TypeOK'
  BY <1>12, <1>a DEF Read_count, Goto, TypeOK
<1>13. ASSUME NEW t \in Threads, Write_count(t) PROVE TypeOK'
  <2>1. numThreads' \in Int /\ seen' \in [Threads -> Int]
    BY <1>13, <1>a DEF Write_count, TypeOK
  <2>2. pc' \in [Threads -> Places]
    BY <1>13, <1>a DEF Write_count, Goto, TypeOK
  <2> QED BY <1>13, <1>a, <2>1, <2>2 DEF Write_count, TypeOK
<1>14. ASSUME NEW t \in Threads, NEW c \in Created, Join(t, c) PROVE TypeOK'
  BY <1>14, <1>a DEF Join, Claim, Valid, Goto, TypeOK
<1>15. ASSUME NEW t \in Threads, Pthread_join(t) PROVE TypeOK'
  BY <1>15, <1>a DEF Pthread_join, Goto, TypeOK
<1>16. ASSUME NEW t \in Threads, Reclaim(t) PROVE TypeOK'
  <2>1. on[t] \in Created
    BY <1>16, <1>b DEF Reclaim, Calling
  <2>6. pc' \in [Threads -> Places]
    BY <1>16, <1>a DEF Reclaim, Goto, TypeOK
  <2>2. CallerTyped'
    BY <1>16, <1>a, <2>6 DEF Reclaim, CallerTyped, TypeOK
  <2>3. numThreads' \in Int
    BY <1>16, <1>a DEF Reclaim, TypeOK
  <2>4. CASE Th_delete(on[t])
    BY <1>a, <2>1, <2>2, <2>3, <2>4, DeleteType DEF CallerTyped, TypeOK
  <2>5. CASE ~Th_delete(on[t])
    <3>1. UNCHANGED <<free, used, gone, owner, valid, aliased>>
      BY <1>16, <2>5 DEF Reclaim
    <3>2. detached' \in [Slots -> BOOLEAN] /\ exited' \in [Slots -> BOOLEAN]
      BY <1>16, <1>a, <2>5 DEF Reclaim, TypeOK
    <3> QED BY <1>a, <2>2, <2>3, <3>1, <3>2 DEF CallerTyped, TypeOK
  <2> QED BY <2>4, <2>5
<1>17. ASSUME NEW t \in Threads, Join_status(t) PROVE TypeOK'
  <2>1. got' \in [Threads -> Threads] /\ balls' \in [Threads -> Nat]
    <3>1. on[t] \in Threads /\ got \in [Threads -> Threads] /\ balls \in [Threads -> Nat]
      BY <1>a DEF TypeOK
    <3>2. CASE got' = [got EXCEPT ![t] = on[t]] /\ UNCHANGED balls
      BY <3>1, <3>2
    <3>3. ASSUME NEW b \in Threads, got' = [got EXCEPT ![t] = b], balls' = [balls EXCEPT ![b] = 0]
          PROVE  got' \in [Threads -> Threads] /\ balls' \in [Threads -> Nat]
      BY <3>1, <3>3
    <3>4. CASE UNCHANGED <<got, balls>>
      BY <3>1, <3>4
    <3> QED BY <1>17, <3>2, <3>3, <3>4 DEF Join_status
  <2>2. aliasFacts' \subseteq [name : Aliases, of : Created]
    BY <1>17, <1>a DEF Join_status, TypeOK
  <2>3. pc' \in [Threads -> Places]
    BY <1>17, <1>a DEF Join_status, Goto, TypeOK
  <2> QED BY <1>17, <1>a, <2>1, <2>2, <2>3 DEF Join_status, TypeOK
<1>18. ASSUME NEW t \in Threads, NEW c \in Created, Detach(t, c) PROVE TypeOK'
  BY <1>18, <1>a DEF Detach, Claim, Valid, Goto, TypeOK
<1>19. ASSUME NEW t \in Threads, Detach_mark(t) PROVE TypeOK'
  <2>1. on[t] \in Created
    BY <1>19, <1>b DEF Detach_mark, Calling
  <2>6. pc' \in [Threads -> Places]
    BY <1>19, <1>a DEF Detach_mark, Goto, TypeOK
  <2>2. CallerTyped'
    BY <1>19, <1>a, <2>6 DEF Detach_mark, CallerTyped, TypeOK
  <2>3. numThreads' \in Int
    BY <1>19, <1>a DEF Detach_mark, TypeOK
  <2>4. CASE Th_delete(on[t])
    BY <1>a, <2>1, <2>2, <2>3, <2>4, DeleteType DEF CallerTyped, TypeOK
  <2>5. CASE ~Th_delete(on[t])
    <3>1. UNCHANGED <<free, used, gone, owner, valid, aliased>>
      BY <1>19, <2>5 DEF Detach_mark
    <3>2. detached' \in [Slots -> BOOLEAN] /\ exited' \in [Slots -> BOOLEAN]
      BY <1>19, <1>a, <2>5 DEF Detach_mark, TypeOK
    <3> QED BY <1>a, <2>2, <2>3, <3>1, <3>2 DEF CallerTyped, TypeOK
  <2> QED BY <2>4, <2>5
<1>20. ASSUME NEW t \in Threads, Detach_retract(t) PROVE TypeOK'
  BY <1>20, <1>a DEF Detach_retract, Without_alias, Goto, TypeOK
<1> QED
  BY <1>0, <1>1, <1>2, <1>3, <1>4, <1>5, <1>6, <1>7, <1>8, <1>9,
     <1>10, <1>11, <1>12, <1>13, <1>14, <1>15, <1>16, <1>17, <1>18,
     <1>19, <1>20
     DEF Next, Create, End, Reap

-----------------------------------------------------------------------------
(* The table *)

(* What EntryPerThread says beside the types. *)
Owned ==
    /\ used = {entryOf[c] : c \in Here}
    /\ \A c \in Here : owner[entryOf[c]] = c

LEMMA EntryPerThreadIs == EntryPerThread <=> TypeOK /\ Owned
BY DEF EntryPerThread, Owned, Here

(* Who gives an entry back: its thread is there and is not the main one.   *)
LEMMA CalleeHere ==
    ASSUME TableInv, NEW t \in Threads, pc[t] \in Creating \cup Reaping
    PROVE  on[t] \in Here \ {0}
<1>1. on[t] \in 1 .. created
  BY DEF TableInv, Callees, Creating, Reaping, Calling
<1>2. on[t] \notin gone
  BY DEF TableInv, Creation, Reapers
<1> QED BY <1>1, <1>2 DEF TableInv, EntryPerThread, TypeOK, Here

LEMMA RunningHere ==
    ASSUME TableInv, NEW c \in Threads, pc[c] \notin {"none"} \cup Ended
    PROVE  c \in Here
<1>1. TypeOK
  BY DEF TableInv, EntryPerThread
<1>2. c \in 0 .. created
  <2>1. CASE c = 0
    BY <1>1, <2>1 DEF TypeOK
  <2>2. CASE c \in Created /\ ~(c > created)
    BY <1>1, <2>2, ConstantsOK DEF TypeOK, Created
  <2>3. CASE c \in Created /\ c > created
    BY <2>3 DEF TableInv, NotYet
  <2> QED BY <2>1, <2>2, <2>3, ThreadNumbers
<1>3. c \notin gone
  BY DEF TableInv, Departed
<1> QED BY <1>2, <1>3 DEF Here

(* The parts of the state that the lists and the ids are made of. *)
lists == <<free, used, gone, owner, created, entryOf>>

(* A step takes an entry, gives the entry of one thread back, or leaves    *)
(* the lists and the ids alone.                                            *)
LEMMA TableSteps ==
    ASSUME TableInv, [Next]_vars
    PROVE  \/ UNCHANGED lists
           \/ \E t \in Threads, kind \in Kinds, name \in Aliases \cup {NoAlias} :
                 Setup(t, kind, name)
           \/ \E c \in Here \ {0} : Th_delete(c) /\ UNCHANGED <<created, entryOf>>
<1> DEFINE Changed ==
              \/ UNCHANGED lists
              \/ \E t \in Threads, kind \in Kinds, name \in Aliases \cup {NoAlias} :
                    Setup(t, kind, name)
              \/ \E c \in Here \ {0} : Th_delete(c) /\ UNCHANGED <<created, entryOf>>
<1> USE DEF table, fields, ids, facts, counts, lists
<1>0. ASSUME UNCHANGED vars PROVE Changed
  BY <1>0 DEF vars
<1>1. ASSUME NEW t \in Threads, NEW kind \in Kinds, NEW name \in Aliases \cup {NoAlias},
              Setup(t, kind, name)
       PROVE  Changed
  BY <1>1
<1>2. ASSUME NEW t \in Threads, Look_for_alias(t) PROVE Changed
  BY <1>2 DEF Look_for_alias, Goto
<1>3. ASSUME NEW t \in Threads, Assert_alias(t) PROVE Changed
  BY <1>3 DEF Assert_alias, Goto
<1>4. ASSUME NEW t \in Threads, Reclaim_setup(t) PROVE Changed
  <2>1. on[t] \in Here \ {0}
    BY <1>4, CalleeHere DEF Reclaim_setup, Creating, Reaping
  <2> QED BY <1>4, <2>1 DEF Reclaim_setup
<1>5. ASSUME NEW t \in Threads, Spawn(t) PROVE Changed
  BY <1>5 DEF Spawn, Goto
<1>6. ASSUME NEW t \in Threads, Spawn_refused(t) PROVE Changed
  BY <1>6 DEF Spawn_refused, Goto
<1>7. ASSUME NEW t \in Threads, Undo(t) PROVE Changed
  <2>1. on[t] \in Here \ {0}
    BY <1>7, CalleeHere DEF Undo, Creating, Reaping
  <2> QED BY <1>7, <2>1 DEF Undo
<1>8. ASSUME NEW t \in Threads, Mark_valid(t) PROVE Changed
  BY <1>8 DEF Mark_valid, Goto
<1>9. ASSUME NEW t \in Threads, Xsb_thread_run(t) PROVE Changed
  BY <1>9 DEF Xsb_thread_run, Goto
<1>10. ASSUME NEW t \in Threads, NEW how \in Results,
              End_with(t, how)
       PROVE  Changed
  BY <1>10 DEF End_with, Goto
<1>11. ASSUME NEW t \in Threads, Thread_exit(t) PROVE Changed
  <2>1. t \in Here \ {0}
    BY <1>11, RunningHere DEF Thread_exit, TableInv, MainHere, Calling, Ended
  <2> QED BY <1>11, <2>1 DEF Thread_exit
<1>12. ASSUME NEW t \in Threads, Read_count(t) PROVE Changed
  BY <1>12 DEF Read_count, Goto
<1>13. ASSUME NEW t \in Threads, Write_count(t) PROVE Changed
  BY <1>13 DEF Write_count, Goto
<1>14. ASSUME NEW t \in Threads, NEW c \in Created, Join(t, c) PROVE Changed
  BY <1>14 DEF Join, Claim, Valid, Goto
<1>15. ASSUME NEW t \in Threads, Pthread_join(t) PROVE Changed
  BY <1>15 DEF Pthread_join, Goto
<1>16. ASSUME NEW t \in Threads, Reclaim(t) PROVE Changed
  <2>1. on[t] \in Here \ {0}
    BY <1>16, CalleeHere DEF Reclaim, Creating, Reaping
  <2> QED BY <1>16, <2>1 DEF Reclaim
<1>17. ASSUME NEW t \in Threads, Join_status(t) PROVE Changed
  BY <1>17 DEF Join_status, Goto
<1>18. ASSUME NEW t \in Threads, NEW c \in Created, Detach(t, c) PROVE Changed
  BY <1>18 DEF Detach, Claim, Valid, Goto
<1>19. ASSUME NEW t \in Threads, Detach_mark(t) PROVE Changed
  <2>1. on[t] \in Here \ {0}
    BY <1>19, CalleeHere DEF Detach_mark, Creating, Reaping
  <2> QED BY <1>19, <2>1 DEF Detach_mark
<1>20. ASSUME NEW t \in Threads, Detach_retract(t) PROVE Changed
  BY <1>20 DEF Detach_retract, Without_alias, Goto
<1> QED
  BY <1>0, <1>1, <1>2, <1>3, <1>4, <1>5, <1>6, <1>7, <1>8, <1>9,
     <1>10, <1>11, <1>12, <1>13, <1>14, <1>15, <1>16, <1>17, <1>18,
     <1>19, <1>20
     DEF Next, Create, End, Reap

(* Threads that are there have different entries. *)
LEMMA EntriesDiffer ==
    ASSUME Owned, NEW c \in Here, NEW d \in Here, entryOf[c] = entryOf[d]
    PROVE  c = d
BY DEF Owned

(* Taking an entry. *)
LEMMA SetupTable ==
    ASSUME TableInv, NEW t \in Threads, NEW kind \in Kinds,
           NEW name \in Aliases \cup {NoAlias}, Setup(t, kind, name)
    PROVE  /\ Owned' /\ SlotsDistinct'
           /\ Head(free) \in Slots \ used
           /\ Here' = Here \cup {created + 1}
           /\ entryOf'[created + 1] = Head(free)
           /\ \A c \in Here : c # created + 1 /\ entryOf'[c] = entryOf[c] /\ entryOf[c] # Head(free)
           /\ created + 1 \in Created /\ created + 1 \notin gone
<1>1. /\ TypeOK /\ Owned /\ SlotsDistinct /\ gone \subseteq 1 .. created
  BY EntryPerThreadIs DEF TableInv, NotYet
<1>2. /\ Head(free) \in Slots /\ Head(free) = free[1] /\ 1 \in DOMAIN free
      /\ free' = Tail(free) /\ DOMAIN free' = 1 .. Len(free) - 1
      /\ Len(free) \in Nat /\ DOMAIN free = 1 .. Len(free)
      /\ \A i \in 1 .. Len(free) - 1 : free'[i] = free[i + 1]
  BY <1>1, HeadFree DEF Setup, TypeOK
<1>3. Head(free) \notin used
  BY <1>1, <1>2 DEF SlotsDistinct
<1>4. /\ created \in Nat /\ created' = created + 1 /\ gone' = gone
      /\ created + 1 \in Created /\ created + 1 \in Threads
  BY <1>1, ThreadNumbers, ConstantsOK DEF Setup, TypeOK, Created
<1>5. Here' = Here \cup {created + 1} /\ created + 1 \notin gone /\ created + 1 \notin Here
  BY <1>1, <1>4 DEF Here
<1>6. Here \subseteq Threads
  BY <1>1, ConstantsOK DEF Here, TypeOK, Threads
<1>7. entryOf' = [entryOf EXCEPT ![created + 1] = Head(free)]
  BY DEF Setup
<1>8. /\ entryOf'[created + 1] = Head(free)
      /\ \A c \in Here : c # created + 1 /\ entryOf'[c] = entryOf[c]
  BY <1>1, <1>4, <1>5, <1>6, <1>7 DEF TypeOK
<1>9. \A c \in Here : entryOf[c] \in used /\ entryOf[c] # Head(free)
  BY <1>1, <1>3 DEF Owned
<1>10. used' = used \cup {Head(free)} /\ owner' = [owner EXCEPT ![Head(free)] = created + 1]
  BY DEF Setup
<1>11. Owned'
  <2>1. used' = {entryOf'[c] : c \in Here'}
    BY <1>1, <1>5, <1>8, <1>10 DEF Owned
  <2>2. ASSUME NEW c \in Here' PROVE owner'[entryOf'[c]] = c
    <3>1. CASE c = created + 1
      BY <1>1, <1>2, <1>8, <1>10, <3>1 DEF TypeOK
    <3>2. CASE c \in Here
      <4>1. entryOf'[c] = entryOf[c] /\ entryOf[c] # Head(free) /\ entryOf[c] \in Slots
        BY <1>1, <1>6, <1>8, <1>9, <3>2 DEF TypeOK
      <4> QED BY <1>1, <1>10, <3>2, <4>1 DEF Owned, TypeOK
    <3> QED BY <1>5, <3>1, <3>2
  <2> QED BY <2>1, <2>2 DEF Owned
<1>12. SlotsDistinct'
  <2>1. \A i \in DOMAIN free' : i \in DOMAIN free /\ i + 1 \in DOMAIN free /\ i \in Int /\ i + 1 # 1
                                 /\ free'[i] = free[i + 1]
    BY <1>2
  <2> QED BY <1>1, <1>2, <1>10, <2>1 DEF SlotsDistinct
<1> QED BY <1>2, <1>3, <1>4, <1>5, <1>8, <1>9, <1>11, <1>12

(* Giving one back. *)
LEMMA DeleteTable ==
    ASSUME TableInv, NEW c \in Here \ {0}, Th_delete(c), UNCHANGED <<created, entryOf>>
    PROVE  /\ Owned' /\ SlotsDistinct'
           /\ entryOf[c] \in used \ {0}
           /\ Here' = Here \ {c}
<1>1. /\ TypeOK /\ Owned /\ SlotsDistinct
  BY EntryPerThreadIs DEF TableInv
<1>2. c \in Threads /\ Here \subseteq Threads /\ 0 \in Here
  BY <1>1, ConstantsOK, ThreadNumbers DEF Here, TypeOK, Threads, Created
<1>3. entryOf[c] \in Slots /\ entryOf[c] \in used
  BY <1>1, <1>2 DEF Owned, TypeOK
<1>4. entryOf[c] # 0
  BY <1>1, <1>2, EntriesDiffer DEF TableInv, MainHere
<1>5. Here' = Here \ {c}
  BY DEF Here, Th_delete
<1>6. Owned'
  <2>1. used' = {entryOf[d] : d \in Here \ {c}}
    BY <1>1, EntriesDiffer DEF Owned, Th_delete
  <2> QED BY <1>1, <1>5, <2>1 DEF Owned, Th_delete
<1>7. SlotsDistinct'
  <2>1. /\ Len(free) \in Nat /\ DOMAIN free = 1 .. Len(free)
        /\ DOMAIN free' = 1 .. Len(free) + 1
        /\ \A i \in 1 .. Len(free) : free'[i] = free[i]
        /\ free'[Len(free) + 1] = entryOf[c]
        /\ free' \in Seq(Slots)
    <3>1. free \in Seq(Slots) /\ free' = Append(free, entryOf[c])
      BY <1>1 DEF TypeOK, Th_delete
    <3>2. /\ free' \in Seq(Slots) /\ Len(free') = Len(free) + 1
          /\ \A i \in 1 .. Len(free) : free'[i] = free[i]
          /\ free'[Len(free) + 1] = entryOf[c]
      BY <1>3, <3>1, AppendProperties
    <3> QED BY <3>1, <3>2, LenProperties
  <2>2. \A i \in DOMAIN free : free[i] # entryOf[c]
    BY <1>1, <1>3 DEF SlotsDistinct
  <2>3. used' = used \ {entryOf[c]}
    BY DEF Th_delete
  <2> QED BY <1>1, <2>1, <2>2, <2>3 DEF SlotsDistinct
<1> QED BY <1>3, <1>4, <1>5, <1>6, <1>7

(* Every step keeps the entries with their threads, and the lists apart. *)
LEMMA StepTable ==
    ASSUME TableInv, [Next]_vars
    PROVE  Owned' /\ SlotsDistinct'
<1>1. CASE UNCHANGED lists
  BY <1>1, EntryPerThreadIs DEF TableInv, lists, Owned, Here, SlotsDistinct
<1> QED BY <1>1, TableSteps, SetupTable, DeleteTable

-----------------------------------------------------------------------------
(* Where the threads are *)

(* The main thread stays in its entry. *)
LEMMA StepMain ==
    ASSUME TableInv, [Next]_vars
    PROVE  MainHere'
<1> USE ThreadNumbers DEF table, fields, ids, facts, counts
<1>a. TypeOK /\ Owned
  BY EntryPerThreadIs DEF TableInv
<1>b. /\ pc \in [Threads -> Places] /\ on \in [Threads -> Threads]
      /\ entryOf \in [Threads -> Slots] /\ MainHere
  BY <1>a DEF TypeOK, TableInv
<1>0. ASSUME UNCHANGED vars PROVE MainHere'
  BY <1>0 DEF vars, TableInv, MainHere
<1>1. ASSUME NEW t \in Threads, NEW kind \in Kinds, NEW name \in Aliases \cup {NoAlias},
              Setup(t, kind, name)
       PROVE  MainHere'
  BY <1>1, <1>b, SetupTable DEF Setup, Goto, MainHere, Calling
<1>2. ASSUME NEW t \in Threads, Look_for_alias(t) PROVE MainHere'
  BY <1>2, <1>b DEF Look_for_alias, Goto, MainHere, Calling
<1>3. ASSUME NEW t \in Threads, Assert_alias(t) PROVE MainHere'
  BY <1>3, <1>b DEF Assert_alias, Goto, MainHere, Calling
<1>4. ASSUME NEW t \in Threads, Reclaim_setup(t) PROVE MainHere'
  BY <1>4, <1>b DEF Reclaim_setup, Goto, Th_delete, MainHere, Calling
<1>5. ASSUME NEW t \in Threads, Spawn(t) PROVE MainHere'
  BY <1>5, <1>b DEF Spawn, Goto, MainHere, Calling, TableInv, Creation, Creating
<1>6. ASSUME NEW t \in Threads, Spawn_refused(t) PROVE MainHere'
  BY <1>6, <1>b DEF Spawn_refused, Goto, MainHere, Calling
<1>7. ASSUME NEW t \in Threads, Undo(t) PROVE MainHere'
  BY <1>7, <1>b DEF Undo, Goto, Th_delete, MainHere, Calling
<1>8. ASSUME NEW t \in Threads, Mark_valid(t) PROVE MainHere'
  BY <1>8, <1>b DEF Mark_valid, Goto, MainHere, Calling
<1>9. ASSUME NEW t \in Threads, Xsb_thread_run(t) PROVE MainHere'
  BY <1>9, <1>b DEF Xsb_thread_run, Goto, MainHere, Calling
<1>10. ASSUME NEW t \in Threads, NEW how \in Results,
              End_with(t, how)
       PROVE  MainHere'
  BY <1>10, <1>b DEF End_with, Goto, MainHere, Calling
<1>11. ASSUME NEW t \in Threads, Thread_exit(t) PROVE MainHere'
  BY <1>11, <1>b DEF Thread_exit, Goto, Th_delete, MainHere, Calling
<1>12. ASSUME NEW t \in Threads, Read_count(t) PROVE MainHere'
  BY <1>12, <1>b DEF Read_count, Goto, MainHere, Calling
<1>13. ASSUME NEW t \in Threads, Write_count(t) PROVE MainHere'
  BY <1>13, <1>b DEF Write_count, Goto, MainHere, Calling
<1>14. ASSUME NEW t \in Threads, NEW c \in Created, Join(t, c) PROVE MainHere'
  BY <1>14, <1>b DEF Join, Claim, Valid, Goto, MainHere, Calling
<1>15. ASSUME NEW t \in Threads, Pthread_join(t) PROVE MainHere'
  BY <1>15, <1>b DEF Pthread_join, Goto, MainHere, Calling
<1>16. ASSUME NEW t \in Threads, Reclaim(t) PROVE MainHere'
  BY <1>16, <1>b DEF Reclaim, Goto, Th_delete, MainHere, Calling
<1>17. ASSUME NEW t \in Threads, Join_status(t) PROVE MainHere'
  BY <1>17, <1>b DEF Join_status, Goto, MainHere, Calling
<1>18. ASSUME NEW t \in Threads, NEW c \in Created, Detach(t, c) PROVE MainHere'
  BY <1>18, <1>b DEF Detach, Claim, Valid, Goto, MainHere, Calling
<1>19. ASSUME NEW t \in Threads, Detach_mark(t) PROVE MainHere'
  BY <1>19, <1>b DEF Detach_mark, Goto, Th_delete, MainHere, Calling
<1>20. ASSUME NEW t \in Threads, Detach_retract(t) PROVE MainHere'
  BY <1>20, <1>b DEF Detach_retract, Without_alias, Goto, MainHere, Calling
<1> QED
  BY <1>0, <1>1, <1>2, <1>3, <1>4, <1>5, <1>6, <1>7, <1>8, <1>9,
     <1>10, <1>11, <1>12, <1>13, <1>14, <1>15, <1>16, <1>17, <1>18,
     <1>19, <1>20
     DEF Next, Create, End, Reap

(* Calls stay calls about threads that were created. *)
LEMMA StepCallees ==
    ASSUME TableInv, [Next]_vars
    PROVE  Callees'
<1> USE ThreadNumbers DEF table, fields, ids, facts, counts
<1>a. TypeOK /\ Owned
  BY EntryPerThreadIs DEF TableInv
<1>b. /\ pc \in [Threads -> Places] /\ on \in [Threads -> Threads]
      /\ created \in Nat /\ Callees
  BY <1>a, ConstantsOK DEF TypeOK, TableInv
<1>0. ASSUME UNCHANGED vars PROVE Callees'
  BY <1>0 DEF vars, TableInv, Callees
<1>1. ASSUME NEW t \in Threads, NEW kind \in Kinds, NEW name \in Aliases \cup {NoAlias},
              Setup(t, kind, name)
       PROVE  Callees'
  BY <1>1, <1>b, SetupTable DEF Setup, Goto, Callees, Calling
<1>2. ASSUME NEW t \in Threads, Look_for_alias(t) PROVE Callees'
  BY <1>2, <1>b DEF Look_for_alias, Goto, Callees, Calling
<1>3. ASSUME NEW t \in Threads, Assert_alias(t) PROVE Callees'
  BY <1>3, <1>b DEF Assert_alias, Goto, Callees, Calling
<1>4. ASSUME NEW t \in Threads, Reclaim_setup(t) PROVE Callees'
  BY <1>4, <1>b DEF Reclaim_setup, Goto, Th_delete, Callees, Calling
<1>5. ASSUME NEW t \in Threads, Spawn(t) PROVE Callees'
  BY <1>5, <1>b DEF Spawn, Goto, Callees, Calling
<1>6. ASSUME NEW t \in Threads, Spawn_refused(t) PROVE Callees'
  BY <1>6, <1>b DEF Spawn_refused, Goto, Callees, Calling
<1>7. ASSUME NEW t \in Threads, Undo(t) PROVE Callees'
  BY <1>7, <1>b DEF Undo, Goto, Th_delete, Callees, Calling
<1>8. ASSUME NEW t \in Threads, Mark_valid(t) PROVE Callees'
  BY <1>8, <1>b DEF Mark_valid, Goto, Callees, Calling
<1>9. ASSUME NEW t \in Threads, Xsb_thread_run(t) PROVE Callees'
  BY <1>9, <1>b DEF Xsb_thread_run, Goto, Callees, Calling
<1>10. ASSUME NEW t \in Threads, NEW how \in Results,
              End_with(t, how)
       PROVE  Callees'
  BY <1>10, <1>b DEF End_with, Goto, Callees, Calling
<1>11. ASSUME NEW t \in Threads, Thread_exit(t) PROVE Callees'
  BY <1>11, <1>b DEF Thread_exit, Goto, Th_delete, Callees, Calling
<1>12. ASSUME NEW t \in Threads, Read_count(t) PROVE Callees'
  BY <1>12, <1>b DEF Read_count, Goto, Callees, Calling
<1>13. ASSUME NEW t \in Threads, Write_count(t) PROVE Callees'
  BY <1>13, <1>b DEF Write_count, Goto, Callees, Calling
<1>14. ASSUME NEW t \in Threads, NEW c \in Created, Join(t, c) PROVE Callees'
  BY <1>14, <1>b DEF Join, Claim, Valid, Goto, Callees, Calling, TableInv, NotYet, Created
<1>15. ASSUME NEW t \in Threads, Pthread_join(t) PROVE Callees'
  BY <1>15, <1>b DEF Pthread_join, Goto, Callees, Calling
<1>16. ASSUME NEW t \in Threads, Reclaim(t) PROVE Callees'
  BY <1>16, <1>b DEF Reclaim, Goto, Th_delete, Callees, Calling
<1>17. ASSUME NEW t \in Threads, Join_status(t) PROVE Callees'
  BY <1>17, <1>b DEF Join_status, Goto, Callees, Calling
<1>18. ASSUME NEW t \in Threads, NEW c \in Created, Detach(t, c) PROVE Callees'
  BY <1>18, <1>b DEF Detach, Claim, Valid, Goto, Callees, Calling, TableInv, NotYet, Created
<1>19. ASSUME NEW t \in Threads, Detach_mark(t) PROVE Callees'
  <2>1. /\ UNCHANGED <<on, created>> /\ pc[t] = "mark"
        /\ \E place \in {"run", "retract"} : pc' = [pc EXCEPT ![t] = place]
    BY <1>19 DEF Detach_mark, Goto
  <2> QED BY <1>b, <2>1 DEF Callees, Calling
<1>20. ASSUME NEW t \in Threads, Detach_retract(t) PROVE Callees'
  BY <1>20, <1>b DEF Detach_retract, Without_alias, Goto, Callees, Calling
<1> QED
  BY <1>0, <1>1, <1>2, <1>3, <1>4, <1>5, <1>6, <1>7, <1>8, <1>9,
     <1>10, <1>11, <1>12, <1>13, <1>14, <1>15, <1>16, <1>17, <1>18,
     <1>19, <1>20
     DEF Next, Create, End, Reap

(* What is not created does not run, what is claimed has. *)
LEMMA StepNotYet ==
    ASSUME TableInv, [Next]_vars
    PROVE  NotYet'
<1> USE ThreadNumbers DEF table, fields, ids, facts, counts
<1>a. TypeOK /\ Owned
  BY EntryPerThreadIs DEF TableInv
<1>b. gone' \subseteq 1 .. created' /\ created' >= created /\ created \in Nat /\ created' \in Nat
  <2>1. CASE UNCHANGED lists
    BY <1>a, <2>1 DEF TableInv, NotYet, lists, TypeOK
  <2>2. ASSUME NEW t \in Threads, NEW kind \in Kinds, NEW name \in Aliases \cup {NoAlias},
               Setup(t, kind, name)
        PROVE  /\ gone' \subseteq 1 .. created' /\ created' >= created
               /\ created \in Nat /\ created' \in Nat
    BY <1>a, <2>2 DEF TableInv, NotYet, Setup, TypeOK
  <2>3. ASSUME NEW c \in Here \ {0}, Th_delete(c), UNCHANGED <<created, entryOf>>
        PROVE  /\ gone' \subseteq 1 .. created' /\ created' >= created
               /\ created \in Nat /\ created' \in Nat
    BY <1>a, <2>3 DEF TableInv, NotYet, Th_delete, Here, TypeOK
  <2> QED BY <2>1, <2>2, <2>3, TableSteps
<1>c. /\ pc \in [Threads -> Places] /\ claimed \subseteq Created /\ NotYet
  BY <1>a DEF TypeOK, TableInv
<1>0. ASSUME UNCHANGED vars PROVE NotYet'
  BY <1>0 DEF vars, TableInv, NotYet
<1>1. ASSUME NEW t \in Threads, NEW kind \in Kinds, NEW name \in Aliases \cup {NoAlias},
              Setup(t, kind, name)
       PROVE  NotYet'
  BY <1>1, <1>b, <1>c DEF Setup, Goto, NotYet, Created
<1>2. ASSUME NEW t \in Threads, Look_for_alias(t) PROVE NotYet'
  BY <1>2, <1>b, <1>c DEF Look_for_alias, Goto, NotYet, Created
<1>3. ASSUME NEW t \in Threads, Assert_alias(t) PROVE NotYet'
  BY <1>3, <1>b, <1>c DEF Assert_alias, Goto, NotYet, Created
<1>4. ASSUME NEW t \in Threads, Reclaim_setup(t) PROVE NotYet'
  <2>1. UNCHANGED <<created, claimed>> /\ pc' = [pc EXCEPT ![t] = "run"]
    BY <1>4 DEF Reclaim_setup, Goto
  <2> QED BY <1>4, <1>b, <1>c, <2>1 DEF Reclaim_setup, NotYet
<1>5. ASSUME NEW t \in Threads, Spawn(t) PROVE NotYet'
  <2>1. on[t] \in 1 .. created
    BY <1>5 DEF Spawn, Calling, TableInv, Callees
  <2>2. UNCHANGED <<created, claimed>> /\ pc' = [pc EXCEPT ![t] = "valid", ![on[t]] = "start"]
    BY <1>5 DEF Spawn
  <2> QED BY <1>5, <1>b, <1>c, <2>1, <2>2 DEF Spawn, NotYet
<1>6. ASSUME NEW t \in Threads, Spawn_refused(t) PROVE NotYet'
  BY <1>6, <1>b, <1>c DEF Spawn_refused, Goto, NotYet, Created
<1>7. ASSUME NEW t \in Threads, Undo(t) PROVE NotYet'
  BY <1>7, <1>b, <1>c DEF Undo, Goto, Th_delete, NotYet, Created
<1>8. ASSUME NEW t \in Threads, Mark_valid(t) PROVE NotYet'
  BY <1>8, <1>b, <1>c DEF Mark_valid, Goto, NotYet, Created
<1>9. ASSUME NEW t \in Threads, Xsb_thread_run(t) PROVE NotYet'
  BY <1>9, <1>b, <1>c DEF Xsb_thread_run, Goto, NotYet, Created
<1>10. ASSUME NEW t \in Threads, NEW how \in Results,
              End_with(t, how)
       PROVE  NotYet'
  BY <1>10, <1>b, <1>c DEF End_with, Goto, NotYet, Created
<1>11. ASSUME NEW t \in Threads, Thread_exit(t) PROVE NotYet'
  <2>1. UNCHANGED <<created, claimed>> /\ pc' = [pc EXCEPT ![t] = "uncount"]
    BY <1>11 DEF Thread_exit, Goto
  <2> QED BY <1>11, <1>b, <1>c, <2>1 DEF Thread_exit, NotYet
<1>12. ASSUME NEW t \in Threads, Read_count(t) PROVE NotYet'
  BY <1>12, <1>b, <1>c DEF Read_count, Goto, NotYet, Created
<1>13. ASSUME NEW t \in Threads, Write_count(t) PROVE NotYet'
  BY <1>13, <1>b, <1>c DEF Write_count, Goto, NotYet, Created
<1>14. ASSUME NEW t \in Threads, NEW c \in Created, Join(t, c) PROVE NotYet'
  BY <1>14, <1>b, <1>c DEF Join, Claim, Valid, Goto, NotYet, Created
<1>15. ASSUME NEW t \in Threads, Pthread_join(t) PROVE NotYet'
  BY <1>15, <1>b, <1>c DEF Pthread_join, Goto, NotYet, Created
<1>16. ASSUME NEW t \in Threads, Reclaim(t) PROVE NotYet'
  BY <1>16, <1>b, <1>c DEF Reclaim, Goto, Th_delete, NotYet, Created
<1>17. ASSUME NEW t \in Threads, Join_status(t) PROVE NotYet'
  BY <1>17, <1>b, <1>c DEF Join_status, Goto, NotYet, Created
<1>18. ASSUME NEW t \in Threads, NEW c \in Created, Detach(t, c) PROVE NotYet'
  BY <1>18, <1>b, <1>c DEF Detach, Claim, Valid, Goto, NotYet, Created
<1>19. ASSUME NEW t \in Threads, Detach_mark(t) PROVE NotYet'
  <2>1. /\ UNCHANGED <<created, claimed>>
        /\ pc' = [pc EXCEPT ![t] = "run"] \/ pc' = [pc EXCEPT ![t] = "retract"]
    BY <1>19 DEF Detach_mark, Goto
  <2> QED BY <1>19, <1>b, <1>c, <2>1 DEF Detach_mark, NotYet
<1>20. ASSUME NEW t \in Threads, Detach_retract(t) PROVE NotYet'
  BY <1>20, <1>b, <1>c DEF Detach_retract, Without_alias, Goto, NotYet, Created
<1> QED
  BY <1>0, <1>1, <1>2, <1>3, <1>4, <1>5, <1>6, <1>7, <1>8, <1>9,
     <1>10, <1>11, <1>12, <1>13, <1>14, <1>15, <1>16, <1>17, <1>18,
     <1>19, <1>20
     DEF Next, Create, End, Reap

(* A thread that is being created stays its creator's. *)
LEMMA StepCreation ==
    ASSUME TableInv, [Next]_vars
    PROVE  Creation'
<1> USE ThreadNumbers DEF table, fields, ids, facts, counts
<1>a. TypeOK /\ Owned
  BY EntryPerThreadIs DEF TableInv
<1>b. pc \in [Threads -> Places] /\ on \in [Threads -> Threads] /\ Creation
  BY <1>a DEF TypeOK, TableInv
<1>0. ASSUME UNCHANGED vars PROVE Creation'
  BY <1>0 DEF vars, TableInv, Creation
<1>1. ASSUME NEW t \in Threads, NEW kind \in Kinds, NEW name \in Aliases \cup {NoAlias},
              Setup(t, kind, name)
       PROVE  Creation'
  <2>1. /\ created + 1 \in Threads /\ created + 1 \in Created /\ created + 1 \notin gone
        /\ created' = created + 1 /\ created \in Nat
    <3>1. created + 1 \in Created /\ created + 1 \notin gone
      BY <1>1, SetupTable
    <3>2. created' = created + 1 /\ created \in Nat
      BY <1>1, <1>a, ConstantsOK DEF Setup, TypeOK
    <3> QED BY <3>1, <3>2
  <2>2. pc[created + 1] = "none"
    BY <2>1 DEF TableInv, NotYet
  <2>3. \A u \in Threads : pc[u] \in Creating => on[u] \in 1 .. created
    BY DEF TableInv, Callees, Creating, Calling
  <2>4. /\ pc' = [pc EXCEPT ![t] = IF name = NoAlias THEN "spawn" ELSE "alias"]
        /\ on' = [on EXCEPT ![t] = created + 1]
        /\ nameOf' = [nameOf EXCEPT ![created + 1] = name]
        /\ pc[t] = "run" /\ UNCHANGED gone
    BY <1>1 DEF Setup, Goto
  <2>5. created + 1 # t
    BY <2>2, <2>4
  <2>6. ASSUME NEW u \in Threads, pc'[u] \in Creating, u # t
         PROVE  /\ pc'[on'[u]] = "none" /\ on'[u] \notin gone' /\ on'[u] # created + 1
                /\ pc'[u] \in {"alias", "assert"} => nameOf'[on'[u]] # NoAlias
                /\ pc'[u] = pc[u] /\ on'[u] = on[u]
    <3>1. pc'[u] = pc[u] /\ on'[u] = on[u] /\ on[u] \in 1 .. created
      BY <1>a, <2>3, <2>4, <2>6 DEF TypeOK
    <3>2. on[u] \in Threads /\ on[u] # created + 1 /\ pc[on[u]] = "none" /\ on[u] # t
      BY <1>a, <2>1, <2>4, <2>6, <3>1 DEF TypeOK, TableInv, Creation
    <3> QED BY <1>a, <2>4, <2>6, <3>1, <3>2 DEF TypeOK, TableInv, Creation
  <2>7. /\ pc'[on'[t]] = "none" /\ on'[t] = created + 1 /\ on'[t] \notin gone'
        /\ pc'[t] \in {"alias", "assert"} => nameOf'[on'[t]] # NoAlias
    BY <1>a, <2>1, <2>2, <2>4, <2>5 DEF TypeOK
  <2>8. ASSUME NEW u \in Threads, pc'[u] \in Creating
         PROVE  /\ pc'[on'[u]] = "none" /\ on'[u] \notin gone'
                /\ pc'[u] \in {"alias", "assert"} => nameOf'[on'[u]] # NoAlias
    BY <2>6, <2>7, <2>8
  <2>9. ASSUME NEW u \in Threads, pc'[u] \in Creating,
               NEW v \in Threads, pc'[v] \in Creating, on'[v] = on'[u]
         PROVE  v = u
    <3>1. u = t <=> v = t
      BY <2>6, <2>7, <2>9
    <3>2. CASE u # t /\ v # t
      BY <2>6, <2>9, <3>2 DEF TableInv, Creation
    <3> QED BY <3>1, <3>2
  <2> QED BY <2>8, <2>9 DEF Creation
<1>2. ASSUME NEW t \in Threads, Look_for_alias(t) PROVE Creation'
  <2>1. /\ UNCHANGED <<on, gone, nameOf>> /\ pc[t] = "alias"
        /\ pc' = [pc EXCEPT ![t] = "unsetup"] \/ pc' = [pc EXCEPT ![t] = "assert"]
    BY <1>2 DEF Look_for_alias, Goto
  <2>5. pc \in [Threads -> Places] /\ on \in [Threads -> Threads] /\ Creation
    BY <1>a DEF TypeOK, TableInv
  <2>2. ASSUME NEW u \in Threads, pc'[u] \in Creating
         PROVE  /\ pc[u] \in Creating /\ pc[on[u]] = "none" /\ on[u] # t /\ on[u] \in Threads
                /\ pc'[u] \in {"alias", "assert"} => pc[u] \in {"alias", "assert"}
    BY <2>1, <2>2, <2>5 DEF Creation, Creating
  <2>3. ASSUME NEW u \in Threads, pc'[u] \in Creating PROVE pc'[on[u]] = "none"
    <3>1. on[u] # t /\ on[u] \in Threads /\ pc[on[u]] = "none"
      BY <2>2, <2>3
    <3> QED BY <2>1, <2>5, <3>1
  <2> QED BY <2>1, <2>2, <2>3, <2>5 DEF Creation
<1>3. ASSUME NEW t \in Threads, Assert_alias(t) PROVE Creation'
  BY <1>3, <1>b DEF Assert_alias, Goto, Creation, Creating
<1>4. ASSUME NEW t \in Threads, Reclaim_setup(t) PROVE Creation'
  BY <1>4, <1>b DEF Reclaim_setup, Goto, Th_delete, Creation, Creating
<1>5. ASSUME NEW t \in Threads, Spawn(t) PROVE Creation'
  <2>1. /\ UNCHANGED <<on, gone, nameOf>> /\ pc[t] = "spawn"
        /\ pc' = [pc EXCEPT ![t] = "valid", ![on[t]] = "start"]
    BY <1>5 DEF Spawn
  <2>5. pc \in [Threads -> Places] /\ on \in [Threads -> Threads] /\ Creation
    BY <1>a DEF TypeOK, TableInv
  <2>2. on[t] # t
    BY <2>1, <2>5 DEF Creation, Creating
  <2>3. ASSUME NEW u \in Threads, pc'[u] \in Creating
         PROVE  u # t /\ u # on[t] /\ pc'[u] = pc[u]
    BY <2>1, <2>2, <2>3, <2>5 DEF Creating
  <2>4. ASSUME NEW u \in Threads, pc'[u] \in Creating
         PROVE  pc'[on[u]] = "none" /\ pc[u] \in Creating
    <3>1. pc[u] \in Creating /\ u # t /\ on[u] \in Threads
      BY <2>3, <2>4, <2>5
    <3>2. on[u] # on[t] /\ pc[on[u]] = "none" /\ on[u] # t
      BY <2>1, <2>5, <3>1 DEF Creation, Creating
    <3>3. on[u] \in Threads /\ on[t] \in Threads /\ on[u] # on[t] /\ pc[on[u]] = "none" /\ on[u] # t
      BY <2>5, <3>1, <3>2
    <3>4. pc'[on[u]] = pc[on[u]]
      BY <2>1, <2>5, <3>3
    <3> QED BY <3>1, <3>3, <3>4
  <2>6. UNCHANGED <<on, gone, nameOf>>
    BY <2>1
  <2> QED BY <2>3, <2>4, <2>5, <2>6 DEF Creation
<1>6. ASSUME NEW t \in Threads, Spawn_refused(t) PROVE Creation'
  BY <1>6, <1>b DEF Spawn_refused, Goto, Creation, Creating
<1>7. ASSUME NEW t \in Threads, Undo(t) PROVE Creation'
  BY <1>7, <1>b DEF Undo, Goto, Th_delete, Creation, Creating
<1>8. ASSUME NEW t \in Threads, Mark_valid(t) PROVE Creation'
  BY <1>8, <1>b DEF Mark_valid, Goto, Creation, Creating
<1>9. ASSUME NEW t \in Threads, Xsb_thread_run(t) PROVE Creation'
  BY <1>9, <1>b DEF Xsb_thread_run, Goto, Creation, Creating
<1>10. ASSUME NEW t \in Threads, NEW how \in Results,
              End_with(t, how)
       PROVE  Creation'
  BY <1>10, <1>b DEF End_with, Goto, Creation, Creating
<1>11. ASSUME NEW t \in Threads, Thread_exit(t) PROVE Creation'
  <2>1. /\ gone' \subseteq gone \cup {t} /\ UNCHANGED <<on, nameOf>> /\ pc[t] = "exit"
        /\ pc' = [pc EXCEPT ![t] = "uncount"]
    BY <1>11 DEF Thread_exit, Th_delete, Goto
  <2> QED BY <1>b, <2>1 DEF Creation, Creating
<1>12. ASSUME NEW t \in Threads, Read_count(t) PROVE Creation'
  BY <1>12, <1>b DEF Read_count, Goto, Creation, Creating
<1>13. ASSUME NEW t \in Threads, Write_count(t) PROVE Creation'
  BY <1>13, <1>b DEF Write_count, Goto, Creation, Creating
<1>14. ASSUME NEW t \in Threads, NEW c \in Created, Join(t, c) PROVE Creation'
  BY <1>14, <1>b DEF Join, Claim, Valid, Goto, Creation, Creating
<1>15. ASSUME NEW t \in Threads, Pthread_join(t) PROVE Creation'
  BY <1>15, <1>b DEF Pthread_join, Goto, Creation, Creating
<1>16. ASSUME NEW t \in Threads, Reclaim(t) PROVE Creation'
  BY <1>16, <1>b DEF Reclaim, Goto, Th_delete, Creation, Creating, TableInv, Reapers, Reaping
<1>17. ASSUME NEW t \in Threads, Join_status(t) PROVE Creation'
  BY <1>17, <1>b DEF Join_status, Goto, Creation, Creating
<1>18. ASSUME NEW t \in Threads, NEW c \in Created, Detach(t, c) PROVE Creation'
  BY <1>18, <1>b DEF Detach, Claim, Valid, Goto, Creation, Creating
<1>19. ASSUME NEW t \in Threads, Detach_mark(t) PROVE Creation'
  <2>1. on[t] \in claimed
    BY <1>19 DEF Detach_mark, TableInv, Reapers, Reaping
  <2>2. pc[on[t]] # "none"
    BY <2>1 DEF TableInv, NotYet
  <2>3. gone' \subseteq gone \cup {on[t]} /\ UNCHANGED <<on, nameOf>>
    BY <1>19 DEF Detach_mark, Th_delete
  <2>4. pc[t] = "mark" /\ \E place \in {"run", "retract"} : pc' = [pc EXCEPT ![t] = place]
    BY <1>19 DEF Detach_mark, Goto
  <2>5. pc \in [Threads -> Places] /\ on \in [Threads -> Threads] /\ Creation
    BY <1>a DEF TypeOK, TableInv
  <2> QED BY <2>5, <2>2, <2>3, <2>4 DEF Creation, Creating
<1>20. ASSUME NEW t \in Threads, Detach_retract(t) PROVE Creation'
  BY <1>20, <1>b DEF Detach_retract, Without_alias, Goto, Creation, Creating
<1> QED
  BY <1>0, <1>1, <1>2, <1>3, <1>4, <1>5, <1>6, <1>7, <1>8, <1>9,
     <1>10, <1>11, <1>12, <1>13, <1>14, <1>15, <1>16, <1>17, <1>18,
     <1>19, <1>20
     DEF Next, Create, End, Reap

(* The reapers stay when no other begins, and nothing happens to the       *)
(* threads they wait for.                                                  *)
LEMMA ReapersKept ==
    ASSUME Reapers, claimed \subseteq claimed',
           \A u \in Threads : pc'[u] \in Reaping =>
              /\ pc[u] \in Reaping /\ on'[u] = on[u]
              /\ on[u] \notin gone' /\ ~detached'[entryOf'[on[u]]]
              /\ pc'[u] = "reclaim" => pc'[on[u]] = "over"
    PROVE  Reapers'
BY DEF Reapers

(* A thread that is joined or detached stays its reaper's. *)
LEMMA StepReapers ==
    ASSUME TableInv, [Next]_vars
    PROVE  Reapers'
<1> USE ThreadNumbers DEF table, fields, ids, facts, counts
<1>a. TypeOK /\ Owned
  BY EntryPerThreadIs DEF TableInv
<1>b. /\ pc \in [Threads -> Places] /\ on \in [Threads -> Threads]
      /\ detached \in [Slots -> BOOLEAN] /\ entryOf \in [Threads -> Slots]
      /\ claimed \subseteq Created /\ Reapers
  BY <1>a DEF TypeOK, TableInv
<1>c. \A u \in Threads : pc[u] \in Reaping => on[u] \in Here /\ pc[on[u]] # "none" /\ on[u] \in Created
  BY <1>b, CalleeHere DEF TableInv, NotYet, Reapers
<1>0. ASSUME UNCHANGED vars PROVE Reapers'
  BY <1>0 DEF vars, TableInv, Reapers
<1>1. ASSUME NEW t \in Threads, NEW kind \in Kinds, NEW name \in Aliases \cup {NoAlias},
              Setup(t, kind, name)
       PROVE  Reapers'
  <2>1. /\ \A c \in Here : entryOf'[c] = entryOf[c] /\ entryOf[c] # Head(free)
        /\ Head(free) \in Slots
    BY <1>1, SetupTable
  <2>2. /\ detached' = [detached EXCEPT ![Head(free)] = (kind = "detached")]
        /\ on' = [on EXCEPT ![t] = created + 1]
        /\ pc' = [pc EXCEPT ![t] = IF name = NoAlias THEN "spawn" ELSE "alias"]
        /\ pc[t] = "run" /\ UNCHANGED <<gone, claimed>>
    BY <1>1 DEF Setup, Goto
  <2>3. ASSUME NEW u \in Threads, pc'[u] \in Reaping
         PROVE  u # t /\ pc[u] = pc'[u] /\ on'[u] = on[u] /\ on[u] \in Here /\ entryOf[on[u]] \in Slots
    <3>1. u # t
      BY <1>b, <2>2, <2>3 DEF Reaping
    <3> QED BY <1>b, <1>c, <2>2, <2>3, <3>1
  <2> QED BY <1>b, <2>1, <2>2, <2>3, ReapersKept DEF Reapers
<1>2. ASSUME NEW t \in Threads, Look_for_alias(t) PROVE Reapers'
  BY <1>2, <1>b, <1>c DEF Look_for_alias, Goto, Reapers, Reaping
<1>3. ASSUME NEW t \in Threads, Assert_alias(t) PROVE Reapers'
  BY <1>3, <1>b, <1>c DEF Assert_alias, Goto, Reapers, Reaping
<1>4. ASSUME NEW t \in Threads, Reclaim_setup(t) PROVE Reapers'
  <2>1. /\ gone' \subseteq gone \cup {on[t]} /\ UNCHANGED <<on, detached, entryOf, claimed>>
        /\ pc' = [pc EXCEPT ![t] = "run"]
    BY <1>4 DEF Reclaim_setup, Th_delete, Goto
  <2>2. pc[on[t]] = "none"
    BY <1>4 DEF Reclaim_setup, TableInv, Creation, Creating
  <2>3. ASSUME NEW u \in Threads, pc'[u] \in Reaping
         PROVE  u # t /\ pc'[u] = pc[u] /\ on[u] # on[t]
    <3>1. u # t /\ pc'[u] = pc[u]
      BY <1>b, <2>1, <2>3 DEF Reaping
    <3> QED BY <1>c, <2>2, <2>3, <3>1
  <2>4. ASSUME NEW u \in Threads, pc'[u] = "reclaim" PROVE pc'[on[u]] = "over"
    <3>1. pc[u] = "reclaim" /\ pc[u] \in Reaping
      BY <2>3, <2>4 DEF Reaping
    <3>2. pc[on[u]] = "over" /\ pc[t] # "over"
      BY <1>b, <3>1, <1>4 DEF Reapers, Reclaim_setup
    <3> QED BY <1>b, <2>1, <3>2
  <2>5. ASSUME NEW u \in Threads, pc'[u] \in Reaping
         PROVE  on[u] \notin gone' /\ ~detached'[entryOf'[on[u]]]
    BY <1>b, <2>1, <2>3, <2>5 DEF Reapers
  <2> QED BY <1>b, <2>1, <2>3, <2>4, <2>5, ReapersKept
<1>5. ASSUME NEW t \in Threads, Spawn(t) PROVE Reapers'
  <2>1. /\ UNCHANGED <<on, gone, detached, entryOf, claimed>> /\ pc[t] = "spawn"
        /\ pc' = [pc EXCEPT ![t] = "valid", ![on[t]] = "start"]
    BY <1>5 DEF Spawn
  <2>2. pc[on[t]] = "none" /\ on[t] # t
    BY <2>1 DEF TableInv, Creation, Creating
  <2>3. \A u \in Threads : pc'[u] = (IF u = t THEN "valid" ELSE IF u = on[t] THEN "start" ELSE pc[u])
    BY <1>b, <2>1, <2>2
  <2>4. ASSUME NEW u \in Threads, pc'[u] \in Reaping PROVE u # t /\ u # on[t] /\ pc'[u] = pc[u]
    BY <2>3, <2>4 DEF Reaping
  <2>5. ASSUME NEW u \in Threads, pc'[u] = "reclaim" PROVE pc'[on[u]] = "over"
    <3>1. pc[u] = "reclaim"
      BY <2>4, <2>5 DEF Reaping
    <3>2. pc[on[u]] = "over" /\ on[u] \in Threads
      BY <1>b, <3>1 DEF Reapers, Reaping
    <3>3. on[u] # t /\ on[u] # on[t] /\ on[u] \in Threads
      BY <2>1, <2>2, <3>2
    <3> QED BY <2>3, <3>2, <3>3
  <2>6. ASSUME NEW u \in Threads, pc'[u] \in Reaping
        PROVE  on[u] \notin gone' /\ ~detached'[entryOf'[on[u]]]
    BY <1>b, <2>1, <2>4, <2>6 DEF Reapers
  <2> QED BY <1>b, <2>1, <2>4, <2>5, <2>6, ReapersKept
<1>6. ASSUME NEW t \in Threads, Spawn_refused(t) PROVE Reapers'
  BY <1>6, <1>b, <1>c DEF Spawn_refused, Goto, Reapers, Reaping
<1>7. ASSUME NEW t \in Threads, Undo(t) PROVE Reapers'
  <2>1. /\ gone' \subseteq gone \cup {on[t]} /\ UNCHANGED <<on, detached, entryOf, claimed>>
        /\ pc' = [pc EXCEPT ![t] = "run"]
    BY <1>7 DEF Undo, Th_delete, Goto
  <2>2. pc[on[t]] = "none"
    BY <1>7 DEF Undo, TableInv, Creation, Creating
  <2>3. ASSUME NEW u \in Threads, pc'[u] \in Reaping
         PROVE  u # t /\ pc'[u] = pc[u] /\ on[u] # on[t]
    <3>1. u # t /\ pc'[u] = pc[u]
      BY <1>b, <2>1, <2>3 DEF Reaping
    <3> QED BY <1>c, <2>2, <2>3, <3>1
  <2>4. ASSUME NEW u \in Threads, pc'[u] = "reclaim" PROVE pc'[on[u]] = "over"
    <3>1. pc[u] = "reclaim" /\ pc[u] \in Reaping
      BY <2>3, <2>4 DEF Reaping
    <3>2. pc[on[u]] = "over" /\ pc[t] # "over"
      BY <1>b, <3>1, <1>7 DEF Reapers, Undo
    <3> QED BY <1>b, <2>1, <3>2
  <2>5. ASSUME NEW u \in Threads, pc'[u] \in Reaping
         PROVE  on[u] \notin gone' /\ ~detached'[entryOf'[on[u]]]
    BY <1>b, <2>1, <2>3, <2>5 DEF Reapers
  <2> QED BY <1>b, <2>1, <2>3, <2>4, <2>5, ReapersKept
<1>8. ASSUME NEW t \in Threads, Mark_valid(t) PROVE Reapers'
  BY <1>8, <1>b, <1>c DEF Mark_valid, Goto, Reapers, Reaping
<1>9. ASSUME NEW t \in Threads, Xsb_thread_run(t) PROVE Reapers'
  BY <1>9, <1>b, <1>c DEF Xsb_thread_run, Goto, Reapers, Reaping
<1>10. ASSUME NEW t \in Threads, NEW how \in Results,
              End_with(t, how)
       PROVE  Reapers'
  BY <1>10, <1>b, <1>c DEF End_with, Goto, Reapers, Reaping
<1>11. ASSUME NEW t \in Threads, Thread_exit(t) PROVE Reapers'
  BY <1>11, <1>b, <1>c DEF Thread_exit, Goto, Th_delete, Reapers, Reaping, Th_delete
<1>12. ASSUME NEW t \in Threads, Read_count(t) PROVE Reapers'
  BY <1>12, <1>b, <1>c DEF Read_count, Goto, Reapers, Reaping
<1>13. ASSUME NEW t \in Threads, Write_count(t) PROVE Reapers'
  BY <1>13, <1>b, <1>c DEF Write_count, Goto, Reapers, Reaping
<1>14. ASSUME NEW t \in Threads, NEW c \in Created, Join(t, c) PROVE Reapers'
  <2>1. /\ pc[t] = "run" /\ pc[c] # "none" /\ c \notin claimed /\ owner[entryOf[c]] = c
        /\ ~detached[entryOf[c]] /\ claimed' = claimed \cup {c} /\ on' = [on EXCEPT ![t] = c]
        /\ UNCHANGED <<gone, detached, entryOf>>
    BY <1>14 DEF Join, Claim, Valid
  <2>2. pc' = [pc EXCEPT ![t] = "wait"]
    BY <1>14 DEF Join, Goto
  <2>3. c \notin gone
    BY <2>1 DEF TableInv, Departed
  <2>4. ASSUME NEW u \in Threads, pc'[u] \in Reaping, u # t
         PROVE  /\ pc'[u] = pc[u] /\ pc[u] \in Reaping /\ on'[u] = on[u] /\ on[u] # c
                /\ pc[u] = "reclaim" => pc'[on[u]] = "over"
    <3>1. pc'[u] = pc[u] /\ on'[u] = on[u] /\ on[u] \in claimed
      BY <1>b, <2>1, <2>2, <2>4 DEF Reapers
    <3>2. pc[u] = "reclaim" => pc[on[u]] = "over" /\ on[u] # t
      BY <1>b, <2>1, <2>4, <3>1 DEF Reapers
    <3> QED BY <1>b, <2>1, <2>2, <2>4, <3>1, <3>2
  <2>5. pc'[t] = "wait" /\ on'[t] = c
    BY <1>b, <2>1, <2>2
  <2>6. ASSUME NEW u \in Threads, pc'[u] \in Reaping
         PROVE  /\ on'[u] \in claimed' \ gone' /\ ~detached'[entryOf'[on'[u]]]
                /\ pc'[u] = "reclaim" => pc'[on'[u]] = "over"
                /\ \A v \in Threads : pc'[v] \in Reaping /\ on'[v] = on'[u] => v = u
    <3>1. CASE u = t
      <4>1. \A v \in Threads : pc'[v] \in Reaping /\ v # t => on'[v] # c
        BY <2>4
      <4> QED BY <1>b, <2>1, <2>3, <2>5, <3>1, <4>1
    <3>2. CASE u # t
      BY <1>b, <2>1, <2>4, <2>5, <2>6, <3>2 DEF Reapers
    <3> QED BY <3>1, <3>2
  <2> QED BY <2>6 DEF Reapers
<1>15. ASSUME NEW t \in Threads, Pthread_join(t) PROVE Reapers'
  BY <1>15, <1>b, <1>c DEF Pthread_join, Goto, Reapers, Reaping
<1>16. ASSUME NEW t \in Threads, Reclaim(t) PROVE Reapers'
  BY <1>16, <1>b, <1>c DEF Reclaim, Goto, Th_delete, Reapers, Reaping
<1>17. ASSUME NEW t \in Threads, Join_status(t) PROVE Reapers'
  BY <1>17, <1>b, <1>c DEF Join_status, Goto, Reapers, Reaping
<1>18. ASSUME NEW t \in Threads, NEW c \in Created, Detach(t, c) PROVE Reapers'
  <2>1. /\ pc[t] = "run" /\ pc[c] # "none" /\ c \notin claimed /\ owner[entryOf[c]] = c
        /\ ~detached[entryOf[c]] /\ claimed' = claimed \cup {c} /\ on' = [on EXCEPT ![t] = c]
        /\ UNCHANGED <<gone, detached, entryOf>>
    BY <1>18 DEF Detach, Claim, Valid
  <2>2. pc' = [pc EXCEPT ![t] = "mark"]
    BY <1>18 DEF Detach, Goto
  <2>3. c \notin gone
    BY <2>1 DEF TableInv, Departed
  <2>4. ASSUME NEW u \in Threads, pc'[u] \in Reaping, u # t
         PROVE  /\ pc'[u] = pc[u] /\ pc[u] \in Reaping /\ on'[u] = on[u] /\ on[u] # c
                /\ pc[u] = "reclaim" => pc'[on[u]] = "over"
    <3>1. pc'[u] = pc[u] /\ on'[u] = on[u] /\ on[u] \in claimed
      BY <1>b, <2>1, <2>2, <2>4 DEF Reapers
    <3>2. pc[u] = "reclaim" => pc[on[u]] = "over" /\ on[u] # t
      BY <1>b, <2>1, <2>4, <3>1 DEF Reapers
    <3> QED BY <1>b, <2>1, <2>2, <2>4, <3>1, <3>2
  <2>5. pc'[t] = "mark" /\ on'[t] = c
    BY <1>b, <2>1, <2>2
  <2>6. ASSUME NEW u \in Threads, pc'[u] \in Reaping
         PROVE  /\ on'[u] \in claimed' \ gone' /\ ~detached'[entryOf'[on'[u]]]
                /\ pc'[u] = "reclaim" => pc'[on'[u]] = "over"
                /\ \A v \in Threads : pc'[v] \in Reaping /\ on'[v] = on'[u] => v = u
    <3>1. CASE u = t
      <4>1. \A v \in Threads : pc'[v] \in Reaping /\ v # t => on'[v] # c
        BY <2>4
      <4> QED BY <1>b, <2>1, <2>3, <2>5, <3>1, <4>1
    <3>2. CASE u # t
      BY <1>b, <2>1, <2>4, <2>5, <2>6, <3>2 DEF Reapers
    <3> QED BY <3>1, <3>2
  <2> QED BY <2>6 DEF Reapers
<1>19. ASSUME NEW t \in Threads, Detach_mark(t) PROVE Reapers'
  <2>1. /\ gone' \subseteq gone \cup {on[t]} /\ UNCHANGED <<on, entryOf, claimed>> /\ pc[t] = "mark"
        /\ detached' = detached \/ detached' = [detached EXCEPT ![entryOf[on[t]]] = TRUE]
        /\ \E place \in {"run", "retract"} : pc' = [pc EXCEPT ![t] = place]
    BY <1>19 DEF Detach_mark, Th_delete, Goto
  <2>2. ASSUME NEW u \in Threads, pc'[u] \in Reaping
         PROVE  /\ u # t /\ pc[u] = pc'[u] /\ on[u] # on[t]
                /\ entryOf[on[u]] # entryOf[on[t]] /\ entryOf[on[u]] \in Slots
    <3>1. u # t /\ pc[u] = pc'[u]
      BY <1>b, <2>1, <2>2 DEF Reaping
    <3>2. on[u] # on[t]
      BY <1>b, <2>1, <2>2, <3>1 DEF Reapers, Reaping
    <3>3. entryOf[on[u]] # entryOf[on[t]]
      BY <1>a, <1>c, <2>1, <2>2, <3>1, <3>2, EntriesDiffer DEF Reaping
    <3> QED BY <1>b, <3>1, <3>2, <3>3
  <2>3. ASSUME NEW u \in Threads, pc'[u] \in Reaping
         PROVE  on[u] \notin gone' /\ ~detached'[entryOf'[on[u]]]
    <3>1. on[u] \notin gone /\ ~detached[entryOf[on[u]]]
      BY <1>b, <2>2, <2>3 DEF Reapers
    <3> QED BY <1>b, <2>1, <2>2, <2>3, <3>1
  <2>4. ASSUME NEW u \in Threads, pc'[u] = "reclaim" PROVE pc'[on[u]] = "over"
    <3>1. pc[u] = "reclaim"
      BY <2>2, <2>4 DEF Reaping
    <3>2. pc[on[u]] = "over" /\ on[u] # t
      BY <1>b, <2>1, <3>1 DEF Reapers, Reaping
    <3> QED BY <1>b, <2>1, <3>2
  <2> QED BY <2>1, <2>2, <2>3, <2>4, <1>b, ReapersKept
<1>20. ASSUME NEW t \in Threads, Detach_retract(t) PROVE Reapers'
  BY <1>20, <1>b, <1>c DEF Detach_retract, Without_alias, Goto, Reapers, Reaping
<1> QED
  BY <1>0, <1>1, <1>2, <1>3, <1>4, <1>5, <1>6, <1>7, <1>8, <1>9,
     <1>10, <1>11, <1>12, <1>13, <1>14, <1>15, <1>16, <1>17, <1>18,
     <1>19, <1>20
     DEF Next, Create, End, Reap

-----------------------------------------------------------------------------
(* The entries *)

(* What is here is a thread. *)
LEMMA HereThreads ==
    ASSUME TypeOK
    PROVE  Here \subseteq Threads
BY ConstantsOK DEF Here, TypeOK, Threads

(* Giving back an entry leaves the fields of the others alone. *)
LEMMA DeleteFields ==
    ASSUME TableInv, NEW c \in Here \ {0}, Th_delete(c), UNCHANGED <<created, entryOf>>,
           \A d \in Here \ {c} :
              /\ pc'[d] \in Ended <=> pc[d] \in Ended
              /\ pc'[d] \notin {"none", "start"} => pc[d] \notin {"none", "start"}
    PROVE  Fields'
<1>1. TypeOK /\ Owned /\ Fields
  BY EntryPerThreadIs DEF TableInv
<1>2. Here' = Here \ {c} /\ Here \subseteq Threads
  BY <1>1, DeleteTable, HereThreads
<1>3. \A d \in Here \ {c} : entryOf[d] # entryOf[c] /\ entryOf[d] \in Slots
  BY <1>1, <1>2, EntriesDiffer DEF TypeOK
<1>4. exited' = exited /\ valid' = [valid EXCEPT ![entryOf[c]] = FALSE] /\ valid \in [Slots -> BOOLEAN]
  BY <1>1 DEF Th_delete, TypeOK
<1> QED BY <1>1, <1>2, <1>3, <1>4 DEF Fields


(* The fields of an entry in use keep telling where its thread is. *)
LEMMA StepFields ==
    ASSUME TableInv, [Next]_vars
    PROVE  Fields'
<1> USE ThreadNumbers DEF table, fields, ids, facts, counts
<1>a. TypeOK /\ Owned
  BY EntryPerThreadIs DEF TableInv
<1>b. /\ pc \in [Threads -> Places] /\ on \in [Threads -> Threads]
      /\ valid \in [Slots -> BOOLEAN] /\ exited \in [Slots -> BOOLEAN]
      /\ entryOf \in [Threads -> Slots] /\ Fields
  BY <1>a DEF TypeOK, TableInv
<1>c. /\ \A c, d \in Here : entryOf[c] = entryOf[d] => c = d
      /\ Here \subseteq Threads
  BY <1>a, EntriesDiffer, HereThreads
<1>0. ASSUME UNCHANGED vars PROVE Fields'
  BY <1>0 DEF vars, TableInv, Fields, Here
<1>1. ASSUME NEW t \in Threads, NEW kind \in Kinds, NEW name \in Aliases \cup {NoAlias},
              Setup(t, kind, name)
       PROVE  Fields'
  <2>1. /\ Head(free) \in Slots /\ Here' = Here \cup {created + 1}
        /\ entryOf'[created + 1] = Head(free)
        /\ \A c \in Here : c # created + 1 /\ entryOf'[c] = entryOf[c] /\ entryOf[c] # Head(free)
        /\ created + 1 \in Created
    BY <1>1, SetupTable
  <2>2. pc[created + 1] = "none"
    <3>1. created \in Int
      BY <1>a, ConstantsOK DEF TypeOK
    <3> QED BY <2>1, <3>1 DEF TableInv, NotYet
  <2>3. /\ exited' = [exited EXCEPT ![Head(free)] = FALSE]
        /\ valid' = [valid EXCEPT ![Head(free)] = FALSE]
        /\ \E place \in {"spawn", "alias"} : pc' = [pc EXCEPT ![t] = place]
        /\ pc[t] = "run"
    BY <1>1 DEF Setup, Goto
  <2>4. /\ pc'[created + 1] = "none" /\ ~exited'[entryOf'[created + 1]]
    BY <1>b, <2>1, <2>2, <2>3
  <2>5. ASSUME NEW c \in Here
         PROVE  /\ exited'[entryOf'[c]] = exited[entryOf[c]] /\ valid'[entryOf'[c]] = valid[entryOf[c]]
                /\ IF c = t THEN pc'[c] \in {"spawn", "alias"} ELSE pc'[c] = pc[c]
    <3>1. c \in Threads /\ entryOf[c] \in Slots
      BY <1>b, <1>c
    <3>2. entryOf'[c] = entryOf[c] /\ entryOf[c] # Head(free)
      BY <2>1
    <3>3. IF c = t THEN pc'[c] \in {"spawn", "alias"} ELSE pc'[c] = pc[c]
      BY <1>b, <2>3, <3>1
    <3> QED BY <1>b, <2>1, <2>3, <3>1, <3>2, <3>3
  <2>6. \A c \in Here : /\ exited'[entryOf'[c]] <=> pc'[c] \in Ended
                        /\ pc'[c] \notin {"none", "start"} => valid'[entryOf'[c]]
    <3> SUFFICES ASSUME NEW c \in Here
                 PROVE  /\ exited'[entryOf'[c]] <=> pc'[c] \in Ended
                        /\ pc'[c] \notin {"none", "start"} => valid'[entryOf'[c]]
      OBVIOUS
    <3>1. /\ exited[entryOf[c]] <=> pc[c] \in Ended
          /\ pc[c] \notin {"none", "start"} => valid[entryOf[c]]
      BY <1>b DEF Fields
    <3>2. CASE c = t
      <4>1. pc[c] = "run" /\ pc'[c] \in {"spawn", "alias"}
        BY <2>3, <2>5, <3>2
      <4> QED BY <2>5, <3>1, <4>1 DEF Ended
    <3>3. CASE c # t
      BY <2>5, <3>1, <3>3
    <3> QED BY <3>2, <3>3
  <2> QED BY <2>1, <2>4, <2>6 DEF Fields, Ended
<1>2. ASSUME NEW t \in Threads, Look_for_alias(t) PROVE Fields'
  BY <1>2, <1>b, <1>c DEF Look_for_alias, Goto, Fields, Here, Ended
<1>3. ASSUME NEW t \in Threads, Assert_alias(t) PROVE Fields'
  BY <1>3, <1>b, <1>c DEF Assert_alias, Goto, Fields, Here, Ended
<1>4. ASSUME NEW t \in Threads, Reclaim_setup(t) PROVE Fields'
  <2>1. CASE Th_delete(on[t])
    <3>1. on[t] \in Here \ {0}
      BY <1>4, CalleeHere DEF Reclaim_setup, Creating, Reaping
    <3>2. pc[t] = "unsetup" /\ pc' = [pc EXCEPT ![t] = "run"] /\ UNCHANGED <<created, entryOf>>
      BY <1>4 DEF Reclaim_setup, Goto
    <3>3. \A c \in Here : pc'[c] = IF c = t THEN "run" ELSE pc[c]
      BY <1>b, <1>c, <3>2
    <3> QED BY <2>1, <3>1, <3>2, <3>3, DeleteFields DEF Ended
  <2>2. CASE UNCHANGED <<table, fields>>
    <3>1. /\ UNCHANGED <<created, gone, entryOf, valid, exited>>
          /\ pc[t] = "unsetup" /\ pc' = [pc EXCEPT ![t] = "run"]
      BY <1>4, <2>2 DEF Reclaim_setup, Goto
    <3> QED BY <1>b, <1>c, <3>1 DEF Fields, Here, Ended
  <2> QED BY <1>4, <2>1, <2>2 DEF Reclaim_setup
<1>5. ASSUME NEW t \in Threads, Spawn(t) PROVE Fields'
  <2>1. pc[on[t]] = "none" /\ on[t] # t
    BY <1>5 DEF Spawn, TableInv, Creation, Creating
  <2>2. /\ UNCHANGED <<created, gone, entryOf, valid, exited>> /\ pc[t] = "spawn"
        /\ pc' = [pc EXCEPT ![t] = "valid", ![on[t]] = "start"]
    BY <1>5 DEF Spawn
  <2>3. \A u \in Threads : pc'[u] = (IF u = t THEN "valid" ELSE IF u = on[t] THEN "start" ELSE pc[u])
    BY <1>b, <2>1, <2>2
  <2>4. \A u \in Threads : /\ pc'[u] \in Ended <=> pc[u] \in Ended
                           /\ pc'[u] \notin {"none", "start"} => pc[u] \notin {"none", "start"}
    <3> SUFFICES ASSUME NEW u \in Threads
                 PROVE  /\ pc'[u] \in Ended <=> pc[u] \in Ended
                        /\ pc'[u] \notin {"none", "start"} => pc[u] \notin {"none", "start"}
      OBVIOUS
    <3>1. CASE u = t
      <4>1. pc[u] = "spawn"
        BY <2>2, <3>1
      <4>2. pc'[u] = "valid"
        BY <2>3, <3>1
      <4> QED BY <4>1, <4>2 DEF Ended
    <3>2. CASE u = on[t]
      BY <2>1, <2>3, <3>2 DEF Ended
    <3>3. CASE u # t /\ u # on[t]
      BY <2>3, <3>3
    <3> QED BY <3>1, <3>2, <3>3
  <2>5. Here' = Here
    BY <2>2 DEF Here
  <2> QED BY <1>b, <1>c, <2>2, <2>4, <2>5 DEF Fields
<1>6. ASSUME NEW t \in Threads, Spawn_refused(t) PROVE Fields'
  BY <1>6, <1>b, <1>c DEF Spawn_refused, Goto, Fields, Here, Ended
<1>7. ASSUME NEW t \in Threads, Undo(t) PROVE Fields'
  <2>1. on[t] \in Here \ {0}
    BY <1>7, CalleeHere DEF Undo, Creating, Reaping
  <2>2. /\ pc[t] = "undo" /\ pc' = [pc EXCEPT ![t] = "run"] /\ UNCHANGED <<created, entryOf>>
        /\ Th_delete(on[t])
    BY <1>7 DEF Undo, Goto
  <2>3. \A c \in Here : pc'[c] = IF c = t THEN "run" ELSE pc[c]
    BY <1>b, <1>c, <2>2
  <2> QED BY <2>1, <2>2, <2>3, DeleteFields DEF Ended
<1>8. ASSUME NEW t \in Threads, Mark_valid(t) PROVE Fields'
  BY <1>8, <1>b, <1>c DEF Mark_valid, Goto, Fields, Here, Ended
<1>9. ASSUME NEW t \in Threads, Xsb_thread_run(t) PROVE Fields'
  BY <1>9, <1>b, <1>c DEF Xsb_thread_run, Goto, Fields, Here, Ended
<1>10. ASSUME NEW t \in Threads, NEW how \in Results,
              End_with(t, how)
       PROVE  Fields'
  BY <1>10, <1>b, <1>c DEF End_with, Goto, Fields, Here, Ended
<1>11. ASSUME NEW t \in Threads, Thread_exit(t) PROVE Fields'
  <2>1. t \in Here \ {0} /\ pc[t] = "exit"
    BY <1>11, RunningHere DEF Thread_exit, TableInv, MainHere, Calling, Ended
  <2>2. pc' = [pc EXCEPT ![t] = "uncount"] /\ UNCHANGED <<created, entryOf>>
    BY <1>11 DEF Thread_exit, Goto
  <2>3. \A c \in Here \ {t} : pc'[c] = pc[c]
    BY <1>b, <1>c, <2>2
  <2>4. CASE Th_delete(t)
    BY <2>1, <2>2, <2>3, <2>4, DeleteFields
  <2>5. CASE exited' = [exited EXCEPT ![entryOf[t]] = TRUE] /\ UNCHANGED <<table, valid>>
    <3>1. Here' = Here
      BY <2>2, <2>5 DEF Here
    <3>2. pc'[t] = "uncount" /\ exited'[entryOf[t]] = TRUE /\ valid'[entryOf[t]] = valid[entryOf[t]]
      BY <1>b, <2>2, <2>5
    <3>3. \A c \in Here \ {t} : exited'[entryOf[c]] = exited[entryOf[c]] /\ valid'[entryOf[c]] = valid[entryOf[c]]
      BY <1>b, <1>c, <2>1, <2>5
    <3>4. valid[entryOf[t]]
      BY <1>b, <2>1 DEF Fields
    <3>5. UNCHANGED entryOf
      BY <2>2
    <3>6. /\ exited'[entryOf'[t]] <=> pc'[t] \in Ended
          /\ pc'[t] \notin {"none", "start"} => valid'[entryOf'[t]]
      BY <3>2, <3>4, <3>5 DEF Ended
    <3>7. \A c \in Here \ {t} : /\ exited'[entryOf'[c]] <=> pc'[c] \in Ended
                                /\ pc'[c] \notin {"none", "start"} => valid'[entryOf'[c]]
      BY <1>b, <2>3, <3>3, <3>5 DEF Fields
    <3> QED BY <3>1, <3>6, <3>7 DEF Fields
  <2> QED BY <1>11, <2>4, <2>5 DEF Thread_exit
<1>12. ASSUME NEW t \in Threads, Read_count(t) PROVE Fields'
  BY <1>12, <1>b, <1>c DEF Read_count, Goto, Fields, Here, Ended
<1>13. ASSUME NEW t \in Threads, Write_count(t) PROVE Fields'
  BY <1>13, <1>b, <1>c DEF Write_count, Goto, Fields, Here, Ended
<1>14. ASSUME NEW t \in Threads, NEW c \in Created, Join(t, c) PROVE Fields'
  BY <1>14, <1>b, <1>c DEF Join, Claim, Valid, Goto, Fields, Here, Ended
<1>15. ASSUME NEW t \in Threads, Pthread_join(t) PROVE Fields'
  BY <1>15, <1>b, <1>c DEF Pthread_join, Goto, Fields, Here, Ended
<1>16. ASSUME NEW t \in Threads, Reclaim(t) PROVE Fields'
  <2>1. on[t] \in Here \ {0}
    BY <1>16, CalleeHere DEF Reclaim, Creating, Reaping
  <2>2. /\ pc[t] = "reclaim" /\ pc' = [pc EXCEPT ![t] = "status"] /\ UNCHANGED <<created, entryOf>>
        /\ Th_delete(on[t])
    BY <1>16 DEF Reclaim, Goto
  <2>3. \A c \in Here : pc'[c] = IF c = t THEN "status" ELSE pc[c]
    BY <1>b, <1>c, <2>2
  <2> QED BY <2>1, <2>2, <2>3, DeleteFields DEF Ended
<1>17. ASSUME NEW t \in Threads, Join_status(t) PROVE Fields'
  BY <1>17, <1>b, <1>c DEF Join_status, Goto, Fields, Here, Ended
<1>18. ASSUME NEW t \in Threads, NEW c \in Created, Detach(t, c) PROVE Fields'
  BY <1>18, <1>b, <1>c DEF Detach, Claim, Valid, Goto, Fields, Here, Ended
<1>19. ASSUME NEW t \in Threads, Detach_mark(t) PROVE Fields'
  <2>1. CASE Th_delete(on[t])
    <3>1. on[t] \in Here \ {0}
      BY <1>19, CalleeHere DEF Detach_mark, Creating, Reaping
    <3>2. /\ pc[t] = "mark" /\ UNCHANGED <<created, entryOf>>
          /\ \E place \in {"run", "retract"} : pc' = [pc EXCEPT ![t] = place]
      BY <1>19 DEF Detach_mark, Goto
    <3>3. \A c \in Here : IF c = t THEN pc'[c] \in {"run", "retract"} ELSE pc'[c] = pc[c]
      BY <1>b, <1>c, <3>2
    <3> QED BY <2>1, <3>1, <3>2, <3>3, DeleteFields DEF Ended
  <2>2. CASE UNCHANGED <<table, valid, exited>> /\ Goto(t, "run")
    <3>1. /\ UNCHANGED <<created, gone, entryOf, valid, exited>>
          /\ pc[t] = "mark" /\ pc' = [pc EXCEPT ![t] = "run"]
      BY <1>19, <2>2 DEF Detach_mark, Goto
    <3> QED BY <1>b, <1>c, <3>1 DEF Fields, Here, Ended
  <2> QED BY <1>19, <2>1, <2>2 DEF Detach_mark
<1>20. ASSUME NEW t \in Threads, Detach_retract(t) PROVE Fields'
  BY <1>20, <1>b, <1>c DEF Detach_retract, Without_alias, Goto, Fields, Here, Ended
<1> QED
  BY <1>0, <1>1, <1>2, <1>3, <1>4, <1>5, <1>6, <1>7, <1>8, <1>9,
     <1>10, <1>11, <1>12, <1>13, <1>14, <1>15, <1>16, <1>17, <1>18,
     <1>19, <1>20
     DEF Next, Create, End, Reap


(* What was given back stays at its end, or never starts. *)
LEMMA StepDeparted ==
    ASSUME TableInv, [Next]_vars
    PROVE  Departed'
<1> USE ThreadNumbers DEF table, fields, ids, facts, counts
<1>a. TypeOK /\ Owned
  BY EntryPerThreadIs DEF TableInv
<1>b. /\ pc \in [Threads -> Places] /\ on \in [Threads -> Threads]
      /\ detached \in [Slots -> BOOLEAN] /\ owner \in [Slots -> Threads \cup {Nobody}]
      /\ entryOf \in [Threads -> Slots] /\ gone \subseteq Threads /\ Departed
  BY <1>a DEF TypeOK, TableInv
<1>c. \A c \in gone : pc[c] \in {"none", "uncount", "uncountWrite", "over"}
  BY <1>b DEF Departed, Ended
<1>0. ASSUME UNCHANGED vars PROVE Departed'
  BY <1>0 DEF vars, TableInv, Departed
<1>1. ASSUME NEW t \in Threads, NEW kind \in Kinds, NEW name \in Aliases \cup {NoAlias},
              Setup(t, kind, name)
       PROVE  Departed'
  <2>1. Head(free) \in Slots /\ created + 1 \in Created /\ created + 1 \notin gone
    BY <1>1, SetupTable
  <2>2. /\ UNCHANGED <<gone, claimed>> /\ pc[t] = "run"
        /\ \E place \in {"spawn", "alias"} : pc' = [pc EXCEPT ![t] = place]
        /\ entryOf' = [entryOf EXCEPT ![created + 1] = Head(free)]
        /\ owner' = [owner EXCEPT ![Head(free)] = created + 1]
        /\ detached' = [detached EXCEPT ![Head(free)] = (kind = "detached")]
    BY <1>1 DEF Setup, Goto
  <2>3. ASSUME NEW c \in gone
         PROVE  /\ pc'[c] = pc[c] /\ entryOf'[c] = entryOf[c]
                /\ owner'[entryOf'[c]] = c =>
                      owner[entryOf[c]] = c /\ detached'[entryOf'[c]] = detached[entryOf[c]]
    <3>1. c \in Threads /\ c # t /\ c # created + 1 /\ entryOf[c] \in Slots
      BY <1>b, <1>c, <2>1, <2>2
    <3>2. pc'[c] = pc[c] /\ entryOf'[c] = entryOf[c]
      BY <1>b, <2>2, <3>1
    <3>3. CASE entryOf[c] = Head(free)
      BY <1>b, <2>2, <3>1, <3>2, <3>3
    <3>4. CASE entryOf[c] # Head(free)
      BY <1>b, <2>2, <3>1, <3>2, <3>4
    <3> QED BY <3>2, <3>3, <3>4
  <2> QED BY <1>b, <2>2, <2>3 DEF Departed
<1>2. ASSUME NEW t \in Threads, Look_for_alias(t) PROVE Departed'
  BY <1>2, <1>b DEF Look_for_alias, Goto, Departed, Ended
<1>3. ASSUME NEW t \in Threads, Assert_alias(t) PROVE Departed'
  BY <1>3, <1>b DEF Assert_alias, Goto, Departed, Ended
<1>4. ASSUME NEW t \in Threads, Reclaim_setup(t) PROVE Departed'
  <2>1. /\ gone' \subseteq gone \cup {on[t]} /\ UNCHANGED <<owner, detached, entryOf, claimed>>
        /\ pc[t] = "unsetup" /\ pc' = [pc EXCEPT ![t] = "run"]
    BY <1>4 DEF Reclaim_setup, Th_delete, Goto
  <2>2. \A c \in gone : pc'[c] = pc[c]
    BY <1>b, <1>c, <2>1
  <2>3. on[t] \in Threads /\ on[t] # t /\ pc[on[t]] = "none"
    BY <1>b, <1>4, <2>1 DEF Reclaim_setup, TableInv, Creation, Creating, Reapers, Reaping
  <2>4. pc'[on[t]] = pc[on[t]]
    BY <1>b, <2>1, <2>3
  <2> QED BY <1>b, <2>1, <2>2, <2>3, <2>4 DEF Departed, Ended
<1>5. ASSUME NEW t \in Threads, Spawn(t) PROVE Departed'
  <2>1. /\ UNCHANGED <<gone, owner, detached, entryOf, claimed>> /\ pc[t] = "spawn"
        /\ pc' = [pc EXCEPT ![t] = "valid", ![on[t]] = "start"]
    BY <1>5 DEF Spawn
  <2>2. on[t] \notin gone /\ t \notin gone
    BY <1>c, <2>1 DEF TableInv, Creation, Creating
  <2>3. \A c \in gone : pc'[c] = pc[c]
    BY <1>b, <2>1, <2>2
  <2> QED BY <1>b, <2>1, <2>3 DEF Departed
<1>6. ASSUME NEW t \in Threads, Spawn_refused(t) PROVE Departed'
  BY <1>6, <1>b DEF Spawn_refused, Goto, Departed, Ended
<1>7. ASSUME NEW t \in Threads, Undo(t) PROVE Departed'
  <2>1. /\ gone' \subseteq gone \cup {on[t]} /\ UNCHANGED <<owner, detached, entryOf, claimed>>
        /\ pc[t] = "undo" /\ pc' = [pc EXCEPT ![t] = "run"]
    BY <1>7 DEF Undo, Th_delete, Goto
  <2>2. \A c \in gone : pc'[c] = pc[c]
    BY <1>b, <1>c, <2>1
  <2>3. on[t] \in Threads /\ on[t] # t /\ pc[on[t]] = "none"
    BY <1>b, <1>7, <2>1 DEF Undo, TableInv, Creation, Creating, Reapers, Reaping
  <2>4. pc'[on[t]] = pc[on[t]]
    BY <1>b, <2>1, <2>3
  <2> QED BY <1>b, <2>1, <2>2, <2>3, <2>4 DEF Departed, Ended
<1>8. ASSUME NEW t \in Threads, Mark_valid(t) PROVE Departed'
  BY <1>8, <1>b DEF Mark_valid, Goto, Departed, Ended
<1>9. ASSUME NEW t \in Threads, Xsb_thread_run(t) PROVE Departed'
  BY <1>9, <1>b DEF Xsb_thread_run, Goto, Departed, Ended
<1>10. ASSUME NEW t \in Threads, NEW how \in Results,
              End_with(t, how)
       PROVE  Departed'
  BY <1>10, <1>b DEF End_with, Goto, Departed, Ended
<1>11. ASSUME NEW t \in Threads, Thread_exit(t) PROVE Departed'
  <2>1. /\ UNCHANGED <<owner, detached, entryOf, claimed>> /\ pc[t] = "exit"
        /\ pc' = [pc EXCEPT ![t] = "uncount"]
        /\ gone' = gone \/ (gone' = gone \cup {t} /\ detached[entryOf[t]])
    BY <1>11 DEF Thread_exit, Th_delete, Goto
  <2>2. \A c \in gone : pc'[c] = pc[c]
    BY <1>b, <1>c, <2>1
  <2>3. pc'[t] = "uncount"
    BY <1>b, <2>1
  <2>4. \A c \in gone : /\ pc'[c] \in {"none"} \cup Ended
                        /\ pc'[c] = "none" \/ c \in claimed'
                             \/ (owner'[entryOf'[c]] = c => detached'[entryOf'[c]])
    BY <1>b, <2>1, <2>2 DEF Departed
  <2>5. t \in gone' => \/ t \in gone
                       \/ pc'[t] \in Ended /\ detached'[entryOf'[t]]
    BY <2>1, <2>3 DEF Ended
  <2> QED BY <2>1, <2>4, <2>5 DEF Departed
<1>12. ASSUME NEW t \in Threads, Read_count(t) PROVE Departed'
  BY <1>12, <1>b DEF Read_count, Goto, Departed, Ended
<1>13. ASSUME NEW t \in Threads, Write_count(t) PROVE Departed'
  BY <1>13, <1>b DEF Write_count, Goto, Departed, Ended
<1>14. ASSUME NEW t \in Threads, NEW c \in Created, Join(t, c) PROVE Departed'
  BY <1>14, <1>b DEF Join, Claim, Valid, Goto, Departed, Ended
<1>15. ASSUME NEW t \in Threads, Pthread_join(t) PROVE Departed'
  BY <1>15, <1>b DEF Pthread_join, Goto, Departed, Ended
<1>16. ASSUME NEW t \in Threads, Reclaim(t) PROVE Departed'
  <2>1. /\ gone' \subseteq gone \cup {on[t]} /\ UNCHANGED <<owner, detached, entryOf, claimed>>
        /\ pc[t] = "reclaim" /\ pc' = [pc EXCEPT ![t] = "status"]
    BY <1>16 DEF Reclaim, Th_delete, Goto
  <2>2. \A c \in gone : pc'[c] = pc[c]
    BY <1>b, <1>c, <2>1
  <2>3. on[t] \in Threads /\ on[t] # t /\ pc[on[t]] = "over" /\ on[t] \in claimed
    BY <1>b, <1>16, <2>1 DEF Reclaim, TableInv, Creation, Creating, Reapers, Reaping
  <2>4. pc'[on[t]] = pc[on[t]]
    BY <1>b, <2>1, <2>3
  <2> QED BY <1>b, <2>1, <2>2, <2>3, <2>4 DEF Departed, Ended
<1>17. ASSUME NEW t \in Threads, Join_status(t) PROVE Departed'
  BY <1>17, <1>b DEF Join_status, Goto, Departed, Ended
<1>18. ASSUME NEW t \in Threads, NEW c \in Created, Detach(t, c) PROVE Departed'
  BY <1>18, <1>b DEF Detach, Claim, Valid, Goto, Departed, Ended
<1>19. ASSUME NEW t \in Threads, Detach_mark(t) PROVE Departed'
  <2>1. /\ UNCHANGED <<owner, entryOf, claimed>> /\ pc[t] = "mark"
        /\ \E place \in {"run", "retract"} : pc' = [pc EXCEPT ![t] = place]
        /\ gone' = gone \/ (gone' = gone \cup {on[t]} /\ exited[entryOf[on[t]]])
        /\ detached' = detached \/ detached' = [detached EXCEPT ![entryOf[on[t]]] = TRUE]
    BY <1>19 DEF Detach_mark, Th_delete, Goto
  <2>2. \A c \in gone : pc'[c] = pc[c]
    BY <1>b, <1>c, <2>1
  <2>3. on[t] \in Here /\ on[t] \in claimed
    BY <2>1, CalleeHere DEF TableInv, Reapers, Reaping
  <2>4. on[t] \in gone' => pc[on[t]] \in Ended \/ on[t] \in gone
    BY <2>1, <2>3 DEF TableInv, Fields
  <2>5. on[t] \in gone' => pc'[on[t]] \in Ended
    <3>1. on[t] \notin gone
      BY <2>1 DEF TableInv, Reapers, Reaping
    <3>2. pc[on[t]] \in Ended => pc'[on[t]] = pc[on[t]]
      BY <1>b, <2>1 DEF Ended
    <3> QED BY <2>4, <3>1, <3>2
  <2>6. ASSUME NEW c \in gone
         PROVE detached[entryOf[c]] => detached'[entryOf'[c]]
    BY <1>b, <2>1
  <2>7. ASSUME NEW c \in gone'
         PROVE  /\ pc'[c] \in {"none"} \cup Ended
                /\ pc'[c] = "none" \/ c \in claimed'
                     \/ (owner'[entryOf'[c]] = c => detached'[entryOf'[c]])
    <3>1. CASE c \in gone
      <4>1. UNCHANGED <<owner, entryOf, claimed>>
        BY <2>1
      <4> QED BY <1>b, <2>2, <2>6, <3>1, <4>1 DEF Departed
    <3>2. CASE c = on[t]
      BY <2>1, <2>3, <2>5, <2>7, <3>2
    <3> QED BY <2>1, <2>7, <3>1, <3>2
  <2> QED BY <2>7 DEF Departed
<1>20. ASSUME NEW t \in Threads, Detach_retract(t) PROVE Departed'
  BY <1>20, <1>b DEF Detach_retract, Without_alias, Goto, Departed, Ended
<1> QED
  BY <1>0, <1>1, <1>2, <1>3, <1>4, <1>5, <1>6, <1>7, <1>8, <1>9,
     <1>10, <1>11, <1>12, <1>13, <1>14, <1>15, <1>16, <1>17, <1>18,
     <1>19, <1>20
     DEF Next, Create, End, Reap

-----------------------------------------------------------------------------
(* The theorems *)

(* The free list that the main thread leaves. *)
LEMMA AfterMainIs ==
    /\ AfterMain \in Seq(Slots) /\ DOMAIN AfterMain = 1 .. Entries - 1
    /\ \A i \in 1 .. Entries - 1 : AfterMain[i] = i
<1>1. Entries - 1 \in Nat /\ AfterMain = [i \in 1 .. Entries - 1 |-> i]
  BY ConstantsOK DEF AfterMain
<1>2. AfterMain \in [1 .. Entries - 1 -> Slots]
  BY <1>1, ConstantsOK DEF Slots
<1> QED BY <1>1, <1>2, SeqDef

(* The invariant holds at the start. *)
LEMMA InitTable ==
    ASSUME Init
    PROVE  TableInv
<1> USE ThreadNumbers DEF Init
<1>1. TypeOK
  <2>1. free \in Seq(Slots) /\ used \subseteq Slots
    BY AfterMainIs
  <2>2. /\ owner \in [Slots -> Threads \cup {Nobody}]
        /\ valid \in [Slots -> BOOLEAN] /\ detached \in [Slots -> BOOLEAN]
        /\ exited \in [Slots -> BOOLEAN] /\ aliased \in [Slots -> BOOLEAN]
    OBVIOUS
  <2>3. /\ created \in 0 .. MaxCreated /\ entryOf \in [Threads -> Slots]
        /\ nameOf \in [Threads -> Aliases \cup {NoAlias}]
        /\ pc \in [Threads -> Places] /\ on \in [Threads -> Threads]
    BY ConstantsOK, PlacesAre
  <2>4. /\ result \in [Threads -> Ends \cup {"none"}]
        /\ claimed \subseteq Created /\ gone \subseteq Created
        /\ aliasFacts \subseteq [name : Aliases, of : Created]
        /\ balls \in [Threads -> Nat] /\ numThreads \in Int
        /\ seen \in [Threads -> Int] /\ got \in [Threads -> Threads]
    OBVIOUS
  <2> QED BY <2>1, <2>2, <2>3, <2>4 DEF TypeOK
<1>2. Here = {0} /\ entryOf[0] = 0 /\ owner[0] = 0 /\ valid[0] /\ ~exited[0] /\ pc[0] = "run"
  <2>1. 0 .. created = {0} /\ gone = {}
    OBVIOUS
  <2>2. Here = {0}
    BY <2>1 DEF Here
  <2>3. entryOf[0] = 0 /\ owner[0] = 0 /\ valid[0] = TRUE /\ exited[0] = FALSE /\ pc[0] = "run"
    OBVIOUS
  <2> QED BY <2>2, <2>3
<1>3. Owned
  BY <1>2 DEF Owned
<1>4. SlotsDistinct
  BY AfterMainIs DEF SlotsDistinct
<1>5. \A c \in Created : pc[c] = "none"
  OBVIOUS
<1>6. MainHere /\ Callees /\ NotYet
  <2>1. \A t \in Threads : pc[t] \in {"run", "none"}
    OBVIOUS
  <2>2. \A t \in Threads : pc[t] \notin Calling
    BY <2>1 DEF Calling
  <2> QED BY <1>2, <1>5, <2>2 DEF MainHere, Callees, NotYet
<1>7. Creation /\ Reapers
  <2>1. \A t \in Threads : pc[t] \in {"run", "none"}
    OBVIOUS
  <2>2. \A t \in Threads : pc[t] \notin Creating /\ pc[t] \notin Reaping
    BY <2>1 DEF Creating, Reaping
  <2> QED BY <2>2 DEF Creation, Reapers
<1>8. Fields /\ Departed
  BY <1>2 DEF Fields, Departed, Ended
<1> QED BY <1>1, <1>3, <1>4, <1>6, <1>7, <1>8, EntryPerThreadIs DEF TableInv

(* The entries, the places of the threads and what their fields say stay   *)
(* in agreement, whatever the order of creation, exit, join and detach.    *)
THEOREM TableInvariant == Spec => []TableInv
<1>1. Init => TableInv
  BY InitTable
<1>2. TableInv /\ [Next]_vars => TableInv'
  <2> SUFFICES ASSUME TableInv, [Next]_vars PROVE TableInv'
    OBVIOUS
  <2>1. TypeOK'
    BY StepType
  <2>2. Owned' /\ SlotsDistinct'
    BY StepTable
  <2>3. EntryPerThread'
    BY <2>1, <2>2 DEF EntryPerThread, Owned, Here
  <2>4. MainHere' /\ Callees' /\ NotYet' /\ Creation' /\ Reapers'
    BY StepMain, StepCallees, StepNotYet, StepCreation, StepReapers
  <2>5. Fields' /\ Departed'
    BY StepFields, StepDeparted
  <2> QED BY <2>2, <2>3, <2>4, <2>5 DEF TableInv
<1> QED BY <1>1, <1>2, PTL DEF Spec

(* Each entry in use belongs to one thread that was not reclaimed, and     *)
(* still denotes it.                                                       *)
THEOREM EntriesHaveThreads == Spec => []EntryPerThread
<1>1. TableInv => EntryPerThread
  BY DEF TableInv
<1> QED BY <1>1, TableInvariant, PTL

(* A thread that ended and was not reclaimed is valid and marked as exited: *)
(* its status is there for the thread that joins it.                       *)
THEOREM StatusKept == Spec => []StatusPersists
<1>1. ASSUME TableInv PROVE StatusPersists
  <2>1. TypeOK /\ Owned /\ Fields
    BY <1>1, EntryPerThreadIs DEF TableInv
  <2>2. ASSUME NEW c \in (1 .. created) \ gone, pc[c] \in {"uncount", "uncountWrite", "over"}
        PROVE  Valid(c) /\ exited[entryOf[c]]
    <3>1. c \in Here
      BY <2>1, ConstantsOK DEF TypeOK, Here
    <3> QED BY <2>1, <2>2, <3>1 DEF Owned, Fields, Ended, Valid
  <2> QED BY <2>2 DEF StatusPersists
<1> QED BY <1>1, TableInvariant, PTL

(* The table uses its entries as a pool allows: an entry is given back by  *)
(* its thread's reaper or its own exit once, and the main thread's never.  *)
THEOREM EntriesGivenBackOnce == Spec => GivenBackOnce
<1>1. ASSUME Init PROVE P!PoolInit
  BY <1>1 DEF Init, P!PoolInit
<1>2. ASSUME TableInv, [Next]_vars PROVE P!PoolNext \/ UNCHANGED <<free, used>>
  <2>1. CASE UNCHANGED lists
    BY <2>1 DEF lists
  <2>2. ASSUME NEW t \in Threads, NEW kind \in Kinds, NEW name \in Aliases \cup {NoAlias},
               Setup(t, kind, name)
        PROVE  P!PoolNext
    BY <2>2 DEF Setup, P!PoolNext, P!Take
  <2>3. ASSUME NEW c \in Here \ {0}, Th_delete(c), UNCHANGED <<created, entryOf>>
        PROVE  P!PoolNext
    <3>1. entryOf[c] \in used \ {0} /\ used \subseteq Slots
      BY <1>2, <2>3, DeleteTable DEF TableInv, EntryPerThread, TypeOK
    <3>2. P!GiveBack(entryOf[c])
      BY <2>3, <3>1 DEF Th_delete, P!GiveBack
    <3> QED BY <3>1, <3>2 DEF P!PoolNext
  <2> QED BY <1>2, <2>1, <2>2, <2>3, TableSteps
<1>3. TableInv /\ [Next]_vars => [P!PoolNext]_(P!poolVars)
  BY <1>2 DEF P!poolVars
<1> QED BY <1>1, <1>3, TableInvariant, PTL DEF Spec, GivenBackOnce, P!Pool
=============================================================================
