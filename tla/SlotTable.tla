------------------------------ MODULE SlotTable ------------------------------
(***************************************************************************)
(* The entries of th_vec and of the public part of mq_table                *)
(* (emu/thread_xsb.c) and the pointers that tie them into two lists: the   *)
(* free list, singly linked, taken from the head and appended to at the    *)
(* tail, and the list of entries in use, doubly linked.  Both lists use    *)
(* the same next_entry field.                                              *)
(*                                                                         *)
(* The two tables differ in where an entry enters the list of those in     *)
(* use: th_new looks for its place, MESSAGE_QUEUE_CREATE puts it at the    *)
(* head.  Each operation runs under a mutex of its table (th_mutex,        *)
(* pub_mq_mutex) and is one step.                                          *)
(*                                                                         *)
(* Operators whose names end in a remark (_unended, _head_kept, ..)       *)
(* are mistakes the code does not make; the properties are tested on them. *)
(***************************************************************************)
EXTENDS Integers, Sequences, FiniteSets, SequencesExt

CONSTANTS
    Entries,  \* number of entries: max_threads_glc, max_mqueues_glc
    Tables,   \* the tables to look at, of "th_vec" and "mq_table"
    MaxUsed   \* bound on the entries in use at a time

ASSUME EntriesOK ==
    /\ Entries \in Nat \ {0}
    /\ Tables \subseteq {"th_vec", "mq_table"}
    /\ MaxUsed \in 0 .. Entries

(* Pointers are compared (th_first_thread > pos), and NULL is below all.   *)
Slots == 0 .. Entries - 1
Null  == -1
Ptr   == Slots \cup {Null}

VARIABLES
    table,      \* which of the tables this is; never changes
    next,       \* next_entry of each entry
    prev,       \* prev_entry of each entry
    firstFree,  \* th_first_free, mq_first_free
    lastFree,   \* th_last_free, mq_last_free
    first,      \* th_first_thread, mq_first_queue
    used        \* the entries that were handed out and not given back

vars == <<table, next, prev, firstFree, lastFree, first, used>>

(* th_new keeps its list sorted, more or less.                             *)
Sorted == table = "th_vec"

(* The entry of the main thread, the first one, is never given back.       *)
Pinned == IF table = "th_vec" THEN {0} ELSE {}

-----------------------------------------------------------------------------
(* The entries from pointer h along next_entry, cut off at Entries so that *)
(* it is defined for a list that has come to run in a circle.              *)
Chain(h) ==
    LET upTo[n \in 0 .. Entries] ==
            IF n = 0 THEN <<>>
            ELSE LET s == upTo[n - 1]
                     q == IF s = <<>> THEN h ELSE next[Last(s)]
                 IN  IF q = Null THEN s ELSE Append(s, q)
    IN  upTo[Entries]

Init ==
    /\ table \in Tables
    /\ next = [p \in Slots |-> IF p = Entries - 1 THEN Null ELSE p + 1]
    /\ prev = [p \in Slots |-> Null]
    /\ firstFree = 0
    /\ lastFree = Entries - 1
    /\ first = Null
    /\ used = {}

(* pos becomes the head of the list of entries in use. *)
AtHead(pos) ==
    /\ next' = [next EXCEPT ![pos] = first]
    /\ prev' = [p \in Slots |-> IF p = pos THEN Null
                                ELSE IF p = first THEN pos ELSE prev[p]]
    /\ first' = pos

(* pos becomes the successor of p. *)
Behind(p, pos) ==
    /\ next' = [next EXCEPT ![pos] = next[p], ![p] = pos]
    /\ prev' = [q \in Slots |-> IF q = next[p] THEN pos
                                ELSE IF q = pos THEN p ELSE prev[q]]
    /\ UNCHANGED first

(* The loop of th_new ends at the first entry whose successor is not above *)
(* pos; NULL, below all, is no such successor.                             *)
LoopEnd(pos) ==
    LET s == Chain(first)
        i == CHOOSE j \in DOMAIN s :
                /\ ~ pos < next[s[j]]
                /\ \A k \in 1 .. j - 1 : pos < next[s[k]]
    IN  s[i]

(* th_new and MESSAGE_QUEUE_CREATE: the head of the free list moves. *)
Take ==
    /\ firstFree # Null
    /\ Cardinality(used) < MaxUsed
    /\ firstFree' = next[firstFree]
    /\ IF Sorted /\ first # Null /\ first < firstFree
         THEN Behind(LoopEnd(firstFree), firstFree)
         ELSE AtHead(firstFree)
    /\ used' = used \cup {firstFree}
    /\ UNCHANGED <<table, lastFree>>

(* p is unlinked from the list of entries in use. *)
Unlinked_head_kept(p) ==
    /\ prev' = [q \in Slots |-> IF q = next[p] THEN prev[p] ELSE prev[q]]
    /\ UNCHANGED first
Unlinked(p) ==
    /\ prev' = [q \in Slots |-> IF q = next[p] THEN prev[p] ELSE prev[q]]
    /\ first' = IF first = p THEN next[p] ELSE first

(* The next_entry fields once p is unlinked and appended to the free list. *)
(* When the free list is empty p becomes its only entry, and its           *)
(* next_entry keeps the value it has.                                      *)
Appended_unended(p) ==
    LET around == [q \in Slots |-> IF q = prev[p] THEN next[p] ELSE next[q]]
    IN  IF firstFree = Null THEN around ELSE [around EXCEPT ![lastFree] = p]
Appended(p) ==
    LET around == [q \in Slots |-> IF q = prev[p] THEN next[p] ELSE next[q]]
    IN  IF firstFree = Null THEN around
        ELSE [around EXCEPT ![lastFree] = p, ![p] = Null]

(* th_delete and queue_dealloc. *)
GiveBack(p) ==
    /\ p \in used \ Pinned
    /\ next' = Appended(p)
    /\ Unlinked(p)
    /\ firstFree' = IF firstFree = Null THEN p ELSE firstFree
    /\ lastFree' = p
    /\ used' = used \ {p}
    /\ UNCHANGED table

Next == Take \/ \E p \in Slots : GiveBack(p)

Spec == Init /\ [][Next]_vars

-----------------------------------------------------------------------------
(* Properties *)

(* All variables keep their types. *)
TypeOK ==
    /\ next \in [Slots -> Ptr]
    /\ prev \in [Slots -> Ptr]
    /\ {firstFree, lastFree, first} \subseteq Ptr
    /\ used \subseteq Slots

(* The list a thread_property/2 call walks holds each entry in use once,   *)
(* and prev_entry leads back: th_delete can unlink any of them.            *)
ListHoldsUsed ==
    /\ TypeOK
    /\ LET s == Chain(first)
       IN  /\ IsInjective(s)
           /\ ToSet(s) = used
           /\ \A i \in DOMAIN s :
                   prev[s[i]] = IF i = 1 THEN Null ELSE s[i - 1]

(* The pointer structure is a pool of slots: it hands out an entry that    *)
(* nobody has, in the order in which they were given back.                 *)
P == INSTANCE SlotPool WITH
        free <- Chain(firstFree),
        Initial <- [i \in 1 .. Entries |-> i - 1],
        Taken <- {},
        Pinned <- {}
IsPool == P!Pool

(* "get entry from free list": no entry of the free list is in use.        *)
FreeIsUnused == ToSet(Chain(firstFree)) \cap used = {}

(* "keep it ordered in the same way as the table": the list of threads     *)
(* ascends.                                                                *)
Ordered ==
    LET s == Chain(first)
    IN  \A i, j \in DOMAIN s : i < j => s[i] < s[j]
=============================================================================
