------------------------------ MODULE Mailbox ------------------------------
(***************************************************************************)
(* What a message queue promises (docs/userman/threads.tex, "Prolog        *)
(* Message Queues"): a box that holds terms in the order they were sent.   *)
(* A request takes the first term that unifies with its goal; the box      *)
(* never holds more terms than its bound; closing it discards them.        *)
(* Nothing is said of cells, mutexes, waiting or waking.                   *)
(***************************************************************************)
EXTENDS Naturals, Sequences, SequencesExt

CONSTANTS Threads, Terms, Goals

VARIABLES
    open,     \* the box exists
    bound,    \* how many terms it may hold; 0 is no bound
    box,      \* the terms, oldest first
    request   \* the goal each thread waits to see satisfied; {} for none

vars == <<open, bound, box, request>>

Init ==
    /\ open = FALSE
    /\ bound = 0
    /\ box = <<>>
    /\ request = [t \in Threads |-> {}]

Open ==
    /\ ~open
    /\ open' = TRUE
    /\ bound' \in Nat
    /\ box' = <<>>
    /\ UNCHANGED request

Put(tm) ==
    /\ open
    /\ bound # 0 => Len(box) < bound
    /\ box' = Append(box, tm)
    /\ UNCHANGED <<open, bound, request>>

Ask(t, goal) ==
    /\ request[t] = {}
    /\ request' = [request EXCEPT ![t] = goal]
    /\ UNCHANGED <<open, bound, box>>

(* The i-th term is the first one that unifies with the goal. *)
FirstMatch(i, goal) ==
    /\ box[i] \in goal
    /\ \A j \in 1..(i - 1) : box[j] \notin goal

Take(t) ==
    /\ open
    /\ \E i \in DOMAIN box :
         /\ FirstMatch(i, request[t])
         /\ box' = RemoveAt(box, i)
    /\ request' = [request EXCEPT ![t] = {}]
    /\ UNCHANGED <<open, bound>>

(* A request ends without an answer. *)
GiveUp(t) ==
    /\ request[t] # {}
    /\ request' = [request EXCEPT ![t] = {}]
    /\ UNCHANGED <<open, bound, box>>

Close ==
    /\ open
    /\ open' = FALSE
    /\ box' = <<>>
    /\ bound' = 0
    /\ UNCHANGED request

Next ==
    \/ Open \/ Close
    \/ \E tm \in Terms : Put(tm)
    \/ \E t \in Threads : Take(t) \/ GiveUp(t) \/ \E goal \in Goals : Ask(t, goal)

Spec == Init /\ [][Next]_vars

=============================================================================
