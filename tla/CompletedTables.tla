--------------------------- MODULE CompletedTables ---------------------------
(***************************************************************************)
(* What the threads that share tables may rely on (docs/userman/           *)
(* threads.tex, "Shared Completed Tables"): a set of mutually dependent    *)
(* subgoals completes as a whole, once everything its clauses call is      *)
(* complete, and a thread gets answers only from a complete table.         *)
(***************************************************************************)
EXTENDS Integers, Sequences, SequencesExt

CONSTANTS Threads, Subgoals

VARIABLES
    calls,     \* the subgoals that the clauses of a subgoal, or the queries of
               \* a thread, call, in their order
    complete,  \* the subgoals whose tables are complete
    answered   \* how many of its queries each thread has had answered

Init ==
    /\ complete = {}
    /\ answered = [t \in Threads |-> 0]

Complete ==
    /\ \E scc \in (SUBSET (Subgoals \ complete)) \ {{}} :
        /\ \A s \in scc : ToSet(calls[s]) \subseteq complete \cup scc
        /\ complete' = complete \cup scc
    /\ UNCHANGED <<calls, answered>>

Answer(t) ==
    /\ answered[t] < Len(calls[t])
    /\ calls[t][answered[t] + 1] \in complete
    /\ answered' = [answered EXCEPT ![t] = @ + 1]
    /\ UNCHANGED <<calls, complete>>

Next == Complete \/ \E t \in Threads : Answer(t)

Spec == Init /\ [][Next]_<<calls, complete, answered>>
=============================================================================
