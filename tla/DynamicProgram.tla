---------------------------- MODULE DynamicProgram ----------------------------
(***************************************************************************)
(* Programs of incremental tables, and what they mean.                     *)
(*                                                                         *)
(* A program has unary predicates.  Leaves are the calls to incremental    *)
(* dynamic predicates, Tabled the incremental tabled subgoals.  A clause   *)
(* is the sequence of the goals of its body; the last one binds the        *)
(* argument of the head, the ones before it only have to succeed.          *)
(***************************************************************************)
EXTENDS Naturals, Sequences, SequencesExt, FiniteSets

CONSTANTS
    Leaves,      \* calls to incremental dynamic predicates
    Tabled,      \* incremental tabled subgoals
    Vals,        \* the arguments of facts and answers
    Clauses,     \* the bodies of the clauses of each tabled subgoal
    NoTable

Goals == Leaves \cup Tabled

ASSUME ProgramOK ==
    /\ Leaves \cap Tabled = {}
    /\ NoTable \notin Goals
    /\ IsFiniteSet(Tabled) /\ IsFiniteSet(Vals)
    /\ DOMAIN Clauses = Tabled
    /\ \A t \in Tabled : \A b \in Clauses[t] : b # <<>> /\ b \in Seq(Goals)

(* What the clauses of t give when each goal g has the answers a[g].       *)
Consequences(t, a) ==
    UNION {a[Last(b)] : b \in {c \in Clauses[t] : \A i \in 1 .. Len(c) - 1 : a[c[i]] # {}}}

(* The least model of the program with the facts d. *)
LeastModel(d) ==
    LET Round(a) == [g \in Goals |-> IF g \in Leaves THEN d[g] ELSE Consequences(g, a)]
        rounds[k \in Nat] ==
            IF k = 0 THEN [g \in Goals |-> {}] ELSE Round(rounds[k - 1])
    IN  rounds[Cardinality(Tabled) * Cardinality(Vals) + 1]
================================================================================
