------------------------- MODULE TableCompletion -------------------------
(***************************************************************************)
(* What tabled evaluation promises of a positive program, without choice   *)
(* points, stacks or schedules: a call opens a table, a clause whose body  *)
(* is answered adds an answer to an open table, and a set of tables is     *)
(* completed together once none of their clauses can add an answer.        *)
(* The tables of LocalEvaluation are checked against this specification,   *)
(* and TablesProofs shows that it computes the least model.                *)
(***************************************************************************)
EXTENDS Naturals

CONSTANTS
  Subgoals,     \* the tabled subgoals
  Values        \* the answers a subgoal may have

Atom == Subgoals \X Values
Rule == [head : Atom, body : SUBSET Atom]

VARIABLES
  rules,        \* the program, as a set of ground rules
  called,       \* the subgoals that have a table
  answers,      \* the answers in each table
  done          \* the subgoals whose table is complete

vars == <<rules, called, answers, done>>

Holds(atom) == atom[2] \in answers[atom[1]]

(* A rule is exhausted when its head is answered, or when a table that     *)
(* will not grow any more, one of closed, lacks an atom of its body.       *)
Exhausted(r, closed) ==
  \/ Holds(r.head)
  \/ \E a \in r.body : a[1] \in closed /\ ~ Holds(a)

Init ==
  /\ rules \subseteq Rule
  /\ called = {}
  /\ answers = [s \in Subgoals |-> {}]
  /\ done = {}

Call(s) ==
  /\ s \notin called
  /\ called' = called \cup {s}
  /\ UNCHANGED <<rules, answers, done>>

Derivable(s, v) ==
  /\ s \in called \ done
  /\ \E r \in rules : r.head = <<s, v>> /\ \A a \in r.body : Holds(a)

Derive(s, v) ==
  /\ Derivable(s, v)
  /\ answers' = [answers EXCEPT ![s] = @ \cup {v}]
  /\ UNCHANGED <<rules, called, done>>

(* Early completion: the answer is the only one that the table can have.   *)
DeriveLast(s, v) ==
  /\ Derivable(s, v)
  /\ \A r \in rules : r.head[1] = s => r.head[2] = v
  /\ answers' = [answers EXCEPT ![s] = @ \cup {v}]
  /\ done' = done \cup {s}
  /\ UNCHANGED <<rules, called>>

Complete(S) ==
  /\ S \subseteq called \ done
  /\ \A r \in rules : r.head[1] \in S => Exhausted(r, done \cup S)
  /\ done' = done \cup S
  /\ UNCHANGED <<rules, called, answers>>

Next ==
  \/ \E s \in Subgoals : Call(s)
  \/ \E s \in Subgoals, v \in Values : Derive(s, v) \/ DeriveLast(s, v)
  \/ \E S \in SUBSET Subgoals : Complete(S)

Spec == Init /\ [][Next]_vars
--------------------------------------------------------------------------
TypeOK ==
  /\ rules \subseteq Rule
  /\ called \subseteq Subgoals
  /\ answers \in [Subgoals -> SUBSET Values]
  /\ done \subseteq called

(* The sets of atoms that every rule of the program respects. *)
Models ==
  {M \in SUBSET Atom : \A r \in rules : r.body \subseteq M => r.head \in M}

(* An answer is in every model of the program. *)
Sound ==
  \A M \in Models : \A s \in Subgoals : \A v \in answers[s] : <<s, v>> \in M

(* A completed table holds exactly what is in every model: the least model. *)
CompletedIsLeast ==
  \A s \in done, v \in Values :
    v \in answers[s] <=> \A M \in Models : <<s, v>> \in M
==========================================================================
