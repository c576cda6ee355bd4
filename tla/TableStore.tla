------------------------------ MODULE TableStore ------------------------------
(***************************************************************************)
(* What abolishing tables promises.  A goal has at most one current table. *)
(* Abolishing takes completed tables away from their goals, so that the    *)
(* next call makes a table anew; the space of such a table is reclaimed at *)
(* any time after, but not while a choice point may return into it.        *)
(***************************************************************************)
EXTENDS Sequences, SequencesExt

CONSTANTS
    Calls,      \* the goals
    Frames,     \* the places for tables
    None

VARIABLES
    current,     \* the table of each goal, or None
    complete,    \* the tables that are complete
    old,         \* the abolished tables that are not reclaimed yet
    used         \* the tables the choice points return into, the newest last

vars == <<current, complete, old, used>>

Tables == {current[c] : c \in Calls} \ {None}
Allocated == Tables \cup old

Init ==
  /\ current = [c \in Calls |-> None]
  /\ complete = {} /\ old = {} /\ used = <<>>

Create(c, f) ==
  /\ current[c] = None /\ f \notin Allocated \cup {None}
  /\ current' = [current EXCEPT ![c] = f]
  /\ used' = Append(used, f)
  /\ UNCHANGED <<complete, old>>

Complete ==
  /\ used # <<>>
  /\ complete' = complete \cup {Last(used)}
  /\ UNCHANGED <<current, old, used>>

Use(c) ==
  /\ current[c] \in complete
  /\ used' = Append(used, current[c])
  /\ UNCHANGED <<current, complete, old>>

Leave ==
  /\ used # <<>> /\ Last(used) \in complete
  /\ used' = Front(used)
  /\ UNCHANGED <<current, complete, old>>

Abolish(A, R) ==
  /\ A \subseteq Tables \cap complete
  /\ R \subseteq (old \cup A) \ Range(used)
  /\ current' = [c \in Calls |-> IF current[c] \in A THEN None ELSE current[c]]
  /\ old' = (old \cup A) \ R
  /\ complete' = complete \ R
  /\ UNCHANGED used

Next ==
  \/ \E c \in Calls, f \in Frames : Create(c, f)
  \/ \E c \in Calls : Use(c)
  \/ Complete \/ Leave
  \/ \E A, R \in SUBSET Frames : Abolish(A, R)

Spec == Init /\ [][Next]_vars
===============================================================================
