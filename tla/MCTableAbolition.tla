--------------------------- MODULE MCTableAbolition ---------------------------
(* Small instances of TableAbolition for TLC. *)
EXTENDS TableAbolition, TLC

PA == <<"p", "a">>
PB == <<"p", "b">>
QA == <<"q", "a">>

(* One predicate is abolished, and again while older tables are used. *)
OnePredicate == [calls |-> {PA, PB, QA}, preds |-> {"p"}, subgoals |-> {}, all |-> FALSE]
(* One goal is abolished again and again. *)
OneGoal == [calls |-> {PA, QA}, preds |-> {}, subgoals |-> {PA}, all |-> FALSE]
(* All tables are abolished at once. *)
AllTables == [calls |-> {PA, PB, QA}, preds |-> {}, subgoals |-> {}, all |-> TRUE]
Separate == {OnePredicate, OneGoal, AllTables}

(* Two predicates are abolished. *)
TwoPredicates == {[OnePredicate EXCEPT !.calls = {PA, QA}, !.preds = {"p", "q"}]}
(* Goals and their predicate are abolished. *)
GoalsAndPredicate == {[OnePredicate EXCEPT !.subgoals = {PA, PB}]}
(* A predicate is abolished, and then all tables. *)
PredicateAndAll == {[OnePredicate EXCEPT !.all = TRUE]}

Addresses == Permutations(Frames) \cup Permutations(Tries) \cup Permutations(DelTFs)
===============================================================================
