--------------------------- MODULE MCSharedTables ---------------------------
(* Instances of SharedTables: sets of small programs. *)
EXTENDS SharedTables, TLC

CONSTANTS t1, t2, t3, a, b, c, d, s

(* Every subgoal is of a predicate of its own, or all are of the same one. *)
OwnPredicate == [x \in Subgoals |-> x]
OnePredicate == [x \in Subgoals |-> 0]

(* Programs whose subgoals call up to two subgoals each, c only one, and   *)
(* whose threads have one query: for a subgoal of its own each, where up   *)
(* to renaming a calls as many as b or more, and b as many as c; or all    *)
(* for a and b.                                                            *)
Lists(S) == {l \in UNION {[1 .. k -> S] : k \in 0 .. 2} : IsInjective(l)}
Distinct ==
    {(t1 :> <<a>>) @@ (t2 :> <<b>>) @@ (t3 :> <<c>>) @@
     (a :> x) @@ (b :> y) @@ (c :> z) :
        <<x, y, z>> \in {l \in Lists(Subgoals) \X Lists(Subgoals) \X Lists(Subgoals) :
                          Len(l[1]) >= Len(l[2]) /\ Len(l[2]) >= Len(l[3]) /\ Len(l[3]) < 2}}
Common ==
    {(t1 :> <<a>>) @@ (t2 :> <<a>>) @@ (t3 :> q) @@ (a :> x) @@ (b :> y) @@ (c :> <<>>) :
        q \in {<<a>>, <<b>>}, x \in Lists({a, b}), y \in Lists({a, b})}
SmallPrograms == Distinct \cup Common

(* While t2 waits for c, t1 completes c and goes on to call b. *)
Diamond ==
    {(t1 :> <<a>>) @@ (t2 :> <<b>>) @@ (a :> <<c, b>>) @@ (b :> <<c>>) @@ (c :> <<>>)}

(* t1 takes a, b and d from t2, waits for t3's c, and then comes to b. *)
WaitingLeader ==
    {(t1 :> <<s>>) @@ (t2 :> <<a>>) @@ (t3 :> <<c>>) @@
     (s :> <<d>>) @@ (a :> <<d, c>>) @@ (d :> <<a, b, s>>) @@ (b :> <<a>>) @@
     (c :> <<>>)}

(* t2, once the leader of a circle with t1, calls a subgoal that t3 grabs   *)
(* as the leader of the next.                                              *)
SecondLeader ==
    {(t1 :> <<a, s>>) @@ (t2 :> <<b, c>>) @@ (t3 :> <<d>>) @@
     (a :> <<b>>) @@ (b :> <<a>>) @@ (c :> <<d>>) @@ (d :> <<s>>) @@ (s :> <<c>>)}
=============================================================================
