----------------------- MODULE MCLocalEvaluation -----------------------
(* Instances of LocalEvaluation: the programs that TLC evaluates.          *)
EXTENDS LocalEvaluation

MCValues == 1..3

(* The steps of clauses: p(X) :- q(X); p(X) :- q(Y), succ(Y, X);           *)
(* p(X) :- q(X), X == n; p :- q(_), fail.                                  *)
Pass == [xy \in MCValues \X MCValues |-> xy[2]]
Keep == [xy \in MCValues \X MCValues |-> xy[1]]
Succ == [xy \in MCValues \X (1..2) |-> xy[2] + 1]
Never == <<>>

Fact(v) == [start |-> v, body |-> <<>>]
If(goal, step) == [start |-> 1, body |-> <<[goal |-> goal, step |-> step]>>]

(* All lists of one or two of the clauses in kinds, numbered. *)
Lists(kinds) ==
  LET n == Len(kinds)
  IN  [i \in 0..n * (n + 1) - 1 |->
         IF i < n THEN <<kinds[i + 1]>>
         ELSE <<kinds[(i \div n)], kinds[(i % n) + 1]>>]

(* All programs of two subgoals with one or two clauses each of at most    *)
(* one literal. *)
PairClauses ==
  <<Fact(1), If("p", Pass), If("p", Succ), If("p", Never),
    If("q", Pass), If("q", Succ), If("q", Never)>>
PairPrograms ==
  LET lists == Lists(PairClauses)
  IN  [n \in (DOMAIN lists) \X (DOMAIN lists) |->
         [s \in {"p", "q"} |-> IF s = "p" THEN lists[n[1]] ELSE lists[n[2]]]]
PairQueries == {<<"p", "q">>}

(* Programs of p and q with a ground subgoal g.  g may be completed early, *)
(* inside the SCC of p and q, also by a clause that waits for p(2).        *)
Is2 == [xy \in MCValues \X {2} |-> 1]
GroundPrograms ==
  LET p == Lists(<<Fact(1), If("q", Pass), If("p", Succ), If("g", Never)>>)
      q == Lists(<<Fact(1), If("p", Succ),
                   [start |-> 1, body |-> <<[goal |-> "p", step |-> Pass],
                                            [goal |-> "g", step |-> Keep]>>]>>)
      g == Lists(<<If("p", Is2), If("q", Keep), If("q", Never)>>)
  IN  [n \in (DOMAIN p) \X (DOMAIN q) \X (DOMAIN g) |->
         [s \in {"p", "q", "g"} |->
            CASE s = "p" -> p[n[1]] [] s = "q" -> q[n[2]] [] s = "g" -> g[n[3]]]]
GroundQueries == {<<"p", "q", "g">>}

(* The answer of g prunes the consumer of p by which q is answered:        *)
(*   g :- p(X), X == 2.   p(X) :- q(X).   p(_) :- g, fail.                 *)
(*   q(1).   q(X) :- p(Y), succ(Y, X).      ?- g.   ?- p(X).               *)
PrunedProgram ==
  [n \in {"pruned"} |->
     [s \in {"p", "q", "g"} |->
        CASE s = "p" -> <<If("q", Pass), If("g", Never)>>
          [] s = "q" -> <<Fact(1), If("p", Succ)>>
          [] s = "g" -> <<If("p", Is2)>>]]
PrunedQueries == {<<"g", "p">>}

(* A completed consumer cuts a live one off the list of p:                 *)
(*   t(X) :- p(X).   q :- p(_), fail.   q.                                 *)
(*   p(_) :- q, fail.   p(X) :- a(X).   p(X) :- b(X).   p(1).              *)
(*   p(_) :- t(_), fail.                                                   *)
(*   a(X) :- p(Y), succ(Y, X).   b(X) :- p(Y), Y == 1, X = 1.      ?- t(X). *)
Is1 == [xy \in MCValues \X {1} |-> 1]
LostProgram ==
  [n \in {"lost"} |->
     [s \in {"t", "p", "q", "a", "b"} |->
        CASE s = "t" -> <<If("p", Pass)>>
          [] s = "q" -> <<If("p", Never), Fact(1)>>
          [] s = "p" -> <<If("q", Never), If("a", Pass), If("b", Pass), Fact(1),
                          If("t", Never)>>
          [] s = "a" -> <<If("p", Succ)>>
          [] s = "b" -> <<If("p", Is1)>>]]
LostQueries == {<<"t", "p">>}

(* The frame of d leaves the heap while d is a leader; then d calls e, and *)
(* the generator of d becomes a consumer that nothing schedules:           *)
(*   e(X) :- d(X).   d(1).   d(X) :- a(X), e(_).   a(X) :- d(X).   ?- e(X). *)
PoppedProgram ==
  [n \in {"popped"} |->
     [s \in {"e", "d", "a"} |->
        CASE s = "e" -> <<If("d", Pass)>>
          [] s = "d" -> <<Fact(1), [start |-> 1, body |-> <<[goal |-> "a", step |-> Pass],
                                                           [goal |-> "e", step |-> Keep]>>]>>
          [] s = "a" -> <<If("d", Pass)>>]]
PoppedQueries == {<<"e", "d">>}
=========================================================================
