---------------------- MODULE MCDelaySimplification ----------------------
(* Instances of DelaySimplification: the programs that TLC evaluates.      *)
EXTENDS DelaySimplification

(* All lists of one or two of the bodies in kinds, in the order of kinds.  *)
Lists(kinds) ==
  [ij \in {ij \in (DOMAIN kinds) \X (DOMAIN kinds) : ij[1] <= ij[2]} |->
     IF ij[1] = ij[2] THEN <<kinds[ij[1]]>> ELSE <<kinds[ij[1]], kinds[ij[2]]>>]

P == Pos("p") Q == Pos("q") R == Pos("r")
NP == Neg("p") NQ == Neg("q") NR == Neg("r")

(* Programs of two goals whose clauses have at most two literals.          *)
PairKinds ==
  <<<<>>, <<P>>, <<Q>>, <<NP>>, <<NQ>>, <<P, NQ>>, <<NQ, P>>, <<Q, NP>>, <<NP, Q>>,
    <<NP, NQ>>, <<NQ, NP>>>>
PairLists == Lists(PairKinds)
PairPrograms ==
  [n \in (DOMAIN PairLists) \X (DOMAIN PairLists) |->
     [a \in {"p", "q"} |-> PairLists[IF a = "p" THEN n[1] ELSE n[2]]]]
PairQueries == {<<"p", "q">>}
(* Programs of four goals in which the failure of x decides t, and with it *)
(* b and c, which may depend on b: chains of simplifications.              *)
T == Pos("t") X == Pos("x") B == Pos("b") C == Pos("c")
NT == Neg("t") NX == Neg("x") NB == Neg("b") NC == Neg("c")
ChainPrograms ==
  LET t == Lists(<<<<NX>>, <<B, X>>, <<NC, B>>>>)
      x == Lists(<<<<T, X>>, <<NB, T>>>>)
      b == Lists(<<<<NT>>, <<T, NX>>, <<X>>>>)
      c == Lists(<<<<B>>, <<NT, NC>>>>)
  IN  [n \in (DOMAIN t) \X (DOMAIN x) \X (DOMAIN b) \X (DOMAIN c) |->
         [a \in {"t", "x", "b", "c"} |->
            CASE a = "t" -> t[n[1]] [] a = "x" -> x[n[2]]
              [] a = "b" -> b[n[3]] [] a = "c" -> c[n[4]]]]
ChainQueries == {<<"t", "b", "x", "c">>}
==========================================================================
