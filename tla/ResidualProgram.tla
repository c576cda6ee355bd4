------------------------- MODULE ResidualProgram -------------------------
(***************************************************************************)
(* What the delaying and simplification of literals promises of a ground   *)
(* program with negation: literals leave the bodies of rules, rules leave  *)
(* the program and atoms become true or false, each for a reason that the  *)
(* well-founded semantics accepts.  Nothing is said of tables, delay lists *)
(* or the order of the steps.  DelaySimplification is checked against this *)
(* specification; ResidualProgramProofs shows that it is sound.            *)
(***************************************************************************)
CONSTANTS
  Atoms,
  Rules         \* names of ground rules

Literal == [sign : {"pos", "neg"}, atom : Atoms]
Pos(a) == [sign |-> "pos", atom |-> a]
Neg(a) == [sign |-> "neg", atom |-> a]

VARIABLES
  head,         \* the atom that a rule defines
  body,         \* the literals of its body
  left,         \* those that are not resolved yet
  dead,         \* the rules known not to apply
  true,         \* the atoms known to be true
  false         \* the atoms known to be false

vars == <<head, body, left, dead, true, false>>

Satisfied(l) == \/ l.sign = "pos" /\ l.atom \in true
                \/ l.sign = "neg" /\ l.atom \in false
Refuted(l) == \/ l.sign = "pos" /\ l.atom \in false
              \/ l.sign = "neg" /\ l.atom \in true

(* A rule that waits for its own head adds nothing. *)
Tautology(r) == Pos(head[r]) \in body[r]

Init ==
  /\ head \in [Rules -> Atoms]
  /\ body \in [Rules -> SUBSET Literal]
  /\ left = body
  /\ dead = {} /\ true = {} /\ false = {}

Resolve ==
  /\ left' \in [Rules -> SUBSET Literal]
  /\ \A r \in Rules :
       /\ left'[r] \subseteq left[r]
       /\ \A l \in left[r] \ left'[r] : Satisfied(l)

Refute ==
  /\ dead' \subseteq Rules /\ dead \subseteq dead'
  /\ \A r \in dead' \ dead : Tautology(r) \/ \E l \in left[r] : Refuted(l)

Accept ==
  /\ true' \subseteq Atoms /\ true \subseteq true'
  /\ \A a \in true' \ true :
       \E r \in Rules \ dead : head[r] = a /\ left'[r] = {}

(* A set of atoms becomes false together when each of their rules is dead  *)
(* or waits for one of them, or for another false atom.                    *)
Reject ==
  /\ false' \subseteq Atoms /\ false \subseteq false'
  /\ \A r \in Rules : head[r] \in false' \ false =>
       r \in dead' \/ \E a \in false' : Pos(a) \in left'[r]

Next == Resolve /\ Refute /\ Accept /\ Reject /\ UNCHANGED <<head, body>>

Spec == Init /\ [][Next]_vars
--------------------------------------------------------------------------
TypeOK ==
  /\ head \in [Rules -> Atoms]
  /\ body \in [Rules -> SUBSET Literal]
  /\ left \in [Rules -> SUBSET Literal]
  /\ dead \subseteq Rules
  /\ true \subseteq Atoms /\ false \subseteq Atoms

(* Three-valued stable models: the atoms T are true and those outside P    *)
(* are false.  The least of them is the well-founded model.                *)
Fires(r, X, Y) ==
  \A l \in body[r] : IF l.sign = "pos" THEN l.atom \in X ELSE l.atom \notin Y
Closed(X, Y) == \A r \in Rules : Fires(r, X, Y) => head[r] \in X
Least(X, Y) == Closed(X, Y) /\ \A Z \in SUBSET X : Closed(Z, Y) => Z = X
PartialStable(T, P) == T \subseteq P /\ Least(T, P) /\ Least(P, T)

(* What is true or false is so in every partial stable model. *)
Sound ==
  \A T, P \in SUBSET Atoms : PartialStable(T, P) =>
    true \subseteq T /\ false \cap P = {}
==========================================================================
