---------------------- MODULE ResidualProgramProofs ----------------------
(***************************************************************************)
(* ResidualProgram is sound, for any atoms and any program, finite or not: *)
(* what it makes true or false is so in every partial stable model, in the *)
(* well-founded model therefore.  The argument fixes such a model: it      *)
(* satisfies each literal that has left a body, and it refutes a literal   *)
(* of each dead rule or the rule defines an atom of its own body; so the   *)
(* atoms that become false together can be taken from those possible.      *)
(***************************************************************************)
EXTENDS ResidualProgram, TLAPS

(* The literals that a partial stable model makes true, and false. *)
Holds(l, T, P) == IF l.sign = "pos" THEN l.atom \in T ELSE l.atom \notin P
Fails(l, T, P) == IF l.sign = "pos" THEN l.atom \notin P ELSE l.atom \in T

(* The residual program agrees with the model <<T, P>>. *)
Agrees(T, P) ==
  /\ true \subseteq T
  /\ false \cap P = {}
  /\ \A r \in Rules : \A l \in body[r] \ left[r] : Holds(l, T, P)
  /\ \A r \in dead : Tautology(r) \/ \E l \in body[r] : Fails(l, T, P)

Shrinks == \A r \in Rules : left[r] \subseteq body[r]

IInv ==
  /\ TypeOK
  /\ Shrinks
  /\ \A T, P \in SUBSET Atoms : PartialStable(T, P) => Agrees(T, P)

(* The models are those of a program that never changes. *)
LEMMA ModelsKept ==
  ASSUME NEW T, NEW P, UNCHANGED <<head, body>>
  PROVE  PartialStable(T, P)' <=> PartialStable(T, P)
  BY DEF PartialStable, Least, Closed, Fires

LEMMA InitIInv == Init => IInv
  BY DEF Init, IInv, TypeOK, Shrinks, Agrees

(* Types and the bodies survive a step. *)
LEMMA StepTypeOK ==
  ASSUME TypeOK, Shrinks, Next
  PROVE  TypeOK' /\ Shrinks'
  BY DEF TypeOK, Shrinks, Next, Resolve, Refute, Accept, Reject

(* A literal leaves a body only if every model makes it true. *)
LEMMA StepResolve ==
  ASSUME TypeOK, NEW T \in SUBSET Atoms, NEW P \in SUBSET Atoms, Agrees(T, P), Next,
         NEW r \in Rules, NEW l \in body[r] \ left'[r]
  PROVE  Holds(l, T, P)
<1>1. CASE l \notin left[r]
  BY <1>1 DEF Agrees
<1>2. CASE l \in left[r]
  <2>1. Satisfied(l)
    BY <1>2 DEF Next, Resolve
  <2> QED
    BY <2>1 DEF Satisfied, Holds, Agrees
<1> QED
  BY <1>1, <1>2

(* A rule dies only if every model refutes it, or if it is a tautology. *)
LEMMA StepRefute ==
  ASSUME TypeOK, Shrinks, NEW T \in SUBSET Atoms, NEW P \in SUBSET Atoms,
         T \subseteq P, Agrees(T, P), Next, NEW r \in dead'
  PROVE  Tautology(r) \/ \E l \in body[r] : Fails(l, T, P)
<1>1. CASE r \in dead
  BY <1>1 DEF Agrees
<1>2. CASE r \notin dead /\ ~ Tautology(r)
  <2>1. r \in Rules
    BY DEF Next, Refute
  <2>2. PICK l \in left[r] : Refuted(l)
    BY <1>2 DEF Next, Refute
  <2>3. l \in body[r] /\ l \in Literal
    BY <2>1, <2>2 DEF Shrinks, TypeOK
  <2>4. Fails(l, T, P)
    BY <2>2, <2>3 DEF Refuted, Fails, Agrees, Literal
  <2> QED
    BY <2>3, <2>4
<1> QED
  BY <1>1, <1>2

(* A rule without literals left applies in every model. *)
LEMMA StepAccept ==
  ASSUME TypeOK, NEW T \in SUBSET Atoms, NEW P \in SUBSET Atoms,
         PartialStable(T, P), Agrees(T, P), Next, NEW a \in true'
  PROVE  a \in T
<1>1. CASE a \in true
  BY <1>1 DEF Agrees
<1>2. CASE a \notin true
  <2>1. PICK r \in Rules : head[r] = a /\ left'[r] = {}
    BY <1>2 DEF Next, Accept
  <2>2. \A l \in body[r] : Holds(l, T, P)
    BY <2>1, StepResolve
  <2>3. Fires(r, T, P)
    BY <2>2 DEF Fires, Holds
  <2> QED
    BY <2>1, <2>3 DEF PartialStable, Least, Closed
<1> QED
  BY <1>1, <1>2

(* What becomes false is not possible in any model: without it the atoms   *)
(* of P are still closed under the rules, and P is the least such set.     *)
LEMMA StepReject ==
  ASSUME TypeOK, Shrinks, NEW T \in SUBSET Atoms, NEW P \in SUBSET Atoms,
         PartialStable(T, P), Agrees(T, P), Next
  PROVE  false' \cap P = {}
<1> DEFINE Q == P \ false'
<1>1. T \subseteq P
  BY DEF PartialStable
<1>2. ASSUME NEW r \in Rules, Fires(r, Q, T), head[r] \in false' PROVE FALSE
  <2>1. Fires(r, P, T)
    BY <1>2 DEF Fires
  <2>2. head[r] \in P
    BY <2>1 DEF PartialStable, Least, Closed
  <2>3. head[r] \notin false
    BY <2>2 DEF Agrees
  <2>4. CASE r \in dead'
    <3>1. CASE Tautology(r)
      <4>1. Pos(head[r]) \in body[r]
        BY <3>1 DEF Tautology
      <4>2. head[r] \in Q
        BY <4>1, <1>2 DEF Fires, Pos
      <4> QED
        BY <4>2, <1>2
    <3>2. ASSUME NEW l \in body[r], Fails(l, T, P) PROVE FALSE
      BY <3>2, <2>1 DEF Fires, Fails
    <3> QED
      BY <2>4, <3>1, <3>2, <1>1, StepRefute
  <2>5. CASE \E a \in false' : Pos(a) \in left'[r]
    <3>1. PICK a \in false' : Pos(a) \in left'[r]
      BY <2>5
    <3>2. Pos(a) \in body[r]
      BY <3>1 DEF Next, Resolve, Shrinks
    <3>3. a \in Q
      BY <3>2, <1>2 DEF Fires, Pos
    <3> QED
      BY <3>1, <3>3
  <2> QED
    BY <1>2, <2>3, <2>4, <2>5 DEF Next, Reject
<1>3. Closed(Q, T)
  <2> SUFFICES ASSUME NEW r \in Rules, Fires(r, Q, T) PROVE head[r] \in Q
    BY DEF Closed
  <2>1. Fires(r, P, T)
    BY DEF Fires
  <2>2. head[r] \in P
    BY <2>1 DEF PartialStable, Least, Closed
  <2> QED
    BY <1>2, <2>2
<1>4. Q = P
  BY <1>3 DEF PartialStable, Least
<1> QED
  BY <1>4

LEMMA NextIInv == ASSUME IInv, Next PROVE IInv'
<1>1. TypeOK' /\ Shrinks'
  BY StepTypeOK DEF IInv
<1>2. UNCHANGED <<head, body>>
  BY DEF Next
<1>3. ASSUME NEW T \in SUBSET Atoms, NEW P \in SUBSET Atoms, PartialStable(T, P)'
      PROVE  Agrees(T, P)'
  <2>1. PartialStable(T, P)
    BY <1>2, <1>3, ModelsKept
  <2>2. Agrees(T, P) /\ T \subseteq P
    BY <2>1 DEF IInv, PartialStable
  <2>3. true' \subseteq T
    BY <2>1, <2>2, StepAccept DEF IInv
  <2>4. false' \cap P = {}
    BY <2>1, <2>2, StepReject DEF IInv
  <2>5. \A r \in Rules : \A l \in body[r] \ left'[r] : Holds(l, T, P)
    BY <2>2, StepResolve DEF IInv
  <2>6. \A r \in dead' : Tautology(r) \/ \E l \in body[r] : Fails(l, T, P)
    BY <2>2, StepRefute DEF IInv
  <2> QED
    BY <1>2, <2>3, <2>4, <2>5, <2>6 DEF Agrees, Tautology, Holds, Fails
<1> QED
  BY <1>1, <1>3 DEF IInv

LEMMA StutterIInv == ASSUME IInv, UNCHANGED vars PROVE IInv'
<1>1. TypeOK' /\ Shrinks'
  BY DEF IInv, vars, TypeOK, Shrinks
<1>2. ASSUME NEW T \in SUBSET Atoms, NEW P \in SUBSET Atoms, PartialStable(T, P)'
      PROVE  Agrees(T, P)'
  <2>1. PartialStable(T, P)
    BY <1>2, ModelsKept DEF vars
  <2>2. Agrees(T, P)
    BY <2>1 DEF IInv
  <2> QED
    BY <2>2 DEF vars, Agrees, Tautology, Holds, Fails
<1> QED
  BY <1>1, <1>2 DEF IInv

(* Types hold in every state of ResidualProgram. *)
THEOREM TypeCorrect == Spec => []TypeOK
<1>1. IInv /\ [Next]_vars => IInv'
  BY NextIInv, StutterIInv
<1>2. IInv => TypeOK
  BY DEF IInv
<1> QED
  BY InitIInv, <1>1, <1>2, PTL DEF Spec

(* An atom that the residual program makes true or false is so in every    *)
(* partial stable model of the program, the well-founded one among them.   *)
THEOREM Soundness == Spec => []Sound
<1>1. IInv /\ [Next]_vars => IInv'
  BY NextIInv, StutterIInv
<1>2. IInv => Sound
  BY DEF IInv, Sound, Agrees
<1> QED
  BY InitIInv, <1>1, <1>2, PTL DEF Spec
==========================================================================
