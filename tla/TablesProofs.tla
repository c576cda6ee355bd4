---------------------------- MODULE TablesProofs ----------------------------
(***************************************************************************)
(* What follows from the two promises of tables.                           *)
(*                                                                         *)
(* A completed table of TableCompletion holds the least model of the       *)
(* program, for any sets of subgoals and answers and any program, finite   *)
(* or not.  The argument: answers are sound because each has a rule whose  *)
(* body is answered; and nothing is missing from completed tables, because *)
(* the atoms that they do not contradict are themselves a model.           *)
(*                                                                         *)
(* TableStore keeps the space of a table while a choice point may return   *)
(* into it, for any goals and any places of tables.                        *)
(***************************************************************************)
EXTENDS TableCompletion, Sequences, TLAPS

-----------------------------------------------------------------------------
(* THE LEAST MODEL *)

(* No rule of a completed table can add an answer any more. *)
Closed == \A r \in rules : r.head[1] \in done => Exhausted(r, done)

IInv == TypeOK /\ Sound /\ Closed

(* The program never changes, so neither do its models. *)
LEMMA ModelsKept == ASSUME UNCHANGED rules PROVE Models' = Models
  BY DEF Models

(* A derivable atom is in every model of which the answers are part. *)
LEMMA DerivableIsTrue ==
  ASSUME TypeOK, Sound, NEW s \in Subgoals, NEW v \in Values, Derivable(s, v),
         NEW M \in Models
  PROVE  <<s, v>> \in M
<1>1. PICK r \in rules : r.head = <<s, v>> /\ \A a \in r.body : Holds(a)
  BY DEF Derivable
<1>2. r \in Rule
  BY DEF TypeOK
<1>3. r.body \subseteq M
  <2> SUFFICES ASSUME NEW a \in r.body PROVE a \in M
    OBVIOUS
  <2>1. a \in Subgoals \X Values
    BY <1>2 DEF Rule, Atom
  <2>2. Holds(a)
    BY <1>1
  <2>3. <<a[1], a[2]>> \in M
    BY <2>1, <2>2 DEF Sound, Holds
  <2> QED
    BY <2>1, <2>3
<1> QED
  BY <1>1, <1>3 DEF Models

LEMMA InitIInv == Init => IInv
  BY DEF Init, IInv, TypeOK, Sound, Closed

(* When an open table gets an answer, rules that completed tables exhaust  *)
(* stay exhausted: what a completed table lacks it never gets.             *)
LEMMA ExhaustedKept ==
  ASSUME TypeOK, NEW r \in rules, Exhausted(r, done),
         NEW s \in Subgoals \ done, NEW v \in Values,
         answers' = [answers EXCEPT ![s] = @ \cup {v}],
         NEW closed, done \subseteq closed
  PROVE  \/ Holds(r.head)'
         \/ \E a \in r.body : a[1] \in closed /\ ~ Holds(a)'
<1>1. r.head \in Atom /\ r.body \subseteq Atom
  BY DEF TypeOK, Rule
<1>2. ASSUME NEW a \in Atom, Holds(a) PROVE Holds(a)'
  BY <1>2 DEF TypeOK, Atom, Holds
<1>3. ASSUME NEW a \in Atom, a[1] \in done, ~ Holds(a) PROVE ~ Holds(a)'
  BY <1>3 DEF TypeOK, Atom, Holds
<1>4. CASE Holds(r.head)
  BY <1>1, <1>2, <1>4
<1>5. CASE \E a \in r.body : a[1] \in done /\ ~ Holds(a)
  <2>1. PICK a \in r.body : a[1] \in done /\ ~ Holds(a)
    BY <1>5
  <2>2. ~ Holds(a)'
    BY <1>1, <1>3, <2>1
  <2> QED
    BY <2>1, <2>2
<1> QED
  BY <1>4, <1>5 DEF Exhausted

LEMMA CallIInv ==
  ASSUME IInv, NEW s \in Subgoals, Call(s)
  PROVE  IInv'
<1>1. TypeOK'
  BY DEF IInv, TypeOK, Call
<1>2. Sound'
  BY ModelsKept DEF IInv, Sound, Call
<1>3. Closed'
  BY DEF IInv, Closed, Exhausted, Holds, Call
<1> QED
  BY <1>1, <1>2, <1>3 DEF IInv

(* Both derivations add one answer, which is sound, to an open table.      *)
LEMMA AnswerSound ==
  ASSUME TypeOK, Sound, NEW s \in Subgoals, NEW v \in Values, Derivable(s, v),
         answers' = [answers EXCEPT ![s] = @ \cup {v}], UNCHANGED rules
  PROVE  Sound'
<1> SUFFICES ASSUME NEW M \in Models, NEW t \in Subgoals, NEW w \in answers'[t]
             PROVE  <<t, w>> \in M
  BY ModelsKept DEF Sound
<1>1. CASE w \in answers[t]
  BY <1>1 DEF Sound
<1>2. CASE w \notin answers[t]
  <2>1. t = s /\ w = v
    BY <1>2 DEF TypeOK
  <2> QED
    BY <2>1, DerivableIsTrue
<1> QED
  BY <1>1, <1>2

LEMMA DeriveIInv ==
  ASSUME IInv, NEW s \in Subgoals, NEW v \in Values, Derive(s, v)
  PROVE  IInv'
<1>1. TypeOK'
  BY DEF IInv, TypeOK, Derive
<1>2. Sound'
  BY AnswerSound DEF IInv, Derive
<1>3. Closed'
  <2> SUFFICES ASSUME NEW r \in rules, r.head[1] \in done
               PROVE  Exhausted(r, done)'
    BY DEF Closed, Derive
  <2>1. s \in Subgoals \ done
    BY DEF Derive, Derivable
  <2>2. Exhausted(r, done)
    BY DEF IInv, Closed
  <2>3. \/ Holds(r.head)'
        \/ \E a \in r.body : a[1] \in done /\ ~ Holds(a)'
    BY <2>1, <2>2, ExhaustedKept DEF IInv, Derive
  <2> QED
    BY <2>3 DEF Exhausted, Holds, Derive
<1> QED
  BY <1>1, <1>2, <1>3 DEF IInv

(* The rules of the table that is completed early all have its answer.     *)
LEMMA DeriveLastIInv ==
  ASSUME IInv, NEW s \in Subgoals, NEW v \in Values, DeriveLast(s, v)
  PROVE  IInv'
<1>1. TypeOK'
  BY DEF IInv, TypeOK, DeriveLast, Derivable
<1>2. Sound'
  BY AnswerSound DEF IInv, DeriveLast
<1>3. Closed'
  <2> SUFFICES ASSUME NEW r \in rules, r.head[1] \in done'
               PROVE  Exhausted(r, done)'
    BY DEF Closed, DeriveLast
  <2>1. s \in Subgoals \ done
    BY DEF DeriveLast, Derivable
  <2>2. CASE r.head[1] \in done
    <3>1. Exhausted(r, done)
      BY <2>2 DEF IInv, Closed
    <3>2. \/ Holds(r.head)'
          \/ \E a \in r.body : a[1] \in done' /\ ~ Holds(a)'
      BY <2>1, <3>1, ExhaustedKept DEF IInv, DeriveLast
    <3> QED
      BY <3>2 DEF Exhausted, Holds, DeriveLast
  <2>3. CASE r.head[1] = s
    <3>1. r.head[2] = v
      BY <2>3 DEF DeriveLast
    <3>2. r.head[2] \in answers'[r.head[1]]
      BY <2>3, <3>1 DEF IInv, TypeOK, DeriveLast
    <3> QED
      BY <3>2 DEF Exhausted, Holds, DeriveLast
  <2> QED
    BY <2>2, <2>3 DEF DeriveLast
<1> QED
  BY <1>1, <1>2, <1>3 DEF IInv

LEMMA CompleteIInv ==
  ASSUME IInv, NEW S \in SUBSET Subgoals, Complete(S)
  PROVE  IInv'
<1>1. TypeOK'
  BY DEF IInv, TypeOK, Complete
<1>2. Sound'
  BY ModelsKept DEF IInv, Sound, Complete
<1>3. Closed'
  <2> SUFFICES ASSUME NEW r \in rules, r.head[1] \in done \cup S
               PROVE  Exhausted(r, done \cup S)
    BY DEF Closed, Complete, Exhausted, Holds
  <2>1. CASE r.head[1] \in done
    BY <2>1 DEF IInv, Closed, Exhausted
  <2>2. CASE r.head[1] \in S
    BY <2>2 DEF Complete
  <2> QED
    BY <2>1, <2>2
<1> QED
  BY <1>1, <1>2, <1>3 DEF IInv

LEMMA NextIInv == IInv /\ [Next]_vars => IInv'
<1> SUFFICES ASSUME IInv, [Next]_vars PROVE IInv'
  OBVIOUS
<1>1. CASE \E s \in Subgoals : Call(s)
  BY <1>1, CallIInv
<1>2. CASE \E s \in Subgoals, v \in Values : Derive(s, v)
  BY <1>2, DeriveIInv
<1>3. CASE \E s \in Subgoals, v \in Values : DeriveLast(s, v)
  BY <1>3, DeriveLastIInv
<1>4. CASE \E S \in SUBSET Subgoals : Complete(S)
  BY <1>4, CompleteIInv
<1>5. CASE UNCHANGED vars
  <2>1. TypeOK'
    BY <1>5 DEF IInv, TypeOK, vars
  <2>2. Sound'
    BY <1>5, ModelsKept DEF IInv, Sound, vars
  <2>3. Closed'
    BY <1>5 DEF IInv, Closed, Exhausted, Holds, vars
  <2> QED
    BY <2>1, <2>2, <2>3 DEF IInv
<1> QED
  BY <1>1, <1>2, <1>3, <1>4, <1>5 DEF Next

(* The atoms that the completed tables do not contradict are a model, so   *)
(* what is in every model is in the completed tables.                      *)
LEMMA IInvIsLeast == IInv => CompletedIsLeast
<1> SUFFICES ASSUME IInv, NEW s \in done, NEW v \in Values
             PROVE  v \in answers[s] <=> \A M \in Models : <<s, v>> \in M
  BY DEF CompletedIsLeast
<1>1. s \in Subgoals
  BY DEF IInv, TypeOK
<1>2. ASSUME v \in answers[s], NEW M \in Models PROVE <<s, v>> \in M
  BY <1>1, <1>2 DEF IInv, Sound
<1>3. ASSUME \A M \in Models : <<s, v>> \in M PROVE v \in answers[s]
  <2> DEFINE Possible == {a \in Atom : a[1] \in done => Holds(a)}
  <2>1. Possible \in Models
    <3>1. Possible \in SUBSET Atom
      OBVIOUS
    <3>2. ASSUME NEW r \in rules, r.body \subseteq Possible PROVE r.head \in Possible
      <4>1. r.head \in Atom
        BY DEF IInv, TypeOK, Rule
      <4>2. r.head[1] \in done => Exhausted(r, done)
        BY DEF IInv, Closed
      <4>3. \A a \in r.body : a[1] \in done => Holds(a)
        BY <3>2
      <4>4. r.head[1] \in done => Holds(r.head)
        BY <4>2, <4>3 DEF Exhausted
      <4> QED
        BY <4>1, <4>4
    <3> HIDE DEF Possible
    <3> QED
      BY <3>1, <3>2 DEF Models
  <2>2. <<s, v>> \in Possible
    BY <1>3, <2>1
  <2> QED
    BY <2>2 DEF Holds
<1> QED
  BY <1>2, <1>3

(* Every table ever built by calls, derivations, early completion and the  *)
(* completion of an SCC has the type it should.                            *)
THEOREM TypeCorrect == Spec => []TypeOK
<1>1. IInv => TypeOK
  BY DEF IInv
<1> QED
  BY <1>1, InitIInv, NextIInv, PTL DEF Spec

(* No table, open or complete, ever has an answer that does not follow     *)
(* from the program. *)
THEOREM Soundness == Spec => []Sound
<1>1. IInv => Sound
  BY DEF IInv
<1> QED
  BY <1>1, InitIInv, NextIInv, PTL DEF Spec

(* A table that is marked complete, in its SCC or early, has exactly the   *)
(* answers that follow from the program. *)
THEOREM Completeness == Spec => []CompletedIsLeast
<1> QED
  BY InitIInv, NextIInv, IInvIsLeast, PTL DEF Spec

-----------------------------------------------------------------------------
(* THE STORE OF TABLES *)

CONSTANTS Calls, Frames, None
VARIABLES current, complete, old, used

Store == INSTANCE TableStore

(* A choice point never returns into a table whose space was reclaimed.    *)
InUseKept == Store!Range(used) \subseteq Store!Allocated

(* The space of a table is not given to another one while it is allocated, *)
(* and an abolished table is not the table of a goal again.                *)
OldIsOld == old \cap Store!Tables = {}

StoreInv ==
  /\ current \in [Calls -> Frames \cup {None}]
  /\ used \in Seq(Frames)
  /\ complete \subseteq Frames \cap Store!Allocated /\ old \subseteq complete
  /\ InUseKept /\ OldIsOld

(* The tables on a longer stack, and on a shorter one. *)
LEMMA RangeAppend ==
  ASSUME NEW S, NEW s \in Seq(S), NEW x \in S
  PROVE  /\ Append(s, x) \in Seq(S)
         /\ Store!Range(Append(s, x)) = Store!Range(s) \cup {x}
<1>1. /\ Append(s, x) \in Seq(S)
      /\ DOMAIN Append(s, x) = 1..(Len(s) + 1)
      /\ DOMAIN s = 1..Len(s) /\ Len(s) \in Nat
      /\ \A i \in 1..Len(s) : Append(s, x)[i] = s[i]
      /\ Append(s, x)[Len(s) + 1] = x
  OBVIOUS
<1>2. 1..(Len(s) + 1) = (1..Len(s)) \cup {Len(s) + 1}
  BY <1>1
<1> QED
  BY <1>1, <1>2 DEF Store!Range

LEMMA RangeFront ==
  ASSUME NEW S, NEW s \in Seq(S), s # <<>>
  PROVE  /\ Store!Last(s) \in S \cap Store!Range(s)
         /\ Store!Front(s) \in Seq(S)
         /\ Store!Range(Store!Front(s)) \subseteq Store!Range(s)
<1>1. /\ Len(s) \in Nat \ {0} /\ DOMAIN s = 1..Len(s)
      /\ \A i \in 1..Len(s) : s[i] \in S
  OBVIOUS
<1>2. Len(s) - 1 \in Nat /\ 1..(Len(s) - 1) \subseteq 1..Len(s) /\ Len(s) \in 1..Len(s)
  BY <1>1
<1>3. Store!Front(s) = [i \in 1..(Len(s) - 1) |-> s[i]]
  BY <1>1, <1>2 DEF Store!Front
<1>4. Store!Front(s) \in Seq(S)
  BY <1>1, <1>2, <1>3
<1> QED
  BY <1>1, <1>2, <1>3, <1>4 DEF Store!Last, Store!Range

LEMMA StoreInit == Store!Init => StoreInv
<1> SUFFICES ASSUME Store!Init PROVE StoreInv
  OBVIOUS
<1>1. used = <<>> /\ Store!Range(used) = {}
  BY DEF Store!Init, Store!Range
<1> QED
  BY <1>1 DEF Store!Init, StoreInv, InUseKept, OldIsOld, Store!Allocated, Store!Tables

LEMMA StoreStep == StoreInv /\ [Store!Next]_Store!vars => StoreInv'
<1> SUFFICES ASSUME StoreInv, [Store!Next]_Store!vars PROVE StoreInv'
  OBVIOUS
<1> USE DEF StoreInv
<1>1. ASSUME NEW c \in Calls, NEW f \in Frames, Store!Create(c, f) PROVE StoreInv'
  <2>1. Store!Tables' = Store!Tables \cup {f}
    BY <1>1 DEF Store!Create, Store!Tables
  <2>2. /\ used' \in Seq(Frames)
        /\ Store!Range(used') = Store!Range(used) \cup {f}
    BY <1>1, RangeAppend DEF Store!Create
  <2> QED
    BY <1>1, <2>1, <2>2 DEF Store!Create, Store!Allocated, InUseKept, OldIsOld
<1>2. CASE Store!Complete
  <2>1. Store!Last(used) \in Frames \cap Store!Allocated
    BY <1>2, RangeFront DEF Store!Complete, InUseKept
  <2> QED
    BY <1>2, <2>1 DEF Store!Complete, Store!Allocated, Store!Tables, InUseKept, OldIsOld
<1>3. ASSUME NEW c \in Calls, Store!Use(c) PROVE StoreInv'
  <2>1. current[c] \in Store!Allocated
    BY <1>3 DEF Store!Use
  <2>2. current[c] \in Frames
    BY <1>3 DEF Store!Use
  <2>3. /\ used' \in Seq(Frames)
        /\ Store!Range(used') = Store!Range(used) \cup {current[c]}
    BY <1>3, <2>2, RangeAppend DEF Store!Use
  <2> QED
    BY <1>3, <2>1, <2>3 DEF Store!Use, Store!Allocated, Store!Tables, InUseKept, OldIsOld
<1>4. CASE Store!Leave
  <2>1. used' \in Seq(Frames) /\ Store!Range(used') \subseteq Store!Range(used)
    BY <1>4, RangeFront DEF Store!Leave
  <2> QED
    BY <1>4, <2>1 DEF Store!Leave, Store!Allocated, Store!Tables, InUseKept, OldIsOld
<1>5. ASSUME NEW A \in SUBSET Frames, NEW R \in SUBSET Frames, Store!Abolish(A, R) PROVE StoreInv'
  <2>1. Store!Tables' = Store!Tables \ A
    BY <1>5 DEF Store!Abolish, Store!Tables
  <2>2. Store!Allocated' = Store!Allocated \ R
    BY <1>5, <2>1 DEF Store!Abolish, Store!Allocated, OldIsOld
  <2> QED
    BY <1>5, <2>1, <2>2 DEF Store!Abolish, InUseKept, OldIsOld, Store!Allocated
<1>6. CASE UNCHANGED Store!vars
  BY <1>6 DEF Store!vars, Store!Allocated, Store!Tables, InUseKept, OldIsOld
<1> QED
  BY <1>1, <1>2, <1>3, <1>4, <1>5, <1>6 DEF Store!Next

(* The promise is worth making: whatever is abolished and whenever space   *)
(* is reclaimed, no choice point is left with a table that is gone.        *)
THEOREM UseIsSafe == Store!Spec => []InUseKept
<1> QED
  BY StoreInit, StoreStep, PTL DEF Store!Spec, StoreInv

(* An abolished table never comes back as the table of a goal.             *)
THEOREM AbolishedStaysAbolished == Store!Spec => []OldIsOld
<1> QED
  BY StoreInit, StoreStep, PTL DEF Store!Spec, StoreInv
=============================================================================
