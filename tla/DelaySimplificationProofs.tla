-------------------- MODULE DelaySimplificationProofs --------------------
(***************************************************************************)
(* DelaySimplification implements ResidualProgram, for any goals, programs *)
(* and queries: each literal that leaves a clause has been satisfied, each *)
(* clause that fails is refuted, each answer is made unconditional or      *)
(* deleted for a reason.  By ResidualProgramProofs the answers are those   *)
(* of the well-founded model.                                              *)
(* Inv says where clauses, delay lists and the calls of simplification     *)
(* may stand.  What it needs beyond the types is that nothing open before  *)
(* the SCC that is completed waits for a decision in it (DelayOK, Zone),   *)
(* so that simplification stays within an SCC, and that literals which an  *)
(* SCC has delayed at a fixpoint are not decided by the SCC itself before  *)
(* it is completed (Stalled), so that nothing is left to decide then.      *)
(***************************************************************************)
EXTENDS DelaySimplification, FiniteSetTheorems, SequenceTheorems, WellFoundedInduction, TLAPS

--------------------------------------------------------------------------
(* THE INVARIANT *)

(* Goals whose evaluation is under way, those whose SCC is being completed *)
(* and the others of them; goals whose SCC was completed.                  *)
Opened == Range(frames)
Closing == IF completing = 0 THEN {} ELSE Scc
Live == Opened \ Closing
Done == complete \ Opened

(* The goals whose answers may change: simplification stays among them.    *)
Zone == IF completing = 0 THEN Opened ELSE Scc

(* Two open goals are in the same SCC, the topmost or an older one. *)
Same(a, b) ==
  \E f, g \in DOMAIN frames :
    /\ frames[f] = a /\ frames[g] = b
    /\ \A l \in leaders : l <= f <=> l <= g

Statuses == {"running", "waiting", "suspended", "resumed", "failed", "dl", "gone"}
Calls ==
  [op : {"new_answer", "pos_unconditional", "empty_dl", "neg_succeeds", "unsupported",
         "pos_unsupported", "neg_fails"},
   step : {"new", "old", "enter", "loop", "after"}, atom : Atoms, rule : Nat]

Types ==
  /\ program \in DOMAIN Programs
  /\ todo \in Seq(Atoms)
  /\ frames \in Seq(Atoms) /\ IsInjective(frames)
  /\ leaders \subseteq DOMAIN frames
  /\ completing \in Nat /\ completing <= Len(frames) + 1
  /\ complete \subseteq Atoms
  /\ answer \in [Atoms -> {"none", "cond", "uncond"}]
  /\ clause \in [Clauses(program) -> [at : Nat, delays : SUBSET Nat, status : Statuses]]
  /\ nde_list \in [Atoms -> SUBSET ((Atoms \X Nat) \X Nat)]
  /\ pdes \in [Atoms -> SUBSET ((Atoms \X Nat) \X Nat)]
  /\ calls \in Seq(Calls)
  /\ neg_fails \in Seq(Atoms)
  /\ depth \in Nat

(* The first frame leads an SCC; frames before the one that completion is  *)
(* at are complete.                                                        *)
Frames ==
  /\ frames # <<>> => 1 \in leaders
  /\ completing # 0 => /\ frames # <<>> /\ Leader <= completing
                       /\ \A f \in DOMAIN frames :
                            Leader <= f /\ f < completing => frames[f] \in complete

(* Early completion is by an unconditional answer only. *)
EarlyCompleted == \A a \in complete \cap Live : is_unconditional_answer(a)

(* Goals that were not called have no answers and nothing delayed. *)
Uncalled ==
  \A a \in Atoms \ called :
    /\ subgoal_fails(a)
    /\ \A r \in Rules : r[1] = a => clause[r] = Start

(* simplify_pos_unconditional of a is about to begin. *)
Awaited(a) == calls # <<>> /\ Top = Call("pos_unconditional", "enter", a)

(* The places and the status of each clause. *)
ClauseOK(r) ==
  /\ clause[r].at \in 1..Len(Body(r)) + 1
  /\ clause[r].delays \subseteq 1..clause[r].at - 1
  /\ clause[r].status \in {"suspended", "resumed"} =>
       clause[r].at <= Len(Body(r)) /\ Literal(r).sign = "neg"
  /\ clause[r].status = "suspended" /\ r[1] \in Live => Same(r[1], Goal(r))
  /\ clause[r].status = "running" =>
       /\ Evaluating /\ r[1] \in Scc
       /\ \A q \in Rules : clause[q].status = "running" => q = r
  /\ clause[r].status = "dl" =>
       /\ is_conditional_answer(r[1])
       /\ clause[r].at = Len(Body(r)) + 1
       /\ clause[r].delays = {} => calls # <<>> /\ Top = CallEmptyDl(r)
  /\ clause[r].status = "gone" => is_unconditional_answer(r[1]) \/ Awaited(r[1])
  /\ r[1] \in Closing =>
       \/ clause[r].status \in {"failed", "dl", "gone"}
       \/ /\ clause[r].status = "waiting"
          /\ clause[r].at <= Len(Body(r)) /\ Literal(r).sign = "pos"
          /\ Goal(r) \in Closing /\ subgoal_fails(Goal(r))
ClausesOK == \A r \in Rules : ClauseOK(r)

(* What an open goal has delayed is in its SCC or done, and what it has    *)
(* delayed positively has an answer; what is done depends on what is done. *)
DelayOK(r, i) ==
  /\ r[1] \in Opened => Body(r)[i].atom \in Done \/ Same(r[1], Body(r)[i].atom)
  /\ r[1] \in Done /\ clause[r].status = "dl" => Body(r)[i].atom \in Done
  /\ r[1] \in Live /\ Body(r)[i].sign = "pos" => ~ subgoal_fails(Body(r)[i].atom)
DelaysOK == \A r \in Rules : \A i \in clause[r].delays : DelayOK(r, i)

(* The lists of delay elements, as in ListsAgree; one on an unconditional  *)
(* answer is about to be removed.                                          *)
ListsOK ==
  /\ \A a \in Atoms : nde_list[a] = ElementsOn("neg", a) /\ pdes[a] = ElementsOn("pos", a)
  /\ \A a \in Atoms : is_unconditional_answer(a) /\ pdes[a] # {} =>
       \E i \in DOMAIN calls : calls[i].op = "pos_unconditional" /\ calls[i].step = "loop"
                               /\ calls[i].atom = a

(* What a call under way, and the innermost one, relies on. *)
CallOK(c) ==
  /\ c.atom \in Zone
  /\ c.op \in {"unsupported", "pos_unsupported", "neg_fails"} => completing # 0
  /\ c.op \in {"pos_unsupported", "neg_fails"} => subgoal_fails(c.atom)
  /\ c.op = "neg_fails" => c.atom \in complete
  /\ c.op = "neg_succeeds" \/ (c.op = "pos_unconditional" /\ c.step = "loop") =>
       is_unconditional_answer(c.atom)
  /\ c.op = "new_answer" \/ (c.op = "empty_dl" /\ c.step = "after") =>
       is_unconditional_answer(c.atom) \/ Awaited(c.atom)
Proof(r) ==
  clause[r].status = "gone" /\ clause[r].delays = {} /\ clause[r].at = Len(Body(r)) + 1
TopOK ==
  /\ Top.op = "pos_unconditional" /\ Top.step = "enter" =>
       is_conditional_answer(Top.atom) /\ \E r \in Rules : r[1] = Top.atom /\ Proof(r)
  /\ Top.op = "empty_dl" /\ Top.step = "enter" =>
       LET r == <<Top.atom, Top.rule>>
       IN  r \in Rules /\ clause[r].status = "dl" /\ clause[r].delays = {}
  /\ Top.op = "unsupported" /\ Top.step = "enter" =>
       is_conditional_answer(Top.atom) /\ dls(Top.atom) = {}
CallsOK ==
  /\ \A i \in DOMAIN calls : CallOK(calls[i])
  /\ \A i \in DOMAIN calls : calls[i].step = "enter" => i = Len(calls)
  /\ calls # <<>> => TopOK

(* Goals on the stack of simplify_neg_fails wait for a call under way. *)
StackOK ==
  /\ neg_fails # <<>> => in_simplify_neg_fails
  /\ \A i \in DOMAIN neg_fails :
       neg_fails[i] \in Closing \cap complete /\ subgoal_fails(neg_fails[i])

LoopCalls(s) == {i \in DOMAIN s : s[i].step = "loop"}
DepthOK == Cardinality(LoopCalls(calls)) <= depth

(* The goals F stall: each of their clauses has failed, or is stuck at a   *)
(* literal that can be satisfied only when their SCC is completed, as it   *)
(* is on one of them or on a conditional answer that is left for good.     *)
(* Those are goals that were open at a fixpoint with suspensions; what is  *)
(* delayed negatively is one of them, so that their evaluation decides     *)
(* nothing.                                                                *)
Left(a) == a \in Done /\ is_conditional_answer(a)
Stalls(F, r, l) ==
  \/ l.atom \in F /\ Same(r[1], l.atom)
  \/ Left(l.atom)
  \/ l.sign = "neg" /\ is_unconditional_answer(l.atom)
Stalled(F) ==
  /\ F \subseteq Live \ complete
  /\ \A a \in F : ~ is_unconditional_answer(a)
  /\ \A r \in Rules : r[1] \in F =>
       \/ clause[r].status = "failed"
       \/ /\ clause[r].status # "gone"
          /\ \E i \in DOMAIN Body(r) :
               /\ i \in clause[r].delays \/ i = clause[r].at
               /\ Stalls(F, r, Body(r)[i])
  /\ \A r \in Rules : r[1] \in Live /\ clause[r].status = "resumed" =>
       is_unconditional_answer(Goal(r)) \/ (Goal(r) \in F /\ Same(r[1], Goal(r)))
  /\ \A r \in Rules : r[1] \in Live => \A i \in clause[r].delays :
       Body(r)[i].sign = "neg" =>
         \/ Body(r)[i].atom \in F /\ Same(r[1], Body(r)[i].atom)
         \/ Left(Body(r)[i].atom)

Inv ==
  /\ Types /\ Frames /\ EarlyCompleted /\ Uncalled
  /\ ClausesOK /\ DelaysOK /\ ListsOK
  /\ CallsOK /\ StackOK /\ DepthOK
  /\ \E F \in SUBSET Atoms : Stalled(F)
--------------------------------------------------------------------------
(* SEQUENCES AND PROGRAMS *)

(* A set of numbers with a bound has a greatest. *)
LEMMA Greatest ==
  ASSUME NEW n \in Nat, NEW S \in SUBSET (1..n), S # {}
  PROVE  /\ Max(S) \in S
         /\ \A k \in S : k <= Max(S)
<1> DEFINE R == OpToRel(<, Nat)
           T == {n - k : k \in S}
<1>1. IsWellFoundedOn(R, Nat)
  BY NatLessThanWellFounded
<1>2. \A x, y \in Nat : x < y => <<x, y>> \in R
  BY DEF OpToRel
<1> HIDE DEF R
<1>3. T \in SUBSET Nat /\ T # {}
  <2>1. \A k \in S : n - k \in Nat
    OBVIOUS
  <2> QED BY <2>1
<1>4. PICK m \in T : \A k \in T : ~ (<<k, m>> \in R)
  <2> HIDE DEF T
  <2> QED BY <1>1, <1>3, WFMin
<1>5. PICK x \in S : m = n - x
  BY <1>4
<1>6. \A k \in S : x >= k
  <2> TAKE k \in S
  <2>1. ~ (n - k < n - x)
    BY <1>2, <1>3, <1>4, <1>5
  <2> QED BY <2>1
<1>7. Max(S) \in S /\ \A k \in S : Max(S) >= k
  BY <1>6 DEF Max
<1> QED BY <1>7

(* What Front and Last leave. *)
LEMMA FrontOf ==
  ASSUME NEW S, NEW s \in Seq(S), s # <<>>
  PROVE  /\ Front(s) \in Seq(S) /\ Len(Front(s)) = Len(s) - 1
         /\ \A i \in 1..Len(s) - 1 : Front(s)[i] = s[i]
         /\ Last(s) = s[Len(s)] /\ Last(s) \in S /\ Len(s) \in Nat /\ 1 <= Len(s)
<1>1. Len(s) \in Nat /\ 1 <= Len(s)
  BY EmptySeq
<1>2. s[Len(s)] \in S
  BY <1>1, ElementOfSeq
<1>3. /\ SubSeq(s, 1, Len(s) - 1) \in Seq(S)
      /\ Len(SubSeq(s, 1, Len(s) - 1)) = Len(s) - 1
      /\ \A i \in 1..Len(s) - 1 : SubSeq(s, 1, Len(s) - 1)[i] = s[i]
  <2> DEFINE n == Len(s) - 1
  <2>1. n \in Int /\ \A i \in 1..n : s[i] \in S
    <3>1. \A i \in 1..n : i \in 1..Len(s)
      BY <1>1
    <3> QED BY <1>1, <3>1, ElementOfSeq
  <2>2. /\ SubSeq(s, 1, n) \in Seq(S)
        /\ Len(SubSeq(s, 1, n)) = IF 1 <= n THEN n - 1 + 1 ELSE 0
        /\ \A i \in 1..n - 1 + 1 : SubSeq(s, 1, n)[i] = s[1 + i - 1]
    <3> HIDE DEF n
    <3> QED BY <2>1, SubSeqProperties
  <2>3. \A i \in 1..n : i \in 1..n - 1 + 1 /\ 1 + i - 1 = i
    BY <1>1
  <2>4. n - 1 + 1 = n /\ (1 <= n \/ n = 0)
    <3>1. n \in Nat
      BY <1>1
    <3> HIDE DEF n
    <3> QED BY <3>1
  <2> QED BY <2>2, <2>3, <2>4
<1> QED BY <1>1, <1>2, <1>3 DEF Front, Last

(* What Append adds. *)
LEMMA AppendOf ==
  ASSUME NEW S, NEW s \in Seq(S), NEW x \in S
  PROVE  /\ Append(s, x) \in Seq(S) /\ Len(Append(s, x)) = Len(s) + 1 /\ Len(s) \in Nat
         /\ \A i \in 1..Len(s) : Append(s, x)[i] = s[i]
         /\ Append(s, x)[Len(s) + 1] = x /\ Append(s, x) # <<>>
<1>1. /\ Append(s, x) \in Seq(S) /\ Len(Append(s, x)) = Len(s) + 1 /\ Len(s) \in Nat
      /\ \A i \in 1..Len(s) : Append(s, x)[i] = s[i]
      /\ Append(s, x)[Len(s) + 1] = x
  BY AppendProperties
<1> QED BY <1>1, EmptySeq

(* Clauses are sequences of literals. *)
LEMMA Bodies_OK ==
  ASSUME Types, NEW r \in Rules
  PROVE  /\ r[1] \in Atoms /\ r[2] \in 1..MaxClauses /\ r = <<r[1], r[2]>>
         /\ Body(r) \in Seq(Literals) /\ Len(Body(r)) \in Nat
         /\ \A i \in 1..Len(Body(r)) :
              /\ Body(r)[i] \in Literals
              /\ Body(r)[i].atom \in Atoms /\ Body(r)[i].sign \in {"pos", "neg"}
              /\ Body(r)[i] = [sign |-> Body(r)[i].sign, atom |-> Body(r)[i].atom]
<1>1. r \in Clauses(program) /\ program \in DOMAIN Programs
  BY DEF Types, Rules
<1>2. PICK a \in Atoms : r \in {a} \X DOMAIN Programs[program][a]
  BY <1>1 DEF Clauses
<1>3. Programs[program] \in [Atoms -> Seq(Seq(Literals))] /\ Len(Programs[program][a]) \in 1..MaxClauses
  BY <1>1, ProgramsAssumption
<1>4. Programs[program][a] \in Seq(Seq(Literals)) /\ DOMAIN Programs[program][a] = 1..Len(Programs[program][a])
  BY <1>3
<1>5. r[1] = a /\ r[2] \in 1..Len(Programs[program][a]) /\ r = <<r[1], r[2]>>
  BY <1>2, <1>4
<1>6. Body(r) \in Seq(Literals)
  BY <1>4, <1>5, ElementOfSeq DEF Body
<1>7. r[2] \in 1..MaxClauses
  BY <1>3, <1>5, ProgramsAssumption
<1>8. \A l \in Literals : l.atom \in Atoms /\ l.sign \in {"pos", "neg"} /\ l = [sign |-> l.sign, atom |-> l.atom]
  BY DEF Literals, Pos, Neg
<1>9. \A i \in 1..Len(Body(r)) : Body(r)[i] \in Literals
  BY <1>6, ElementOfSeq
<1> QED BY <1>5, <1>6, <1>7, <1>8, <1>9
--------------------------------------------------------------------------
(* THE COMPLETION STACK *)

(* The leader of the topmost SCC. *)
LEMMA LeaderIs ==
  ASSUME Types, Frames, frames # <<>>
  PROVE  /\ Leader \in leaders /\ \A l \in leaders : l <= Leader
         /\ Leader \in 1..Len(frames) /\ leaders \subseteq 1..Len(frames)
<1>1. Len(frames) \in Nat /\ leaders \subseteq 1..Len(frames)
  BY DEF Types
<1>2. leaders # {}
  BY DEF Frames
<1>3. Max(leaders) \in leaders /\ \A l \in leaders : l <= Max(leaders)
  BY <1>1, <1>2, Greatest
<1> QED BY <1>1, <1>3 DEF Leader

(* Goals on the completion stack. *)
LEMMA OpenedGoals ==
  ASSUME Types
  PROVE  /\ Opened = {frames[f] : f \in 1..Len(frames)} /\ Opened \subseteq Atoms
         /\ Scc \subseteq Opened
         /\ \A f, g \in 1..Len(frames) : frames[f] = frames[g] => f = g
         /\ Len(frames) \in Nat /\ DOMAIN frames = 1..Len(frames)
<1>1. Len(frames) \in Nat /\ DOMAIN frames = 1..Len(frames)
  BY DEF Types
<1>2. \A f \in 1..Len(frames) : frames[f] \in Atoms
  BY ElementOfSeq DEF Types
<1>3. Opened = {frames[f] : f \in 1..Len(frames)}
  BY <1>1 DEF Opened, Range
<1>4. Scc \subseteq Opened
  BY <1>1, <1>3 DEF Scc
<1>5. \A f, g \in 1..Len(frames) : frames[f] = frames[g] => f = g
  BY <1>1 DEF Types, IsInjective
<1> QED BY <1>1, <1>2, <1>3, <1>4, <1>5

(* The topmost SCC is one. *)
LEMMA SccIsSame ==
  ASSUME Types, Frames, NEW a, NEW b
  PROVE  /\ Same(a, b) => a \in Opened /\ b \in Opened /\ (a \in Scc <=> b \in Scc)
         /\ a \in Scc /\ b \in Scc => Same(a, b)
<1>0. /\ Opened = {frames[f] : f \in 1..Len(frames)} /\ DOMAIN frames = 1..Len(frames)
      /\ \A f, g \in 1..Len(frames) : frames[f] = frames[g] => f = g
      /\ Len(frames) \in Nat
  BY OpenedGoals
<1>1. ASSUME NEW c PROVE c \in Scc <=> \E f \in 1..Len(frames) : frames[f] = c /\ f >= Leader
  BY <1>0 DEF Scc
<1>2. ASSUME Same(a, b) PROVE a \in Opened /\ b \in Opened /\ (a \in Scc <=> b \in Scc)
  <2>1. PICK f \in 1..Len(frames), g \in 1..Len(frames) :
          frames[f] = a /\ frames[g] = b /\ \A l \in leaders : l <= f <=> l <= g
    BY <1>0, <1>2 DEF Same
  <2>2. frames # <<>>
    BY <1>0, <2>1, EmptySeq
  <2>3. Leader \in leaders /\ Leader \in 1..Len(frames)
    BY <2>2, LeaderIs
  <2>4. Leader <= f <=> Leader <= g
    BY <2>1, <2>3
  <2>5. a \in Scc <=> f >= Leader
    BY <1>0, <1>1, <2>1
  <2>6. b \in Scc <=> g >= Leader
    BY <1>0, <1>1, <2>1
  <2> QED BY <1>0, <2>1, <2>3, <2>4, <2>5, <2>6
<1>3. ASSUME a \in Scc, b \in Scc PROVE Same(a, b)
  <2>1. PICK f \in 1..Len(frames) : frames[f] = a /\ f >= Leader
    BY <1>1, <1>3
  <2>2. PICK g \in 1..Len(frames) : frames[g] = b /\ g >= Leader
    BY <1>1, <1>3
  <2>3. frames # <<>>
    BY <1>0, <2>1, EmptySeq
  <2>4. Leader \in Int /\ \A l \in leaders : l \in Int /\ l <= Leader
    BY <2>3, LeaderIs
  <2>5. \A l \in leaders : l <= f /\ l <= g
    BY <2>1, <2>2, <2>4
  <2> QED BY <1>0, <2>1, <2>2, <2>5 DEF Same
<1> QED BY <1>2, <1>3

(* Open pushes a goal that is an SCC of its own. *)
LEMMA OpenFrames ==
  ASSUME Types, Frames, NEW a \in Atoms, a \notin Opened,
         frames' = Append(frames, a), leaders' = leaders \cup {Len(frames) + 1}
  PROVE  /\ frames' \in Seq(Atoms) /\ IsInjective(frames') /\ leaders' \subseteq DOMAIN frames'
         /\ frames' # <<>> /\ 1 \in leaders' /\ Len(frames') = Len(frames) + 1
         /\ Opened' = Opened \cup {a} /\ Scc' = {a}
         /\ \A b, c : Same(b, c) => Same(b, c)'
<1>0. /\ Opened = {frames[f] : f \in 1..Len(frames)} /\ DOMAIN frames = 1..Len(frames)
      /\ \A f, g \in 1..Len(frames) : frames[f] = frames[g] => f = g
      /\ Len(frames) \in Nat /\ frames \in Seq(Atoms)
  BY OpenedGoals DEF Types
<1> DEFINE n == Len(frames)
<1>1. /\ frames' \in Seq(Atoms) /\ Len(frames') = n + 1 /\ frames'[n + 1] = a
      /\ \A f \in 1..n : frames'[f] = frames[f]
      /\ frames' # <<>>
  BY <1>0, AppendOf
<1>2. DOMAIN frames' = 1..(n + 1)
  BY <1>1
<1>3. leaders \subseteq 1..n
  BY <1>0 DEF Types
<1>4. 1 \in leaders'
  <2>1. CASE frames = <<>>
    <3>1. n = 0
      BY <1>0, <2>1, EmptySeq
    <3> QED BY <3>1
  <2>2. CASE frames # <<>>
    BY <2>2 DEF Frames
  <2> QED BY <2>1, <2>2
<1> HIDE DEF n
<1>5. n \in Nat /\ leaders' = leaders \cup {n + 1} /\ leaders \subseteq 1..n
  BY <1>0, <1>3 DEF n
<1>6. /\ Opened = {frames[f] : f \in 1..n} /\ DOMAIN frames = 1..n
      /\ \A f, g \in 1..n : frames[f] = frames[g] => f = g
  BY <1>0 DEF n
<1>7. IsInjective(frames')
  <2> SUFFICES ASSUME NEW f \in 1..(n + 1), NEW g \in 1..(n + 1), frames'[f] = frames'[g]
               PROVE  f = g
    BY <1>2 DEF IsInjective
  <2>1. \A h \in 1..n : frames[h] # a
    BY <1>6
  <2>2. (f \in 1..n \/ f = n + 1) /\ (g \in 1..n \/ g = n + 1)
    BY <1>5
  <2> QED BY <1>1, <1>6, <2>1, <2>2
<1>8. Opened' = Opened \cup {a}
  <2>1. \A f \in 1..(n + 1) : f \in 1..n \/ f = n + 1
    BY <1>5
  <2>2. n + 1 \in 1..(n + 1) /\ \A f \in 1..n : f \in 1..(n + 1)
    BY <1>5
  <2>3. Opened' = {frames'[f] : f \in 1..(n + 1)}
    BY <1>2 DEF Opened, Range
  <2> QED BY <1>1, <1>6, <2>1, <2>2, <2>3
<1>9. Leader' = n + 1
  <2>1. leaders' \in SUBSET (1..(n + 1)) /\ leaders' # {} /\ n + 1 \in Nat
    <3>1. \A l \in leaders' : l \in 1..(n + 1)
      BY <1>5
    <3>2. n + 1 \in Nat
      BY <1>5
    <3> QED BY <1>4, <3>1, <3>2
  <2>2. Max(leaders') \in leaders' /\ \A l \in leaders' : l <= Max(leaders')
    BY <2>1, Greatest
  <2>3. Max(leaders') \in 1..(n + 1) /\ n + 1 <= Max(leaders')
    BY <1>5, <2>1, <2>2
  <2> QED BY <1>5, <2>3 DEF Leader
<1>10. Scc' = {a}
  <2>1. \A f \in 1..(n + 1) : f >= n + 1 <=> f = n + 1
    BY <1>5
  <2>2. Scc' = {frames'[f] : f \in {f \in 1..(n + 1) : f >= n + 1}}
    BY <1>2, <1>9 DEF Scc
  <2>3. n + 1 \in 1..(n + 1)
    BY <1>5
  <2> QED BY <1>1, <2>1, <2>2, <2>3
<1>11. ASSUME NEW b, NEW c, Same(b, c) PROVE Same(b, c)'
  <2>1. PICK f \in 1..n, g \in 1..n :
          frames[f] = b /\ frames[g] = c /\ \A l \in leaders : l <= f <=> l <= g
    BY <1>6, <1>11 DEF Same
  <2>2. \A l \in leaders' : l <= f <=> l <= g
    BY <1>5, <2>1
  <2>3. f \in 1..(n + 1) /\ g \in 1..(n + 1)
    BY <1>5
  <2> QED BY <1>1, <1>2, <2>1, <2>2, <2>3 DEF Same
<1>12. leaders' \subseteq DOMAIN frames'
  <2>1. \A l \in leaders' : l \in 1..(n + 1)
    BY <1>5
  <2> QED BY <1>2, <2>1
<1> QED BY <1>1, <1>4, <1>7, <1>8, <1>10, <1>11, <1>12 DEF n

(* adjust_level joins the SCCs down to that of a. *)
LEMMA JoinFrames ==
  ASSUME Types, Frames, NEW a \in Opened, frames' = frames, leaders' = adjust_level(a)
  PROVE  /\ leaders' \subseteq leaders /\ 1 \in leaders'
         /\ Opened' = Opened /\ Scc \subseteq Scc' /\ a \in Scc'
         /\ \A b, c : Same(b, c) => Same(b, c)'
         /\ \A b \in Scc : Same(b, a)'
<1>0. /\ Opened = {frames[f] : f \in 1..Len(frames)} /\ DOMAIN frames = 1..Len(frames)
      /\ \A f, g \in 1..Len(frames) : frames[f] = frames[g] => f = g
      /\ Len(frames) \in Nat
  BY OpenedGoals
<1> DEFINE n == Len(frames)
<1>1. PICK k \in 1..n : frames[k] = a
  BY <1>0
<1>2. k = CHOOSE f \in DOMAIN frames : frames[f] = a
  BY <1>0, <1>1
<1>3. leaders' = {l \in leaders : l <= k}
  BY <1>2 DEF adjust_level
<1>4. frames # <<>>
  BY <1>0, <1>1, EmptySeq
<1>5. Leader \in leaders /\ Leader \in 1..n /\ leaders \subseteq 1..n /\ \A l \in leaders : l <= Leader
  BY <1>4, LeaderIs
<1>6. 1 \in leaders'
  BY <1>1, <1>3, <1>4 DEF Frames
<1>7. Leader' \in leaders' /\ \A l \in leaders' : l <= Leader'
  <2>1. leaders' \in SUBSET (1..n) /\ leaders' # {} /\ n \in Nat
    BY <1>0, <1>3, <1>5, <1>6
  <2> QED BY <2>1, Greatest DEF Leader
<1>8. Leader' <= Leader /\ Leader' <= k /\ Leader' \in 1..n
  BY <1>3, <1>5, <1>7
<1>9. Opened' = Opened
  BY DEF Opened
<1>10. Scc' = {frames[f] : f \in {f \in 1..n : f >= Leader'}}
  BY <1>0 DEF Scc
<1>11. Scc = {frames[f] : f \in {f \in 1..n : f >= Leader}}
  BY <1>0 DEF Scc
<1>12. Scc \subseteq Scc' /\ a \in Scc'
  <2>1. \A f \in 1..n : f >= Leader => f >= Leader'
    BY <1>5, <1>8
  <2>2. k >= Leader'
    BY <1>8
  <2> QED BY <1>1, <1>10, <1>11, <2>1, <2>2
<1>13. \A b, c : Same(b, c) => Same(b, c)'
  BY <1>3 DEF Same
<1>14. ASSUME NEW b \in Scc PROVE Same(b, a)'
  <2>1. PICK f \in 1..n : frames[f] = b /\ f >= Leader
    BY <1>11
  <2>2. \A l \in leaders' : l <= f /\ l <= k
    BY <1>3, <1>5, <2>1
  <2> QED BY <1>0, <1>1, <2>1, <2>2 DEF Same
<1> QED BY <1>3, <1>6, <1>9, <1>12, <1>13, <1>14

(* The topmost SCC is popped. *)
LEMMA PopFrames ==
  ASSUME Types, Frames, frames # <<>>,
         frames' = SubSeq(frames, 1, Leader - 1), leaders' = Older(Leader)
  PROVE  /\ frames' \in Seq(Atoms) /\ IsInjective(frames') /\ leaders' \subseteq DOMAIN frames'
         /\ frames' # <<>> => 1 \in leaders'
         /\ Opened' = Opened \ Scc
         /\ \A b, c : Same(b, c) /\ b \notin Scc => Same(b, c)'
<1>0. /\ Opened = {frames[f] : f \in 1..Len(frames)} /\ DOMAIN frames = 1..Len(frames)
      /\ \A f, g \in 1..Len(frames) : frames[f] = frames[g] => f = g
      /\ Len(frames) \in Nat
  BY OpenedGoals
<1> DEFINE n == Len(frames)
           k == Leader - 1
<1>1. /\ Leader \in leaders /\ Leader \in 1..n /\ leaders \subseteq 1..n
      /\ \A l \in leaders : l <= Leader
  BY LeaderIs
<1>2. k \in Nat /\ k < n /\ Leader = k + 1
  BY <1>1
<1>3. /\ frames' \in Seq(Atoms) /\ Len(frames') = k
      /\ \A f \in 1..k : frames'[f] = frames[f]
  <2>1. \A i \in 1..k : frames[i] \in Atoms
    <3>1. \A i \in 1..k : i \in 1..n
      BY <1>2
    <3> QED BY <3>1, OpenedGoals
  <2> HIDE DEF k
  <2>2. /\ SubSeq(frames, 1, k) \in Seq(Atoms)
        /\ Len(SubSeq(frames, 1, k)) = IF 1 <= k THEN k - 1 + 1 ELSE 0
        /\ \A i \in 1..k - 1 + 1 : SubSeq(frames, 1, k)[i] = frames[1 + i - 1]
    BY <1>2, <2>1, SubSeqProperties
  <2>3. k - 1 + 1 = k /\ (1 <= k \/ k = 0) /\ \A i \in 1..k : 1 + i - 1 = i
    BY <1>2
  <2>4. frames' = SubSeq(frames, 1, k)
    BY DEF k
  <2> QED BY <2>2, <2>3, <2>4
<1> HIDE DEF n, k
<1>4. DOMAIN frames' = 1..k
  BY <1>3
<1>5. /\ n \in Nat /\ Opened = {frames[f] : f \in 1..n} /\ DOMAIN frames = 1..n
      /\ \A f, g \in 1..n : frames[f] = frames[g] => f = g
  BY <1>0 DEF n
<1>6. leaders' = {l \in leaders : l < k + 1} /\ leaders' \subseteq DOMAIN frames'
  <2>1. leaders' = {l \in leaders : l < k + 1}
    BY <1>2 DEF Older
  <2>2. leaders \subseteq 1..n
    BY <1>1
  <2>3. \A l \in leaders' : l \in 1..k
    BY <1>2, <1>5, <2>1, <2>2
  <2> QED BY <1>4, <2>1, <2>3
<1>7. IsInjective(frames')
  <2>1. \A f \in 1..k : f \in 1..n
    BY <1>2, <1>5
  <2> QED BY <1>3, <1>4, <1>5, <2>1 DEF IsInjective
<1>8. frames' # <<>> => 1 \in leaders'
  <2> HAVE frames' # <<>>
  <2>1. k # 0
    BY <1>3, EmptySeq
  <2>2. 1 \in leaders
    BY DEF Frames
  <2> QED BY <1>2, <1>6, <2>1, <2>2
<1>9. Scc = {frames[f] : f \in {f \in 1..n : f >= k + 1}}
  BY <1>2, <1>5 DEF Scc
<1>10. Opened' = {frames[f] : f \in 1..k}
  BY <1>3, <1>4 DEF Opened, Range
<1>11. Opened' = Opened \ Scc
  <2>1. \A f \in 1..n : f \in 1..k \/ f >= k + 1
    BY <1>2, <1>5
  <2>2. \A f \in 1..k : f \in 1..n /\ ~ (f >= k + 1)
    BY <1>2, <1>5
  <2> QED BY <1>5, <1>9, <1>10, <2>1, <2>2
<1>12. ASSUME NEW b, NEW c, Same(b, c), b \notin Scc PROVE Same(b, c)'
  <2>1. PICK f \in 1..n, g \in 1..n :
          frames[f] = b /\ frames[g] = c /\ \A l \in leaders : l <= f <=> l <= g
    BY <1>5, <1>12 DEF Same
  <2>2. c \notin Scc
    BY <1>12, SccIsSame
  <2>3. ~ (f >= k + 1) /\ ~ (g >= k + 1)
    BY <1>9, <1>12, <2>1, <2>2
  <2>4. f \in 1..k /\ g \in 1..k
    BY <1>2, <1>5, <2>3
  <2> QED BY <1>3, <1>4, <1>6, <2>1, <2>4 DEF Same
<1> QED BY <1>3, <1>6, <1>7, <1>8, <1>11, <1>12

(* A step that leaves the stack alone, but may complete open goals. *)
LEMMA KeptFrames ==
  ASSUME Types, UNCHANGED <<frames, leaders, completing>>
  PROVE  /\ Opened' = Opened /\ Scc' = Scc /\ Leader' = Leader
         /\ Closing' = Closing /\ Live' = Live /\ Zone' = Zone
         /\ \A a, b : Same(a, b)' <=> Same(a, b)
<1>1. Leader' = Leader
  BY DEF Leader
<1>2. Scc' = Scc /\ Opened' = Opened
  BY <1>1 DEF Scc, Opened
<1>3. \A a, b : Same(a, b)' <=> Same(a, b)
  BY DEF Same
<1> QED BY <1>1, <1>2, <1>3 DEF Closing, Live, Zone
--------------------------------------------------------------------------
(* DELAY ELEMENTS *)

(* What it means to be on the list of a goal. *)
LEMMA ElementIs ==
  ASSUME Types, NEW sign \in {"pos", "neg"}, NEW a \in Atoms, NEW e
  PROVE  e \in ElementsOn(sign, a) <=>
           \E r \in Rules : \E i \in clause[r].delays :
             /\ e = <<r, i>> /\ clause[r].status = "dl"
             /\ Body(r)[i] = [sign |-> sign, atom |-> a]
<1>1. Elements({r \in Rules : clause[r].status = "dl"}) =
        UNION {{r} \X clause[r].delays : r \in {r \in Rules : clause[r].status = "dl"}}
  BY DEF Elements
<1>2. e \in Elements({r \in Rules : clause[r].status = "dl"}) <=>
        \E r \in Rules : \E i \in clause[r].delays : e = <<r, i>> /\ clause[r].status = "dl"
  BY <1>1
<1>3. \A r, i : e = <<r, i>> => e[1] = r /\ e[2] = i
  OBVIOUS
<1> QED BY <1>2, <1>3 DEF ElementsOn

(* Places of a clause at which it has delayed. *)
LEMMA DelayPlaces ==
  ASSUME Types, ClausesOK, NEW r \in Rules, NEW i \in clause[r].delays
  PROVE  /\ i \in 1..Len(Body(r)) /\ i < clause[r].at /\ Body(r)[i] \in Literals
         /\ Body(r)[i].atom \in Atoms /\ Body(r)[i].sign \in {"pos", "neg"}
         /\ Body(r)[i] = [sign |-> Body(r)[i].sign, atom |-> Body(r)[i].atom]
<1>1. /\ clause[r].at \in 1..Len(Body(r)) + 1 /\ clause[r].delays \subseteq 1..clause[r].at - 1
  BY DEF ClausesOK, ClauseOK
<1>2. Len(Body(r)) \in Nat
  BY Bodies_OK
<1>3. i \in 1..Len(Body(r)) /\ i < clause[r].at
  <2> DEFINE n == Len(Body(r))
             k == clause[r].at
  <2>1. n \in Nat /\ k \in 1..n + 1 /\ i \in 1..k - 1
    BY <1>1, <1>2
  <2> HIDE DEF n, k
  <2>2. i \in 1..n /\ i < k
    BY <2>1
  <2> QED BY <2>2 DEF n, k
<1> QED BY <1>3, Bodies_OK

(* Whose delays can be on a goal that simplification is at: those of its   *)
(* SCC only, and only while that is being completed if they are to fail.   *)
LEMMA ZoneDelays ==
  ASSUME Types, Frames, Uncalled, ClausesOK, DelaysOK, NEW F, Stalled(F),
         NEW r \in Rules, clause[r].status = "dl", NEW i \in clause[r].delays,
         Body(r)[i].atom \in Zone
  PROVE  /\ r[1] \in Zone /\ is_conditional_answer(r[1])
         /\ Body(r)[i].sign = "neg" /\ is_unconditional_answer(Body(r)[i].atom) => r[1] \in Closing
         /\ Body(r)[i].sign = "pos" /\ subgoal_fails(Body(r)[i].atom) => r[1] \in Closing
<1> DEFINE b == Body(r)[i].atom
<1>1. b \in Opened /\ Scc \subseteq Opened /\ Opened \subseteq Atoms
  BY OpenedGoals DEF Zone
<1>2. is_conditional_answer(r[1]) /\ r[1] \in Atoms /\ b \in Atoms
  BY Bodies_OK, DelayPlaces DEF ClausesOK, ClauseOK
<1>3. r[1] \in Opened
  <2>1. r[1] \in called
    <3>1. clause[r].status # Start.status
      BY DEF Start
    <3> QED BY <1>2, <3>1 DEF Uncalled
  <2>2. r[1] \notin Done
    BY <1>1 DEF DelaysOK, DelayOK, Done
  <2> QED BY <2>1, <2>2 DEF called, Done, Opened
<1>4. Same(r[1], b)
  BY <1>1, <1>3 DEF DelaysOK, DelayOK, Done
<1>5. r[1] \in Zone
  BY <1>3, <1>4, SccIsSame DEF Zone
<1>6. r[1] \notin Closing => r[1] \in Live
  BY <1>3 DEF Live
<1>7. ASSUME Body(r)[i].sign = "neg", is_unconditional_answer(b) PROVE r[1] \in Closing
  <2> SUFFICES ASSUME r[1] \in Live PROVE FALSE
    BY <1>6
  <2>1. (b \in F /\ Same(r[1], b)) \/ Left(b)
    BY <1>7 DEF Stalled
  <2>2. ~ Left(b)
    BY <1>1 DEF Left, Done
  <2>3. b \notin F
    BY <1>7 DEF Stalled
  <2> QED BY <2>1, <2>2, <2>3
<1>8. ASSUME Body(r)[i].sign = "pos", subgoal_fails(b) PROVE r[1] \in Closing
  BY <1>6, <1>8 DEF DelaysOK, DelayOK
<1> QED BY <1>2, <1>5, <1>7, <1>8
--------------------------------------------------------------------------
(* WHAT A STEP OF THE SIMPLIFICATION DOES *)

Runs_of(p) == [Clauses(p) -> [at : Nat, delays : SUBSET Nat, status : Statuses]]

Resolved(l) == \/ l.sign = "pos" /\ is_unconditional_answer(l.atom)
               \/ l.sign = "neg" /\ l.atom \in FalseGoals
Refuted(l) == \/ l.sign = "pos" /\ l.atom \in FalseGoals
              \/ l.sign = "neg" /\ is_unconditional_answer(l.atom)

(* A clause stays, loses an element of its delay list or the whole list,   *)
(* or is disposed of as a suspension.                                      *)
SimplifiedClause(r) ==
  \/ clause'[r] = clause[r]
  \/ /\ clause[r].status = "dl" /\ r[1] \in Zone
     /\ \/ \E i \in clause[r].delays :
             /\ Resolved(Body(r)[i])
             /\ clause'[r] = [clause[r] EXCEPT !.delays = @ \ {i}]
        \/ \E i \in clause[r].delays :
             /\ Refuted(Body(r)[i]) /\ r[1] \in Closing
             /\ clause'[r] = [clause[r] EXCEPT !.status = "failed"]
        \/ /\ clause'[r] = [clause[r] EXCEPT !.status = "gone"]
           /\ answer'[r[1]] = "uncond" \/ clause[r].delays = {}
  \/ /\ clause[r].status = "suspended" /\ is_unconditional_answer(Goal(r))
     /\ clause'[r] = [clause[r] EXCEPT !.status = "failed"]

(* An answer stays, becomes unconditional when a clause has nothing left,  *)
(* or is deleted when its SCC is being completed and no clause is left.    *)
SimplifiedAnswer(a) ==
  \/ answer'[a] = answer[a]
  \/ /\ a \in Zone /\ is_conditional_answer(a)
     /\ \A r \in Rules : r[1] = a => clause'[r].status # "dl"
     /\ \/ answer'[a] = "uncond" /\ \E r \in Rules : r[1] = a /\ Proof(r)
        \/ /\ answer'[a] = "none" /\ a \in Closing
           /\ dls(a) = {} /\ ~ Awaited(a)

Simplified ==
  /\ calls # <<>>
  /\ UNCHANGED <<program, todo, frames, leaders, completing>>
  /\ complete \subseteq complete'
  /\ \A a \in complete' \ complete : a \in Zone /\ is_unconditional_answer(a)
  /\ answer' \in [Atoms -> {"none", "cond", "uncond"}]
  /\ \A a \in Atoms : SimplifiedAnswer(a)
  /\ clause' \in Runs_of(program)
  /\ \A r \in Rules : SimplifiedClause(r)
  /\ \A r \in Rules : clause'[r].status = "dl" /\ clause'[r].delays = {} =>
       calls' # <<>> /\ Last(calls') = CallEmptyDl(r)
  /\ \A r \in Rules : clause'[r].status = "gone" =>
       \/ answer'[r[1]] = "uncond"
       \/ calls' # <<>> /\ Last(calls') = Call("pos_unconditional", "enter", r[1])

(* What the innermost call relies on. *)
LEMMA TopCall ==
  ASSUME Types, CallsOK, calls # <<>>
  PROVE  /\ Top \in Calls /\ Top.atom \in Atoms /\ CallOK(Top) /\ TopOK
         /\ Top = calls[Len(calls)] /\ Len(calls) \in 1..Len(calls) /\ Len(calls) \in Nat
<1>1. calls \in Seq(Calls)
  BY DEF Types
<1>2. Top = calls[Len(calls)] /\ Top \in Calls /\ Len(calls) \in Nat /\ 1 <= Len(calls)
  BY <1>1, FrontOf DEF Top
<1>3. Len(calls) \in 1..Len(calls) /\ DOMAIN calls = 1..Len(calls)
  BY <1>1, <1>2
<1> QED BY <1>2, <1>3 DEF CallsOK, Calls

(* A step that changes no clause and no answer. *)
LEMMA QuietStep ==
  ASSUME Inv, calls # <<>>, UNCHANGED <<program, todo, stack, answer, clause>>,
         Top.op = "empty_dl" => Top.step # "enter",
         Top.op = "pos_unconditional" => Top.step # "enter"
  PROVE  Simplified
<1> USE DEF Inv
<1>1. \A r \in Rules : ~ (Top = CallEmptyDl(r))
  BY DEF CallEmptyDl
<1>2. \A a : ~ Awaited(a)
  BY DEF Awaited, Call
<1>3. \A r \in Rules : clause[r].status = "dl" => clause[r].delays # {}
  BY <1>1 DEF ClausesOK, ClauseOK
<1>4. \A r \in Rules : clause[r].status = "gone" => is_unconditional_answer(r[1])
  BY <1>2 DEF ClausesOK, ClauseOK
<1>5. answer' \in [Atoms -> {"none", "cond", "uncond"}] /\ clause' \in Runs_of(program)
  BY DEF Types, Runs_of
<1>6. \A a \in Atoms : SimplifiedAnswer(a)
  BY DEF SimplifiedAnswer
<1>7. \A r \in Rules : SimplifiedClause(r)
  BY DEF SimplifiedClause
<1> QED BY <1>3, <1>4, <1>5, <1>6, <1>7 DEF Simplified, stack, is_unconditional_answer

(* Early completion by an answer that was found. *)
LEMMA FinishStep ==
  ASSUME Inv, NEW step \in {"new", "old"}, FinishAnswer(step)
  PROVE  Simplified
<1> USE DEF Inv
<1>0. calls # <<>> /\ Top.op = "new_answer" /\ Top.step = step
  BY DEF FinishAnswer, Doing
<1>1. Top.atom \in Zone /\ (is_unconditional_answer(Top.atom) \/ Awaited(Top.atom))
  BY <1>0, TopCall DEF CallOK
<1>2. \A a : ~ Awaited(a)
  BY <1>0 DEF Awaited, Call
<1>3. \A r \in Rules : ~ (Top = CallEmptyDl(r))
  BY <1>0 DEF CallEmptyDl
<1>4. \A r \in Rules : clause[r].status = "dl" => clause[r].delays # {}
  BY <1>3 DEF ClausesOK, ClauseOK
<1>5. \A r \in Rules : clause[r].status = "gone" => is_unconditional_answer(r[1])
  BY <1>2 DEF ClausesOK, ClauseOK
<1>6. UNCHANGED <<program, todo, frames, leaders, completing, answer, clause>>
  BY DEF FinishAnswer
<1>7. complete \subseteq complete' /\ complete' \subseteq complete \cup {Top.atom}
  BY DEF FinishAnswer
<1>8. answer' \in [Atoms -> {"none", "cond", "uncond"}] /\ clause' \in Runs_of(program)
  BY <1>6 DEF Types, Runs_of
<1>9. \A a \in Atoms : SimplifiedAnswer(a)
  BY <1>6 DEF SimplifiedAnswer
<1>10. \A r \in Rules : SimplifiedClause(r)
  BY <1>6 DEF SimplifiedClause
<1> QED BY <1>0, <1>1, <1>2, <1>4, <1>5, <1>6, <1>7, <1>8, <1>9, <1>10
        DEF Simplified, is_unconditional_answer

(* The answer becomes unconditional and gives up its delay lists. *)
LEMMA PosUnconditionalStep ==
  ASSUME Inv, EnterPosUnconditional
  PROVE  Simplified
<1> USE DEF Inv
<1> DEFINE a == Top.atom
<1>0. calls # <<>> /\ Top.op = "pos_unconditional" /\ Top.step = "enter"
  BY DEF EnterPosUnconditional, Doing
<1>1. a \in Zone /\ is_conditional_answer(a) /\ a \in Atoms
      /\ \E r \in Rules : r[1] = a /\ Proof(r)
  BY <1>0, TopCall DEF CallOK, TopOK
<1>2. \A r \in Rules : ~ (Top = CallEmptyDl(r))
  BY <1>0 DEF CallEmptyDl
<1>3. \A r \in Rules : clause[r].status = "dl" => clause[r].delays # {}
  BY <1>2 DEF ClausesOK, ClauseOK
<1>4. /\ UNCHANGED <<program, todo, frames, leaders, complete, completing>>
      /\ answer' = [answer EXCEPT ![a] = "uncond"]
      /\ clause' = Released(dls(a))
  BY DEF EnterPosUnconditional, stack
<1>5. answer' \in [Atoms -> {"none", "cond", "uncond"}] /\ answer'[a] = "uncond"
      /\ \A b \in Atoms : b # a => answer'[b] = answer[b]
  BY <1>1, <1>4 DEF Types
<1>6. \A r \in Rules : clause'[r] = IF r[1] = a /\ clause[r].status = "dl"
                                    THEN [clause[r] EXCEPT !.status = "gone"] ELSE clause[r]
  BY <1>4 DEF Released, dls
<1>7. clause \in Runs_of(program) /\ Rules = Clauses(program)
  BY DEF Types, Runs_of, Rules
<1>8. clause' \in Runs_of(program)
  <2>1. \A r \in Rules : clause'[r] \in [at : Nat, delays : SUBSET Nat, status : Statuses]
    BY <1>6, <1>7 DEF Runs_of, Statuses
  <2>2. clause' = [r \in Rules |-> clause'[r]]
    BY <1>4 DEF Released
  <2> QED BY <1>7, <2>1, <2>2 DEF Runs_of
<1>9. \A r \in Rules : clause'[r].status = "dl" =>
        clause'[r] = clause[r] /\ r[1] # a
  <2>1. \A r \in Rules : clause[r].status = "dl" /\ r[1] = a => clause'[r].status = "gone"
    BY <1>6, <1>7 DEF Runs_of
  <2> QED BY <1>6, <2>1
<1>10. \A b \in Atoms : SimplifiedAnswer(b)
  <2>1. \A r \in Rules : r[1] = a => clause'[r].status # "dl"
    BY <1>9
  <2> QED BY <1>1, <1>5, <2>1 DEF SimplifiedAnswer
<1>11. \A r \in Rules : SimplifiedClause(r)
  BY <1>1, <1>5, <1>6 DEF SimplifiedClause
<1>12. ASSUME NEW r \in Rules, clause'[r].status = "gone" PROVE answer'[r[1]] = "uncond"
  <2>1. CASE r[1] = a
    BY <1>5, <2>1
  <2>2. CASE r[1] # a
    <3>1. clause[r].status = "gone"
      BY <1>6, <1>12, <2>2
    <3>2. ~ Awaited(r[1])
      BY <2>2 DEF Awaited, Call
    <3>3. is_unconditional_answer(r[1]) /\ r[1] \in Atoms
      BY <3>1, <3>2, Bodies_OK DEF ClausesOK, ClauseOK
    <3> QED BY <1>5, <2>2, <3>3 DEF is_unconditional_answer
  <2> QED BY <2>1, <2>2
<1> QED BY <1>0, <1>3, <1>4, <1>5, <1>8, <1>9, <1>10, <1>11, <1>12 DEF Simplified

(* A satisfied delay element leaves its delay list. *)
LEMMA RemoveDeStep ==
  ASSUME Inv, calls # <<>>, Top.step = "loop", UNCHANGED <<program, todo, stack, answer>>,
         NEW r \in Rules, NEW i \in clause[r].delays, clause[r].status = "dl", r[1] \in Zone,
         Resolved(Body(r)[i]),
         clause' = remove_de_from_dl(<<r, i>>),
         calls' = MayPush(IsLast(<<r, i>>), CallEmptyDl(r))
  PROVE  Simplified
<1> USE DEF Inv
<1>1. \A q \in Rules : ~ (Top = CallEmptyDl(q))
  BY DEF CallEmptyDl
<1>2. \A a : ~ Awaited(a)
  BY DEF Awaited, Call
<1>3. \A q \in Rules : clause[q].status = "dl" => clause[q].delays # {}
  BY <1>1 DEF ClausesOK, ClauseOK
<1>4. \A q \in Rules : clause[q].status = "gone" => is_unconditional_answer(q[1])
  BY <1>2 DEF ClausesOK, ClauseOK
<1>5. clause \in Runs_of(program) /\ Rules = Clauses(program)
  BY DEF Types, Runs_of, Rules
<1>6. clause' = [clause EXCEPT ![r].delays = @ \ {i}]
  BY DEF remove_de_from_dl
<1>7. /\ clause'[r] = [clause[r] EXCEPT !.delays = @ \ {i}]
      /\ \A q \in Rules : q # r => clause'[q] = clause[q]
      /\ clause' \in Runs_of(program)
  <2>1. clause[r] \in [at : Nat, delays : SUBSET Nat, status : Statuses]
    BY <1>5 DEF Runs_of
  <2>2. [clause[r] EXCEPT !.delays = @ \ {i}] \in [at : Nat, delays : SUBSET Nat, status : Statuses]
    BY <2>1
  <2>3. clause' = [clause EXCEPT ![r] = [clause[r] EXCEPT !.delays = @ \ {i}]]
    BY <1>6
  <2> QED BY <1>5, <2>2, <2>3 DEF Runs_of
<1>8. clause'[r].status = clause[r].status /\ clause'[r].delays = clause[r].delays \ {i}
  BY <1>5, <1>7 DEF Runs_of
<1>9. \A q \in Rules : SimplifiedClause(q)
  BY <1>7 DEF SimplifiedClause
<1>10. \A a \in Atoms : SimplifiedAnswer(a)
  BY DEF SimplifiedAnswer
<1>11. ASSUME NEW q \in Rules, clause'[q].status = "dl", clause'[q].delays = {}
       PROVE  calls' # <<>> /\ Last(calls') = CallEmptyDl(q)
  <2>1. q = r
    BY <1>3, <1>7, <1>11
  <2>2. IsLast(<<r, i>>)
    BY <1>8, <1>11, <2>1 DEF IsLast
  <2>3. calls' = Append(calls, CallEmptyDl(r))
    BY <2>2 DEF MayPush
  <2>4. CallEmptyDl(r) \in Calls /\ calls \in Seq(Calls)
    BY Bodies_OK DEF CallEmptyDl, Calls, Types
  <2>5. calls' # <<>> /\ calls'[Len(calls')] = CallEmptyDl(r)
    BY <2>3, <2>4, AppendOf
  <2> QED BY <2>1, <2>5 DEF Last
<1>12. \A q \in Rules : clause'[q].status = "gone" => answer'[q[1]] = "uncond"
  BY <1>4, <1>7, <1>8 DEF is_unconditional_answer
<1>13. answer' \in [Atoms -> {"none", "cond", "uncond"}]
  BY DEF Types
<1> QED BY <1>7, <1>9, <1>10, <1>11, <1>12, <1>13 DEF Simplified, stack

(* A delay list with a refuted element is removed. *)
LEMMA RemoveDlStep ==
  ASSUME Inv, calls # <<>>, Top.step = "loop", UNCHANGED <<program, todo, stack, answer>>,
         NEW r \in Rules, NEW i \in clause[r].delays, clause[r].status = "dl", r[1] \in Zone,
         Refuted(Body(r)[i]), r[1] \in Closing, clause' = Turn(r, "failed")
  PROVE  Simplified
<1> USE DEF Inv
<1>1. \A q \in Rules : ~ (Top = CallEmptyDl(q))
  BY DEF CallEmptyDl
<1>2. \A a : ~ Awaited(a)
  BY DEF Awaited, Call
<1>3. \A q \in Rules : clause[q].status = "dl" => clause[q].delays # {}
  BY <1>1 DEF ClausesOK, ClauseOK
<1>4. \A q \in Rules : clause[q].status = "gone" => is_unconditional_answer(q[1])
  BY <1>2 DEF ClausesOK, ClauseOK
<1>5. clause \in Runs_of(program) /\ Rules = Clauses(program)
  BY DEF Types, Runs_of, Rules
<1>7. /\ clause'[r] = [clause[r] EXCEPT !.status = "failed"]
      /\ \A q \in Rules : q # r => clause'[q] = clause[q]
      /\ clause' \in Runs_of(program)
  BY <1>5 DEF Runs_of, Turn, Statuses
<1>8. clause'[r].status = "failed"
  BY <1>5, <1>7 DEF Runs_of
<1>9. \A q \in Rules : SimplifiedClause(q)
  BY <1>7 DEF SimplifiedClause
<1>10. \A a \in Atoms : SimplifiedAnswer(a)
  BY DEF SimplifiedAnswer
<1>11. \A q \in Rules : clause'[q].status = "dl" => clause'[q].delays # {}
  BY <1>3, <1>7, <1>8
<1>12. \A q \in Rules : clause'[q].status = "gone" => answer'[q[1]] = "uncond"
  BY <1>4, <1>7, <1>8 DEF is_unconditional_answer
<1>13. answer' \in [Atoms -> {"none", "cond", "uncond"}]
  BY DEF Types
<1> QED BY <1>7, <1>9, <1>10, <1>11, <1>12, <1>13 DEF Simplified, stack

(* The element that a loop is at. *)
LEMMA ListedDelay ==
  ASSUME Inv, NEW a \in Zone, NEW sign \in {"pos", "neg"},
         NEW e, (sign = "pos" /\ e \in pdes[a]) \/ (sign = "neg" /\ e \in nde_list[a])
  PROVE  \E r, i :
           /\ r \in Rules /\ i \in clause[r].delays
           /\ e = <<r, i>> /\ clause[r].status = "dl"
           /\ Body(r)[i].sign = sign /\ Body(r)[i].atom = a
           /\ r[1] \in Zone
           /\ sign = "neg" /\ is_unconditional_answer(a) => r[1] \in Closing
           /\ sign = "pos" /\ subgoal_fails(a) => r[1] \in Closing
<1> USE DEF Inv
<1>1. a \in Atoms
  BY OpenedGoals DEF Zone
<1>2. e \in ElementsOn(sign, a)
  BY <1>1 DEF ListsOK
<1>3. PICK r, i :
        /\ r \in Rules /\ i \in clause[r].delays
        /\ e = <<r, i>> /\ clause[r].status = "dl"
        /\ Body(r)[i] = [sign |-> sign, atom |-> a]
  BY <1>1, <1>2, ElementIs
<1>4. Body(r)[i].sign = sign /\ Body(r)[i].atom = a
  BY <1>3
<1>5. PICK F \in SUBSET Atoms : Stalled(F)
  OBVIOUS
<1>6. /\ r[1] \in Zone
      /\ sign = "neg" /\ is_unconditional_answer(a) => r[1] \in Closing
      /\ sign = "pos" /\ subgoal_fails(a) => r[1] \in Closing
  BY <1>3, <1>4, <1>5, ZoneDelays
<1> QED BY <1>3, <1>4, <1>6

LEMMA LoopSteps ==
  ASSUME Inv, \/ SimplifyPosUnconditional \/ SimplifyNegFails
              \/ SimplifyNegSucceeds \/ SimplifyPosUnsupported
  PROVE  Simplified
<1>a. PICK a : a = Top.atom
  OBVIOUS
<1>0. Types /\ CallsOK
  BY DEF Inv
<1>1. calls # <<>> /\ Top.step = "loop"
  BY DEF SimplifyPosUnconditional, SimplifyNegFails, SimplifyNegSucceeds,
         SimplifyPosUnsupported, Doing
<1>2. a \in Zone /\ CallOK(Top)
  BY <1>0, <1>1, <1>a, TopCall DEF CallOK
<1>3. completing # 0 => a \in Closing
  BY <1>2 DEF Zone, Closing
<1>4. CASE SimplifyPosUnconditional
  <2>1. is_unconditional_answer(a)
    BY <1>1, <1>2, <1>4, <1>a DEF SimplifyPosUnconditional, Doing, CallOK
  <2>2. PICK e \in pdes[a] : /\ clause' = remove_de_from_dl(e)
                             /\ calls' = MayPush(IsLast(e), CallEmptyDl(e[1]))
    BY <1>4, <1>a DEF SimplifyPosUnconditional
  <2>3. PICK r, i :
          /\ r \in Rules /\ i \in clause[r].delays
          /\ e = <<r, i>> /\ clause[r].status = "dl" /\ r[1] \in Zone
          /\ Body(r)[i].sign = "pos" /\ Body(r)[i].atom = a
    BY <1>2, <2>2, ListedDelay
  <2>4. Resolved(Body(r)[i])
    BY <2>1, <2>3 DEF Resolved
  <2>5. UNCHANGED <<program, todo, stack, answer>> /\ e[1] = r
    BY <1>4, <2>3 DEF SimplifyPosUnconditional
  <2> QED BY <1>1, <2>2, <2>3, <2>4, <2>5, RemoveDeStep
<1>5. CASE SimplifyNegFails
  <2>1. subgoal_fails(a) /\ a \in complete
    BY <1>1, <1>2, <1>5, <1>a DEF SimplifyNegFails, Doing, CallOK
  <2>2. PICK e \in nde_list[a] : /\ clause' = remove_de_from_dl(e)
                                 /\ calls' = MayPush(IsLast(e), CallEmptyDl(e[1]))
    BY <1>5, <1>a DEF SimplifyNegFails
  <2>3. PICK r, i :
          /\ r \in Rules /\ i \in clause[r].delays
          /\ e = <<r, i>> /\ clause[r].status = "dl" /\ r[1] \in Zone
          /\ Body(r)[i].sign = "neg" /\ Body(r)[i].atom = a
    BY <1>2, <2>2, ListedDelay
  <2>4. Resolved(Body(r)[i])
    BY <2>1, <2>3 DEF Resolved, FalseGoals
  <2>5. UNCHANGED <<program, todo, stack, answer>> /\ e[1] = r
    BY <1>5, <2>3 DEF SimplifyNegFails
  <2> QED BY <1>1, <2>2, <2>3, <2>4, <2>5, RemoveDeStep
<1>6. CASE SimplifyNegSucceeds
  <2>1. is_unconditional_answer(a)
    BY <1>1, <1>2, <1>6, <1>a DEF SimplifyNegSucceeds, Doing, CallOK
  <2>2. PICK e \in nde_list[a] : RemoveDl(e[1])
    BY <1>6, <1>a DEF SimplifyNegSucceeds
  <2>3. PICK r, i :
          /\ r \in Rules /\ i \in clause[r].delays
          /\ e = <<r, i>> /\ clause[r].status = "dl" /\ r[1] \in Zone /\ r[1] \in Closing
          /\ Body(r)[i].sign = "neg" /\ Body(r)[i].atom = a
    BY <1>2, <2>1, <2>2, ListedDelay
  <2>4. Refuted(Body(r)[i])
    BY <2>1, <2>3 DEF Refuted
  <2>5. UNCHANGED <<program, todo, stack, answer>> /\ clause' = Turn(r, "failed")
    BY <2>2, <2>3 DEF RemoveDl
  <2> QED BY <1>1, <2>3, <2>4, <2>5, RemoveDlStep
<1>7. CASE SimplifyPosUnsupported
  <2>1. subgoal_fails(a) /\ a \in Closing
    BY <1>1, <1>2, <1>3, <1>7, <1>a DEF SimplifyPosUnsupported, Doing, CallOK
  <2>2. PICK e \in pdes[a] : RemoveDl(e[1])
    BY <1>7, <1>a DEF SimplifyPosUnsupported
  <2>3. PICK r, i :
          /\ r \in Rules /\ i \in clause[r].delays
          /\ e = <<r, i>> /\ clause[r].status = "dl" /\ r[1] \in Zone /\ r[1] \in Closing
          /\ Body(r)[i].sign = "pos" /\ Body(r)[i].atom = a
    BY <1>2, <2>1, <2>2, ListedDelay
  <2>4. Refuted(Body(r)[i])
    BY <2>1, <2>3 DEF Refuted, FalseGoals, Closing
  <2>5. UNCHANGED <<program, todo, stack, answer>> /\ clause' = Turn(r, "failed")
    BY <2>2, <2>3 DEF RemoveDl
  <2> QED BY <1>1, <2>3, <2>4, <2>5, RemoveDlStep
<1> QED BY <1>4, <1>5, <1>6, <1>7

(* The last element of a delay list has left it. *)
LEMMA EnterEmptyDlStep ==
  ASSUME Inv, EnterEmptyDl
  PROVE  /\ Simplified /\ is_conditional_answer(Top.atom)
         /\ \E r \in Rules : r[1] = Top.atom /\ Proof(r)'
<1> USE DEF Inv
<1> DEFINE c == Call("pos_unconditional", "enter", Top.atom)
<1>a. PICK r : r = <<Top.atom, Top.rule>>
  OBVIOUS
<1>0. calls # <<>> /\ Top.op = "empty_dl" /\ Top.step = "enter"
  BY DEF EnterEmptyDl, Doing
<1>1. r \in Rules /\ clause[r].status = "dl" /\ clause[r].delays = {} /\ r[1] = Top.atom /\ r[2] = Top.rule
  BY <1>0, <1>a, TopCall DEF TopOK
<1>2. /\ Top.atom \in Zone /\ Top.atom \in Atoms /\ is_conditional_answer(Top.atom)
      /\ clause[r].at = Len(Body(r)) + 1
  BY <1>0, <1>1, TopCall DEF CallOK, ClausesOK, ClauseOK
<1>3. \A a : ~ Awaited(a)
  BY <1>0 DEF Awaited, Call
<1>4. \A q \in Rules : clause[q].status = "dl" /\ clause[q].delays = {} => q = r
  <2>1. \A q \in Rules : Top = CallEmptyDl(q) => q[1] = Top.atom /\ q[2] = Top.rule
    BY DEF CallEmptyDl
  <2>2. \A q \in Rules : q = <<q[1], q[2]>>
    BY Bodies_OK
  <2> QED BY <1>a, <2>1, <2>2 DEF ClausesOK, ClauseOK
<1>5. \A q \in Rules : clause[q].status = "gone" => is_unconditional_answer(q[1])
  BY <1>3 DEF ClausesOK, ClauseOK
<1>6. /\ UNCHANGED <<program, todo, frames, leaders, complete, completing, answer>>
      /\ clause' = Turn(r, "gone") /\ calls' = Append(Goto("after"), c)
  BY <1>2, <1>a DEF EnterEmptyDl, stack
<1>7. clause \in Runs_of(program) /\ Rules = Clauses(program)
  BY DEF Types, Runs_of, Rules
<1>8. /\ clause'[r] = [clause[r] EXCEPT !.status = "gone"]
      /\ \A q \in Rules : q # r => clause'[q] = clause[q]
      /\ clause' \in Runs_of(program)
  BY <1>1, <1>6, <1>7 DEF Runs_of, Turn, Statuses
<1>9. clause'[r].status = "gone" /\ clause'[r].delays = {} /\ clause'[r].at = clause[r].at
  BY <1>1, <1>7, <1>8 DEF Runs_of
<1>10. calls' # <<>> /\ Last(calls') = c
  <2>1. c \in Calls /\ [Top EXCEPT !.step = "after"] \in Calls /\ calls \in Seq(Calls)
    BY <1>0, <1>2, TopCall DEF Calls, Call, Types
  <2>2. Goto("after") \in Seq(Calls)
    BY <1>0, <2>1, FrontOf, AppendOf DEF Goto, Replace, Returned
  <2>3. calls' # <<>> /\ calls'[Len(calls')] = c
    BY <1>6, <2>1, <2>2, AppendOf
  <2> QED BY <2>3 DEF Last
<1>11. \A q \in Rules : SimplifiedClause(q)
  BY <1>1, <1>2, <1>8, <1>a DEF SimplifiedClause
<1>12. \A a \in Atoms : SimplifiedAnswer(a)
  BY <1>6 DEF SimplifiedAnswer
<1>13. \A q \in Rules : clause'[q].status = "dl" => clause'[q].delays # {}
  BY <1>4, <1>8, <1>9
<1>14. ASSUME NEW q \in Rules, clause'[q].status = "gone"
       PROVE \/ answer'[q[1]] = "uncond"
             \/ calls' # <<>> /\ Last(calls') = Call("pos_unconditional", "enter", q[1])
  BY <1>1, <1>5, <1>6, <1>8, <1>10, <1>14 DEF is_unconditional_answer
<1>15. answer' \in [Atoms -> {"none", "cond", "uncond"}]
  BY <1>6 DEF Types
<1>16. Simplified
  BY <1>0, <1>6, <1>8, <1>11, <1>12, <1>13, <1>14, <1>15 DEF Simplified
<1>17. Body(r)' = Body(r)
  BY <1>6 DEF Body
<1> QED BY <1>1, <1>2, <1>9, <1>16, <1>17 DEF Proof

(* Early completion by simplification disposes of suspensions. *)
LEMMA LeaveEmptyDlStep ==
  ASSUME Inv, LeaveEmptyDl
  PROVE  Simplified
<1> USE DEF Inv
<1>a. PICK a : a = Top.atom
  OBVIOUS
<1>0. calls # <<>> /\ Top.op = "empty_dl" /\ Top.step = "after"
  BY DEF LeaveEmptyDl, Doing
<1>1. \A b : ~ Awaited(b)
  BY <1>0 DEF Awaited, Call
<1>2. a \in Zone /\ a \in Atoms /\ is_unconditional_answer(a)
  BY <1>0, <1>1, <1>a, TopCall DEF CallOK
<1>3. \A q \in Rules : ~ (Top = CallEmptyDl(q))
  BY <1>0 DEF CallEmptyDl
<1>4. \A q \in Rules : clause[q].status = "dl" => clause[q].delays # {}
  BY <1>3 DEF ClausesOK, ClauseOK
<1>5. \A q \in Rules : clause[q].status = "gone" => is_unconditional_answer(q[1])
  BY <1>1 DEF ClausesOK, ClauseOK
<1>6. /\ UNCHANGED <<program, todo, frames, leaders, completing, answer>>
      /\ complete \subseteq complete' /\ complete' \subseteq complete \cup {a}
      /\ clause' = clause \/ clause' = Disposed(SuspendedOn(a))
  BY <1>a DEF LeaveEmptyDl
<1>7. clause \in Runs_of(program) /\ Rules = Clauses(program)
  BY DEF Types, Runs_of, Rules
<1>8. ASSUME NEW r \in Rules
      PROVE  \/ clause'[r] = clause[r]
             \/ /\ clause'[r] = [clause[r] EXCEPT !.status = "failed"]
                /\ clause[r].status = "suspended" /\ Goal(r) = a
  <2>1. CASE clause' = clause
    BY <2>1
  <2>2. CASE clause' = Disposed(SuspendedOn(a))
    BY <2>2 DEF Disposed, SuspendedOn
  <2> QED BY <1>6, <2>1, <2>2
<1>9. clause' \in Runs_of(program)
  <2>1. CASE clause' = clause
    BY <1>7, <2>1
  <2>2. CASE clause' = Disposed(SuspendedOn(a))
    <3>1. \A r \in Rules : clause'[r] \in [at : Nat, delays : SUBSET Nat, status : Statuses]
      <4> TAKE r \in Rules
      <4>1. clause[r] \in [at : Nat, delays : SUBSET Nat, status : Statuses]
        BY <1>7 DEF Runs_of
      <4>2. [clause[r] EXCEPT !.status = "failed"] \in [at : Nat, delays : SUBSET Nat, status : Statuses]
        BY <4>1 DEF Statuses
      <4> QED BY <1>8, <4>1, <4>2
    <3>2. clause' = [r \in Rules |-> clause'[r]]
      BY <2>2 DEF Disposed
    <3> QED BY <1>7, <3>1, <3>2 DEF Runs_of
  <2> QED BY <1>6, <2>1, <2>2
<1>10. \A r \in Rules : SimplifiedClause(r)
  BY <1>2, <1>8 DEF SimplifiedClause
<1>11. \A b \in Atoms : SimplifiedAnswer(b)
  BY <1>6 DEF SimplifiedAnswer
<1>12. ASSUME NEW r \in Rules, clause'[r].status \in {"dl", "gone"} PROVE clause'[r] = clause[r]
  <2>1. clause[r] \in [at : Nat, delays : SUBSET Nat, status : Statuses]
    BY <1>7 DEF Runs_of
  <2>2. [clause[r] EXCEPT !.status = "failed"].status = "failed"
    BY <2>1
  <2> QED BY <1>8, <1>12, <2>2
<1>13. answer' \in [Atoms -> {"none", "cond", "uncond"}]
  BY <1>6 DEF Types
<1> QED BY <1>0, <1>2, <1>4, <1>5, <1>6, <1>9, <1>10, <1>11, <1>12, <1>13
        DEF Simplified, is_unconditional_answer

(* An answer without a delay list left is deleted. *)
LEMMA UnsupportedStep ==
  ASSUME Inv, EnterUnsupported
  PROVE  Simplified
<1> USE DEF Inv
<1>a. PICK a : a = Top.atom
  OBVIOUS
<1>0. calls # <<>> /\ Top.op = "unsupported" /\ Top.step = "enter"
  BY DEF EnterUnsupported, Doing
<1>1. \A b : ~ Awaited(b)
  BY <1>0 DEF Awaited, Call
<1>2. /\ a \in Zone /\ a \in Atoms /\ is_conditional_answer(a) /\ dls(a) = {}
      /\ completing # 0
  BY <1>0, <1>a, TopCall DEF CallOK, TopOK
<1>3. \A q \in Rules : ~ (Top = CallEmptyDl(q))
  BY <1>0 DEF CallEmptyDl
<1>4. \A q \in Rules : clause[q].status = "dl" => clause[q].delays # {}
  BY <1>3 DEF ClausesOK, ClauseOK
<1>5. \A q \in Rules : clause[q].status = "gone" => is_unconditional_answer(q[1])
  BY <1>1 DEF ClausesOK, ClauseOK
<1>6. /\ UNCHANGED <<program, todo, frames, leaders, complete, completing, clause>>
      /\ answer' = [answer EXCEPT ![a] = "none"]
  BY <1>a DEF EnterUnsupported, stack
<1>7. /\ answer' \in [Atoms -> {"none", "cond", "uncond"}] /\ answer'[a] = "none"
      /\ \A b \in Atoms : b # a => answer'[b] = answer[b]
  BY <1>2, <1>6 DEF Types
<1>8. clause' \in Runs_of(program)
  BY <1>6 DEF Types, Runs_of
<1>9. \A r \in Rules : SimplifiedClause(r)
  BY <1>6 DEF SimplifiedClause
<1>10. \A b \in Atoms : SimplifiedAnswer(b)
  <2>1. \A r \in Rules : r[1] = a => clause'[r].status # "dl"
    BY <1>2, <1>6 DEF dls
  <2>2. a \in Closing
    BY <1>2 DEF Zone, Closing
  <2> QED BY <1>1, <1>2, <1>7, <2>1, <2>2 DEF SimplifiedAnswer
<1>11. ASSUME NEW r \in Rules, clause'[r].status = "gone" PROVE answer'[r[1]] = "uncond"
  <2>1. is_unconditional_answer(r[1]) /\ r[1] \in Atoms
    BY <1>5, <1>6, <1>11, Bodies_OK
  <2>2. r[1] # a
    BY <1>2, <2>1 DEF is_unconditional_answer, is_conditional_answer
  <2> QED BY <1>7, <2>1, <2>2 DEF is_unconditional_answer
<1> QED BY <1>0, <1>4, <1>6, <1>7, <1>8, <1>9, <1>10, <1>11 DEF Simplified

LEMMA SimplifyIsSimplified ==
  ASSUME Inv, Simplify
  PROVE  Simplified
<1>1. CASE FinishAnswer("new") \/ FinishAnswer("old")
  BY <1>1, FinishStep
<1>2. CASE EnterPosUnconditional
  BY <1>2, PosUnconditionalStep
<1>3. CASE SimplifyPosUnconditional \/ SimplifyNegFails \/ SimplifyNegSucceeds \/ SimplifyPosUnsupported
  BY <1>3, LoopSteps
<1>4. CASE EnterEmptyDl
  BY <1>4, EnterEmptyDlStep
<1>5. CASE LeaveEmptyDl
  BY <1>5, LeaveEmptyDlStep
<1>6. CASE EnterUnsupported
  BY <1>6, UnsupportedStep
<1>7. CASE LeaveUnsupported
  <2>1. calls # <<>> /\ Top.op = "unsupported"
    BY <1>7 DEF LeaveUnsupported, Doing
  <2> QED BY <1>7, <2>1, QuietStep DEF LeaveUnsupported
<1>8. CASE EnterNegFails
  <2>1. calls # <<>> /\ Top.op = "neg_fails"
    BY <1>8 DEF EnterNegFails, Doing
  <2> QED BY <1>8, <2>1, QuietStep DEF EnterNegFails
<1>9. CASE NextNegFails
  <2>1. calls # <<>> /\ Top.op = "neg_fails"
    BY <1>9 DEF NextNegFails, Doing
  <2> QED BY <1>9, <2>1, QuietStep DEF NextNegFails
<1>10. ASSUME NEW op, op \in {"neg_succeeds", "pos_unsupported"}, Enter(op)
       PROVE  Simplified
  <2>1. calls # <<>> /\ Top.op = op
    BY <1>10 DEF Enter, Doing
  <2> QED BY <1>10, <2>1, QuietStep DEF Enter
<1>11. ASSUME NEW op, NEW a, NEW list, Exit(op, a, list)
       PROVE  Simplified
  <2>1. calls # <<>> /\ Top.step = "loop" /\ UNCHANGED <<program, todo, stack, answer, clause>>
    BY <1>11 DEF Exit, Doing
  <2> QED BY <2>1, QuietStep
<1> QED BY <1>1, <1>2, <1>3, <1>4, <1>5, <1>6, <1>7, <1>8, <1>9, <1>10, <1>11 DEF Simplify
--------------------------------------------------------------------------
(* WHAT SIMPLIFICATION KEEPS *)

(* Each clause in a step of the simplification. *)
LEMMA SimplifiedRule ==
  ASSUME Inv, Simplified, NEW r \in Rules
  PROVE  /\ clause'[r].at = clause[r].at /\ clause'[r].delays \subseteq clause[r].delays
         /\ clause'[r].status # clause[r].status =>
              /\ clause[r].status \in {"dl", "suspended"}
              /\ clause'[r].status \in {"failed", "gone"}
              /\ clause'[r].status = "gone" => clause[r].status = "dl"
         /\ clause[r].status \notin {"dl", "suspended"} => clause'[r] = clause[r]
         /\ clause'[r] # clause[r] => clause[r] # Start
         /\ \A i \in clause[r].delays \ clause'[r].delays : Resolved(Body(r)[i])
<1> USE DEF Inv
<1>1. clause[r] \in [at : Nat, delays : SUBSET Nat, status : Statuses]
  BY DEF Types, Rules
<1>2. SimplifiedClause(r)
  BY DEF Simplified
<1>3. CASE clause'[r] = clause[r]
  BY <1>3
<1>4. ASSUME clause[r].status = "dl", NEW i \in clause[r].delays, Resolved(Body(r)[i]),
             clause'[r] = [clause[r] EXCEPT !.delays = @ \ {i}]
      PROVE  /\ clause'[r].at = clause[r].at /\ clause'[r].delays = clause[r].delays \ {i}
             /\ clause'[r].status = clause[r].status
  BY <1>1, <1>4
<1>5. ASSUME NEW s, clause'[r] = [clause[r] EXCEPT !.status = s]
      PROVE  /\ clause'[r].at = clause[r].at /\ clause'[r].delays = clause[r].delays
             /\ clause'[r].status = s
  BY <1>1, <1>5
<1>6. clause[r].status \in {"dl", "suspended"} => clause[r] # Start
  BY DEF Start
<1> QED BY <1>2, <1>3, <1>4, <1>5, <1>6 DEF SimplifiedClause

(* What else stays. *)
LEMMA SimplifiedRest ==
  ASSUME Inv, Simplified
  PROVE  /\ Rules' = Rules /\ \A r : Body(r)' = Body(r)
         /\ Opened' = Opened /\ Scc' = Scc /\ Leader' = Leader
         /\ Closing' = Closing /\ Live' = Live /\ Zone' = Zone
         /\ \A a, b : Same(a, b)' <=> Same(a, b)
         /\ Done' = Done /\ called' = called /\ Zone \subseteq Opened
         /\ \A a \in Atoms :
              /\ is_unconditional_answer(a) => is_unconditional_answer(a)'
              /\ subgoal_fails(a) => subgoal_fails(a)'
              /\ a \notin Zone => answer'[a] = answer[a]
              /\ a \notin Closing => (subgoal_fails(a)' => subgoal_fails(a))
<1> USE DEF Inv
<1>1. /\ Opened' = Opened /\ Scc' = Scc /\ Leader' = Leader
      /\ Closing' = Closing /\ Live' = Live /\ Zone' = Zone
      /\ \A a, b : Same(a, b)' <=> Same(a, b)
  BY KeptFrames DEF Simplified
<1>2. Zone \subseteq Opened
  BY OpenedGoals DEF Zone
<1>3. Done' = Done
  BY <1>1, <1>2 DEF Simplified, Done
<1>4. called' = called
  <2>1. called = complete \cup Opened /\ called' = complete' \cup Opened'
    BY DEF called, Opened
  <2> QED BY <1>1, <1>2, <2>1 DEF Simplified
<1>5. Rules' = Rules
  BY DEF Types, Runs_of, Rules, Simplified
<1>6. \A r : Body(r)' = Body(r)
  BY DEF Body, Simplified
<1>7. ASSUME NEW a \in Atoms
      PROVE  /\ is_unconditional_answer(a) => is_unconditional_answer(a)'
             /\ subgoal_fails(a) => subgoal_fails(a)'
             /\ a \notin Zone => answer'[a] = answer[a]
             /\ a \notin Closing => (subgoal_fails(a)' => subgoal_fails(a))
  BY DEF Simplified, SimplifiedAnswer, is_unconditional_answer, is_conditional_answer, subgoal_fails
<1> QED BY <1>1, <1>2, <1>3, <1>4, <1>5, <1>6, <1>7

LEMMA SimplifiedUncalled ==
  ASSUME Inv, Simplified
  PROVE  Uncalled'
<1>1. SUFFICES ASSUME NEW a \in Atoms \ called'
               PROVE  /\ subgoal_fails(a)'
                      /\ \A r \in Rules' : r[1] = a => clause'[r] = Start
  BY DEF Uncalled, Start
<1>2. a \notin called /\ Rules' = Rules /\ (subgoal_fails(a) => subgoal_fails(a)')
  BY <1>1, SimplifiedRest
<1>3. subgoal_fails(a) /\ \A r \in Rules : r[1] = a => clause[r] = Start
  BY <1>1, <1>2 DEF Inv, Uncalled
<1> QED BY <1>2, <1>3, SimplifiedRule

LEMMA SimplifiedEarly ==
  ASSUME Inv, Simplified
  PROVE  EarlyCompleted' /\ Frames'
<1>1. EarlyCompleted'
  <2> SUFFICES ASSUME NEW a \in complete' \cap Live' PROVE is_unconditional_answer(a)'
    BY DEF EarlyCompleted
  <2>1. a \in Live /\ a \in Atoms
    BY SimplifiedRest, OpenedGoals DEF Live, Inv
  <2>2. is_unconditional_answer(a)
    BY <2>1 DEF Inv, EarlyCompleted, Simplified
  <2> QED BY <2>1, <2>2, SimplifiedRest
<1>2. Frames'
  BY SimplifiedRest DEF Inv, Frames, Simplified
<1> QED BY <1>1, <1>2

LEMMA SimplifiedDelays ==
  ASSUME Inv, Simplified
  PROVE  DelaysOK'
<1> SUFFICES ASSUME NEW r \in Rules', NEW i \in clause'[r].delays PROVE DelayOK(r, i)'
  BY DEF DelaysOK
<1>1. r \in Rules /\ i \in clause[r].delays /\ (clause'[r].status = "dl" => clause[r].status = "dl")
      /\ Body(r)' = Body(r)
  BY SimplifiedRest, SimplifiedRule
<1> DEFINE b == Body(r)[i].atom
<1>2. DelayOK(r, i) /\ b \in Atoms
  BY <1>1, DelayPlaces DEF Inv, DelaysOK
<1>3. r[1] \in Opened' => b \in Done' \/ Same(r[1], b)'
  BY <1>2, SimplifiedRest DEF DelayOK
<1>4. r[1] \in Done' /\ clause'[r].status = "dl" => b \in Done'
  BY <1>1, <1>2, SimplifiedRest DEF DelayOK
<1>5. ASSUME r[1] \in Live', Body(r)[i].sign = "pos" PROVE ~ subgoal_fails(b)'
  <2>1. r[1] \in Live /\ r[1] \in Opened /\ ~ subgoal_fails(b)
    BY <1>2, <1>5, SimplifiedRest DEF DelayOK, Live
  <2>2. b \in Closing => ~ Same(r[1], b)
    BY <2>1, SccIsSame DEF Inv, Live, Closing
  <2>3. b \notin Closing
    BY <1>2, <2>1, <2>2, SimplifiedRest DEF DelayOK, Done, Closing, Zone
  <2> QED BY <1>2, <2>1, <2>3, SimplifiedRest
<1> QED BY <1>1, <1>3, <1>4, <1>5 DEF DelayOK

(* Simplification does not wake goals that stall. *)
LEMMA SimplifiedStalled ==
  ASSUME Inv, Simplified, NEW F \in SUBSET Atoms, Stalled(F)
  PROVE  Stalled(F)'
<1> USE DEF Inv
<1>1. \A a \in Atoms : Left(a) => Left(a)'
  BY SimplifiedRest DEF Left, Done, is_conditional_answer
<1>2. \A a \in F : ~ is_unconditional_answer(a)'
  <2> TAKE a \in F
  <2>1. ~ is_unconditional_answer(a) /\ a \in Atoms
    BY DEF Stalled
  <2>2. ASSUME NEW r \in Rules, r[1] = a, Proof(r) PROVE FALSE
    <3>1. Len(Body(r)) \in Nat /\ DOMAIN Body(r) = 1..Len(Body(r))
      BY Bodies_OK
    <3>2. clause[r].status = "gone"
      BY <2>2 DEF Proof
    <3> QED BY <2>2, <3>2 DEF Stalled
  <2>3. SimplifiedAnswer(a)
    BY <2>1 DEF Simplified
  <2> QED BY <2>1, <2>2, <2>3 DEF SimplifiedAnswer, is_unconditional_answer
<1>3. F \subseteq Live' \ complete'
  BY SimplifiedRest DEF Stalled, Simplified
<1>4. ASSUME NEW r \in Rules, NEW i \in clause[r].delays, Resolved(Body(r)[i])
      PROVE  ~ Stalls(F, r, Body(r)[i])
  <2> DEFINE b == Body(r)[i].atom
  <2>1. b \in Atoms
    BY DelayPlaces
  <2>2. CASE Body(r)[i].sign = "pos" /\ is_unconditional_answer(b)
    BY <2>2 DEF Stalls, Stalled, Left, is_unconditional_answer, is_conditional_answer
  <2>3. CASE Body(r)[i].sign = "neg" /\ b \in FalseGoals
    <3>1. b \notin F
      BY <2>3 DEF FalseGoals, Stalled, Live, Closing
    <3> QED BY <2>3, <3>1 DEF Stalls, FalseGoals, Left, is_unconditional_answer,
                              is_conditional_answer, subgoal_fails
  <2> QED BY <1>4, <2>2, <2>3 DEF Resolved
<1>5. ASSUME NEW r \in Rules, NEW l \in Literals, Stalls(F, r, l) PROVE Stalls(F, r, l)'
  <2>1. l.atom \in Atoms
    BY DEF Literals, Pos, Neg
  <2> QED BY <1>1, <1>5, <2>1, SimplifiedRest DEF Stalls
<1>6. ASSUME NEW r \in Rules, r[1] \in F
      PROVE  \/ clause'[r].status = "failed"
             \/ /\ clause'[r].status # "gone"
                /\ \E i \in DOMAIN Body(r) :
                     /\ i \in clause'[r].delays \/ i = clause'[r].at
                     /\ Stalls(F, r, Body(r)[i])'
  <2>1. CASE clause[r].status = "failed"
    BY <2>1, SimplifiedRule
  <2>2. CASE clause[r].status # "failed"
    <3>1. PICK i \in DOMAIN Body(r) : /\ i \in clause[r].delays \/ i = clause[r].at
                                      /\ Stalls(F, r, Body(r)[i])
      BY <1>6, <2>2 DEF Stalled
    <3>2. DOMAIN Body(r) = 1..Len(Body(r)) /\ Len(Body(r)) \in Nat /\ Body(r)[i] \in Literals
      BY <3>1, Bodies_OK
    <3>3. i \in clause'[r].delays \/ i = clause'[r].at
      BY <1>4, <3>1, SimplifiedRule
    <3>4. clause'[r].status # "gone"
      <4> SUFFICES ASSUME clause'[r].status = "gone" PROVE FALSE
        OBVIOUS
      <4>1. clause[r].status # "gone"
        BY <1>6, <2>2 DEF Stalled
      <4>2. clause[r].status = "dl" /\ SimplifiedClause(r)
        BY <4>1, SimplifiedRule DEF Simplified
      <4>3. r[1] \in Atoms /\ ~ is_unconditional_answer(r[1])'
        BY <1>2, <1>6
      <4>4. clause[r] \in [at : Nat, delays : SUBSET Nat, status : Statuses]
        BY DEF Types, Rules
      <4>5. clause[r].delays = {}
        <5>1. \A i1 : [clause[r] EXCEPT !.delays = @ \ {i1}].status = "dl"
          BY <4>2, <4>4
        <5>2. [clause[r] EXCEPT !.status = "failed"].status = "failed"
          BY <4>4
        <5> QED BY <4>1, <4>2, <4>3, <5>1, <5>2 DEF SimplifiedClause, is_unconditional_answer
      <4>6. clause[r].at = Len(Body(r)) + 1
        BY <4>2 DEF ClausesOK, ClauseOK
      <4> QED BY <3>1, <3>2, <4>5, <4>6
    <3>5. Stalls(F, r, Body(r)[i])'
      <4>1. PICK l \in Literals : l = Body(r)[i]
        BY <3>2
      <4>2. Stalls(F, r, l)' /\ Body(r)' = Body(r)
        BY <1>5, <3>1, <4>1, SimplifiedRest
      <4> QED BY <4>1, <4>2 DEF Stalls
    <3> QED BY <3>1, <3>3, <3>4, <3>5
  <2> QED BY <2>1, <2>2
<1>7. ASSUME NEW r \in Rules, r[1] \in Live, clause'[r].status = "resumed"
      PROVE  is_unconditional_answer(Goal(r))' \/ (Goal(r)' \in F /\ Same(r[1], Goal(r))')
  <2>1. clause[r].status = "resumed" /\ clause'[r] = clause[r]
    BY <1>7, SimplifiedRule
  <2>2. Goal(r)' = Goal(r) /\ Goal(r) \in Atoms
    <3>1. clause[r].at \in 1..Len(Body(r))
      BY <2>1, Bodies_OK DEF ClausesOK, ClauseOK
    <3> QED BY <2>1, <3>1, Bodies_OK, SimplifiedRest DEF Goal, Literal, At
  <2>3. is_unconditional_answer(Goal(r)) \/ (Goal(r) \in F /\ Same(r[1], Goal(r)))
    BY <1>7, <2>1 DEF Stalled
  <2> QED BY <2>2, <2>3, SimplifiedRest DEF is_unconditional_answer
<1>8. ASSUME NEW r \in Rules, r[1] \in Live, NEW i \in clause'[r].delays, Body(r)[i].sign = "neg"
      PROVE  \/ Body(r)[i].atom \in F /\ Same(r[1], Body(r)[i].atom)'
             \/ Left(Body(r)[i].atom)'
  <2>1. i \in clause[r].delays
    BY SimplifiedRule
  <2> QED BY <1>1, <1>8, <2>1, DelayPlaces, SimplifiedRest DEF Stalled
<1>9. /\ Live' = Live /\ Rules' = Rules /\ \A r : Body(r)' = Body(r)
  BY SimplifiedRest
<1> QED BY <1>2, <1>3, <1>6, <1>7, <1>8, <1>9 DEF Stalled

LEMMA SimplifiedClauses ==
  ASSUME Inv, Simplified
  PROVE  ClausesOK'
<1> USE DEF Inv
<1> SUFFICES ASSUME NEW r \in Rules' PROVE ClauseOK(r)'
  BY DEF ClausesOK
<1>0. r \in Rules /\ Rules' = Rules /\ Body(r)' = Body(r) /\ r[1] \in Atoms /\ Len(Body(r)) \in Nat
  BY SimplifiedRest, Bodies_OK
<1>1. ClauseOK(r)
  BY <1>0 DEF ClausesOK
<1>2. clause'[r].at \in 1..Len(Body(r)) + 1 /\ clause'[r].delays \subseteq 1..clause'[r].at - 1
  BY <1>0, <1>1, SimplifiedRule DEF ClauseOK
<1>3. Literal(r)' = Literal(r) /\ Goal(r)' = Goal(r)
  BY <1>0, SimplifiedRule DEF Literal, Goal, At
<1>4. clause'[r].status \in {"suspended", "resumed"} =>
        clause'[r].at <= Len(Body(r)) /\ Literal(r).sign = "neg"
  BY <1>0, <1>1, SimplifiedRule DEF ClauseOK
<1>5. clause'[r].status = "suspended" /\ r[1] \in Live' => Same(r[1], Goal(r))'
  BY <1>0, <1>1, <1>3, SimplifiedRule, SimplifiedRest DEF ClauseOK
<1>6. clause'[r].status # "running"
  <2>1. clause[r].status # "running"
    BY <1>1 DEF ClauseOK, Evaluating, Simplified
  <2> QED BY <1>0, <2>1, SimplifiedRule
<1>7. clause'[r].status = "dl" =>
        /\ is_conditional_answer(r[1])'
        /\ clause'[r].at = Len(Body(r)) + 1
        /\ clause'[r].delays = {} => calls' # <<>> /\ Top' = CallEmptyDl(r)
  <2> HAVE clause'[r].status = "dl"
  <2>1. clause[r].status = "dl"
    BY <1>0, SimplifiedRule
  <2>2. is_conditional_answer(r[1])'
    <3>1. SimplifiedAnswer(r[1]) /\ is_conditional_answer(r[1])
      BY <1>0, <1>1, <2>1 DEF ClauseOK, Simplified
    <3> QED BY <1>0, <3>1 DEF SimplifiedAnswer, is_conditional_answer
  <2>3. clause'[r].at = Len(Body(r)) + 1
    BY <1>0, <1>1, <2>1, SimplifiedRule DEF ClauseOK
  <2>4. clause'[r].delays = {} => calls' # <<>> /\ Top' = CallEmptyDl(r)
    BY <1>0 DEF Simplified, Top
  <2> QED BY <2>2, <2>3, <2>4
<1>8. clause'[r].status = "gone" => is_unconditional_answer(r[1])' \/ Awaited(r[1])'
  BY <1>0 DEF Simplified, Awaited, Top, is_unconditional_answer, Call
<1>9. r[1] \in Closing' =>
        \/ clause'[r].status \in {"failed", "dl", "gone"}
        \/ /\ clause'[r].status = "waiting"
           /\ clause'[r].at <= Len(Body(r)) /\ Literal(r).sign = "pos"
           /\ Goal(r) \in Closing /\ subgoal_fails(Goal(r))'
  <2> HAVE r[1] \in Closing'
  <2>1. r[1] \in Closing
    BY SimplifiedRest
  <2>2. CASE clause[r].status \in {"failed", "dl", "gone"}
    BY <1>0, <2>2, SimplifiedRule
  <2>3. CASE /\ clause[r].status = "waiting"
             /\ clause[r].at <= Len(Body(r)) /\ Literal(r).sign = "pos"
             /\ Goal(r) \in Closing /\ subgoal_fails(Goal(r))
    <3>1. clause'[r] = clause[r]
      BY <1>0, <2>3, SimplifiedRule
    <3>2. Goal(r) \in Atoms
      BY <2>3, OpenedGoals DEF Closing
    <3> QED BY <1>3, <2>3, <3>1, <3>2, SimplifiedRest DEF subgoal_fails
  <2> QED BY <1>1, <2>1, <2>2, <2>3 DEF ClauseOK
<1>10. CallEmptyDl(r)' = CallEmptyDl(r)
  BY DEF CallEmptyDl
<1> QED BY <1>0, <1>2, <1>3, <1>4, <1>5, <1>6, <1>7, <1>8, <1>9, <1>10, SimplifiedRest DEF ClauseOK
--------------------------------------------------------------------------
(* CALLS OF THE SIMPLIFICATION ROUTINES *)

(* Only simplify_pos_unconditional goes on from its beginning. *)
LEMMA AwaitedComes ==
  ASSUME Inv, Simplify, NEW a, Awaited(a)
  PROVE  is_unconditional_answer(a)'
<1>1. Top.op = "pos_unconditional" /\ Top.step = "enter" /\ Top.atom = a
  BY DEF Awaited, Call
<1>2. EnterPosUnconditional
  BY <1>1 DEF Simplify, FinishAnswer, SimplifyPosUnconditional, Exit, EnterEmptyDl, LeaveEmptyDl,
              Enter, SimplifyNegSucceeds, EnterUnsupported, LeaveUnsupported,
              SimplifyPosUnsupported, EnterNegFails, SimplifyNegFails, NextNegFails, Doing
<1>3. a \in Atoms
  BY <1>1, TopCall DEF Inv, Awaited
<1> QED BY <1>1, <1>2, <1>3 DEF EnterPosUnconditional, is_unconditional_answer, Inv, Types

(* What a call under way relies on stays so. *)
LEMMA CallStays ==
  ASSUME Inv, Simplify, NEW c \in Calls, CallOK(c)
  PROVE  CallOK(c)'
<1>1. Simplified /\ c.atom \in Atoms
  BY SimplifyIsSimplified DEF Calls
<1>2. /\ c.atom \in Zone' /\ (completing' = completing)
      /\ (is_unconditional_answer(c.atom) => is_unconditional_answer(c.atom)')
      /\ (subgoal_fails(c.atom) => subgoal_fails(c.atom)')
      /\ (c.atom \in complete => c.atom \in complete')
      /\ (Awaited(c.atom) => is_unconditional_answer(c.atom)')
  BY <1>1, SimplifiedRest, AwaitedComes DEF CallOK, Simplified
<1> QED BY <1>2 DEF CallOK

(* The calls that a step keeps, to which it may add one. *)
Kept(t) == \A i \in DOMAIN t : t[i] \in Calls /\ t[i].step # "enter" /\ CallOK(t[i])'

LEMMA KeptCalls ==
  ASSUME NEW t \in Seq(Calls), Kept(t),
         \/ calls' = t
         \/ \E c \in Calls :
              calls' = Append(t, c) /\ CallOK(c)' /\ (c.step = "enter" => TopOK')
  PROVE  /\ calls' \in Seq(Calls) /\ CallsOK'
         /\ DOMAIN t \subseteq DOMAIN calls' /\ \A i \in DOMAIN t : calls'[i] = t[i]
<1>1. Len(t) \in Nat /\ DOMAIN t = 1..Len(t)
  OBVIOUS
<1>2. CASE calls' = t
  <2>1. calls' \in Seq(Calls) /\ \A i \in DOMAIN calls' : calls'[i].step # "enter" /\ CallOK(calls[i])'
    BY <1>2 DEF Kept, CallOK
  <2>2. calls' # <<>> => TopOK'
    <3> SUFFICES ASSUME calls' # <<>> PROVE TopOK'
      OBVIOUS
    <3>1. Top' = calls'[Len(calls')] /\ Len(calls') \in DOMAIN calls'
      <4>1. Last(t) = t[Len(t)] /\ Len(t) \in 1..Len(t)
        <5>1. t # <<>>
          BY <1>2
        <5>2. Last(t) = t[Len(t)] /\ 1 <= Len(t)
          BY <5>1, FrontOf
        <5> QED BY <1>1, <5>2
      <4> QED BY <1>1, <1>2, <4>1 DEF Top
    <3>2. Top'.step # "enter"
      BY <2>1, <3>1
    <3> QED BY <3>2 DEF TopOK
  <2> QED BY <1>2, <2>1, <2>2 DEF CallsOK
<1>3. ASSUME NEW c \in Calls, calls' = Append(t, c), CallOK(c)', c.step = "enter" => TopOK'
      PROVE  /\ calls' \in Seq(Calls) /\ CallsOK'
             /\ DOMAIN t \subseteq DOMAIN calls' /\ \A i \in DOMAIN t : calls'[i] = t[i]
  <2>1. /\ calls' \in Seq(Calls) /\ Len(calls') = Len(t) + 1
        /\ \A i \in 1..Len(t) : calls'[i] = t[i]
        /\ calls'[Len(t) + 1] = c /\ calls' # <<>>
    BY <1>3, AppendOf
  <2> DEFINE n == Len(t)
  <2>2. n \in Nat /\ DOMAIN calls' = 1..n + 1 /\ DOMAIN t = 1..n /\ Len(calls') = n + 1
    BY <1>1, <2>1
  <2>3. \A i \in 1..n : calls'[i] = t[i]
    BY <2>1
  <2>4. calls'[n + 1] = c
    BY <2>1
  <2> HIDE DEF n
  <2>5. \A i \in 1..n + 1 : i \in 1..n \/ i = n + 1
    BY <2>2
  <2>6. 1..n \subseteq 1..n + 1 /\ n + 1 \in 1..n + 1
    BY <2>2
  <2>7. Top' = c
    BY <2>2, <2>4 DEF Top, Last
  <2>8. TopOK'
    <3>1. CASE c.step = "enter"
      BY <1>3, <3>1
    <3>2. CASE c.step # "enter"
      BY <2>7, <3>2 DEF TopOK
    <3> QED BY <3>1, <3>2
  <2>9. \A i \in DOMAIN calls' : CallOK(calls[i])'
    <3> TAKE i \in DOMAIN calls'
    <3>1. CASE i \in 1..n
      BY <2>2, <2>3, <3>1 DEF Kept, CallOK
    <3>2. CASE i = n + 1
      BY <1>3, <2>4, <3>2 DEF CallOK
    <3> QED BY <2>2, <2>5, <3>1, <3>2
  <2>10. \A i \in DOMAIN calls' : calls'[i].step = "enter" => i = Len(calls')
    BY <2>2, <2>3, <2>5 DEF Kept
  <2> QED BY <2>1, <2>2, <2>3, <2>6, <2>8, <2>9, <2>10 DEF CallsOK
<1> QED BY <1>1, <1>2, <1>3

(* Loops that are under way go on, unless the innermost one returns. *)
LoopsKept(t, returns) == \A i \in DOMAIN calls :
  calls[i].step = "loop" =>
    (i \in DOMAIN t /\ t[i] = calls[i]) \/ (returns /\ calls[i] = Top)
LoopsIn(t) == Cardinality(LoopCalls(t))
One(c) == IF c.step = "loop" THEN 1 ELSE 0

LEMMA LoopsOf ==
  ASSUME NEW t \in Seq(Calls), NEW c \in Calls
  PROVE  LoopsIn(t) \in Nat /\ LoopsIn(Append(t, c)) = LoopsIn(t) + One(c)
<1> DEFINE n == Len(t)
           s == Append(t, c)
<1>1. n \in Nat /\ DOMAIN t = 1..n
  OBVIOUS
<1>2. s \in Seq(Calls) /\ DOMAIN s = 1..n + 1 /\ (\A i \in 1..n : s[i] = t[i]) /\ s[n + 1] = c
  <2>1. s \in Seq(Calls) /\ Len(s) = n + 1 /\ (\A i \in 1..n : s[i] = t[i]) /\ s[n + 1] = c
    BY AppendOf
  <2> QED BY <2>1
<1> HIDE DEF n, s
<1>3. IsFiniteSet(1..n)
  BY <1>1, FS_Interval
<1>4. LoopCalls(t) \subseteq 1..n
  BY <1>1 DEF LoopCalls
<1>5. IsFiniteSet(LoopCalls(t)) /\ LoopsIn(t) \in Nat
  BY <1>3, <1>4, FS_Subset, FS_CardinalityType DEF LoopsIn
<1>6. n + 1 \notin LoopCalls(t)
  BY <1>1, <1>4
<1>7. \A i \in 1..n + 1 : i \in 1..n \/ i = n + 1
  BY <1>1
<1>8. 1..n \subseteq 1..n + 1 /\ n + 1 \in 1..n + 1
  BY <1>1
<1>9. CASE c.step = "loop"
  <2>1. LoopCalls(s) = LoopCalls(t) \cup {n + 1}
    BY <1>1, <1>2, <1>7, <1>8, <1>9 DEF LoopCalls
  <2>2. Cardinality(LoopCalls(t) \cup {n + 1}) = Cardinality(LoopCalls(t)) + 1
    BY <1>5, <1>6, FS_AddElement
  <2> QED BY <1>5, <1>9, <2>1, <2>2 DEF LoopsIn, One, s
<1>10. CASE c.step # "loop"
  <2>1. LoopCalls(s) = LoopCalls(t)
    BY <1>1, <1>2, <1>7, <1>8, <1>10 DEF LoopCalls
  <2> QED BY <1>5, <1>10, <2>1 DEF LoopsIn, One, s
<1> QED BY <1>9, <1>10

(* What is left when the innermost call returns. *)
LEMMA ReturnedCalls ==
  ASSUME Inv, Simplify
  PROVE  \E t \in Seq(Calls) : /\ t = Returned /\ Kept(t) /\ LoopsKept(t, TRUE)
                               /\ LoopsIn(t) \in Nat /\ LoopsIn(calls) = LoopsIn(t) + One(Top)
<1>0. Types /\ CallsOK /\ calls # <<>> /\ calls \in Seq(Calls)
  BY SimplifyIsSimplified DEF Inv, Simplified, Types
<1>1. PICK t : t = Returned
  OBVIOUS
<1> DEFINE n == Len(calls)
<1>2. /\ t \in Seq(Calls) /\ Len(t) = n - 1 /\ (\A i \in 1..n - 1 : t[i] = calls[i])
      /\ n \in Nat /\ 1 <= n /\ Top = calls[n]
  BY <1>0, <1>1, FrontOf DEF Returned, Top
<1>3. DOMAIN t = 1..n - 1 /\ DOMAIN calls = 1..n
  BY <1>0, <1>2
<1>4. \A i \in DOMAIN calls : calls[i] \in Calls /\ CallOK(calls[i]) /\ (calls[i].step = "enter" => i = n)
  BY <1>0, <1>3, ElementOfSeq DEF CallsOK
<1>5. calls = Append(t, Top)
  <2>1. Top \in Calls
    BY <1>0, TopCall
  <2>2. /\ Append(t, Top) \in Seq(Calls) /\ Len(Append(t, Top)) = n - 1 + 1
        /\ \A i \in 1..n - 1 : Append(t, Top)[i] = t[i]
        /\ Append(t, Top)[n - 1 + 1] = Top
    BY <1>2, <2>1, AppendOf
  <2>3. n - 1 + 1 = n /\ \A i \in 1..n : i \in 1..n - 1 \/ i = n
    BY <1>2
  <2>4. \A i \in 1..n : Append(t, Top)[i] = calls[i]
    BY <1>2, <2>2, <2>3
  <2> QED BY <1>0, <2>2, <2>3, <2>4, SeqEqual
<1> HIDE DEF n
<1>6. \A i \in 1..n : i \in 1..n - 1 \/ i = n
  BY <1>2
<1>7. \A i \in 1..n - 1 : i \in 1..n /\ i # n
  BY <1>2
<1>8. ASSUME NEW i \in DOMAIN t PROVE t[i] \in Calls /\ t[i].step # "enter" /\ CallOK(t[i])'
  <2>1. PICK c \in Calls : c = t[i] /\ CallOK(c) /\ c.step # "enter"
    BY <1>2, <1>3, <1>4, <1>7
  <2>2. CallOK(c)'
    BY <2>1, CallStays
  <2> QED BY <2>1, <2>2
<1>9. Kept(t)
  BY <1>8 DEF Kept
<1>10. LoopsKept(t, TRUE)
  BY <1>2, <1>3, <1>6 DEF LoopsKept
<1>11. LoopsIn(t) \in Nat /\ LoopsIn(calls) = LoopsIn(t) + One(Top)
  <2>1. Top \in Calls
    BY <1>0, TopCall
  <2> QED BY <1>2, <1>5, <2>1, LoopsOf
<1> QED BY <1>1, <1>2, <1>9, <1>10, <1>11

(* What stays when the innermost call goes on. *)
LEMMA WholeCalls ==
  ASSUME Inv, Simplify, Top.step # "enter"
  PROVE  \E t \in Seq(Calls) : /\ t = calls /\ Kept(t) /\ LoopsKept(t, FALSE)
                               /\ LoopsIn(t) \in Nat /\ LoopsIn(t) = LoopsIn(calls)
<1>0. Types /\ CallsOK /\ calls # <<>> /\ calls \in Seq(Calls)
  BY SimplifyIsSimplified DEF Inv, Simplified, Types
<1>1. PICK t : t = calls
  OBVIOUS
<1>2. Top = calls[Len(calls)] /\ Top \in Calls
  BY <1>0, TopCall
<1>3. ASSUME NEW i \in DOMAIN t PROVE t[i] \in Calls /\ t[i].step # "enter" /\ CallOK(t[i])'
  <2>1. PICK c \in Calls : c = t[i] /\ CallOK(c) /\ c.step # "enter"
    <3>1. calls[i] \in Calls /\ CallOK(calls[i]) /\ calls[i].step # "enter"
      BY <1>0, <1>1, <1>2, <1>3, ElementOfSeq DEF CallsOK
    <3> QED BY <1>1, <3>1
  <2>2. CallOK(c)'
    BY <2>1, CallStays
  <2> QED BY <2>1, <2>2
<1>4. Kept(t) /\ LoopsKept(t, FALSE)
  BY <1>1, <1>3 DEF Kept, LoopsKept
<1>5. LoopsIn(t) \in Nat
  BY <1>0, <1>1, <1>2, LoopsOf
<1> QED BY <1>0, <1>1, <1>4, <1>5

(* A call that makes another one when it is entered. *)
LEMMA AfterCalls ==
  ASSUME Inv, Simplify, Top.step = "enter", NEW c \in Calls, c = [Top EXCEPT !.step = "after"],
         CallOK(c)'
  PROVE  \E t \in Seq(Calls) : /\ t = Goto("after") /\ Kept(t) /\ LoopsKept(t, FALSE)
                               /\ LoopsIn(t) \in Nat /\ LoopsIn(t) = LoopsIn(calls)
<1>1. PICK u \in Seq(Calls) : /\ u = Returned /\ Kept(u) /\ LoopsKept(u, TRUE)
                              /\ LoopsIn(u) \in Nat /\ LoopsIn(calls) = LoopsIn(u) + One(Top)
  BY ReturnedCalls
<1>2. Types /\ CallsOK /\ calls # <<>> /\ calls \in Seq(Calls) /\ Top \in Calls
  BY SimplifyIsSimplified, TopCall DEF Inv, Simplified, Types
<1>3. c.step = "after"
  BY <1>2 DEF Calls
<1>4. PICK t : t = Append(u, c)
  OBVIOUS
<1>5. t = Goto("after")
  BY <1>1, <1>4 DEF Goto, Replace
<1> DEFINE n == Len(u)
<1>6. /\ t \in Seq(Calls) /\ Len(t) = n + 1 /\ n \in Nat
      /\ \A i \in 1..n : t[i] = u[i]
      /\ t[n + 1] = c
  BY <1>4, AppendOf
<1>7. DOMAIN t = 1..n + 1 /\ DOMAIN u = 1..n
  BY <1>6
<1>8. LoopsIn(t) \in Nat /\ LoopsIn(t) = LoopsIn(calls)
  <2>1. LoopsIn(t) = LoopsIn(u) + One(c)
    BY <1>4, LoopsOf
  <2> QED BY <1>1, <1>3, <2>1 DEF One
<1> HIDE DEF n
<1>9. \A i \in 1..n + 1 : i \in 1..n \/ i = n + 1
  BY <1>6
<1>10. 1..n \subseteq 1..n + 1
  BY <1>6
<1>11. ASSUME NEW i \in DOMAIN t PROVE t[i] \in Calls /\ t[i].step # "enter" /\ CallOK(t[i])'
  <2>1. CASE i \in 1..n
    BY <1>1, <1>6, <1>7, <2>1 DEF Kept, CallOK
  <2>2. CASE i = n + 1
    BY <1>3, <1>6, <2>2 DEF CallOK
  <2> QED BY <1>7, <1>9, <2>1, <2>2
<1>12. Kept(t)
  BY <1>11 DEF Kept
<1>13. LoopsKept(t, FALSE)
  BY <1>1, <1>2, <1>6, <1>7, <1>10 DEF LoopsKept
<1> QED BY <1>5, <1>6, <1>8, <1>12, <1>13

Loop(op, a) == \E i \in DOMAIN calls :
  calls[i].op = op /\ calls[i].step = "loop" /\ calls[i].atom = a

(* A step on the calls. *)
LEMMA CallsStep ==
  ASSUME Inv, Simplify, NEW t \in Seq(Calls), NEW returns \in BOOLEAN,
         Kept(t), LoopsKept(t, returns), LoopsIn(t) \in Nat, depth' \in Nat,
         \/ calls' = t /\ LoopsIn(t) <= depth'
         \/ \E c \in Calls : /\ calls' = Append(t, c) /\ CallOK(c)' /\ (c.step = "enter" => TopOK')
                             /\ LoopsIn(t) + One(c) <= depth'
  PROVE  /\ calls' \in Seq(Calls) /\ CallsOK' /\ DepthOK'
         /\ \A op, a : Loop(op, a) =>
              Loop(op, a)' \/ (returns /\ Top.step = "loop" /\ Top.op = op /\ Top.atom = a)
<1>1. \/ calls' = t
      \/ \E c \in Calls :
           calls' = Append(t, c) /\ CallOK(c)' /\ (c.step = "enter" => TopOK')
  OBVIOUS
<1>2. /\ calls' \in Seq(Calls) /\ CallsOK'
      /\ DOMAIN t \subseteq DOMAIN calls' /\ \A i \in DOMAIN t : calls'[i] = t[i]
  BY <1>1, KeptCalls
<1>3. DepthOK'
  <2>1. CASE calls' = t /\ LoopsIn(t) <= depth'
    BY <2>1 DEF DepthOK, LoopsIn, LoopCalls
  <2>2. ASSUME NEW c \in Calls, calls' = Append(t, c), LoopsIn(t) + One(c) <= depth'
        PROVE  DepthOK'
    <3>1. LoopsIn(Append(t, c)) <= depth'
      BY <2>2, LoopsOf
    <3> QED BY <2>2, <3>1 DEF DepthOK, LoopsIn, LoopCalls
  <2> QED BY <2>1, <2>2
<1>4. ASSUME NEW op, NEW a, Loop(op, a), ~ (returns /\ Top.step = "loop" /\ Top.op = op /\ Top.atom = a)
      PROVE  Loop(op, a)'
  <2>1. PICK i \in DOMAIN calls : calls[i].op = op /\ calls[i].step = "loop" /\ calls[i].atom = a
    BY <1>4 DEF Loop
  <2>2. i \in DOMAIN t /\ t[i] = calls[i]
    BY <1>4, <2>1 DEF LoopsKept
  <2>3. i \in DOMAIN calls' /\ calls'[i] = calls[i]
    BY <1>2, <2>2
  <2> QED BY <2>1, <2>3 DEF Loop
<1> QED BY <1>2, <1>3, <1>4

(* Goals that wait for simplify_neg_fails. *)
LEMMA StackStays ==
  ASSUME Inv, Simplify, neg_fails' = neg_fails,
         neg_fails # <<>> => \A a : Loop("neg_fails", a) => \E b : Loop("neg_fails", b)'
  PROVE  StackOK'
<1>1. in_simplify_neg_fails <=> \E a : Loop("neg_fails", a)
  BY DEF in_simplify_neg_fails, Loop
<1>2. in_simplify_neg_fails' <=> \E a : Loop("neg_fails", a)'
  BY DEF in_simplify_neg_fails, Loop
<1>3. Simplified
  BY SimplifyIsSimplified
<1>4. ASSUME NEW i \in DOMAIN neg_fails
      PROVE  neg_fails[i] \in Closing' \cap complete' /\ subgoal_fails(neg_fails[i])'
  <2>1. PICK a : a = neg_fails[i]
    OBVIOUS
  <2>2. a \in Closing \cap complete /\ subgoal_fails(a) /\ a \in Atoms
    BY <2>1, ElementOfSeq DEF Inv, StackOK, Types
  <2>3. a \in Closing' \cap complete' /\ subgoal_fails(a)'
    BY <1>3, <2>2, SimplifiedRest DEF Simplified
  <2> QED BY <2>1, <2>3 DEF subgoal_fails
<1>5. neg_fails' # <<>> => in_simplify_neg_fails'
  BY <1>1, <1>2 DEF Inv, StackOK
<1> QED BY <1>4, <1>5 DEF StackOK, subgoal_fails

CallsGoOn ==
  /\ calls' \in Seq(Calls) /\ CallsOK' /\ DepthOK' /\ depth' \in Nat
  /\ neg_fails' \in Seq(Atoms) /\ StackOK'
  /\ \A a : Loop("pos_unconditional", a) => Loop("pos_unconditional", a)' \/ pdes[a] = {}

(* A step that leaves the goals of simplify_neg_fails alone. *)
LEMMA PlainCallsStep ==
  ASSUME Inv, Simplify, NEW t \in Seq(Calls), NEW returns \in BOOLEAN,
         Kept(t), LoopsKept(t, returns), LoopsIn(t) \in Nat, depth' \in Nat,
         neg_fails' = neg_fails,
         returns /\ Top.step = "loop" =>
           \/ Top.op = "neg_fails" /\ neg_fails = <<>>
           \/ Top.op = "pos_unconditional" /\ pdes[Top.atom] = {}
           \/ Top.op \notin {"neg_fails", "pos_unconditional"},
         \/ calls' = t /\ LoopsIn(t) <= depth'
         \/ \E c \in Calls : /\ calls' = Append(t, c) /\ CallOK(c)' /\ (c.step = "enter" => TopOK')
                             /\ LoopsIn(t) + One(c) <= depth'
  PROVE  CallsGoOn
<1>1. /\ calls' \in Seq(Calls) /\ CallsOK' /\ DepthOK'
      /\ \A op, a : Loop(op, a) =>
           Loop(op, a)' \/ (returns /\ Top.step = "loop" /\ Top.op = op /\ Top.atom = a)
  BY CallsStep
<1>2. StackOK'
  <2>1. neg_fails # <<>> => \A a : Loop("neg_fails", a) => Loop("neg_fails", a)'
    BY <1>1
  <2> QED BY <2>1, StackStays
<1>3. \A a : Loop("pos_unconditional", a) => Loop("pos_unconditional", a)' \/ pdes[a] = {}
  BY <1>1
<1> QED BY <1>1, <1>2, <1>3 DEF CallsGoOn, Inv, Types

(* The depth is no less than the number of loops. *)
LEMMA DepthIs ==
  ASSUME Inv
  PROVE  LoopsIn(calls) <= depth /\ depth \in Nat
BY DEF Inv, DepthOK, LoopsIn, Types

LEMMA FinishCalls ==
  ASSUME Inv, Simplify, NEW step \in {"new", "old"}, FinishAnswer(step)
  PROVE  CallsGoOn
<1>0. calls # <<>> /\ Top.op = "new_answer" /\ Top.step = step
  BY DEF FinishAnswer, Doing
<1>1. Top.atom \in Zone /\ (is_unconditional_answer(Top.atom) \/ Awaited(Top.atom)) /\ Top.atom \in Atoms
  BY <1>0, TopCall DEF CallOK, Inv
<1>2. is_unconditional_answer(Top.atom)
  BY <1>0, <1>1 DEF Awaited, Call
<1>3. neg_fails' = neg_fails /\ depth' = depth
  BY DEF FinishAnswer
<1>4. CASE calls' = Returned
  <2>1. PICK t \in Seq(Calls) : /\ t = Returned /\ Kept(t) /\ LoopsKept(t, TRUE)
                                /\ LoopsIn(t) \in Nat /\ LoopsIn(calls) = LoopsIn(t) + One(Top)
    BY ReturnedCalls
  <2>2. One(Top) = 0
    BY <1>0 DEF One
  <2>3. LoopsIn(t) <= depth' /\ depth' \in Nat
    BY <1>3, <2>1, <2>2, DepthIs
  <2> QED BY <1>0, <1>3, <1>4, <2>1, <2>3, PlainCallsStep
<1>5. CASE calls' = Append(calls, Call("neg_succeeds", "enter", Top.atom))
  <2>1. PICK t \in Seq(Calls) : /\ t = calls /\ Kept(t) /\ LoopsKept(t, FALSE)
                                /\ LoopsIn(t) \in Nat /\ LoopsIn(t) = LoopsIn(calls)
    BY <1>0, WholeCalls
  <2>2. PICK c : c = Call("neg_succeeds", "enter", Top.atom)
    OBVIOUS
  <2>3. /\ c \in Calls /\ c.op = "neg_succeeds" /\ c.step = "enter" /\ c.atom = Top.atom
        /\ One(c) = 0
    BY <1>1, <2>2 DEF Call, Calls, One
  <2>4. calls' = Append(t, c)
    BY <1>5, <2>1, <2>2
  <2>5. CallOK(c)'
    <3>1. PICK a \in Atoms : a = Top.atom
      BY <1>1
    <3>2. a \in Zone' /\ is_unconditional_answer(a)'
      BY <1>1, <1>2, <3>1, SimplifyIsSimplified, SimplifiedRest
    <3>3. c.atom = a
      BY <2>3, <3>1
    <3> QED BY <2>3, <3>2, <3>3 DEF CallOK
  <2>6. TopOK'
    <3>1. Top' = c
      BY <2>3, <2>4, AppendOf DEF Top, Last
    <3> QED BY <2>3, <3>1 DEF TopOK
  <2>7. LoopsIn(t) + One(c) <= depth' /\ depth' \in Nat
    BY <1>3, <2>1, <2>3, DepthIs
  <2> QED BY <1>3, <2>1, <2>3, <2>4, <2>5, <2>6, <2>7, PlainCallsStep
<1> QED BY <1>4, <1>5 DEF FinishAnswer

(* The innermost call goes on with its loop. *)
LEMMA EnterLoopCalls ==
  ASSUME Inv, Simplify, Top.step = "enter",
         NEW c \in Calls, c = [Top EXCEPT !.step = "loop"], calls' = Goto("loop"), CallOK(c)',
         depth' = depth + 1, neg_fails' = neg_fails
  PROVE  CallsGoOn
<1>1. PICK t \in Seq(Calls) : /\ t = Returned /\ Kept(t) /\ LoopsKept(t, TRUE)
                              /\ LoopsIn(t) \in Nat /\ LoopsIn(calls) = LoopsIn(t) + One(Top)
  BY ReturnedCalls
<1>2. calls # <<>> /\ Top \in Calls
  BY SimplifyIsSimplified, TopCall DEF Inv, Simplified
<1>3. One(Top) = 0 /\ One(c) = 1 /\ c.step = "loop"
  BY <1>2 DEF One, Calls
<1>4. calls' = Append(t, c)
  BY <1>1 DEF Goto, Replace
<1>5. LoopsIn(t) + One(c) <= depth' /\ depth' \in Nat
  <2>1. LoopsIn(calls) <= depth /\ depth \in Nat
    BY DepthIs
  <2> QED BY <1>1, <1>3, <2>1
<1> QED BY <1>1, <1>3, <1>4, <1>5, PlainCallsStep

LEMMA PosUnconditionalCalls ==
  ASSUME Inv, Simplify, EnterPosUnconditional
  PROVE  CallsGoOn
<1>0. calls # <<>> /\ Top.op = "pos_unconditional" /\ Top.step = "enter"
  BY DEF EnterPosUnconditional, Doing
<1>1. Top \in Calls /\ Top.atom \in Zone /\ Top.atom \in Atoms
  BY <1>0, TopCall DEF CallOK, Inv
<1>2. PICK c : c = [Top EXCEPT !.step = "loop"]
  OBVIOUS
<1>3. c \in Calls /\ c.op = "pos_unconditional" /\ c.step = "loop" /\ c.atom = Top.atom
  BY <1>0, <1>1, <1>2 DEF Calls
<1>4. CallOK(c)'
  <2>1. is_unconditional_answer(c.atom)'
    BY <1>1, <1>3 DEF EnterPosUnconditional, is_unconditional_answer, Inv, Types
  <2>2. c.atom \in Zone'
    BY <1>1, <1>3, SimplifyIsSimplified, SimplifiedRest
  <2> QED BY <1>3, <2>1, <2>2 DEF CallOK
<1> QED BY <1>0, <1>2, <1>3, <1>4, EnterLoopCalls DEF EnterPosUnconditional

LEMMA EnterCalls ==
  ASSUME Inv, Simplify, NEW op \in {"neg_succeeds", "pos_unsupported"}, Enter(op)
  PROVE  CallsGoOn
<1>0. calls # <<>> /\ Top.op = op /\ Top.step = "enter"
  BY DEF Enter, Doing
<1>1. Top \in Calls /\ CallOK(Top)
  BY <1>0, TopCall DEF Inv
<1>2. PICK c : c = [Top EXCEPT !.step = "loop"]
  OBVIOUS
<1>3. c \in Calls /\ c.op = op /\ c.step = "loop" /\ c.atom = Top.atom
  BY <1>0, <1>1, <1>2 DEF Calls
<1>4. CallOK(c)
  BY <1>0, <1>1, <1>3 DEF CallOK
<1>5. CallOK(c)'
  BY <1>3, <1>4, CallStays
<1> QED BY <1>0, <1>2, <1>3, <1>5, EnterLoopCalls DEF Enter

(* An element that leaves its list, and what follows on the last one. *)
LEMMA RemoveDeCalls ==
  ASSUME Inv, Simplify, calls # <<>>, Top.step = "loop", UNCHANGED <<neg_fails, depth>>,
         NEW r \in Rules, NEW i \in clause[r].delays, clause[r].status = "dl", r[1] \in Zone,
         clause' = remove_de_from_dl(<<r, i>>),
         calls' = MayPush(IsLast(<<r, i>>), CallEmptyDl(r))
  PROVE  CallsGoOn
<1>1. PICK t \in Seq(Calls) : /\ t = calls /\ Kept(t) /\ LoopsKept(t, FALSE)
                              /\ LoopsIn(t) \in Nat /\ LoopsIn(t) = LoopsIn(calls)
  BY WholeCalls
<1>2. LoopsIn(t) <= depth' /\ depth' \in Nat
  BY <1>1, DepthIs
<1>3. CASE ~ IsLast(<<r, i>>)
  <2>1. calls' = t
    BY <1>1, <1>3 DEF MayPush
  <2> QED BY <1>1, <1>2, <2>1, PlainCallsStep
<1>4. CASE IsLast(<<r, i>>)
  <2>1. PICK c : c = CallEmptyDl(r)
    OBVIOUS
  <2>2. r[1] \in Atoms /\ r[2] \in Nat /\ r = <<r[1], r[2]>>
    BY Bodies_OK, ProgramsAssumption DEF Inv
  <2>3. /\ c \in Calls /\ c.op = "empty_dl" /\ c.step = "enter" /\ c.atom = r[1] /\ c.rule = r[2]
        /\ One(c) = 0
    BY <2>1, <2>2 DEF CallEmptyDl, Calls, One
  <2>4. calls' = Append(t, c)
    BY <1>1, <1>4, <2>1 DEF MayPush
  <2>5. CallOK(c)'
    <3>1. r[1] \in Zone'
      BY SimplifyIsSimplified, SimplifiedRest
    <3> QED BY <2>3, <3>1 DEF CallOK
  <2>6. TopOK'
    <3>1. Top' = c
      BY <2>3, <2>4, AppendOf DEF Top, Last
    <3>2. r \in Rules' /\ clause'[r].status = "dl"
      <4>1. clause[r] \in [at : Nat, delays : SUBSET Nat, status : Statuses]
        BY DEF Inv, Types, Rules
      <4>2. clause'[r] = [clause[r] EXCEPT !.delays = @ \ {i}]
        BY DEF remove_de_from_dl, Rules
      <4>3. r \in Rules'
        BY SimplifyIsSimplified, SimplifiedRest
      <4> QED BY <4>1, <4>2, <4>3
    <3>3. clause'[r].delays = {}
      <4>1. clause[r].delays = {i}
        BY <1>4 DEF IsLast
      <4>2. clause'[r].delays = clause[r].delays \ {i}
        BY DEF remove_de_from_dl, Rules, Inv, Types
      <4> QED BY <4>1, <4>2
    <3>4. r = <<c.atom, c.rule>>
      BY <2>2, <2>3
    <3>5. TopOK' <=> ( /\ c.op = "pos_unconditional" /\ c.step = "enter" =>
                             is_conditional_answer(c.atom)' /\ \E q \in Rules' : q[1] = c.atom /\ Proof(q)'
                       /\ c.op = "empty_dl" /\ c.step = "enter" =>
                             /\ <<c.atom, c.rule>> \in Rules'
                             /\ clause'[<<c.atom, c.rule>>].status = "dl"
                             /\ clause'[<<c.atom, c.rule>>].delays = {}
                       /\ c.op = "unsupported" /\ c.step = "enter" =>
                             is_conditional_answer(c.atom)' /\ dls(c.atom)' = {})
      BY <3>1 DEF TopOK, is_conditional_answer, dls
    <3> QED BY <2>3, <3>2, <3>3, <3>4, <3>5
  <2>7. LoopsIn(t) + One(c) <= depth'
    BY <1>1, <1>2, <2>3
  <2> QED BY <1>1, <1>2, <2>3, <2>4, <2>5, <2>6, <2>7, PlainCallsStep
<1> QED BY <1>3, <1>4

(* A delay list that is removed, and what follows on the last one. *)
LEMMA RemoveDlCalls ==
  ASSUME Inv, Simplify, calls # <<>>, Top.step = "loop",
         NEW r \in Rules, RemoveDl(r), r[1] \in Closing
  PROVE  CallsGoOn
<1>1. PICK t \in Seq(Calls) : /\ t = calls /\ Kept(t) /\ LoopsKept(t, FALSE)
                              /\ LoopsIn(t) \in Nat /\ LoopsIn(t) = LoopsIn(calls)
  BY WholeCalls
<1>0. UNCHANGED <<answer, neg_fails, depth>> /\ clause' = Turn(r, "failed") /\ is_conditional_answer(r[1])
  BY DEF RemoveDl
<1>2. LoopsIn(t) <= depth' /\ depth' \in Nat
  BY <1>0, <1>1, DepthIs
<1>3. CASE calls' = calls
  BY <1>0, <1>1, <1>2, <1>3, PlainCallsStep
<1>4. CASE dls(r[1]) = {r} /\ calls' = Append(calls, Call("unsupported", "enter", r[1]))
  <2>1. PICK c : c = Call("unsupported", "enter", r[1])
    OBVIOUS
  <2>2. r[1] \in Atoms
    BY Bodies_OK DEF Inv
  <2>3. /\ c \in Calls /\ c.op = "unsupported" /\ c.step = "enter" /\ c.atom = r[1]
        /\ One(c) = 0
    BY <2>1, <2>2 DEF Call, Calls, One
  <2>4. calls' = Append(t, c)
    BY <1>1, <1>4, <2>1
  <2>5. CallOK(c)'
    <3>1. r[1] \in Zone' /\ completing' # 0
      BY SimplifyIsSimplified, SimplifiedRest DEF Simplified, Closing, Zone
    <3> QED BY <2>3, <3>1 DEF CallOK
  <2>6. TopOK'
    <3>1. Top' = c
      BY <2>3, <2>4, AppendOf DEF Top, Last
    <3>2. is_conditional_answer(c.atom)'
      BY <1>0, <2>3 DEF is_conditional_answer
    <3>3. dls(c.atom)' = {}
      <4> SUFFICES ASSUME NEW q \in Rules', q[1] = r[1], clause'[q].status = "dl" PROVE FALSE
        BY <2>3 DEF dls
      <4>1. q \in Rules
        BY SimplifyIsSimplified, SimplifiedRest
      <4>2. q # r
        <5>1. clause'[r].status = "failed"
          BY <1>0 DEF Turn, Rules, Inv, Types
        <5> QED BY <5>1
      <4>3. clause'[q] = clause[q]
        BY <1>0, <4>1, <4>2 DEF Turn, Rules, Inv, Types
      <4>4. q \in dls(r[1])
        BY <4>1, <4>3 DEF dls
      <4> QED BY <1>4, <4>2, <4>4
    <3> QED BY <2>3, <3>1, <3>2, <3>3 DEF TopOK, is_conditional_answer, dls
  <2>7. LoopsIn(t) + One(c) <= depth'
    BY <1>1, <1>2, <2>3
  <2> QED BY <1>0, <1>1, <1>2, <2>3, <2>4, <2>5, <2>6, <2>7, PlainCallsStep
<1> QED BY <1>3, <1>4 DEF RemoveDl, MayPush

LEMMA LoopStepCalls ==
  ASSUME Inv, Simplify, \/ SimplifyPosUnconditional \/ SimplifyNegFails
                        \/ SimplifyNegSucceeds \/ SimplifyPosUnsupported
  PROVE  CallsGoOn
<1>a. PICK a : a = Top.atom
  OBVIOUS
<1>0. Types /\ CallsOK
  BY DEF Inv
<1>1. calls # <<>> /\ Top.step = "loop"
  BY DEF SimplifyPosUnconditional, SimplifyNegFails, SimplifyNegSucceeds,
         SimplifyPosUnsupported, Doing
<1>2. a \in Zone /\ CallOK(Top)
  BY <1>0, <1>1, <1>a, TopCall DEF CallOK
<1>3. CASE SimplifyPosUnconditional \/ SimplifyNegFails
  <2>1. \E sign \in {"pos", "neg"} : \E e :
          /\ (sign = "pos" /\ e \in pdes[a]) \/ (sign = "neg" /\ e \in nde_list[a])
          /\ clause' = remove_de_from_dl(e)
          /\ calls' = MayPush(IsLast(e), CallEmptyDl(e[1]))
    BY <1>3, <1>a DEF SimplifyPosUnconditional, SimplifyNegFails
  <2>2. PICK sign \in {"pos", "neg"}, e \in pdes[a] \cup nde_list[a] :
          /\ (sign = "pos" /\ e \in pdes[a]) \/ (sign = "neg" /\ e \in nde_list[a])
          /\ clause' = remove_de_from_dl(e)
          /\ calls' = MayPush(IsLast(e), CallEmptyDl(e[1]))
    BY <2>1
  <2>3. PICK r, i :
          /\ r \in Rules /\ i \in clause[r].delays
          /\ e = <<r, i>> /\ clause[r].status = "dl" /\ r[1] \in Zone
    BY <1>2, <2>2, ListedDelay
  <2>4. UNCHANGED <<neg_fails, depth>> /\ e[1] = r
    BY <1>3, <2>3 DEF SimplifyPosUnconditional, SimplifyNegFails
  <2> QED BY <1>1, <2>2, <2>3, <2>4, RemoveDeCalls
<1>4. CASE SimplifyNegSucceeds
  <2>1. is_unconditional_answer(a)
    BY <1>1, <1>2, <1>4, <1>a DEF SimplifyNegSucceeds, Doing, CallOK
  <2>2. PICK e \in nde_list[a] : RemoveDl(e[1])
    BY <1>4, <1>a DEF SimplifyNegSucceeds
  <2>3. PICK r, i : r \in Rules /\ e = <<r, i>> /\ r[1] \in Closing
    BY <1>2, <2>1, <2>2, ListedDelay
  <2> QED BY <1>1, <2>2, <2>3, RemoveDlCalls
<1>5. CASE SimplifyPosUnsupported
  <2>1. subgoal_fails(a)
    BY <1>1, <1>2, <1>5, <1>a DEF SimplifyPosUnsupported, Doing, CallOK
  <2>2. PICK e \in pdes[a] : RemoveDl(e[1])
    BY <1>5, <1>a DEF SimplifyPosUnsupported
  <2>3. PICK r, i : r \in Rules /\ e = <<r, i>> /\ r[1] \in Closing
    BY <1>2, <2>1, <2>2, ListedDelay
  <2> QED BY <1>1, <2>2, <2>3, RemoveDlCalls
<1> QED BY <1>3, <1>4, <1>5

(* A call that gives way to one that is about to begin. *)
LEMMA ReplaceCalls ==
  ASSUME Inv, Simplify, Top.step # "loop", UNCHANGED <<neg_fails, depth>>,
         NEW c \in Calls, c.op \in {"neg_succeeds", "neg_fails"}, CallOK(c)', c.step = "enter",
         calls' = Replace(c)
  PROVE  CallsGoOn
<1>1. PICK t \in Seq(Calls) : /\ t = Returned /\ Kept(t) /\ LoopsKept(t, TRUE)
                              /\ LoopsIn(t) \in Nat /\ LoopsIn(calls) = LoopsIn(t) + One(Top)
  BY ReturnedCalls
<1>2. One(Top) = 0 /\ One(c) = 0
  BY DEF One
<1>3. calls' = Append(t, c)
  BY <1>1 DEF Replace
<1>4. LoopsIn(t) + One(c) <= depth' /\ depth' \in Nat
  <2>1. LoopsIn(calls) <= depth /\ depth \in Nat
    BY DepthIs
  <2> QED BY <1>1, <1>2, <2>1
<1>5. TopOK'
  <2>1. Top' = c
    BY <1>3, AppendOf DEF Top, Last
  <2> QED BY <2>1 DEF TopOK
<1> QED BY <1>1, <1>3, <1>4, <1>5, PlainCallsStep

(* The innermost call returns. *)
LEMMA ReturnCalls ==
  ASSUME Inv, Simplify, Top.step # "loop", neg_fails' = neg_fails, calls' = Returned,
         depth' \in Nat, depth <= depth'
  PROVE  CallsGoOn
<1>1. PICK t \in Seq(Calls) : /\ t = Returned /\ Kept(t) /\ LoopsKept(t, TRUE)
                              /\ LoopsIn(t) \in Nat /\ LoopsIn(calls) = LoopsIn(t) + One(Top)
  BY ReturnedCalls
<1>2. LoopsIn(t) <= depth'
  <2>1. LoopsIn(calls) <= depth /\ depth \in Nat /\ One(Top) = 0
    BY DepthIs DEF One
  <2> QED BY <1>1, <2>1
<1> QED BY <1>1, <1>2, PlainCallsStep

LEMMA ExitCalls ==
  ASSUME Inv, Simplify, NEW op, NEW list, Exit(op, Top.atom, list),
         \/ op = "neg_fails" /\ neg_fails = <<>>
         \/ op = "pos_unconditional" /\ list = pdes
         \/ op \notin {"neg_fails", "pos_unconditional"}
  PROVE  CallsGoOn
<1>0. /\ calls # <<>> /\ Top.op = op /\ Top.step = "loop" /\ list[Top.atom] = {}
      /\ calls' = Returned /\ depth' = depth - 1 /\ neg_fails' = neg_fails
  BY DEF Exit, Doing
<1>1. PICK t \in Seq(Calls) : /\ t = Returned /\ Kept(t) /\ LoopsKept(t, TRUE)
                              /\ LoopsIn(t) \in Nat /\ LoopsIn(calls) = LoopsIn(t) + One(Top)
  BY ReturnedCalls
<1>2. LoopsIn(t) <= depth' /\ depth' \in Nat
  <2>1. LoopsIn(calls) <= depth /\ depth \in Nat /\ One(Top) = 1
    BY <1>0, DepthIs DEF One
  <2> QED BY <1>0, <1>1, <2>1
<1> QED BY <1>0, <1>1, <1>2, PlainCallsStep

LEMMA EmptyDlCalls ==
  ASSUME Inv, Simplify, EnterEmptyDl
  PROVE  CallsGoOn
<1>0. calls # <<>> /\ Top.op = "empty_dl" /\ Top.step = "enter"
  BY DEF EnterEmptyDl, Doing
<1>1. Top \in Calls /\ Top.atom \in Zone /\ Top.atom \in Atoms
  BY <1>0, TopCall DEF CallOK, Inv
<1>2. PICK a : a = Top.atom
  OBVIOUS
<1>3. PICK d \in Calls : d = [Top EXCEPT !.step = "after"]
  BY <1>1 DEF Calls
<1>4. PICK c : c = Call("pos_unconditional", "enter", a)
  OBVIOUS
<1>5. /\ d.op = "empty_dl" /\ d.step = "after" /\ d.atom = a
      /\ c \in Calls /\ c.op = "pos_unconditional" /\ c.step = "enter" /\ c.atom = a
      /\ One(c) = 0
  BY <1>0, <1>1, <1>2, <1>3, <1>4 DEF Calls, Call, One
<1>6. /\ is_conditional_answer(a) /\ \E r \in Rules : r[1] = a /\ Proof(r)'
      /\ calls' = Append(Goto("after"), c) /\ UNCHANGED <<answer, neg_fails, depth>>
  BY <1>2, <1>4, EnterEmptyDlStep DEF EnterEmptyDl
<1>7. Goto("after") \in Seq(Calls)
  <2>1. calls \in Seq(Calls)
    BY DEF Inv, Types
  <2> QED BY <1>0, <1>3, <2>1, FrontOf, AppendOf DEF Goto, Replace, Returned
<1>8. calls' # <<>> /\ Top' = c
  <2>1. calls' # <<>> /\ calls'[Len(calls')] = c
    BY <1>5, <1>6, <1>7, AppendOf
  <2> QED BY <2>1 DEF Top, Last
<1>9. a \in Zone' /\ Rules' = Rules
  BY <1>1, <1>2, SimplifyIsSimplified, SimplifiedRest
<1>10. CallOK(d)'
  <2>1. Awaited(d.atom)'
    BY <1>4, <1>5, <1>8 DEF Awaited, Call
  <2> QED BY <1>5, <1>9, <2>1 DEF CallOK
<1>11. CallOK(c)'
  BY <1>5, <1>9 DEF CallOK
<1>12. TopOK'
  BY <1>5, <1>6, <1>8, <1>9 DEF TopOK, is_conditional_answer
<1>13. PICK t \in Seq(Calls) : /\ t = Goto("after") /\ Kept(t) /\ LoopsKept(t, FALSE)
                               /\ LoopsIn(t) \in Nat /\ LoopsIn(t) = LoopsIn(calls)
  BY <1>0, <1>3, <1>10, AfterCalls
<1>14. calls' = Append(t, c) /\ LoopsIn(t) + One(c) <= depth' /\ depth' \in Nat
  BY <1>5, <1>6, <1>13, DepthIs
<1> QED BY <1>5, <1>6, <1>11, <1>12, <1>13, <1>14, PlainCallsStep

LEMMA LeaveEmptyDlCalls ==
  ASSUME Inv, Simplify, LeaveEmptyDl
  PROVE  CallsGoOn
<1>0. calls # <<>> /\ Top.op = "empty_dl" /\ Top.step = "after"
  BY DEF LeaveEmptyDl, Doing
<1>1. Top.atom \in Zone /\ Top.atom \in Atoms /\ is_unconditional_answer(Top.atom)
  BY <1>0, TopCall DEF CallOK, Inv, Awaited, Call
<1>2. PICK a \in Atoms : a = Top.atom
  BY <1>1
<1>3. PICK c : c = Call("neg_succeeds", "enter", a)
  OBVIOUS
<1>4. c \in Calls /\ c.op = "neg_succeeds" /\ c.step = "enter" /\ c.atom = a
  BY <1>3 DEF Calls, Call
<1>5. CallOK(c)'
  <2>1. a \in Zone' /\ is_unconditional_answer(a)'
    BY <1>1, <1>2, SimplifyIsSimplified, SimplifiedRest
  <2> QED BY <1>4, <2>1 DEF CallOK
<1>6. calls' = Replace(c) /\ UNCHANGED <<neg_fails, depth>>
  BY <1>2, <1>3 DEF LeaveEmptyDl
<1> QED BY <1>0, <1>4, <1>5, <1>6, ReplaceCalls

LEMMA UnsupportedCalls ==
  ASSUME Inv, Simplify, EnterUnsupported
  PROVE  CallsGoOn
<1>0. calls # <<>> /\ Top.op = "unsupported" /\ Top.step = "enter"
  BY DEF EnterUnsupported, Doing
<1>1. Top \in Calls /\ Top.atom \in Zone /\ Top.atom \in Atoms /\ CallOK(Top) /\ completing # 0
  BY <1>0, TopCall DEF CallOK, Inv
<1>2. PICK a \in Atoms : a = Top.atom
  BY <1>1
<1>3. PICK d \in Calls : d = [Top EXCEPT !.step = "after"]
  BY <1>1 DEF Calls
<1>4. PICK c : c = Call("pos_unsupported", "enter", a)
  OBVIOUS
<1>5. /\ d.op = "unsupported" /\ d.step = "after" /\ d.atom = a
      /\ c \in Calls /\ c.op = "pos_unsupported" /\ c.step = "enter" /\ c.atom = a
      /\ One(c) = 0
  BY <1>0, <1>1, <1>2, <1>3, <1>4 DEF Calls, Call, One
<1>6. /\ calls' = Append(Goto("after"), c) /\ UNCHANGED <<neg_fails, depth>>
      /\ answer' = [answer EXCEPT ![a] = "none"]
  BY <1>2, <1>4 DEF EnterUnsupported
<1>7. CallOK(d)'
  <2>1. CallOK(d)
    BY <1>0, <1>1, <1>2, <1>5 DEF CallOK
  <2> QED BY <2>1, CallStays
<1>8. CallOK(c)'
  <2>1. a \in Zone' /\ completing' # 0
    BY <1>1, <1>2, SimplifyIsSimplified, SimplifiedRest DEF Simplified
  <2>2. subgoal_fails(a)'
    BY <1>6 DEF subgoal_fails, Inv, Types
  <2> QED BY <1>5, <2>1, <2>2 DEF CallOK
<1>9. PICK t \in Seq(Calls) : /\ t = Goto("after") /\ Kept(t) /\ LoopsKept(t, FALSE)
                              /\ LoopsIn(t) \in Nat /\ LoopsIn(t) = LoopsIn(calls)
  BY <1>0, <1>3, <1>7, AfterCalls
<1>10. calls' = Append(t, c) /\ LoopsIn(t) + One(c) <= depth' /\ depth' \in Nat
  BY <1>5, <1>6, <1>9, DepthIs
<1>11. TopOK'
  <2>1. Top' = c
    BY <1>5, <1>10, AppendOf DEF Top, Last
  <2> QED BY <1>5, <2>1 DEF TopOK
<1> QED BY <1>5, <1>6, <1>8, <1>9, <1>10, <1>11, PlainCallsStep

LEMMA LeaveUnsupportedCalls ==
  ASSUME Inv, Simplify, LeaveUnsupported
  PROVE  CallsGoOn
<1>0. calls # <<>> /\ Top.op = "unsupported" /\ Top.step = "after" /\ UNCHANGED <<neg_fails, depth>>
  BY DEF LeaveUnsupported, Doing
<1>1. Top.atom \in Zone /\ Top.atom \in Atoms /\ completing # 0
  BY <1>0, TopCall DEF CallOK, Inv
<1>2. CASE AfterUnsupported(Top.atom) /\ calls' = Replace(Call("neg_fails", "enter", Top.atom))
  <2>1. PICK c : c = Call("neg_fails", "enter", Top.atom)
    OBVIOUS
  <2>2. c \in Calls /\ c.op = "neg_fails" /\ c.step = "enter" /\ c.atom = Top.atom
    BY <1>1, <2>1 DEF Calls, Call
  <2>3. CallOK(c)
    BY <1>1, <1>2, <2>2 DEF CallOK, AfterUnsupported
  <2>4. CallOK(c)'
    BY <2>2, <2>3, CallStays
  <2> QED BY <1>0, <1>2, <2>1, <2>2, <2>4, ReplaceCalls
<1>3. CASE calls' = Returned
  BY <1>0, <1>3, ReturnCalls, DepthIs
<1> QED BY <1>2, <1>3 DEF LeaveUnsupported

LEMMA EnterNegFailsCalls ==
  ASSUME Inv, Simplify, EnterNegFails
  PROVE  CallsGoOn
<1>0. calls # <<>> /\ Top.op = "neg_fails" /\ Top.step = "enter" /\ depth' = depth + 1
  BY DEF EnterNegFails, Doing
<1>1. /\ Top \in Calls /\ Top.atom \in Zone /\ Top.atom \in Atoms /\ completing # 0
      /\ subgoal_fails(Top.atom) /\ Top.atom \in complete /\ CallOK(Top)
  BY <1>0, TopCall DEF CallOK, Inv
<1>2. CASE in_simplify_neg_fails
  <2>1. PICK a \in Atoms : a = Top.atom
    BY <1>1
  <2>2. neg_fails' = Append(neg_fails, a) /\ calls' = Returned
    BY <1>2, <2>1 DEF EnterNegFails
  <2>3. PICK t \in Seq(Calls) : /\ t = Returned /\ Kept(t) /\ LoopsKept(t, TRUE)
                                /\ LoopsIn(t) \in Nat /\ LoopsIn(calls) = LoopsIn(t) + One(Top)
    BY ReturnedCalls
  <2>4. LoopsIn(t) <= depth' /\ depth' \in Nat
    <3>1. LoopsIn(calls) <= depth /\ depth \in Nat /\ One(Top) = 0
      BY <1>0, DepthIs DEF One
    <3> QED BY <1>0, <2>3, <3>1
  <2>5. /\ calls' \in Seq(Calls) /\ CallsOK' /\ DepthOK'
        /\ \A op, b : Loop(op, b) => Loop(op, b)'
    BY <1>0, <2>2, <2>3, <2>4, CallsStep
  <2>6. neg_fails \in Seq(Atoms)
    BY DEF Inv, Types
  <2>7. /\ neg_fails' \in Seq(Atoms) /\ Len(neg_fails') = Len(neg_fails) + 1 /\ Len(neg_fails) \in Nat
        /\ \A i \in 1..Len(neg_fails) : neg_fails'[i] = neg_fails[i]
        /\ neg_fails'[Len(neg_fails) + 1] = a
    BY <2>2, <2>6, AppendOf
  <2>8. Simplified
    BY SimplifyIsSimplified
  <2>9. ASSUME NEW i \in DOMAIN neg_fails'
        PROVE  neg_fails'[i] \in Closing \cap complete /\ subgoal_fails(neg_fails'[i])
    <3> DEFINE n == Len(neg_fails)
    <3>1. DOMAIN neg_fails = 1..n /\ DOMAIN neg_fails' = 1..n + 1 /\ n \in Nat
      BY <2>6, <2>7
    <3>2. (\A j \in 1..n : neg_fails'[j] = neg_fails[j]) /\ neg_fails'[n + 1] = a
      BY <2>7
    <3> HIDE DEF n
    <3>3. i \in 1..n \/ i = n + 1
      BY <3>1
    <3>4. a \in Closing \cap complete /\ subgoal_fails(a)
      BY <1>1, <2>1 DEF Zone, Closing
    <3>5. \A j \in 1..n : neg_fails[j] \in Closing \cap complete /\ subgoal_fails(neg_fails[j])
      BY <3>1 DEF Inv, StackOK
    <3> QED BY <3>2, <3>3, <3>4, <3>5
  <2>10. StackOK'
    <3>1. in_simplify_neg_fails'
      <4>1. \E b : Loop("neg_fails", b)
        BY <1>2 DEF in_simplify_neg_fails, Loop
      <4>2. \E b : Loop("neg_fails", b)'
        BY <2>5, <4>1
      <4> QED BY <4>2 DEF in_simplify_neg_fails, Loop
    <3>2. ASSUME NEW i \in DOMAIN neg_fails'
          PROVE  neg_fails'[i] \in Closing' \cap complete' /\ answer'[neg_fails'[i]] = "none"
      <4>1. PICK b : b = neg_fails'[i]
        OBVIOUS
      <4>2. b \in Closing \cap complete /\ subgoal_fails(b) /\ b \in Atoms
        BY <2>9, <3>2, <4>1 DEF Inv, Types
      <4>3. b \in Closing' \cap complete' /\ subgoal_fails(b)'
        BY <2>8, <4>2, SimplifiedRest DEF Simplified
      <4> QED BY <4>1, <4>3 DEF subgoal_fails
    <3> QED BY <3>1, <3>2 DEF StackOK, subgoal_fails
  <2> QED BY <2>4, <2>5, <2>7, <2>10 DEF CallsGoOn
<1>3. CASE ~ in_simplify_neg_fails
  <2>1. PICK c : c = [Top EXCEPT !.step = "loop"]
    OBVIOUS
  <2>2. c \in Calls /\ c.op = "neg_fails" /\ c.step = "loop" /\ c.atom = Top.atom
    BY <1>0, <1>1, <2>1 DEF Calls
  <2>3. CallOK(c)
    BY <1>0, <1>1, <2>2 DEF CallOK
  <2>4. CallOK(c)'
    BY <2>2, <2>3, CallStays
  <2> QED BY <1>0, <1>3, <2>1, <2>2, <2>4, EnterLoopCalls DEF EnterNegFails
<1> QED BY <1>2, <1>3

LEMMA NextNegFailsCalls ==
  ASSUME Inv, Simplify, NextNegFails
  PROVE  CallsGoOn
<1>0. /\ calls # <<>> /\ Top.op = "neg_fails" /\ Top.step = "loop" /\ depth' = depth
      /\ neg_fails # <<>> /\ neg_fails' = Front(neg_fails) /\ neg_fails \in Seq(Atoms)
  BY DEF NextNegFails, Doing, Inv, Types
<1>1. /\ Top \in Calls /\ CallOK(Top) /\ completing # 0
  BY <1>0, TopCall DEF CallOK, Inv
<1>2. PICK a : a = Last(neg_fails)
  OBVIOUS
<1> DEFINE n == Len(neg_fails)
<1>3. /\ neg_fails' \in Seq(Atoms) /\ Len(neg_fails') = n - 1 /\ n \in Nat /\ 1 <= n
      /\ \A i \in 1..n - 1 : neg_fails'[i] = neg_fails[i]
      /\ a = neg_fails[n] /\ a \in Atoms
  BY <1>0, <1>2, FrontOf
<1>4. DOMAIN neg_fails' = 1..n - 1 /\ DOMAIN neg_fails = 1..n
  BY <1>0, <1>3
<1> HIDE DEF n
<1>5. \A i \in 1..n : neg_fails[i] \in Closing \cap complete /\ subgoal_fails(neg_fails[i])
  BY <1>4 DEF Inv, StackOK
<1>6. n \in 1..n /\ \A i \in 1..n - 1 : i \in 1..n
  BY <1>3
<1>7. a \in Closing \cap complete /\ subgoal_fails(a)
  BY <1>3, <1>5, <1>6
<1>8. PICK c : c = [Top EXCEPT !.atom = a]
  OBVIOUS
<1>9. c \in Calls /\ c.op = "neg_fails" /\ c.step = "loop" /\ c.atom = a /\ One(c) = 1 /\ One(Top) = 1
  BY <1>0, <1>1, <1>3, <1>8 DEF Calls, One
<1>10. CallOK(c)'
  <2>1. CallOK(c)
    BY <1>1, <1>7, <1>9 DEF CallOK, Zone, Closing
  <2> QED BY <1>9, <2>1, CallStays
<1>11. PICK t \in Seq(Calls) : /\ t = Returned /\ Kept(t) /\ LoopsKept(t, TRUE)
                               /\ LoopsIn(t) \in Nat /\ LoopsIn(calls) = LoopsIn(t) + One(Top)
  BY ReturnedCalls
<1>12. calls' = Append(t, c)
  BY <1>2, <1>8, <1>11 DEF NextNegFails, Replace
<1>13. LoopsIn(t) + One(c) <= depth' /\ depth' \in Nat
  <2>1. LoopsIn(calls) <= depth /\ depth \in Nat
    BY DepthIs
  <2> QED BY <1>0, <1>9, <1>11, <2>1
<1>14. /\ calls' \in Seq(Calls) /\ CallsOK' /\ DepthOK'
       /\ \A op, b : Loop(op, b) => Loop(op, b)' \/ Top.op = op
  BY <1>9, <1>10, <1>11, <1>12, <1>13, CallsStep
<1>15. \A b : Loop("pos_unconditional", b) => Loop("pos_unconditional", b)'
  BY <1>0, <1>14
<1>16. in_simplify_neg_fails'
  <2>1. calls'[Len(t) + 1] = c /\ Len(calls') = Len(t) + 1 /\ Len(t) \in Nat
    BY <1>9, <1>12, AppendOf
  <2>2. Len(t) + 1 \in DOMAIN calls'
    BY <1>14, <2>1
  <2> QED BY <1>9, <2>1, <2>2 DEF in_simplify_neg_fails
<1>17. StackOK'
  <2>1. ASSUME NEW i \in DOMAIN neg_fails'
        PROVE  neg_fails'[i] \in Closing' \cap complete' /\ answer'[neg_fails'[i]] = "none"
    <3>1. PICK b : b = neg_fails'[i]
      OBVIOUS
    <3>2. b \in Closing \cap complete /\ subgoal_fails(b) /\ b \in Atoms
      BY <1>3, <1>4, <1>5, <1>6, <2>1, <3>1 DEF Inv, Types
    <3>3. b \in Closing' \cap complete' /\ subgoal_fails(b)'
      BY <3>2, SimplifyIsSimplified, SimplifiedRest DEF Simplified
    <3> QED BY <3>1, <3>3 DEF subgoal_fails
  <2> QED BY <1>16, <2>1 DEF StackOK, subgoal_fails
<1> QED BY <1>3, <1>13, <1>14, <1>15, <1>17 DEF CallsGoOn

LEMMA SimplifyCalls ==
  ASSUME Inv, Simplify
  PROVE  CallsGoOn
<1>1. CASE FinishAnswer("new") \/ FinishAnswer("old")
  BY <1>1, FinishCalls
<1>2. CASE EnterPosUnconditional
  BY <1>2, PosUnconditionalCalls
<1>3. CASE SimplifyPosUnconditional \/ SimplifyNegFails \/ SimplifyNegSucceeds \/ SimplifyPosUnsupported
  BY <1>3, LoopStepCalls
<1>4. CASE Exit("pos_unconditional", Top.atom, pdes)
  BY <1>4, ExitCalls
<1>5. CASE Exit("neg_succeeds", Top.atom, nde_list)
  BY <1>5, ExitCalls
<1>6. CASE Exit("pos_unsupported", Top.atom, pdes)
  BY <1>6, ExitCalls
<1>7. CASE neg_fails = <<>> /\ Exit("neg_fails", Top.atom, nde_list)
  BY <1>7, ExitCalls
<1>8. CASE EnterEmptyDl \/ LeaveEmptyDl
  BY <1>8, EmptyDlCalls, LeaveEmptyDlCalls
<1>9. CASE EnterUnsupported \/ LeaveUnsupported
  BY <1>9, UnsupportedCalls, LeaveUnsupportedCalls
<1>10. CASE EnterNegFails \/ NextNegFails
  BY <1>10, EnterNegFailsCalls, NextNegFailsCalls
<1>11. CASE Enter("neg_succeeds") \/ Enter("pos_unsupported")
  BY <1>11, EnterCalls
<1> QED BY <1>1, <1>2, <1>3, <1>4, <1>5, <1>6, <1>7, <1>8, <1>9, <1>10, <1>11 DEF Simplify
--------------------------------------------------------------------------
(* THE LISTS OF DELAY ELEMENTS *)

LEMMA NextElementIs ==
  ASSUME NEW sign, NEW a, NEW e
  PROVE  e \in ElementsOn(sign, a)' <=>
           \E r \in Rules' : \E i \in clause'[r].delays :
             /\ e = <<r, i>> /\ clause'[r].status = "dl"
             /\ Body(r)'[i] = [sign |-> sign, atom |-> a]
<1>1. Elements({r \in Rules : clause[r].status = "dl"})' =
        UNION {{r} \X clause'[r].delays : r \in {r \in Rules' : clause'[r].status = "dl"}}
  BY DEF Elements
<1>2. e \in Elements({r \in Rules : clause[r].status = "dl"})' <=>
        \E r \in Rules' : \E i \in clause'[r].delays : e = <<r, i>> /\ clause'[r].status = "dl"
  BY <1>1
<1>3. \A r, i : e = <<r, i>> => e[1] = r /\ e[2] = i
  OBVIOUS
<1> QED BY <1>2, <1>3 DEF ElementsOn, Body

(* The elements D leave the delay lists and the lists of goals. *)
LEMMA ListsShrink ==
  ASSUME Inv, Simplified, NEW D,
         \A r \in Rules : \A i :
           (clause'[r].status = "dl" /\ i \in clause'[r].delays) <=>
             (clause[r].status = "dl" /\ i \in clause[r].delays /\ <<r, i>> \notin D),
         nde_list' \in [Atoms -> SUBSET ((Atoms \X Nat) \X Nat)],
         pdes' \in [Atoms -> SUBSET ((Atoms \X Nat) \X Nat)],
         \A a \in Atoms : nde_list'[a] = nde_list[a] \ D /\ pdes'[a] = pdes[a] \ D
  PROVE  /\ nde_list' \in [Atoms -> SUBSET ((Atoms \X Nat) \X Nat)]
         /\ pdes' \in [Atoms -> SUBSET ((Atoms \X Nat) \X Nat)]
         /\ \A a \in Atoms :
              /\ nde_list'[a] = ElementsOn("neg", a)' /\ pdes'[a] = ElementsOn("pos", a)'
              /\ pdes'[a] \subseteq pdes[a]
<1>1. ASSUME NEW sign \in {"pos", "neg"}, NEW a \in Atoms, NEW e
      PROVE  e \in ElementsOn(sign, a)' <=> e \in ElementsOn(sign, a) /\ e \notin D
  <2>1. Types /\ Rules' = Rules /\ \A r : Body(r)' = Body(r)
    BY SimplifiedRest DEF Inv
  <2>2. e \in ElementsOn(sign, a) <=>
           \E r \in Rules : \E i \in clause[r].delays :
             /\ e = <<r, i>> /\ clause[r].status = "dl"
             /\ Body(r)[i] = [sign |-> sign, atom |-> a]
    BY <2>1, ElementIs
  <2>3. e \in ElementsOn(sign, a)' <=>
           \E r \in Rules : \E i \in clause'[r].delays :
             /\ e = <<r, i>> /\ clause'[r].status = "dl"
             /\ Body(r)[i] = [sign |-> sign, atom |-> a]
    BY <2>1, NextElementIs
  <2> QED BY <2>2, <2>3
<1>2. \A a \in Atoms : nde_list[a] = ElementsOn("neg", a) /\ pdes[a] = ElementsOn("pos", a)
  BY DEF Inv, ListsOK
<1>3. ASSUME NEW a \in Atoms
      PROVE  nde_list'[a] = ElementsOn("neg", a)' /\ pdes'[a] = ElementsOn("pos", a)'
  <2>1. \A e : e \in nde_list'[a] <=> e \in ElementsOn("neg", a)'
    BY <1>1, <1>2
  <2>2. \A e : e \in pdes'[a] <=> e \in ElementsOn("pos", a)'
    BY <1>1, <1>2
  <2> QED BY <2>1, <2>2
<1> QED BY <1>3

ListTypes == [Atoms -> SUBSET ((Atoms \X Nat) \X Nat)]
ListsFollow ==
  /\ nde_list' \in ListTypes /\ pdes' \in ListTypes
  /\ \A a \in Atoms :
       /\ nde_list'[a] = ElementsOn("neg", a)' /\ pdes'[a] = ElementsOn("pos", a)'
       /\ pdes'[a] \subseteq pdes[a]

(* No delay list loses an element. *)
LEMMA SameLists ==
  ASSUME Inv, Simplified, UNCHANGED lists,
         \A r \in Rules : clause'[r].status = "dl" \/ clause[r].status = "dl" =>
           clause'[r] = clause[r] \/ clause[r].delays = {}
  PROVE  ListsFollow
<1>1. ASSUME NEW r \in Rules, NEW i
      PROVE  (clause'[r].status = "dl" /\ i \in clause'[r].delays) <=>
             (clause[r].status = "dl" /\ i \in clause[r].delays /\ <<r, i>> \notin {})
  <2>1. clause'[r].delays \subseteq clause[r].delays
    BY SimplifiedRule
  <2> QED BY <2>1
<1>2. /\ nde_list' \in ListTypes /\ pdes' \in ListTypes
      /\ \A a \in Atoms : nde_list'[a] = nde_list[a] \ {} /\ pdes'[a] = pdes[a] \ {}
  BY DEF lists, Inv, Types, ListTypes
<1> QED BY <1>1, <1>2, ListsShrink DEF ListsFollow, ListTypes

LEMMA PosUnconditionalLists ==
  ASSUME Inv, EnterPosUnconditional
  PROVE  ListsFollow
<1>1. Simplified
  BY PosUnconditionalStep
<1>2. PICK a : a = Top.atom
  OBVIOUS
<1>3. PICK D : D = Elements(dls(a))
  OBVIOUS
<1>4. \A r, i : <<r, i>> \in D <=> r \in Rules /\ r[1] = a /\ clause[r].status = "dl" /\ i \in clause[r].delays
  BY <1>3 DEF Elements, dls
<1>5. /\ clause' = Released(dls(a))
      /\ nde_list' = [b \in Atoms |-> nde_list[b] \ D] /\ pdes' = [b \in Atoms |-> pdes[b] \ D]
  BY <1>2, <1>3 DEF EnterPosUnconditional, release_all_dls, Without
<1>6. ASSUME NEW r \in Rules, NEW i
      PROVE  (clause'[r].status = "dl" /\ i \in clause'[r].delays) <=>
             (clause[r].status = "dl" /\ i \in clause[r].delays /\ <<r, i>> \notin D)
  <2>1. clause[r] \in [at : Nat, delays : SUBSET Nat, status : Statuses]
    BY DEF Inv, Types, Rules
  <2>2. CASE r[1] = a /\ clause[r].status = "dl"
    <3>1. clause'[r] = [clause[r] EXCEPT !.status = "gone"]
      BY <1>5, <2>2 DEF Released, dls
    <3>2. clause'[r].status = "gone"
      BY <2>1, <3>1
    <3> QED BY <1>4, <2>2, <3>2
  <2>3. CASE ~ (r[1] = a /\ clause[r].status = "dl")
    <3>1. clause'[r] = clause[r]
      BY <1>5, <2>3 DEF Released, dls
    <3> QED BY <1>4, <2>3, <3>1
  <2> QED BY <2>2, <2>3
<1>7. nde_list' \in ListTypes /\ pdes' \in ListTypes
  BY <1>5 DEF Inv, Types, ListTypes
<1>8. \A b \in Atoms : nde_list'[b] = nde_list[b] \ D /\ pdes'[b] = pdes[b] \ D
  BY <1>5
<1> QED BY <1>1, <1>6, <1>7, <1>8, ListsShrink DEF ListsFollow, ListTypes

(* One element is removed from the list of its goal. *)
LEMMA RemoveDeLists ==
  ASSUME Inv, Simplified, NEW a \in Atoms, NEW sign \in {"pos", "neg"},
         NEW r \in Rules, NEW i \in clause[r].delays, clause[r].status = "dl",
         Body(r)[i].sign = sign, Body(r)[i].atom = a,
         clause' = remove_de_from_dl(<<r, i>>),
         \/ /\ sign = "pos" /\ nde_list' = nde_list
            /\ pdes' = [pdes EXCEPT ![a] = @ \ {<<r, i>>}]
         \/ /\ sign = "neg" /\ pdes' = pdes
            /\ nde_list' = [nde_list EXCEPT ![a] = @ \ {<<r, i>>}]
  PROVE  ListsFollow
<1>1. PICK e : e = <<r, i>>
  OBVIOUS
<1>2. ASSUME NEW b \in Atoms
      PROVE  /\ e \in nde_list[b] => sign = "neg" /\ b = a
             /\ e \in pdes[b] => sign = "pos" /\ b = a
  <2>1. ASSUME NEW s \in {"pos", "neg"}, e \in ElementsOn(s, b) PROVE sign = s /\ b = a
    <3>1. PICK q, j : e = <<q, j>> /\ Body(q)[j] = [sign |-> s, atom |-> b]
      BY <2>1, ElementIs DEF Inv
    <3>2. q = r /\ j = i
      BY <1>1, <3>1
    <3> QED BY <3>1, <3>2
  <2> QED BY <2>1 DEF Inv, ListsOK
<1>3. \A b \in Atoms : nde_list'[b] = nde_list[b] \ {e} /\ pdes'[b] = pdes[b] \ {e}
  <2> TAKE b \in Atoms
  <2>1. nde_list \in ListTypes /\ pdes \in ListTypes
    BY DEF Inv, Types, ListTypes
  <2>2. CASE sign = "pos"
    <3>1. nde_list'[b] = nde_list[b] /\ e \notin nde_list[b]
      BY <1>2, <2>2
    <3>2. pdes'[b] = IF b = a THEN pdes[b] \ {e} ELSE pdes[b]
      BY <1>1, <2>1, <2>2 DEF ListTypes
    <3> QED BY <1>2, <3>1, <3>2
  <2>3. CASE sign = "neg"
    <3>1. pdes'[b] = pdes[b] /\ e \notin pdes[b]
      BY <1>2, <2>3
    <3>2. nde_list'[b] = IF b = a THEN nde_list[b] \ {e} ELSE nde_list[b]
      BY <1>1, <2>1, <2>3 DEF ListTypes
    <3> QED BY <1>2, <3>1, <3>2
  <2> QED BY <2>2, <2>3
<1>4. nde_list' \in ListTypes /\ pdes' \in ListTypes
  <2>1. nde_list \in ListTypes /\ pdes \in ListTypes
    BY DEF Inv, Types, ListTypes
  <2>2. \A b \in Atoms : nde_list[b] \ {e} \in SUBSET ((Atoms \X Nat) \X Nat)
                         /\ pdes[b] \ {e} \in SUBSET ((Atoms \X Nat) \X Nat)
    BY <2>1 DEF ListTypes
  <2>3. /\ nde_list' = nde_list \/ nde_list' = [nde_list EXCEPT ![a] = nde_list[a] \ {e}]
        /\ pdes' = pdes \/ pdes' = [pdes EXCEPT ![a] = pdes[a] \ {e}]
    BY <1>1
  <2> QED BY <2>1, <2>2, <2>3 DEF ListTypes
<1>5. ASSUME NEW q \in Rules, NEW j
      PROVE  (clause'[q].status = "dl" /\ j \in clause'[q].delays) <=>
             (clause[q].status = "dl" /\ j \in clause[q].delays /\ <<q, j>> \notin {e})
  <2>1. clause[r] \in [at : Nat, delays : SUBSET Nat, status : Statuses]
    BY DEF Inv, Types, Rules
  <2>2. clause' = [clause EXCEPT ![r] = [clause[r] EXCEPT !.delays = @ \ {i}]]
    BY DEF remove_de_from_dl
  <2>3. CASE q = r
    <3>1. clause'[r] = [clause[r] EXCEPT !.delays = @ \ {i}]
      BY <2>2 DEF Rules
    <3>2. clause'[r].status = clause[r].status /\ clause'[r].delays = clause[r].delays \ {i}
      BY <2>1, <3>1
    <3>3. <<q, j>> = e <=> j = i
      BY <1>1, <2>3
    <3> QED BY <2>3, <3>2, <3>3
  <2>4. CASE q # r
    <3>1. clause'[q] = clause[q]
      BY <2>2, <2>4 DEF Rules
    <3>2. <<q, j>> # e
      BY <1>1, <2>4
    <3> QED BY <3>1, <3>2
  <2> QED BY <2>3, <2>4
<1> QED BY <1>3, <1>4, <1>5, ListsShrink DEF ListsFollow, ListTypes

LEMMA RemoveDlLists ==
  ASSUME Inv, Simplified, NEW r \in Rules, clause[r].status = "dl", RemoveDl(r)
  PROVE  ListsFollow
<1>1. PICK D : D = Elements({r})
  OBVIOUS
<1>2. \A q, i : <<q, i>> \in D <=> q = r /\ i \in clause[r].delays
  BY <1>1 DEF Elements
<1>3. /\ clause' = Turn(r, "failed")
      /\ nde_list' = [b \in Atoms |-> nde_list[b] \ D] /\ pdes' = [b \in Atoms |-> pdes[b] \ D]
  BY <1>1 DEF RemoveDl, remove_pndes_of, Without
<1>4. ASSUME NEW q \in Rules, NEW i
      PROVE  (clause'[q].status = "dl" /\ i \in clause'[q].delays) <=>
             (clause[q].status = "dl" /\ i \in clause[q].delays /\ <<q, i>> \notin D)
  <2>1. clause[r] \in [at : Nat, delays : SUBSET Nat, status : Statuses]
    BY DEF Inv, Types, Rules
  <2>2. clause'[r].status = "failed" /\ (q # r => clause'[q] = clause[q])
    BY <1>3, <2>1 DEF Turn, Rules
  <2> QED BY <1>2, <2>2
<1>5. nde_list' \in ListTypes /\ pdes' \in ListTypes
  BY <1>3 DEF Inv, Types, ListTypes
<1>6. \A b \in Atoms : nde_list'[b] = nde_list[b] \ D /\ pdes'[b] = pdes[b] \ D
  BY <1>3
<1> QED BY <1>4, <1>5, <1>6, ListsShrink DEF ListsFollow, ListTypes

LEMMA SimplifyLists ==
  ASSUME Inv, Simplify
  PROVE  ListsFollow
<1>0. Simplified
  BY SimplifyIsSimplified
<1>1. ASSUME UNCHANGED <<clause, lists>> PROVE ListsFollow
  BY <1>0, <1>1, SameLists
<1>2. CASE EnterPosUnconditional
  BY <1>2, PosUnconditionalLists
<1>3. CASE SimplifyPosUnconditional \/ SimplifyNegFails
  <2>1. PICK a : a = Top.atom
    OBVIOUS
  <2>2. a \in Zone /\ a \in Atoms
    BY <1>3, <2>1, TopCall DEF CallOK, Inv, SimplifyPosUnconditional, SimplifyNegFails, Doing
  <2>3. \E sign \in {"pos", "neg"} : \E e :
          /\ \/ /\ sign = "pos" /\ e \in pdes[a] /\ nde_list' = nde_list
                /\ pdes' = [pdes EXCEPT ![a] = @ \ {e}]
             \/ /\ sign = "neg" /\ e \in nde_list[a] /\ pdes' = pdes
                /\ nde_list' = [nde_list EXCEPT ![a] = @ \ {e}]
          /\ clause' = remove_de_from_dl(e)
    BY <1>3, <2>1 DEF SimplifyPosUnconditional, SimplifyNegFails
  <2>4. PICK sign \in {"pos", "neg"}, e \in pdes[a] \cup nde_list[a] :
          /\ \/ /\ sign = "pos" /\ e \in pdes[a] /\ nde_list' = nde_list
                /\ pdes' = [pdes EXCEPT ![a] = @ \ {e}]
             \/ /\ sign = "neg" /\ e \in nde_list[a] /\ pdes' = pdes
                /\ nde_list' = [nde_list EXCEPT ![a] = @ \ {e}]
          /\ clause' = remove_de_from_dl(e)
    BY <2>3
  <2>5. PICK r, i :
          /\ r \in Rules /\ i \in clause[r].delays
          /\ e = <<r, i>> /\ clause[r].status = "dl"
          /\ Body(r)[i].sign = sign /\ Body(r)[i].atom = a
    BY <2>2, <2>4, ListedDelay
  <2> QED BY <1>0, <2>2, <2>4, <2>5, RemoveDeLists
<1>4. CASE SimplifyNegSucceeds \/ SimplifyPosUnsupported
  <2>1. PICK a : a = Top.atom
    OBVIOUS
  <2>2. a \in Zone /\ a \in Atoms
    BY <1>4, <2>1, TopCall DEF CallOK, Inv, SimplifyNegSucceeds, SimplifyPosUnsupported, Doing
  <2>3. PICK sign \in {"pos", "neg"}, e \in pdes[a] \cup nde_list[a] :
          /\ (sign = "pos" /\ e \in pdes[a]) \/ (sign = "neg" /\ e \in nde_list[a])
          /\ RemoveDl(e[1])
    <3>1. \E sign \in {"pos", "neg"} : \E e :
            /\ (sign = "pos" /\ e \in pdes[a]) \/ (sign = "neg" /\ e \in nde_list[a])
            /\ RemoveDl(e[1])
      BY <1>4, <2>1 DEF SimplifyNegSucceeds, SimplifyPosUnsupported
    <3> QED BY <3>1
  <2>4. PICK r, i : r \in Rules /\ e = <<r, i>> /\ clause[r].status = "dl"
    BY <2>2, <2>3, ListedDelay
  <2> QED BY <1>0, <2>3, <2>4, RemoveDlLists
<1>5. CASE EnterEmptyDl
  <2>1. PICK r : r = <<Top.atom, Top.rule>>
    OBVIOUS
  <2>2. r \in Rules /\ clause[r].delays = {}
    BY <1>5, <2>1, TopCall DEF TopOK, EnterEmptyDl, Doing, Inv
  <2>3. UNCHANGED lists /\ (clause' = clause \/ clause' = Turn(r, "gone"))
    BY <1>5, <2>1 DEF EnterEmptyDl
  <2>4. \A q \in Rules : q # r => clause'[q] = clause[q]
    BY <2>3 DEF Turn, Rules
  <2> QED BY <1>0, <2>2, <2>3, <2>4, SameLists
<1>6. CASE LeaveEmptyDl
  <2>1. UNCHANGED lists /\ (clause' = clause \/ clause' = Disposed(SuspendedOn(Top.atom)))
    BY <1>6 DEF LeaveEmptyDl
  <2>2. ASSUME NEW r \in Rules, clause'[r].status = "dl" \/ clause[r].status = "dl"
        PROVE  clause'[r] = clause[r]
    <3>1. clause[r].status = "dl"
      BY <1>0, <2>2, SimplifiedRule
    <3> QED BY <2>1, <3>1 DEF Disposed, SuspendedOn
  <2> QED BY <1>0, <2>1, <2>2, SameLists
<1>7. CASE FinishAnswer("new") \/ FinishAnswer("old")
  BY <1>1, <1>7 DEF FinishAnswer
<1>8. CASE EnterUnsupported \/ LeaveUnsupported \/ EnterNegFails \/ NextNegFails
  BY <1>1, <1>8 DEF EnterUnsupported, LeaveUnsupported, EnterNegFails, NextNegFails
<1>9. CASE Enter("neg_succeeds") \/ Enter("pos_unsupported")
  BY <1>1, <1>9 DEF Enter
<1>10. CASE \/ Exit("pos_unconditional", Top.atom, pdes) \/ Exit("neg_succeeds", Top.atom, nde_list)
            \/ Exit("pos_unsupported", Top.atom, pdes) \/ Exit("neg_fails", Top.atom, nde_list)
  BY <1>1, <1>10 DEF Exit
<1> QED BY <1>2, <1>3, <1>4, <1>5, <1>6, <1>7, <1>8, <1>9, <1>10 DEF Simplify

(* Elements on an unconditional answer are being removed. *)
LEMMA SimplifyListsOK ==
  ASSUME Inv, Simplify
  PROVE  ListsOK'
<1>0. Simplified /\ ListsFollow /\ CallsGoOn
  BY SimplifyIsSimplified, SimplifyLists, SimplifyCalls
<1>1. ASSUME NEW a \in Atoms, is_unconditional_answer(a)', pdes'[a] # {}
      PROVE  Loop("pos_unconditional", a)'
  <2>1. pdes[a] # {}
    BY <1>0, <1>1 DEF ListsFollow
  <2>2. CASE is_unconditional_answer(a)
    <3>1. Loop("pos_unconditional", a)
      BY <2>1, <2>2 DEF Inv, ListsOK, Loop
    <3> QED BY <1>0, <2>1, <3>1 DEF CallsGoOn
  <2>3. CASE ~ is_unconditional_answer(a)
    <3>1. EnterPosUnconditional
      BY <1>1, <2>3 DEF is_unconditional_answer, Simplify, FinishAnswer, SimplifyPosUnconditional,
           Exit, EnterEmptyDl, LeaveEmptyDl, Enter, SimplifyNegSucceeds, RemoveDl, EnterUnsupported,
           LeaveUnsupported, SimplifyPosUnsupported, EnterNegFails, SimplifyNegFails, NextNegFails,
           Inv, Types
    <3>2. calls # <<>> /\ Top \in Calls /\ Top.op = "pos_unconditional"
      BY <3>1, TopCall DEF EnterPosUnconditional, Doing, Inv
    <3>3. a = Top.atom
      BY <1>1, <2>3, <3>1 DEF EnterPosUnconditional, is_unconditional_answer, Inv, Types
    <3>4. PICK c \in Calls : c = [Top EXCEPT !.step = "loop"]
      BY <3>2 DEF Calls
    <3>5. c.op = "pos_unconditional" /\ c.step = "loop" /\ c.atom = a
      BY <3>2, <3>3, <3>4 DEF Calls
    <3>6. PICK t \in Seq(Calls) : t = Returned
      BY ReturnedCalls
    <3>7. calls' = Append(t, c)
      BY <3>1, <3>4, <3>6 DEF EnterPosUnconditional, Goto, Replace
    <3>8. /\ calls' \in Seq(Calls) /\ Len(calls') = Len(t) + 1 /\ calls'[Len(t) + 1] = c /\ Len(t) \in Nat
      BY <3>7, AppendOf
    <3>9. Len(t) + 1 \in DOMAIN calls'
      BY <3>8
    <3> QED BY <3>5, <3>8, <3>9 DEF Loop
  <2> QED BY <2>2, <2>3
<1> QED BY <1>0, <1>1 DEF ListsOK, ListsFollow, Loop, is_unconditional_answer

LEMMA SimplifyInv ==
  ASSUME Inv, Simplify
  PROVE  Inv'
<1>1. Simplified /\ ListsFollow /\ CallsGoOn
  BY SimplifyIsSimplified, SimplifyLists, SimplifyCalls
<1>2. Types'
  <2>1. /\ UNCHANGED <<program, todo, frames, leaders, completing>>
        /\ answer' \in [Atoms -> {"none", "cond", "uncond"}]
        /\ clause' \in Runs_of(program)
    BY <1>1 DEF Simplified
  <2>2. Clauses(program)' = Clauses(program)
    BY <2>1 DEF Clauses
  <2>3. complete' \subseteq Atoms
    <3>1. Zone \subseteq Opened /\ Opened \subseteq Atoms
      BY OpenedGoals DEF Inv, Zone
    <3> QED BY <1>1, <3>1 DEF Simplified, Inv, Types
  <2> QED BY <1>1, <2>1, <2>2, <2>3 DEF Types, Inv, Runs_of, ListsFollow, ListTypes, CallsGoOn
<1>3. \E F \in SUBSET Atoms : Stalled(F)'
  <2>1. PICK F \in SUBSET Atoms : Stalled(F)
    BY DEF Inv
  <2> QED BY <1>1, <2>1, SimplifiedStalled
<1>4. Frames' /\ EarlyCompleted' /\ Uncalled' /\ ClausesOK' /\ DelaysOK' /\ ListsOK'
  BY <1>1, SimplifiedEarly, SimplifiedUncalled, SimplifiedClauses, SimplifiedDelays, SimplifyListsOK
<1>5. CallsOK' /\ StackOK' /\ DepthOK'
  BY <1>1 DEF CallsGoOn
<1> QED BY <1>2, <1>3, <1>4, <1>5 DEF Inv
--------------------------------------------------------------------------
(* STEPS OF THE RESIDUAL PROGRAM *)

(* What a step may do to clauses, answers and tables. *)
Moves ==
  /\ program' = program /\ Rules' = Rules
  /\ \A r \in Rules :
       /\ Pending(r)' \subseteq Pending(r)
       /\ \A i \in Pending(r) : i \in Pending(r)' \/ Resolved(Body(r)[i])
       /\ clause[r].status = "failed" => clause'[r].status = "failed"
       /\ clause'[r].status = "failed" =>
            \/ clause[r].status = "failed"
            \/ Pos(r[1]) \in Range(Body(r))
            \/ \E i \in Pending(r) : Refuted(Body(r)[i])
  /\ \A a \in Atoms :
       /\ is_unconditional_answer(a) => is_unconditional_answer(a)'
       /\ is_unconditional_answer(a)' =>
            \/ is_unconditional_answer(a)
            \/ \E r \in Rules : r[1] = a /\ clause[r].status # "failed" /\ Pending(r)' = {}
  /\ FalseGoals \subseteq FalseGoals'
  /\ \A r \in Rules : r[1] \in FalseGoals' \ FalseGoals =>
       \/ clause'[r].status = "failed"
       \/ \E i \in Pending(r)' : Body(r)[i].sign = "pos" /\ Body(r)[i].atom \in FalseGoals'

(* Places of a clause that are left. *)
LEMMA PendingPlaces ==
  ASSUME Types, ClausesOK, NEW r \in Rules, NEW i \in Pending(r)
  PROVE  /\ i \in 1..Len(Body(r)) /\ Body(r)[i] \in Literals
         /\ Body(r)[i].atom \in Atoms /\ Body(r)[i].sign \in {"pos", "neg"}
         /\ Body(r)[i] = [sign |-> Body(r)[i].sign, atom |-> Body(r)[i].atom]
<1>1. i \in 1..Len(Body(r))
  <2>1. CASE i \in clause[r].delays
    BY <2>1, DelayPlaces
  <2>2. CASE i \in At(r)..Len(Body(r))
    <3>1. clause[r].at \in 1..Len(Body(r)) + 1 /\ Len(Body(r)) \in Nat
      BY Bodies_OK DEF ClausesOK, ClauseOK
    <3> DEFINE n == Len(Body(r))
               k == clause[r].at
    <3>2. n \in Nat /\ k \in 1..n + 1 /\ i \in k..n
      BY <2>2, <3>1 DEF At
    <3> HIDE DEF n, k
    <3>3. i \in 1..n
      BY <3>2
    <3> QED BY <3>3 DEF n
  <2> QED BY <2>1, <2>2 DEF Pending
<1> QED BY <1>1, Bodies_OK

LEMMA MovesResidual ==
  ASSUME Types, ClausesOK, Types', Moves
  PROVE  Residual!Next
<1>1. \A r \in Rules : r \in RuleNames
  <2> TAKE r \in Rules
  <2>1. r[1] \in Atoms /\ r[2] \in 1..MaxClauses /\ r = <<r[1], r[2]>>
    BY Bodies_OK
  <2> QED BY <2>1 DEF RuleNames
<1>2. \A r : Body(r)' = Body(r)
  BY DEF Body, Moves
<1>3. Rules' = Rules
  BY DEF Moves
<1>4. HeadOf' = HeadOf /\ BodyOf' = BodyOf
  BY <1>2, <1>3 DEF HeadOf, BodyOf
<1>5. ASSUME NEW r \in RuleNames, r \notin Rules
      PROVE  LeftOf[r] = {Pos(r[1])} /\ LeftOf'[r] = {Pos(r[1])}
  BY <1>3, <1>5 DEF LeftOf
<1>6. ASSUME NEW r \in Rules
      PROVE  /\ LeftOf[r] = {Body(r)[i] : i \in Pending(r)}
             /\ LeftOf'[r] = {Body(r)[i] : i \in Pending(r)'}
             /\ Pending(r)' \subseteq Pending(r)
  BY <1>1, <1>2, <1>3 DEF LeftOf, Moves
<1>7. /\ \A l : Residual!Satisfied(l) <=> \/ l.sign = "pos" /\ l.atom \in TrueGoals
                                          \/ l.sign = "neg" /\ l.atom \in FalseGoals
      /\ \A l : Residual!Refuted(l) <=> \/ l.sign = "pos" /\ l.atom \in FalseGoals
                                        \/ l.sign = "neg" /\ l.atom \in TrueGoals
  BY DEF Residual!Satisfied, Residual!Refuted
<1>8. ASSUME NEW r \in Rules, NEW i \in Pending(r)
      PROVE  /\ Resolved(Body(r)[i]) <=> Residual!Satisfied(Body(r)[i])
             /\ Refuted(Body(r)[i]) <=> Residual!Refuted(Body(r)[i])
             /\ Body(r)[i] \in Residual!Literal
  <2>1. Body(r)[i].atom \in Atoms /\ Body(r)[i] \in Literals
    BY PendingPlaces
  <2>2. Body(r)[i] \in Residual!Literal
    BY <2>1 DEF Literals, Pos, Neg, Residual!Literal
  <2> QED BY <1>7, <2>1, <2>2 DEF Resolved, Refuted, TrueGoals
<1>9. Residual!Resolve
  <2>1. ASSUME NEW r \in RuleNames
        PROVE  /\ LeftOf'[r] \subseteq Residual!Literal
               /\ LeftOf'[r] \subseteq LeftOf[r]
               /\ \A l \in LeftOf[r] \ LeftOf'[r] : Residual!Satisfied(l)
    <3>1. CASE r \notin Rules
      <4>1. r[1] \in Atoms
        BY DEF RuleNames
      <4> QED BY <1>5, <3>1, <4>1 DEF Pos, Residual!Literal
    <3>2. CASE r \in Rules
      <4>1. LeftOf'[r] \subseteq Residual!Literal /\ LeftOf'[r] \subseteq LeftOf[r]
        BY <1>6, <1>8, <3>2
      <4>2. ASSUME NEW l \in LeftOf[r] \ LeftOf'[r] PROVE Residual!Satisfied(l)
        <5>1. PICK i \in Pending(r) : l = Body(r)[i]
          BY <1>6, <3>2
        <5>2. i \notin Pending(r)'
          BY <1>6, <3>2, <5>1, <4>2
        <5>3. Resolved(Body(r)[i])
          BY <3>2, <5>2 DEF Moves
        <5> QED BY <1>8, <3>2, <5>1, <5>3
      <4> QED BY <4>1, <4>2
    <3> QED BY <3>1, <3>2
  <2>2. LeftOf' = [r \in RuleNames |-> LeftOf'[r]]
    BY DEF LeftOf
  <2>3. LeftOf' \in [RuleNames -> SUBSET Residual!Literal]
    BY <2>1, <2>2
  <2> QED BY <2>1, <2>3 DEF Residual!Resolve
<1>10. Residual!Refute
  <2>1. Dead' \subseteq RuleNames
    BY <1>1, <1>3 DEF Dead
  <2>2. Dead \subseteq Dead'
    BY <1>3 DEF Dead, Moves
  <2>3. ASSUME NEW r \in Dead' \ Dead
        PROVE  Residual!Tautology(r) \/ \E l \in LeftOf[r] : Residual!Refuted(l)
    <3>1. r \in Rules /\ clause'[r].status = "failed" /\ clause[r].status # "failed"
      BY <1>3, <2>3 DEF Dead
    <3>2. CASE Pos(r[1]) \in Range(Body(r))
      BY <1>1, <3>1, <3>2 DEF Residual!Tautology, HeadOf, BodyOf, Residual!Pos, Pos
    <3>3. CASE \E i \in Pending(r) : Refuted(Body(r)[i])
      BY <1>6, <1>8, <3>1, <3>3
    <3> QED BY <3>1, <3>2, <3>3 DEF Moves
  <2> QED BY <2>1, <2>2, <2>3 DEF Residual!Refute
<1>11. Residual!Accept
  <2>1. TrueGoals \subseteq TrueGoals' /\ TrueGoals' \subseteq Atoms
    BY DEF TrueGoals, Moves
  <2>2. ASSUME NEW a \in TrueGoals' \ TrueGoals
        PROVE  \E r \in RuleNames \ Dead : HeadOf[r] = a /\ LeftOf'[r] = {}
    <3>1. PICK r \in Rules : r[1] = a /\ clause[r].status # "failed" /\ Pending(r)' = {}
      BY <2>2 DEF TrueGoals, Moves
    <3>2. r \in RuleNames \ Dead /\ HeadOf[r] = a
      BY <1>1, <3>1 DEF Dead, HeadOf
    <3>3. LeftOf'[r] = {}
      BY <1>6, <3>1
    <3> QED BY <3>2, <3>3
  <2> QED BY <2>1, <2>2 DEF Residual!Accept
<1>12. Residual!Reject
  <2>1. FalseGoals' \subseteq Atoms
    <3>1. frames' \in Seq(Atoms) /\ complete' \subseteq Atoms
      BY DEF Types
    <3>2. \A f \in DOMAIN frames' : frames'[f] \in Atoms
      BY <3>1, ElementOfSeq
    <3>3. Scc' \subseteq Atoms
      BY <3>2 DEF Scc
    <3> QED BY <3>1, <3>3 DEF FalseGoals
  <2>2. FalseGoals \subseteq FalseGoals'
    BY DEF Moves
  <2>3. ASSUME NEW r \in RuleNames, HeadOf[r] \in FalseGoals' \ FalseGoals
        PROVE  r \in Dead' \/ \E a \in FalseGoals' : Residual!Pos(a) \in LeftOf'[r]
    <3>1. HeadOf[r] = r[1]
      BY DEF HeadOf
    <3>2. CASE r \notin Rules
      BY <1>5, <2>3, <3>1, <3>2 DEF Residual!Pos, Pos
    <3>3. CASE r \in Rules /\ clause'[r].status = "failed"
      BY <1>3, <3>3 DEF Dead
    <3>4. ASSUME r \in Rules, NEW i \in Pending(r)',
                 Body(r)[i].sign = "pos", Body(r)[i].atom \in FalseGoals'
          PROVE  \E a \in FalseGoals' : Residual!Pos(a) \in LeftOf'[r]
      <4>1. i \in Pending(r)
        BY <1>6, <3>4
      <4>2. Body(r)[i] = Residual!Pos(Body(r)[i].atom)
        BY <3>4, <4>1, PendingPlaces DEF Residual!Pos
      <4>3. Body(r)[i] \in LeftOf'[r]
        BY <1>6, <3>4
      <4> QED BY <3>4, <4>2, <4>3
    <3> QED BY <2>3, <3>1, <3>2, <3>3, <3>4 DEF Moves
  <2> QED BY <2>1, <2>2, <2>3 DEF Residual!Reject
<1> QED BY <1>4, <1>9, <1>10, <1>11, <1>12 DEF Residual!Next

(* Simplification moves on. *)
LEMMA SimplifiedMoves ==
  ASSUME Inv, Simplified
  PROVE  Moves
<1> USE DEF Inv
<1>0. /\ program' = program /\ Rules' = Rules /\ \A r : Body(r)' = Body(r)
      /\ Closing' = Closing /\ Closing \subseteq Zone
  BY SimplifiedRest DEF Simplified, Closing, Zone
<1>1. ASSUME NEW r \in Rules
      PROVE  /\ Pending(r)' \subseteq Pending(r)
             /\ \A i \in Pending(r) : i \in Pending(r)' \/ Resolved(Body(r)[i])
             /\ clause[r].status = "failed" => clause'[r].status = "failed"
  <2>1. /\ clause'[r].at = clause[r].at /\ clause'[r].delays \subseteq clause[r].delays
        /\ \A i \in clause[r].delays \ clause'[r].delays : Resolved(Body(r)[i])
        /\ clause[r].status = "failed" => clause'[r].status = "failed"
    BY SimplifiedRule
  <2>2. Pending(r)' = clause'[r].delays \cup (clause[r].at..Len(Body(r)))
    BY <1>0, <2>1 DEF Pending, At
  <2>3. Pending(r) = clause[r].delays \cup (clause[r].at..Len(Body(r)))
    BY DEF Pending, At
  <2> QED BY <2>1, <2>2, <2>3
<1>2. ASSUME NEW r \in Rules, clause'[r].status = "failed", clause[r].status # "failed"
      PROVE  \E i \in Pending(r) : Refuted(Body(r)[i])
  <2>1. clause[r] \in [at : Nat, delays : SUBSET Nat, status : Statuses]
    BY DEF Types, Rules
  <2>2. \A i : [clause[r] EXCEPT !.delays = @ \ {i}].status = clause[r].status
    BY <2>1
  <2>3. [clause[r] EXCEPT !.status = "gone"].status = "gone"
    BY <2>1
  <2>4. CASE clause[r].status = "dl" /\ \E i \in clause[r].delays : Refuted(Body(r)[i])
    BY <2>4 DEF Pending
  <2>5. CASE clause[r].status = "suspended" /\ is_unconditional_answer(Goal(r))
    <3>1. /\ clause[r].at <= Len(Body(r)) /\ Literal(r).sign = "neg"
          /\ clause[r].at \in 1..Len(Body(r)) + 1 /\ Len(Body(r)) \in Nat
      BY <2>5, Bodies_OK DEF ClausesOK, ClauseOK
    <3>2. clause[r].at \in clause[r].at..Len(Body(r))
      BY <3>1
    <3>3. Refuted(Body(r)[clause[r].at])
      BY <2>5, <3>1 DEF Refuted, Goal, Literal, At
    <3> QED BY <3>2, <3>3 DEF Pending, At
  <2>6. SimplifiedClause(r)
    BY DEF Simplified
  <2> QED BY <1>2, <2>2, <2>3, <2>4, <2>5, <2>6 DEF SimplifiedClause
<1>3. ASSUME NEW a \in Atoms
      PROVE  /\ is_unconditional_answer(a) => is_unconditional_answer(a)'
             /\ is_unconditional_answer(a)' =>
                  \/ is_unconditional_answer(a)
                  \/ \E r \in Rules : r[1] = a /\ clause[r].status # "failed" /\ Pending(r)' = {}
  <2>1. SUFFICES ASSUME is_unconditional_answer(a)', ~ is_unconditional_answer(a)
                 PROVE  \E r \in Rules : r[1] = a /\ clause[r].status # "failed" /\ Pending(r)' = {}
    BY SimplifiedRest
  <2>2. SimplifiedAnswer(a)
    BY DEF Simplified
  <2>3. PICK r \in Rules : r[1] = a /\ Proof(r)
    BY <2>1, <2>2 DEF SimplifiedAnswer, is_unconditional_answer
  <2>4. Pending(r) = {}
    <3>1. Len(Body(r)) \in Nat /\ clause[r].delays = {} /\ clause[r].at = Len(Body(r)) + 1
      BY <2>3, Bodies_OK DEF Proof
    <3>2. clause[r].at..Len(Body(r)) = {}
      BY <3>1
    <3> QED BY <3>1, <3>2 DEF Pending, At
  <2>5. Pending(r)' = {}
    BY <1>1, <2>4
  <2> QED BY <2>3, <2>5 DEF Proof
<1>4. \A a \in complete \cup Closing : a \in Atoms
  BY OpenedGoals DEF Types, Closing
<1>5. FalseGoals = {a \in complete \cup Closing : subgoal_fails(a)}
  BY DEF FalseGoals, Closing
<1>6. FalseGoals' = {a \in complete' \cup Closing' : subgoal_fails(a)'}
  BY DEF FalseGoals, Closing
<1>7. FalseGoals \subseteq FalseGoals'
  <2> SUFFICES ASSUME NEW a \in FalseGoals PROVE a \in FalseGoals'
    OBVIOUS
  <2>1. a \in complete \cup Closing /\ subgoal_fails(a) /\ a \in Atoms
    BY <1>4, <1>5
  <2>2. subgoal_fails(a)' /\ a \in complete' \cup Closing'
    BY <1>0, <2>1, SimplifiedRest DEF Simplified
  <2> QED BY <1>6, <2>2
<1>8. ASSUME NEW r \in Rules, r[1] \in FalseGoals' \ FalseGoals
      PROVE  \/ clause'[r].status = "failed"
             \/ \E i \in Pending(r)' : Body(r)[i].sign = "pos" /\ Body(r)[i].atom \in FalseGoals'
  <2>1. r[1] \in Atoms /\ subgoal_fails(r[1])' /\ r[1] \in complete' \cup Closing
    BY <1>0, <1>6, <1>8, Bodies_OK
  <2>2. ~ is_unconditional_answer(r[1])
    BY <2>1, SimplifiedRest DEF is_unconditional_answer, subgoal_fails
  <2>3. r[1] \in complete \cup Closing
    BY <2>1, <2>2 DEF Simplified
  <2>4. ~ subgoal_fails(r[1])
    BY <1>5, <1>8, <2>3
  <2>5. r[1] \in Closing /\ dls(r[1]) = {} /\ ~ Awaited(r[1])
    <3>1. SimplifiedAnswer(r[1])
      BY <2>1 DEF Simplified
    <3> QED BY <2>1, <2>4, <3>1 DEF SimplifiedAnswer, subgoal_fails
  <2>6. ClauseOK(r) /\ clause[r].status # "dl"
    BY <2>5 DEF ClausesOK, dls
  <2>7. CASE clause[r].status = "failed"
    BY <1>1, <2>7
  <2>8. CASE /\ clause[r].status = "waiting"
             /\ clause[r].at <= Len(Body(r)) /\ Literal(r).sign = "pos"
             /\ Goal(r) \in Closing /\ subgoal_fails(Goal(r))
    <3>1. clause'[r] = clause[r]
      BY <2>8, SimplifiedRule
    <3>2. Goal(r) \in FalseGoals
      BY <1>5, <2>8
    <3>3. Pending(r)' = Pending(r)
      BY <1>0, <3>1 DEF Pending, At
    <3>4. clause[r].at \in Pending(r)
      <4>1. clause[r].at \in 1..Len(Body(r)) + 1 /\ Len(Body(r)) \in Nat
        BY <2>6, Bodies_OK DEF ClauseOK
      <4>2. clause[r].at \in clause[r].at..Len(Body(r))
        BY <2>8, <4>1
      <4> QED BY <4>2 DEF Pending, At
    <3>5. Body(r)[clause[r].at].sign = "pos" /\ Body(r)[clause[r].at].atom \in FalseGoals'
      BY <1>7, <2>8, <3>2 DEF Goal, Literal, At
    <3> QED BY <3>3, <3>4, <3>5
  <2> QED BY <2>2, <2>5, <2>6, <2>7, <2>8 DEF ClauseOK
<1> QED BY <1>0, <1>1, <1>2, <1>3, <1>7, <1>8 DEF Moves
--------------------------------------------------------------------------
(* EVALUATION *)

(* What is so while no simplification is under way. *)
LEMMA WhileEvaluating ==
  ASSUME Inv, Evaluating
  PROVE  /\ Closing = {} /\ Live = Opened /\ Zone = Opened /\ neg_fails = <<>>
         /\ calls = <<>> /\ completing = 0
         /\ FalseGoals = {a \in complete : subgoal_fails(a)}
         /\ \A r \in Rules :
              /\ clause[r].status = "gone" => is_unconditional_answer(r[1])
              /\ clause[r].status = "dl" => clause[r].delays # {} /\ is_conditional_answer(r[1])
         /\ \A a \in Atoms : is_unconditional_answer(a) => pdes[a] = {}
         /\ \A a \in Atoms \ called : \A r \in Rules : r[1] = a => clause[r] = Start
         /\ \A a \in Opened \cap complete : is_unconditional_answer(a)
<1> USE DEF Inv
<1>1. calls = <<>> /\ completing = 0
  BY DEF Evaluating
<1>2. Closing = {} /\ Live = Opened /\ Zone = Opened
  BY <1>1 DEF Closing, Live, Zone
<1>3. DOMAIN calls = {}
  BY <1>1
<1>4. neg_fails = <<>>
  BY <1>3 DEF StackOK, in_simplify_neg_fails
<1>5. ASSUME NEW r \in Rules
      PROVE  /\ clause[r].status = "gone" => is_unconditional_answer(r[1])
             /\ clause[r].status = "dl" => clause[r].delays # {} /\ is_conditional_answer(r[1])
  BY <1>1 DEF ClausesOK, ClauseOK, Awaited
<1>6. \A a \in Atoms : is_unconditional_answer(a) => pdes[a] = {}
  BY <1>3 DEF ListsOK
<1>7. \A a \in Opened \cap complete : is_unconditional_answer(a)
  BY <1>2 DEF EarlyCompleted
<1>8. FalseGoals = {a \in complete : subgoal_fails(a)}
  BY <1>1 DEF FalseGoals
<1> QED BY <1>1, <1>2, <1>4, <1>5, <1>6, <1>7, <1>8 DEF Uncalled

(* The stack gets goals that were not called, SCCs are joined. *)
FramesGrow ==
  /\ frames' \in Seq(Atoms) /\ IsInjective(frames') /\ leaders' \subseteq DOMAIN frames'
  /\ frames' # <<>> => 1 \in leaders'
  /\ Opened \subseteq Opened' /\ \A a \in Opened' \ Opened : a \in Atoms \ called
  /\ \A a, b : Same(a, b) => Same(a, b)'

(* What a clause has left in the next state. *)
NextPending(r) == clause'[r].delays \cup (clause'[r].at..Len(Body(r)))

NewDelay(r, i) ==
  /\ i \in Pending(r)
  /\ Body(r)[i].atom \in Done \/ Same(r[1], Body(r)[i].atom)
  /\ Body(r)[i].sign = "pos" => ~ subgoal_fails(Body(r)[i].atom)

(* A step of the clause r. *)
Stepped(r) ==
  /\ r[1] \in Opened /\ clause[r].status \in {"running", "waiting", "suspended", "resumed"}
  /\ clause'[r].at \in clause[r].at..Len(Body(r)) + 1
  /\ clause'[r].delays \subseteq 1..clause'[r].at - 1
  /\ \A i \in clause'[r].delays : i \in clause[r].delays \/ NewDelay(r, i)
  /\ \A i \in Pending(r) : i \in NextPending(r) \/ Resolved(Body(r)[i])
  /\ clause'[r].status \in {"suspended", "resumed"} =>
       clause'[r].at <= Len(Body(r)) /\ Body(r)[clause'[r].at].sign = "neg"
  /\ clause'[r].status = "suspended" => Same(r[1], Goal(r))'
  /\ clause'[r].status = "dl" =>
       is_conditional_answer(r[1])' /\ clause'[r].at = Len(Body(r)) + 1 /\ clause'[r].delays # {}
  /\ clause'[r].status = "gone" => is_unconditional_answer(r[1])' \/ Awaited(r[1])'
  /\ clause'[r].status = "failed" =>
       Pos(r[1]) \in Range(Body(r)) \/ \E i \in Pending(r) : Refuted(Body(r)[i])

(* Open goals get answers. *)
NewAnswer(a) ==
  /\ subgoal_fails(a) /\ a \in Opened \ complete
  /\ answer'[a] = "uncond" =>
       \E r \in Rules : r[1] = a /\ clause[r].status # "failed" /\ NextPending(r) = {}

Evaluated ==
  /\ Evaluating
  /\ UNCHANGED <<program, complete, completing, neg_fails>> /\ todo' \in Seq(Atoms)
  /\ FramesGrow
  /\ answer' \in [Atoms -> {"none", "cond", "uncond"}]
  /\ \A a \in Atoms : answer'[a] = answer[a] \/ NewAnswer(a)
  /\ clause' \in Runs_of(program)
  /\ \A r \in Rules : clause'[r] = clause[r] \/ Stepped(r)
  /\ \A r \in Rules : clause'[r].status = "running" =>
       /\ calls' = <<>> /\ r[1] \in Scc'
       /\ \A q \in Rules : clause'[q].status = "running" => q = r

LEMMA EvaluatedRest ==
  ASSUME Inv, Evaluated
  PROVE  /\ Rules' = Rules /\ \A r : Body(r)' = Body(r)
         /\ Done' = Done /\ Live' = Opened' /\ Closing' = {} /\ Live = Opened
         /\ called \subseteq called' /\ Opened \subseteq Opened' /\ Opened \subseteq Atoms
         /\ \A a, b : Same(a, b) => Same(a, b)'
         /\ \A a \in Atoms :
              /\ is_unconditional_answer(a) => is_unconditional_answer(a)'
              /\ is_conditional_answer(a) => is_conditional_answer(a)'
              /\ subgoal_fails(a)' => subgoal_fails(a)
              /\ a \notin Opened \ complete => answer'[a] = answer[a]
         /\ \A r \in Rules : r[1] \in Opened' \ Opened => clause'[r] = Start /\ clause[r] = Start
         /\ \A r \in Rules : Pending(r)' = NextPending(r)
<1> USE DEF Inv
<1>1. Rules' = Rules
  BY DEF Types, Runs_of, Rules, Evaluated
<1>2. \A r : Body(r)' = Body(r)
  BY DEF Body, Evaluated
<1>3. \A r \in Rules : Pending(r)' = NextPending(r)
  BY <1>2 DEF NextPending, Pending, At
<1>4. FramesGrow /\ complete' = complete /\ completing' = completing
  BY DEF Evaluated
<1>5. Done' = Done
  BY <1>4 DEF Done, FramesGrow, called
<1>6. Closing' = {} /\ Live' = Opened' /\ Live = Opened
  BY <1>4, WhileEvaluating DEF Live, Closing, Evaluated
<1>7. called \subseteq called'
  BY <1>4 DEF FramesGrow, Opened, called
<1>8. ASSUME NEW a \in Atoms
      PROVE  /\ is_unconditional_answer(a) => is_unconditional_answer(a)'
             /\ is_conditional_answer(a) => is_conditional_answer(a)'
             /\ subgoal_fails(a)' => subgoal_fails(a)
             /\ a \notin Opened \ complete => answer'[a] = answer[a]
  BY DEF Evaluated, NewAnswer, is_unconditional_answer, is_conditional_answer, subgoal_fails
<1>9. ASSUME NEW r \in Rules, r[1] \in Opened' \ Opened
      PROVE  clause'[r] = Start /\ clause[r] = Start
  <2>1. clause[r] = Start
    BY <1>4, <1>9 DEF FramesGrow, Uncalled
  <2>2. clause'[r] = clause[r]
    BY <1>9 DEF Evaluated, Stepped
  <2> QED BY <2>1, <2>2
<1> QED BY <1>1, <1>2, <1>3, <1>4, <1>5, <1>6, <1>7, <1>8, <1>9, OpenedGoals DEF FramesGrow

LEMMA EvaluatedMoves ==
  ASSUME Inv, Evaluated
  PROVE  Moves
<1> USE DEF Inv
<1>0. Evaluating /\ complete' = complete /\ completing' = completing /\ program' = program
  BY DEF Evaluated
<1>1. ASSUME NEW r \in Rules
      PROVE  /\ Pending(r)' \subseteq Pending(r)
             /\ \A i \in Pending(r) : i \in Pending(r)' \/ Resolved(Body(r)[i])
             /\ clause[r].status = "failed" => clause'[r].status = "failed"
             /\ clause'[r].status = "failed" =>
                  \/ clause[r].status = "failed"
                  \/ Pos(r[1]) \in Range(Body(r))
                  \/ \E i \in Pending(r) : Refuted(Body(r)[i])
  <2>0. Pending(r)' = NextPending(r)
    BY EvaluatedRest
  <2>1. CASE clause'[r] = clause[r]
    <3>1. Pending(r)' = Pending(r)
      BY <2>0, <2>1 DEF NextPending, Pending, At
    <3> QED BY <2>1, <3>1
  <2>2. CASE Stepped(r)
    <3>1. NextPending(r) \subseteq Pending(r)
      <4>1. clause'[r].at \in clause[r].at..Len(Body(r)) + 1 /\ clause[r].at \in 1..Len(Body(r)) + 1
            /\ Len(Body(r)) \in Nat
        BY <2>2, Bodies_OK DEF Stepped, ClausesOK, ClauseOK
      <4>2. \A i \in clause'[r].at..Len(Body(r)) : i \in clause[r].at..Len(Body(r))
        BY <4>1
      <4>3. \A i \in clause'[r].delays : i \in Pending(r)
        BY <2>2 DEF Stepped, NewDelay, Pending
      <4> QED BY <4>2, <4>3 DEF NextPending, Pending, At
    <3> QED BY <2>0, <2>2, <3>1 DEF Stepped
  <2> QED BY <2>1, <2>2 DEF Evaluated
<1>2. ASSUME NEW a \in Atoms
      PROVE  /\ is_unconditional_answer(a) => is_unconditional_answer(a)'
             /\ is_unconditional_answer(a)' =>
                  \/ is_unconditional_answer(a)
                  \/ \E r \in Rules : r[1] = a /\ clause[r].status # "failed" /\ Pending(r)' = {}
  <2>1. CASE answer'[a] = answer[a]
    BY <2>1 DEF is_unconditional_answer
  <2>2. CASE NewAnswer(a)
    BY <2>2, EvaluatedRest DEF NewAnswer, is_unconditional_answer
  <2> QED BY <2>1, <2>2 DEF Evaluated
<1>3. FalseGoals' = FalseGoals
  <2>1. FalseGoals = {a \in complete : subgoal_fails(a)}
    BY <1>0, WhileEvaluating
  <2>2. FalseGoals' = {a \in complete : subgoal_fails(a)'}
    BY <1>0 DEF FalseGoals, Evaluating
  <2>3. \A a \in complete : subgoal_fails(a)' <=> subgoal_fails(a)
    BY EvaluatedRest DEF Types, subgoal_fails
  <2> QED BY <2>1, <2>2, <2>3
<1> QED BY <1>0, <1>1, <1>2, <1>3, EvaluatedRest DEF Moves

LEMMA EvaluatedKeeps ==
  ASSUME Inv, Evaluated
  PROVE  /\ Frames' /\ EarlyCompleted' /\ Uncalled' /\ StackOK'
         /\ frames' \in Seq(Atoms) /\ IsInjective(frames') /\ leaders' \subseteq DOMAIN frames'
         /\ completing' \in Nat /\ completing' <= Len(frames') + 1
         /\ complete' \subseteq Atoms
         /\ clause' \in [Clauses(program)' -> [at : Nat, delays : SUBSET Nat, status : Statuses]]
<1> USE DEF Inv
<1>0. /\ complete' = complete /\ completing' = completing /\ program' = program
      /\ neg_fails' = neg_fails /\ FramesGrow /\ Evaluating
  BY DEF Evaluated
<1>1. Frames'
  BY <1>0, WhileEvaluating DEF FramesGrow, Frames
<1>2. EarlyCompleted'
  <2> SUFFICES ASSUME NEW a \in complete' \cap Live' PROVE is_unconditional_answer(a)'
    BY DEF EarlyCompleted
  <2>1. a \in complete /\ a \in Opened' /\ a \in Atoms
    BY <1>0, EvaluatedRest DEF Types
  <2>2. a \in Opened
    BY <1>0, <2>1 DEF FramesGrow, called
  <2> QED BY <1>0, <2>1, <2>2, WhileEvaluating, EvaluatedRest
<1>3. Uncalled'
  <2> SUFFICES ASSUME NEW a \in Atoms \ called'
               PROVE  subgoal_fails(a)' /\ \A r \in Rules' : r[1] = a => clause'[r] = Start
    BY DEF Uncalled, Start
  <2>1. a \notin called /\ Rules' = Rules
    BY EvaluatedRest
  <2>2. a \notin Opened /\ subgoal_fails(a)
    BY <2>1 DEF called, Opened, Uncalled
  <2>3. answer'[a] = answer[a]
    BY <2>2, EvaluatedRest
  <2>4. ASSUME NEW r \in Rules, r[1] = a PROVE clause'[r] = Start
    <3>1. clause[r] = Start
      BY <2>1, <2>4 DEF Uncalled
    <3> QED BY <2>2, <2>4, <3>1 DEF Evaluated, Stepped
  <2> QED BY <2>1, <2>2, <2>3, <2>4 DEF subgoal_fails
<1>4. StackOK'
  <2>1. neg_fails' = <<>>
    BY <1>0, WhileEvaluating
  <2> QED BY <2>1 DEF StackOK
<1>5. completing' \in Nat /\ completing' <= Len(frames') + 1
  <2>1. frames' \in Seq(Atoms) /\ completing' = 0
    BY <1>0, WhileEvaluating DEF FramesGrow
  <2> QED BY <2>1
<1>6. clause' \in [Clauses(program)' -> [at : Nat, delays : SUBSET Nat, status : Statuses]]
  BY <1>0 DEF Evaluated, Runs_of, Clauses
<1> QED BY <1>0, <1>1, <1>2, <1>3, <1>4, <1>5, <1>6 DEF FramesGrow, Types

LEMMA EvaluatedClauses ==
  ASSUME Inv, Evaluated
  PROVE  ClausesOK'
<1> USE DEF Inv
<1> SUFFICES ASSUME NEW r \in Rules' PROVE ClauseOK(r)'
  BY DEF ClausesOK
<1>0. r \in Rules /\ Body(r)' = Body(r) /\ r[1] \in Atoms /\ Len(Body(r)) \in Nat
  BY EvaluatedRest, Bodies_OK
<1>1. ClauseOK(r)
  BY <1>0 DEF ClausesOK
<1>2. Literal(r)' = Body(r)[clause'[r].at] /\ Goal(r)' = Body(r)[clause'[r].at].atom
  BY <1>0 DEF Goal, Literal, At
<1>3. /\ clause'[r].at \in 1..Len(Body(r)) + 1
      /\ clause'[r].delays \subseteq 1..clause'[r].at - 1
      /\ clause'[r].status \in {"suspended", "resumed"} =>
           clause'[r].at <= Len(Body(r)) /\ Body(r)[clause'[r].at].sign = "neg"
      /\ clause'[r].status = "suspended" /\ r[1] \in Live' => Same(r[1], Goal(r))'
      /\ clause'[r].status = "dl" =>
           /\ is_conditional_answer(r[1])'
           /\ clause'[r].at = Len(Body(r)) + 1 /\ clause'[r].delays # {}
      /\ clause'[r].status = "gone" => is_unconditional_answer(r[1])' \/ Awaited(r[1])'
  <2>1. CASE clause'[r] = clause[r]
    <3>1. clause'[r].status = "suspended" /\ r[1] \in Live' => Same(r[1], Goal(r))'
      <4> HAVE clause'[r].status = "suspended" /\ r[1] \in Live'
      <4>1. r[1] \in Opened
        BY <1>0, EvaluatedRest DEF Start
      <4>2. Same(r[1], Goal(r)) /\ Goal(r)' = Goal(r)
        BY <1>1, <1>2, <2>1, <4>1, EvaluatedRest DEF ClauseOK, Goal, Literal, At
      <4> QED BY <4>2, EvaluatedRest
    <3>2. Evaluating
      BY DEF Evaluated
    <3>3. clause'[r].status = "gone" => is_unconditional_answer(r[1])'
      BY <1>0, <2>1, <3>2, EvaluatedRest, WhileEvaluating
    <3>4. clause'[r].status = "dl" => is_conditional_answer(r[1])' /\ clause'[r].delays # {}
      BY <1>0, <2>1, <3>2, EvaluatedRest, WhileEvaluating
    <3>5. /\ clause'[r].at \in 1..Len(Body(r)) + 1
          /\ clause'[r].delays \subseteq 1..clause'[r].at - 1
          /\ clause'[r].status \in {"suspended", "resumed"} =>
               clause'[r].at <= Len(Body(r)) /\ Body(r)[clause'[r].at].sign = "neg"
          /\ clause'[r].status = "dl" => clause'[r].at = Len(Body(r)) + 1
      BY <1>1, <2>1 DEF ClauseOK, Literal, At
    <3> QED BY <3>1, <3>3, <3>4, <3>5
  <2>2. CASE Stepped(r)
    <3>1. clause'[r].at \in clause[r].at..Len(Body(r)) + 1 /\ clause[r].at \in 1..Len(Body(r)) + 1
      BY <1>1, <2>2 DEF Stepped, ClauseOK
    <3>2. clause'[r].at \in 1..Len(Body(r)) + 1
      BY <1>0, <3>1
    <3>3. clause'[r].status = "suspended" => Same(r[1], Goal(r))'
      BY <2>2 DEF Stepped
    <3> QED BY <2>2, <3>2, <3>3 DEF Stepped
  <2> QED BY <1>0, <2>1, <2>2 DEF Evaluated
<1>4. clause'[r].status = "running" =>
       /\ Evaluating' /\ r[1] \in Scc'
       /\ \A q \in Rules' : clause'[q].status = "running" => q = r
  BY <1>0, EvaluatedRest DEF Evaluated, Evaluating
<1>5. Closing' = {}
  BY EvaluatedRest
<1> QED BY <1>0, <1>2, <1>3, <1>4, <1>5 DEF ClauseOK

LEMMA EvaluatedDelays ==
  ASSUME Inv, Evaluated
  PROVE  DelaysOK'
<1> USE DEF Inv
<1> SUFFICES ASSUME NEW r \in Rules', NEW i \in clause'[r].delays PROVE DelayOK(r, i)'
  BY DEF DelaysOK
<1>0. r \in Rules /\ Body(r)' = Body(r) /\ Opened \cap Done = {}
  BY EvaluatedRest DEF Done
<1> DEFINE b == Body(r)[i].atom
<1>1. i \in clause[r].delays \/ (Stepped(r) /\ NewDelay(r, i))
  BY <1>0 DEF Evaluated, Stepped
<1>2. b \in Atoms
  BY <1>0, <1>1, DelayPlaces, PendingPlaces DEF NewDelay
<1>3. r[1] \in Opened' => b \in Done' \/ Same(r[1], b)'
  <2> HAVE r[1] \in Opened'
  <2>1. r[1] \in Opened
    <3>1. ASSUME r[1] \notin Opened PROVE FALSE
      <4>1. clause'[r] = Start
        BY <1>0, <3>1, EvaluatedRest
      <4> QED BY <4>1 DEF Start
    <3> QED BY <3>1
  <2>2. b \in Done \/ Same(r[1], b)
    BY <1>0, <1>1, <2>1 DEF DelaysOK, DelayOK, NewDelay
  <2> QED BY <2>2, EvaluatedRest
<1>4. r[1] \in Done' /\ clause'[r].status = "dl" => b \in Done'
  <2> HAVE r[1] \in Done' /\ clause'[r].status = "dl"
  <2>1. r[1] \in Done /\ Done' = Done
    BY EvaluatedRest
  <2>2. clause'[r] = clause[r]
    BY <1>0, <2>1 DEF Evaluated, Stepped
  <2> QED BY <1>0, <2>1, <2>2 DEF DelaysOK, DelayOK
<1>5. ASSUME r[1] \in Live', Body(r)[i].sign = "pos" PROVE ~ subgoal_fails(b)'
  <2>1. r[1] \in Live
    <3>1. ASSUME r[1] \notin Opened PROVE FALSE
      <4>1. clause'[r] = Start
        BY <1>0, <1>5, <3>1, EvaluatedRest
      <4> QED BY <4>1 DEF Start
    <3> QED BY <3>1, EvaluatedRest
  <2>2. ~ subgoal_fails(b)
    BY <1>0, <1>1, <1>5, <2>1 DEF DelaysOK, DelayOK, NewDelay
  <2> QED BY <1>2, <2>2, EvaluatedRest
<1> QED BY <1>0, <1>3, <1>4, <1>5 DEF DelayOK

(* A step that does not wake the goals that stall. *)
StallStep(F, r) ==
  /\ r[1] \in F =>
       \/ clause'[r].status = "failed"
       \/ /\ clause'[r].status # "gone"
          /\ \E i \in DOMAIN Body(r) :
               /\ i \in clause'[r].delays \/ i = clause'[r].at
               /\ Stalls(F, r, Body(r)[i])
  /\ clause'[r].status # "resumed"
  /\ \A i \in clause'[r].delays \ clause[r].delays :
       Body(r)[i].sign = "neg" =>
         \/ Body(r)[i].atom \in F /\ Same(r[1], Body(r)[i].atom)
         \/ Left(Body(r)[i].atom)

LEMMA EvaluatedStalled ==
  ASSUME Inv, Evaluated, NEW F \in SUBSET Atoms, Stalled(F),
         \A r \in Rules : clause'[r] = clause[r] \/ StallStep(F, r),
         \A a \in F : ~ is_unconditional_answer(a)'
  PROVE  Stalled(F)'
<1> USE DEF Inv
<1>0. /\ Live' = Opened' /\ Live = Opened /\ Rules' = Rules /\ \A r : Body(r)' = Body(r)
  BY EvaluatedRest
<1>1. \A a \in Atoms : Left(a) => Left(a)'
  <2> SUFFICES ASSUME NEW a \in Atoms, Left(a) PROVE Left(a)'
    OBVIOUS
  <2> QED BY EvaluatedRest DEF Left
<1>2. F \subseteq Live' \ complete'
  BY <1>0, EvaluatedRest DEF Stalled, Evaluated
<1>3. ASSUME NEW r \in Rules, NEW l \in Literals, Stalls(F, r, l) PROVE Stalls(F, r, l)'
  <2>1. l.atom \in Atoms
    BY DEF Literals, Pos, Neg
  <2> QED BY <1>1, <1>3, <2>1, EvaluatedRest DEF Stalls
<1>4. ASSUME NEW r \in Rules, r[1] \in F
      PROVE  \/ clause'[r].status = "failed"
             \/ /\ clause'[r].status # "gone"
                /\ \E i \in DOMAIN Body(r) :
                     /\ i \in clause'[r].delays \/ i = clause'[r].at
                     /\ Stalls(F, r, Body(r)[i])'
  <2>1. \/ clause'[r].status = "failed"
        \/ /\ clause'[r].status # "gone"
           /\ \E i \in DOMAIN Body(r) :
                /\ i \in clause'[r].delays \/ i = clause'[r].at
                /\ Stalls(F, r, Body(r)[i])
    BY <1>4 DEF StallStep, Stalled
  <2>2. ASSUME NEW i \in DOMAIN Body(r), Stalls(F, r, Body(r)[i]) PROVE Stalls(F, r, Body(r)[i])'
    <3>1. Body(r)[i] \in Literals
      BY Bodies_OK
    <3>2. PICK l \in Literals : l = Body(r)[i]
      BY <3>1
    <3>3. Stalls(F, r, l)' /\ Body(r)' = Body(r)
      BY <1>0, <1>3, <2>2, <3>2
    <3> QED BY <3>2, <3>3 DEF Stalls
  <2> QED BY <2>1, <2>2
<1>5. ASSUME NEW r \in Rules, r[1] \in Live', clause'[r].status = "resumed"
      PROVE  is_unconditional_answer(Goal(r))' \/ (Goal(r)' \in F /\ Same(r[1], Goal(r))')
  <2>1. clause'[r] = clause[r]
    BY <1>5 DEF StallStep
  <2>2. r[1] \in Live
    BY <1>0, <1>5, EvaluatedRest DEF Start
  <2>3. Goal(r)' = Goal(r) /\ Goal(r) \in Atoms
    <3>1. clause[r].at \in 1..Len(Body(r))
      BY <1>5, <2>1, Bodies_OK DEF ClausesOK, ClauseOK
    <3> QED BY <1>0, <2>1, <3>1, Bodies_OK DEF Goal, Literal, At
  <2>4. is_unconditional_answer(Goal(r)) \/ (Goal(r) \in F /\ Same(r[1], Goal(r)))
    BY <1>5, <2>1, <2>2 DEF Stalled
  <2> QED BY <2>3, <2>4, EvaluatedRest DEF is_unconditional_answer
<1>6. ASSUME NEW r \in Rules, r[1] \in Live', NEW i \in clause'[r].delays, Body(r)[i].sign = "neg"
      PROVE  \/ Body(r)[i].atom \in F /\ Same(r[1], Body(r)[i].atom)'
             \/ Left(Body(r)[i].atom)'
  <2>1. r[1] \in Live
    <3>1. ASSUME r[1] \notin Opened PROVE FALSE
      <4>1. clause'[r] = Start
        BY <1>0, <1>6, <3>1, EvaluatedRest
      <4> QED BY <4>1 DEF Start
    <3> QED BY <1>0, <3>1
  <2>2. Body(r)[i].atom \in Atoms
    <3>1. i \in clause[r].delays \/ NewDelay(r, i)
      BY DEF Evaluated, Stepped
    <3> QED BY <3>1, DelayPlaces, PendingPlaces DEF NewDelay
  <2>3. \/ Body(r)[i].atom \in F /\ Same(r[1], Body(r)[i].atom)
        \/ Left(Body(r)[i].atom)
    BY <1>6, <2>1 DEF Stalled, StallStep
  <2> QED BY <1>1, <2>2, <2>3, EvaluatedRest
<1> QED BY <1>0, <1>2, <1>4, <1>5, <1>6 DEF Stalled

(* A step that leaves the answers and the delay lists alone. *)
LEMMA PlainStep ==
  ASSUME Inv, Evaluated, UNCHANGED <<answer, lists, calls, depth>>,
         \A r \in Rules : clause'[r] = clause[r] \/ clause'[r].status # "dl",
         \E F \in SUBSET Atoms : Stalled(F)'
  PROVE  Inv' /\ Moves
<1> USE DEF Inv
<1>0. calls = <<>> /\ program' = program /\ neg_fails' = neg_fails /\ todo' \in Seq(Atoms)
  BY DEF Evaluated, Evaluating
<1>1. Types'
  BY <1>0, EvaluatedKeeps DEF Types, lists
<1>2. CallsOK' /\ DepthOK'
  <2>1. calls' = <<>> /\ depth' = depth
    BY <1>0
  <2>2. CallsOK'
    BY <2>1 DEF CallsOK
  <2> QED BY <2>2 DEF DepthOK, LoopCalls
<1>3. ASSUME NEW sign \in {"pos", "neg"}, NEW a \in Atoms
      PROVE  ElementsOn(sign, a)' = ElementsOn(sign, a)
  <2>1. \A r \in Rules : clause'[r].status = "dl" \/ clause[r].status = "dl" => clause'[r] = clause[r]
    BY DEF Evaluated, Stepped
  <2>2. ASSUME NEW e PROVE e \in ElementsOn(sign, a)' <=> e \in ElementsOn(sign, a)
    <3>1. e \in ElementsOn(sign, a) <=>
             \E r \in Rules : \E i \in clause[r].delays :
               /\ e = <<r, i>> /\ clause[r].status = "dl"
               /\ Body(r)[i] = [sign |-> sign, atom |-> a]
      BY ElementIs
    <3>2. e \in ElementsOn(sign, a)' <=>
             \E r \in Rules : \E i \in clause'[r].delays :
               /\ e = <<r, i>> /\ clause'[r].status = "dl"
               /\ Body(r)[i] = [sign |-> sign, atom |-> a]
      BY EvaluatedRest, NextElementIs
    <3> QED BY <2>1, <3>1, <3>2
  <2> QED BY <2>2
<1>4. ListsOK'
  <2>1. \A a \in Atoms : nde_list'[a] = ElementsOn("neg", a)' /\ pdes'[a] = ElementsOn("pos", a)'
    BY <1>3 DEF ListsOK, lists
  <2>2. \A a \in Atoms : is_unconditional_answer(a)' /\ pdes'[a] # {} => FALSE
    BY WhileEvaluating DEF Evaluated, lists, is_unconditional_answer
  <2> QED BY <2>1, <2>2 DEF ListsOK
<1> QED BY <1>1, <1>2, <1>4, EvaluatedKeeps, EvaluatedClauses, EvaluatedDelays, EvaluatedMoves

(* The step of one clause. *)
LEMMA ClauseStep ==
  ASSUME Inv, Evaluating, FramesGrow,
         UNCHANGED <<program, todo, complete, completing, answer, lists, calls, neg_fails, depth>>,
         NEW F \in SUBSET Atoms, Stalled(F), NEW r \in Rules,
         clause' \in Runs_of(program), \A q \in Rules : q # r => clause'[q] = clause[q],
         Stepped(r), StallStep(F, r), clause'[r].status # "dl",
         \A p \in Rules : clause'[p].status = "running" =>
           /\ p[1] \in Scc' /\ \A q \in Rules : clause'[q].status = "running" => q = p
  PROVE  Inv' /\ Moves
<1> USE DEF Inv
<1>1. todo' \in Seq(Atoms) /\ answer' \in [Atoms -> {"none", "cond", "uncond"}]
  BY DEF Types
<1>2. calls' = <<>>
  BY DEF Evaluating
<1>3. Evaluated
  BY <1>1, <1>2 DEF Evaluated
<1>4. \A a \in F : ~ is_unconditional_answer(a)'
  BY DEF Stalled, is_unconditional_answer
<1>5. Stalled(F)'
  BY <1>3, <1>4, EvaluatedStalled
<1>6. \A q \in Rules : clause'[q] = clause[q] \/ clause'[q].status # "dl"
  OBVIOUS
<1> QED BY <1>3, <1>5, <1>6, PlainStep

(* What Turn, Advance and Delay do. *)
LEMMA ClauseChanges ==
  ASSUME Types, NEW r \in Rules, NEW status \in Statuses
  PROVE  /\ clause' = Turn(r, status) =>
              /\ clause' \in Runs_of(program) /\ \A q \in Rules : q # r => clause'[q] = clause[q]
              /\ clause'[r].at = clause[r].at /\ clause'[r].delays = clause[r].delays
              /\ clause'[r].status = status
         /\ clause' = Advance(r) =>
              /\ clause' \in Runs_of(program) /\ \A q \in Rules : q # r => clause'[q] = clause[q]
              /\ clause'[r].at = clause[r].at + 1 /\ clause'[r].delays = clause[r].delays
              /\ clause'[r].status = "running"
         /\ clause' = Delay(r) =>
              /\ clause' \in Runs_of(program) /\ \A q \in Rules : q # r => clause'[q] = clause[q]
              /\ clause'[r].at = clause[r].at + 1
              /\ clause'[r].delays = clause[r].delays \cup {clause[r].at}
              /\ clause'[r].status = "running"
<1> DEFINE R == [at : Nat, delays : SUBSET Nat, status : Statuses]
<1>1. clause \in [Rules -> R] /\ clause[r] \in R /\ Runs_of(program) = [Rules -> R]
  BY DEF Types, Rules, Runs_of
<1>2. ASSUME NEW c \in R, clause' = [clause EXCEPT ![r] = c]
      PROVE  /\ clause' \in Runs_of(program) /\ clause'[r] = c
             /\ \A q \in Rules : q # r => clause'[q] = clause[q]
  <2> HIDE DEF R
  <2> QED BY <1>1, <1>2
<1>3. ASSUME clause' = Turn(r, status)
      PROVE  /\ clause' \in Runs_of(program) /\ \A q \in Rules : q # r => clause'[q] = clause[q]
             /\ clause'[r].at = clause[r].at /\ clause'[r].delays = clause[r].delays
             /\ clause'[r].status = status
  <2>1. PICK c : c = [clause[r] EXCEPT !.status = status]
    OBVIOUS
  <2>2. c \in R /\ c.at = clause[r].at /\ c.delays = clause[r].delays /\ c.status = status
    BY <1>1, <2>1
  <2>3. clause' = [clause EXCEPT ![r] = c]
    BY <1>3, <2>1 DEF Turn
  <2> QED BY <1>2, <2>2, <2>3
<1>4. ASSUME clause' = Advance(r)
      PROVE  /\ clause' \in Runs_of(program) /\ \A q \in Rules : q # r => clause'[q] = clause[q]
             /\ clause'[r].at = clause[r].at + 1 /\ clause'[r].delays = clause[r].delays
             /\ clause'[r].status = "running"
  <2>1. PICK c : c = [clause[r] EXCEPT !.at = @ + 1, !.status = "running"]
    OBVIOUS
  <2>2. /\ c \in R /\ c.at = clause[r].at + 1 /\ c.delays = clause[r].delays
        /\ c.status = "running"
    <3>1. PICK n : n = clause[r].at + 1
      OBVIOUS
    <3>2. n \in Nat /\ c = [clause[r] EXCEPT !.at = n, !.status = "running"]
      BY <1>1, <2>1, <3>1
    <3> QED BY <1>1, <3>1, <3>2 DEF Statuses
  <2>3. clause' = [clause EXCEPT ![r] = c]
    BY <1>1, <1>4, <2>1 DEF Advance
  <2> QED BY <1>2, <2>2, <2>3
<1>5. ASSUME clause' = Delay(r)
      PROVE  /\ clause' \in Runs_of(program) /\ \A q \in Rules : q # r => clause'[q] = clause[q]
             /\ clause'[r].at = clause[r].at + 1
             /\ clause'[r].delays = clause[r].delays \cup {clause[r].at}
             /\ clause'[r].status = "running"
  <2>1. PICK c : c = [clause[r] EXCEPT !.at = @ + 1, !.status = "running",
                                       !.delays = @ \cup {clause[r].at}]
    OBVIOUS
  <2>2. /\ c \in R /\ c.at = clause[r].at + 1 /\ c.delays = clause[r].delays \cup {clause[r].at}
        /\ c.status = "running"
    <3>1. PICK n, D : n = clause[r].at + 1 /\ D = clause[r].delays \cup {clause[r].at}
      OBVIOUS
    <3>2. /\ n \in Nat /\ D \in SUBSET Nat
          /\ c = [clause[r] EXCEPT !.at = n, !.status = "running", !.delays = D]
      BY <1>1, <2>1, <3>1
    <3> QED BY <1>1, <3>1, <3>2 DEF Statuses
  <2>3. clause' = [clause EXCEPT ![r] = c]
    BY <1>1, <1>5, <2>1 DEF Delay, At
  <2> QED BY <1>2, <2>2, <2>3
<1> QED BY <1>3, <1>4, <1>5

(* The clause that runs is one of the topmost SCC. *)
LEMMA RunsInScc ==
  ASSUME Inv, NEW r \in Rules, NEW status \in {"waiting", "resumed"}, Runs(r, status)
  PROVE  /\ Evaluating /\ r[1] \in Scc /\ r[1] \in Opened
         /\ clause[r].status \in {"running", status}
         /\ \A q \in Rules : clause[q].status = "running" => q = r
<1>1. r[1] \in Scc /\ \A q \in Rules : clause[q].status = "running" => q = r
  BY DEF Runs, Inv, ClausesOK, ClauseOK
<1>2. r[1] \in Opened
  BY <1>1, OpenedGoals DEF Inv
<1> QED BY <1>1, <1>2 DEF Runs

(* The literal that a clause is at. *)
LEMMA LiteralAt ==
  ASSUME Inv, NEW r \in Rules, At(r) <= Len(Body(r))
  PROVE  /\ clause[r].at \in 1..Len(Body(r)) /\ clause[r].at + 1 \in 1..Len(Body(r)) + 1
         /\ clause[r].at \in Pending(r) /\ Literal(r) = Body(r)[clause[r].at]
         /\ Literal(r) \in Literals /\ Goal(r) = Body(r)[clause[r].at].atom /\ Goal(r) \in Atoms
         /\ Literal(r) = [sign |-> Literal(r).sign, atom |-> Goal(r)]
         /\ clause[r].delays \subseteq 1..clause[r].at - 1
         /\ clause[r].delays \subseteq 1..(clause[r].at + 1) - 1
         /\ clause[r].delays \cup {clause[r].at} \subseteq 1..(clause[r].at + 1) - 1
         /\ clause[r].at + 1 \in clause[r].at..Len(Body(r)) + 1
         /\ clause[r].at..Len(Body(r)) = {clause[r].at} \cup (clause[r].at + 1..Len(Body(r)))
<1>1. /\ clause[r].at \in 1..Len(Body(r)) + 1 /\ clause[r].delays \subseteq 1..clause[r].at - 1
      /\ Len(Body(r)) \in Nat /\ clause[r].at <= Len(Body(r))
  BY Bodies_OK DEF Inv, ClausesOK, ClauseOK, At
<1>2. PICK n, k : n = Len(Body(r)) /\ k = clause[r].at
  OBVIOUS
<1>3. n \in Nat /\ k \in 1..n /\ clause[r].delays \subseteq 1..k - 1
  BY <1>1, <1>2
<1>4. k + 1 \in 1..n + 1 /\ k \in k..n /\ k + 1 \in k..n + 1 /\ k..n = {k} \cup (k + 1..n)
  BY <1>3
<1>5. \A i \in 1..k - 1 : i \in 1..(k + 1) - 1
  BY <1>3
<1>6. k \in 1..(k + 1) - 1
  BY <1>3
<1>7. Body(r)[k] \in Literals /\ Body(r)[k].atom \in Atoms
      /\ Body(r)[k] = [sign |-> Body(r)[k].sign, atom |-> Body(r)[k].atom]
  BY <1>2, <1>3, Bodies_OK DEF Inv
<1>8. clause[r].delays \subseteq 1..(k + 1) - 1 /\ clause[r].delays \cup {k} \subseteq 1..(k + 1) - 1
  BY <1>3, <1>5, <1>6
<1>9. k \in Pending(r) /\ Literal(r) = Body(r)[k] /\ Goal(r) = Body(r)[k].atom
  BY <1>2, <1>4 DEF Pending, Literal, Goal, At
<1> QED BY <1>2, <1>3, <1>4, <1>7, <1>8, <1>9

(* The stack stays, SCCs are joined, or a goal is opened. *)
LEMMA SameGrow ==
  ASSUME Inv, UNCHANGED <<frames, leaders>>
  PROVE  FramesGrow /\ Scc' = Scc
<1>1. Opened' = Opened /\ Scc' = Scc
  BY DEF Opened, Scc, Leader
<1>2. \A a, b : Same(a, b) => Same(a, b)'
  BY DEF Same
<1>3. /\ frames \in Seq(Atoms) /\ IsInjective(frames) /\ leaders \subseteq DOMAIN frames
      /\ frames # <<>> => 1 \in leaders
  BY DEF Inv, Types, Frames
<1>4. IsInjective(frames')
  BY <1>3
<1> QED BY <1>1, <1>2, <1>3, <1>4 DEF FramesGrow

LEMMA JoinGrow ==
  ASSUME Inv, NEW a \in called \ complete, frames' = frames, leaders' = adjust_level(a)
  PROVE  FramesGrow /\ Scc \subseteq Scc' /\ \A b \in Scc : Same(b, a)'
<1>1. a \in Opened
  BY DEF called, Opened
<1>2. /\ leaders' \subseteq leaders /\ 1 \in leaders'
      /\ Opened' = Opened /\ Scc \subseteq Scc'
      /\ \A b, c : Same(b, c) => Same(b, c)'
      /\ \A b \in Scc : Same(b, a)'
  BY <1>1, JoinFrames DEF Inv
<1>3. /\ frames \in Seq(Atoms) /\ IsInjective(frames) /\ leaders \subseteq DOMAIN frames
  BY DEF Inv, Types
<1>4. IsInjective(frames')
  BY <1>3
<1> QED BY <1>2, <1>3, <1>4 DEF FramesGrow

LEMMA OpenGrow ==
  ASSUME Inv, NEW a \in Atoms \ called, Open(a)
  PROVE  FramesGrow
<1>1. a \notin Opened /\ frames' = Append(frames, a) /\ leaders' = leaders \cup {Len(frames) + 1}
  BY DEF called, Opened, Open
<1>2. /\ frames' \in Seq(Atoms) /\ IsInjective(frames') /\ leaders' \subseteq DOMAIN frames'
      /\ 1 \in leaders' /\ Opened' = Opened \cup {a}
      /\ \A b, c : Same(b, c) => Same(b, c)'
  BY <1>1, OpenFrames DEF Inv
<1> QED BY <1>2 DEF FramesGrow

(* A clause waits, is suspended, fails or goes. *)
LEMMA TurnStep ==
  ASSUME Inv, Evaluating, FramesGrow,
         UNCHANGED <<program, todo, complete, completing, answer, lists, calls, neg_fails, depth>>,
         NEW r \in Rules, NEW status \in {"waiting", "suspended", "failed", "gone"},
         clause' = Turn(r, status), r[1] \in Opened,
         clause[r].status \in {"running", "waiting", "suspended", "resumed"},
         status = "suspended" =>
           /\ At(r) <= Len(Body(r)) /\ Literal(r).sign = "neg"
           /\ \E a : a = Goal(r) /\ Same(r[1], a)',
         status = "gone" => is_unconditional_answer(r[1]),
         status = "failed" =>
           Pos(r[1]) \in Range(Body(r)) \/ \E i \in Pending(r) : Refuted(Body(r)[i]),
         Scc' = Scc \/ \A q \in Rules : clause[q].status = "running" => q = r
  PROVE  Inv' /\ Moves
<1> USE DEF Inv
<1>1. PICK F \in SUBSET Atoms : Stalled(F)
  OBVIOUS
<1>2. /\ clause' \in Runs_of(program) /\ \A q \in Rules : q # r => clause'[q] = clause[q]
      /\ clause'[r].at = clause[r].at /\ clause'[r].delays = clause[r].delays
      /\ clause'[r].status = status
  BY ClauseChanges DEF Statuses
<1>3. StallStep(F, r)
  <2>1. ASSUME r[1] \in F
        PROVE  /\ clause'[r].status # "gone"
               /\ \E i \in DOMAIN Body(r) :
                    /\ i \in clause'[r].delays \/ i = clause'[r].at
                    /\ Stalls(F, r, Body(r)[i])
    <3>1. ~ is_unconditional_answer(r[1])
      BY <1>1, <2>1 DEF Stalled
    <3>2. \E i \in DOMAIN Body(r) :
            /\ i \in clause[r].delays \/ i = clause[r].at
            /\ Stalls(F, r, Body(r)[i])
      BY <1>1, <2>1 DEF Stalled
    <3> QED BY <1>2, <3>1, <3>2
  <2> QED BY <1>2, <2>1 DEF StallStep
<1>4. Stepped(r)
  <2>1. /\ clause[r].at \in 1..Len(Body(r)) + 1 /\ clause[r].delays \subseteq 1..clause[r].at - 1
        /\ Len(Body(r)) \in Nat
    BY Bodies_OK DEF ClausesOK, ClauseOK
  <2>2. clause'[r].at \in clause[r].at..Len(Body(r)) + 1
    BY <1>2, <2>1
  <2>3. NextPending(r) = Pending(r)
    BY <1>2 DEF NextPending, Pending, At
  <2>4. status = "suspended" =>
          /\ clause'[r].at <= Len(Body(r)) /\ Body(r)[clause'[r].at].sign = "neg"
          /\ Same(r[1], Goal(r))'
    <3> HAVE status = "suspended"
    <3>1. PICK a : a = Goal(r) /\ Same(r[1], a)'
      OBVIOUS
    <3>2. Goal(r)' = a
      BY <1>2, <3>1 DEF Goal, Literal, At, Body
    <3> QED BY <1>2, <3>1, <3>2 DEF Literal, At
  <2>5. status = "gone" => is_unconditional_answer(r[1])'
    BY DEF is_unconditional_answer
  <2> QED BY <1>2, <2>1, <2>2, <2>3, <2>4, <2>5 DEF Stepped
<1>5. ASSUME NEW p \in Rules, clause'[p].status = "running"
      PROVE  p[1] \in Scc' /\ \A q \in Rules : clause'[q].status = "running" => q = p
  <2>1. p # r /\ clause[p].status = "running"
    BY <1>2, <1>5
  <2>2. p[1] \in Scc /\ \A q \in Rules : clause[q].status = "running" => q = p
    BY <2>1 DEF ClausesOK, ClauseOK
  <2> QED BY <1>2, <2>1, <2>2
<1> QED BY <1>1, <1>2, <1>3, <1>4, <1>5, ClauseStep

(* A clause passes its literal, which is resolved or delayed. *)
LEMMA RunStep ==
  ASSUME Inv, UNCHANGED <<program, todo, stack, answer, lists, simplifying>>,
         NEW r \in Rules, NEW status \in {"waiting", "resumed"}, Runs(r, status),
         At(r) <= Len(Body(r)),
         NEW F \in SUBSET Atoms, Stalled(F),
         \/ clause' = Advance(r) /\ Resolved(Literal(r))
         \/ /\ clause' = Delay(r)
            /\ Goal(r) \in Done \/ Same(r[1], Goal(r))
            /\ Literal(r).sign = "pos" => ~ subgoal_fails(Goal(r))
            /\ Literal(r).sign = "neg" => Left(Goal(r)) \/ (Goal(r) \in F /\ Same(r[1], Goal(r)))
  PROVE  Inv' /\ Moves
<1> USE DEF Inv
<1>1. /\ Evaluating /\ r[1] \in Scc /\ r[1] \in Opened
      /\ clause[r].status \in {"running", "waiting", "resumed"}
      /\ \A q \in Rules : clause[q].status = "running" => q = r
  BY RunsInScc
<1>2. PICK k : k = clause[r].at
  OBVIOUS
<1>3. /\ k \in Pending(r) /\ Literal(r) = Body(r)[k] /\ Goal(r) = Body(r)[k].atom
      /\ clause[r].delays \subseteq 1..(k + 1) - 1
      /\ clause[r].delays \cup {k} \subseteq 1..(k + 1) - 1
      /\ k + 1 \in k..Len(Body(r)) + 1
      /\ k..Len(Body(r)) = {k} \cup (k + 1..Len(Body(r)))
  BY <1>2, LiteralAt
<1>4. /\ clause' \in Runs_of(program) /\ \A q \in Rules : q # r => clause'[q] = clause[q]
      /\ clause'[r].at = k + 1 /\ clause'[r].status = "running"
      /\ \/ clause'[r].delays = clause[r].delays /\ Resolved(Body(r)[k])
         \/ /\ clause'[r].delays = clause[r].delays \cup {k} /\ NewDelay(r, k)
            /\ Body(r)[k].sign = "neg" =>
                 Left(Body(r)[k].atom) \/ (Body(r)[k].atom \in F /\ Same(r[1], Body(r)[k].atom))
  <2>1. "running" \in Statuses
    BY DEF Statuses
  <2>2. CASE clause' = Advance(r) /\ Resolved(Literal(r))
    BY <1>2, <1>3, <2>1, <2>2, ClauseChanges
  <2>3. CASE /\ clause' = Delay(r)
             /\ Goal(r) \in Done \/ Same(r[1], Goal(r))
             /\ Literal(r).sign = "pos" => ~ subgoal_fails(Goal(r))
             /\ Literal(r).sign = "neg" => Left(Goal(r)) \/ (Goal(r) \in F /\ Same(r[1], Goal(r)))
    <3>1. NewDelay(r, k)
      BY <1>3, <2>3 DEF NewDelay
    <3>2. /\ clause' \in Runs_of(program) /\ \A q \in Rules : q # r => clause'[q] = clause[q]
          /\ clause'[r].at = k + 1 /\ clause'[r].status = "running"
          /\ clause'[r].delays = clause[r].delays \cup {k}
      BY <1>2, <2>1, <2>3, ClauseChanges
    <3> QED BY <1>3, <2>3, <3>1, <3>2
  <2> QED BY <2>2, <2>3
<1>5. Resolved(Body(r)[k]) => ~ Stalls(F, r, Body(r)[k])
  <2>1. \A a \in F : ~ is_unconditional_answer(a) /\ a \notin complete
    BY DEF Stalled
  <2>2. FalseGoals = {a \in complete : subgoal_fails(a)}
    BY <1>1, WhileEvaluating
  <2> QED BY <2>1, <2>2 DEF Resolved, Stalls, Left, is_unconditional_answer,
             is_conditional_answer, subgoal_fails
<1>6. StallStep(F, r)
  <2>1. ASSUME r[1] \in F
        PROVE  \E i \in DOMAIN Body(r) : i \in clause'[r].delays /\ Stalls(F, r, Body(r)[i])
    <3>1. \E i \in DOMAIN Body(r) :
            /\ i \in clause[r].delays \/ i = clause[r].at
            /\ Stalls(F, r, Body(r)[i])
      BY <1>1, <2>1 DEF Stalled
    <3> QED BY <1>2, <1>4, <1>5, <3>1
  <2>2. \A i \in clause'[r].delays \ clause[r].delays : i = k
    BY <1>4
  <2> QED BY <1>4, <2>1, <2>2 DEF StallStep
<1>7. Stepped(r)
  <2>1. \A i \in clause'[r].delays : i \in clause[r].delays \/ NewDelay(r, i)
    BY <1>4
  <2>2. clause'[r].delays \subseteq 1..clause'[r].at - 1
    BY <1>3, <1>4
  <2>3. \A i \in Pending(r) : i \in NextPending(r) \/ Resolved(Body(r)[i])
    <3>1. NextPending(r) = clause'[r].delays \cup (k + 1..Len(Body(r)))
      BY <1>4 DEF NextPending
    <3>2. Pending(r) = clause[r].delays \cup {k} \cup (k + 1..Len(Body(r)))
      BY <1>2, <1>3 DEF Pending, At
    <3> QED BY <1>4, <3>1, <3>2
  <2> QED BY <1>1, <1>2, <1>3, <1>4, <2>1, <2>2, <2>3 DEF Stepped
<1>8. FramesGrow /\ Scc' = Scc
  BY SameGrow DEF stack
<1> QED BY <1>1, <1>4, <1>6, <1>7, <1>8, ClauseStep DEF stack, simplifying

(* No clause steps. *)
LEMMA NoClauseStep ==
  ASSUME Inv, Evaluating, FramesGrow, todo' \in Seq(Atoms),
         UNCHANGED <<program, complete, completing, answer, clause, lists, calls, neg_fails, depth>>,
         Scc' = Scc \/ \A q \in Rules : clause[q].status # "running"
  PROVE  Inv' /\ Moves
<1> USE DEF Inv
<1>1. PICK F \in SUBSET Atoms : Stalled(F)
  OBVIOUS
<1>2. /\ answer' \in [Atoms -> {"none", "cond", "uncond"}] /\ clause' \in Runs_of(program)
      /\ calls' = <<>>
  BY DEF Types, Runs_of, Evaluating
<1>3. \A p \in Rules : clause'[p].status = "running" =>
        p[1] \in Scc' /\ \A q \in Rules : clause'[q].status = "running" => q = p
  BY DEF ClausesOK, ClauseOK
<1>4. Evaluated
  BY <1>2, <1>3 DEF Evaluated
<1>5. Stalled(F)'
  <2>1. \A a \in F : ~ is_unconditional_answer(a)'
    BY <1>1 DEF Stalled, is_unconditional_answer
  <2> QED BY <1>1, <1>4, <2>1, EvaluatedStalled
<1> QED BY <1>4, <1>5, PlainStep

LEMMA QueryStep ==
  ASSUME Inv, Query
  PROVE  Inv' /\ Moves
<1> USE DEF Inv
<1>0. Evaluating /\ frames = <<>> /\ todo # <<>> /\ todo \in Seq(Atoms)
  BY DEF Query, Types
<1>1. Head(todo) \in Atoms /\ Tail(todo) \in Seq(Atoms)
  BY <1>0
<1>2. CASE Head(todo) \notin called /\ Open(Head(todo)) /\ UNCHANGED <<todo, clause>>
  <2>1. FramesGrow
    BY <1>1, <1>2, OpenGrow
  <2>2. \A q \in Rules : clause[q].status # "running"
    <3>1. Scc = {}
      BY <1>0, OpenedGoals DEF Scc
    <3> QED BY <3>1 DEF ClausesOK, ClauseOK
  <2>3. UNCHANGED <<program, complete, completing, answer, lists, calls, neg_fails, depth>>
    BY <1>2 DEF Open, simplifying
  <2> QED BY <1>0, <1>2, <2>1, <2>2, <2>3, NoClauseStep
<1>3. CASE /\ todo' = Tail(todo)
           /\ UNCHANGED <<program, stack, answer, clause, lists, simplifying>>
  <2>1. FramesGrow /\ Scc' = Scc
    BY <1>3, SameGrow DEF stack
  <2> QED BY <1>0, <1>1, <1>3, <2>1, NoClauseStep DEF stack, simplifying
<1> QED BY <1>2, <1>3 DEF Query

LEMMA CallNewStep ==
  ASSUME Inv, NEW r \in Rules, CallNew(r)
  PROVE  Inv' /\ Moves
<1>1. Runs(r, "waiting") /\ At(r) <= Len(Body(r)) /\ Goal(r) \notin called
  BY DEF CallNew, AtLiteral
<1>2. /\ Evaluating /\ r[1] \in Opened /\ clause[r].status \in {"running", "waiting"}
      /\ \A q \in Rules : clause[q].status = "running" => q = r
  BY <1>1, RunsInScc
<1>3. FramesGrow
  <2>1. Goal(r) \in Atoms \ called
    BY <1>1, LiteralAt
  <2>2. Open(Goal(r))
    BY DEF CallNew
  <2> QED BY <2>1, <2>2, OpenGrow
<1>4. /\ UNCHANGED <<program, todo, complete, completing, answer, lists, calls, neg_fails, depth>>
      /\ clause' = Turn(r, "waiting")
  BY DEF CallNew, Open, simplifying
<1> QED BY <1>2, <1>3, <1>4, TurnStep

LEMMA CallIncompleteStep ==
  ASSUME Inv, NEW r \in Rules, CallIncomplete(r)
  PROVE  Inv' /\ Moves
<1>1. Runs(r, "waiting") /\ Goal(r) \in called \ complete
  BY DEF CallIncomplete, AtLiteral
<1>2. /\ Evaluating /\ r[1] \in Opened /\ clause[r].status \in {"running", "waiting"}
      /\ \A q \in Rules : clause[q].status = "running" => q = r
  BY <1>1, RunsInScc
<1>3. FramesGrow
  BY <1>1, JoinGrow DEF CallIncomplete
<1>4. /\ UNCHANGED <<program, todo, complete, completing, answer, lists, calls, neg_fails, depth>>
      /\ clause' = Turn(r, "waiting")
  BY DEF CallIncomplete, simplifying
<1> QED BY <1>2, <1>3, <1>4, TurnStep

LEMMA SuspendStep ==
  ASSUME Inv, NEW r \in Rules, Suspend(r)
  PROVE  Inv' /\ Moves
<1>1. /\ Runs(r, "waiting") /\ Goal(r) \in called \ complete
      /\ At(r) <= Len(Body(r)) /\ Literal(r).sign = "neg"
  BY DEF Suspend, AtLiteral
<1>2. /\ Evaluating /\ r[1] \in Opened /\ r[1] \in Scc /\ clause[r].status \in {"running", "waiting"}
      /\ \A q \in Rules : clause[q].status = "running" => q = r
  BY <1>1, RunsInScc
<1>3. PICK a : a = Goal(r)
  OBVIOUS
<1>4. FramesGrow /\ Same(r[1], a)'
  BY <1>1, <1>2, <1>3, JoinGrow DEF Suspend
<1>5. /\ UNCHANGED <<program, todo, complete, completing, answer, lists, calls, neg_fails, depth>>
      /\ clause' = Turn(r, "suspended")
  BY DEF Suspend, simplifying
<1> QED BY <1>1, <1>2, <1>3, <1>4, <1>5, TurnStep

(* A step that leaves the stack alone too. *)
LEMMA StayTurnStep ==
  ASSUME Inv, Evaluating, UNCHANGED <<program, todo, stack, answer, lists, simplifying>>,
         NEW r \in Rules, NEW status \in {"failed", "gone"}, clause' = Turn(r, status),
         r[1] \in Opened, clause[r].status \in {"running", "waiting", "suspended", "resumed"},
         status = "gone" => is_unconditional_answer(r[1]),
         status = "failed" =>
           Pos(r[1]) \in Range(Body(r)) \/ \E i \in Pending(r) : Refuted(Body(r)[i])
  PROVE  Inv' /\ Moves
<1>1. FramesGrow /\ Scc' = Scc
  BY SameGrow DEF stack
<1> QED BY <1>1, TurnStep DEF stack, simplifying

LEMMA AnswerReturnStep ==
  ASSUME Inv, NEW r \in Rules, AnswerReturn(r)
  PROVE  Inv' /\ Moves
<1> USE DEF Inv
<1>1. /\ Runs(r, "waiting") /\ Goal(r) \in complete \cup Scc
      /\ At(r) <= Len(Body(r)) /\ Literal(r).sign = "pos"
      /\ UNCHANGED <<program, todo, stack, answer, lists, simplifying>>
  BY DEF AnswerReturn, AtLiteral
<1>2. /\ Evaluating /\ r[1] \in Opened /\ r[1] \in Scc
      /\ clause[r].status \in {"running", "waiting", "suspended", "resumed"}
  BY <1>1, RunsInScc
<1>3. PICK F \in SUBSET Atoms : Stalled(F)
  OBVIOUS
<1>4. /\ clause[r].at \in Pending(r) /\ Literal(r) = Body(r)[clause[r].at] /\ Goal(r) \in Atoms
      /\ Goal(r) = Literal(r).atom /\ clause[r].at \in 1..Len(Body(r))
      /\ Literal(r) = [sign |-> Literal(r).sign, atom |-> Goal(r)]
  BY <1>1, LiteralAt DEF Goal
<1>5. CASE is_unconditional_answer(Goal(r)) /\ clause' = Advance(r)
  <2>1. Resolved(Literal(r))
    BY <1>1, <1>4, <1>5 DEF Resolved
  <2> QED BY <1>1, <1>3, <1>5, <2>1, RunStep
<1>6. CASE is_conditional_answer(Goal(r)) /\ clause' = Delay(r)
  <2>1. Goal(r) \in Done \/ Same(r[1], Goal(r))
    <3>1. CASE Goal(r) \in Scc
      BY <1>2, <3>1, SccIsSame
    <3>2. CASE Goal(r) \in complete
      <4>1. ~ is_unconditional_answer(Goal(r))
        BY <1>6 DEF is_conditional_answer, is_unconditional_answer
      <4>2. Goal(r) \notin Opened
        BY <1>2, <3>2, <4>1, WhileEvaluating
      <4> QED BY <3>2, <4>2 DEF Done
    <3> QED BY <1>1, <3>1, <3>2
  <2>2. ~ subgoal_fails(Goal(r)) /\ Literal(r).sign # "neg"
    BY <1>1, <1>6 DEF is_conditional_answer, subgoal_fails
  <2> QED BY <1>1, <1>3, <1>6, <2>1, <2>2, RunStep
<1>7. CASE Goal(r) = r[1] /\ clause' = Turn(r, "failed")
  <2>1. Pos(r[1]) \in Range(Body(r))
    <3>1. DOMAIN Body(r) = 1..Len(Body(r))
      BY Bodies_OK
    <3>2. Literal(r) = Pos(r[1])
      BY <1>1, <1>4, <1>7 DEF Pos
    <3> QED BY <1>4, <3>1, <3>2 DEF Range
  <2> QED BY <1>1, <1>2, <1>7, <2>1, StayTurnStep
<1>8. CASE subgoal_fails(Goal(r)) /\ Goal(r) \in complete /\ clause' = Turn(r, "failed")
  <2>1. Refuted(Literal(r))
    BY <1>1, <1>2, <1>4, <1>8, WhileEvaluating DEF Refuted
  <2> QED BY <1>1, <1>2, <1>4, <1>8, <2>1, StayTurnStep
<1> QED BY <1>5, <1>6, <1>7, <1>8 DEF AnswerReturn

LEMMA SLG_NOT_Step ==
  ASSUME Inv, NEW r \in Rules, SLG_NOT(r)
  PROVE  Inv' /\ Moves
<1> USE DEF Inv
<1>1. PICK status \in {"waiting", "resumed"} :
        /\ Runs(r, status)
        /\ clause[r].status = "resumed" \/ (AtLiteral(r, "neg") /\ Goal(r) \in complete)
  BY DEF SLG_NOT, AtLiteral
<1>2. /\ At(r) <= Len(Body(r)) /\ Literal(r).sign = "neg"
      /\ UNCHANGED <<program, todo, stack, answer, lists, simplifying>>
  BY <1>1 DEF SLG_NOT, AtLiteral, ClausesOK, ClauseOK, At
<1>3. /\ Evaluating /\ r[1] \in Opened /\ r[1] \in Scc
      /\ clause[r].status \in {"running", "waiting", "suspended", "resumed"}
  BY <1>1, RunsInScc
<1>4. PICK F \in SUBSET Atoms : Stalled(F)
  OBVIOUS
<1>5. /\ clause[r].at \in Pending(r) /\ Literal(r) = Body(r)[clause[r].at] /\ Goal(r) \in Atoms
      /\ Goal(r) = Literal(r).atom
  BY <1>2, LiteralAt DEF Goal
<1>6. CASE NegationHolds(Goal(r)) /\ clause' = Advance(r)
  <2>1. Resolved(Literal(r))
    BY <1>2, <1>3, <1>5, <1>6, WhileEvaluating DEF Resolved, NegationHolds
  <2> QED BY <1>1, <1>2, <1>4, <1>6, <2>1, RunStep
<1>7. CASE is_unconditional_answer(Goal(r)) /\ clause' = Turn(r, "failed")
  <2>1. Refuted(Literal(r))
    BY <1>2, <1>5, <1>7 DEF Refuted
  <2> QED BY <1>2, <1>3, <1>5, <1>7, <2>1, StayTurnStep
<1>8. CASE ~ NegationHolds(Goal(r)) /\ ~ is_unconditional_answer(Goal(r)) /\ clause' = Delay(r)
  <2>1. Left(Goal(r)) \/ (Goal(r) \in F /\ Same(r[1], Goal(r)))
    <3>1. CASE clause[r].status = "resumed"
      BY <1>3, <1>4, <1>8, <3>1, WhileEvaluating DEF Stalled
    <3>2. CASE Goal(r) \in complete
      <4>1. Goal(r) \notin Opened
        BY <1>3, <1>8, <3>2, WhileEvaluating
      <4>2. is_conditional_answer(Goal(r))
        BY <1>5, <1>8, <3>2 DEF NegationHolds, subgoal_fails, is_conditional_answer,
             is_unconditional_answer, Types
      <4> QED BY <3>2, <4>1, <4>2 DEF Left, Done
    <3> QED BY <1>1, <3>1, <3>2
  <2>2. Goal(r) \in Done \/ Same(r[1], Goal(r))
    BY <2>1 DEF Left
  <2> QED BY <1>1, <1>2, <1>4, <1>8, <2>1, <2>2, RunStep
<1> QED BY <1>6, <1>7, <1>8 DEF SLG_NOT

LEMMA PruneStep ==
  ASSUME Inv, NEW r \in Rules, Prune(r)
  PROVE  Inv' /\ Moves
<1>1. Evaluating /\ r[1] \in complete /\ r[1] \in Scc /\ clause' = Turn(r, "gone")
  BY DEF Prune
<1>2. r[1] \in Opened
  BY <1>1, OpenedGoals DEF Inv
<1>3. is_unconditional_answer(r[1])
  BY <1>1, <1>2, WhileEvaluating
<1> QED BY <1>1, <1>2, <1>3, StayTurnStep DEF Prune

LEMMA RejectAnswerStep ==
  ASSUME Inv, NEW r \in Rules, RejectAnswer(r)
  PROVE  Inv' /\ Moves
<1> USE DEF Inv
<1>1. Runs(r, "waiting") /\ UNCHANGED <<program, todo, stack, answer, lists, simplifying>>
  BY DEF RejectAnswer, Proved
<1>2. /\ Evaluating /\ r[1] \in Opened
      /\ clause[r].status \in {"running", "waiting", "suspended", "resumed"}
  BY <1>1, RunsInScc
<1>3. CASE r[1] \in complete /\ clause' = Turn(r, "gone")
  <2>1. is_unconditional_answer(r[1])
    BY <1>2, <1>3, WhileEvaluating
  <2> QED BY <1>1, <1>2, <1>3, <2>1, StayTurnStep
<1>4. CASE answer_is_unsupported(r) /\ clause' = Turn(r, "failed")
  <2>1. PICK i \in clause[r].delays : is_failing_delay_element(Body(r)[i])
    BY <1>4 DEF answer_is_unsupported
  <2>2. Body(r)[i].sign \in {"pos", "neg"} /\ DelayOK(r, i) /\ r[1] \in Live
    BY <1>2, DelayPlaces, WhileEvaluating DEF DelaysOK
  <2>3. Refuted(Body(r)[i])
    BY <2>1, <2>2 DEF is_failing_delay_element, Refuted, DelayOK
  <2>4. i \in Pending(r)
    BY DEF Pending
  <2> QED BY <1>1, <1>2, <1>4, <2>3, <2>4, StayTurnStep
<1> QED BY <1>3, <1>4 DEF RejectAnswer
--------------------------------------------------------------------------
(* ANSWERS *)

(* What is left of a clause that has come to its end. *)
LEMMA AcceptedAnswer ==
  ASSUME Inv, NEW r \in Rules, AcceptsAnswer(r)
  PROVE  /\ Evaluating /\ r[1] \in Opened \ complete /\ r[1] \in Atoms
         /\ clause[r].status \in {"running", "waiting"}
         /\ \A q \in Rules : clause[q].status = "running" => q = r
         /\ clause[r].at = Len(Body(r)) + 1 /\ Len(Body(r)) \in Nat
         /\ interned(r) \subseteq clause[r].delays
         /\ \A i \in clause[r].delays : i \in interned(r) \/ Resolved(Body(r)[i])
         /\ \A i \in interned(r) : Body(r)[i].sign = "pos" => ~ is_unconditional_answer(Body(r)[i].atom)
         /\ \A F \in SUBSET Atoms : Stalled(F) /\ r[1] \in F =>
              \E i \in DOMAIN Body(r) : i \in interned(r) /\ Stalls(F, r, Body(r)[i])
<1> USE DEF Inv
<1>1. Runs(r, "waiting") /\ At(r) > Len(Body(r)) /\ r[1] \notin complete
  BY DEF AcceptsAnswer, Proved
<1>2. /\ Evaluating /\ r[1] \in Opened /\ clause[r].status \in {"running", "waiting"}
      /\ \A q \in Rules : clause[q].status = "running" => q = r
  BY <1>1, RunsInScc
<1>3. clause[r].at = Len(Body(r)) + 1 /\ Len(Body(r)) \in Nat /\ DOMAIN Body(r) = 1..Len(Body(r))
  <2>1. clause[r].at \in 1..Len(Body(r)) + 1 /\ Len(Body(r)) \in Nat
    BY Bodies_OK DEF ClausesOK, ClauseOK
  <2>2. clause[r].at = Len(Body(r)) + 1
    BY <1>1, <2>1 DEF At
  <2> QED BY <2>1, <2>2, Bodies_OK
<1>4. interned(r) \subseteq clause[r].delays
  BY DEF interned
<1>5. ASSUME NEW i \in clause[r].delays, i \notin interned(r) PROVE Resolved(Body(r)[i])
  <2>1. was_simplifiable(Body(r)[i]) /\ Body(r)[i].sign \in {"pos", "neg"}
    BY <1>5, DelayPlaces DEF interned
  <2> QED BY <1>2, <2>1, WhileEvaluating DEF was_simplifiable, Resolved
<1>6. \A i \in interned(r) : Body(r)[i].sign = "pos" => ~ is_unconditional_answer(Body(r)[i].atom)
  BY DEF interned, was_simplifiable
<1>7. ASSUME NEW F \in SUBSET Atoms, Stalled(F), r[1] \in F
      PROVE  \E i \in DOMAIN Body(r) : i \in interned(r) /\ Stalls(F, r, Body(r)[i])
  <2>1. PICK i \in DOMAIN Body(r) : /\ i \in clause[r].delays \/ i = clause[r].at
                                    /\ Stalls(F, r, Body(r)[i])
    BY <1>2, <1>7 DEF Stalled
  <2>2. i \in clause[r].delays
    BY <1>3, <2>1
  <2>3. ~ Resolved(Body(r)[i])
    <3>1. \A a \in F : ~ is_unconditional_answer(a) /\ a \notin complete
      BY <1>7 DEF Stalled
    <3>2. FalseGoals = {a \in complete : subgoal_fails(a)}
      BY <1>2, WhileEvaluating
    <3> QED BY <2>1, <3>1, <3>2 DEF Resolved, Stalls, Left, is_unconditional_answer,
               is_conditional_answer, subgoal_fails
  <2> QED BY <1>5, <2>1, <2>2, <2>3
<1> QED BY <1>1, <1>2, <1>3, <1>4, <1>5, <1>6, <1>7, Bodies_OK

(* The clause that has an answer, and what follows for the evaluation. *)
LEMMA AnswerStep ==
  ASSUME Inv, NEW r \in Rules, AcceptsAnswer(r), NEW status \in {"dl", "gone"},
         UNCHANGED <<program, todo, stack, neg_fails>>,
         clause' = [clause EXCEPT ![r].status = status, ![r].delays = interned(r)],
         NEW value \in {"cond", "uncond"}, answer' = [answer EXCEPT ![r[1]] = value],
         answer[r[1]] \in {"none", value},
         status = "dl" => value = "cond" /\ interned(r) # {},
         status = "gone" => value = "uncond" \/ Awaited(r[1])',
         value = "uncond" => answer[r[1]] = "uncond" \/ interned(r) = {},
         status = "gone" => interned(r) = {} \/ answer[r[1]] = "uncond"
  PROVE  /\ Evaluated /\ \E F \in SUBSET Atoms : Stalled(F)'
         /\ clause'[r].status = status /\ clause'[r].at = clause[r].at
         /\ clause'[r].delays = interned(r)
         /\ \A q \in Rules : q # r => clause'[q] = clause[q]
         /\ \A a \in Atoms : a # r[1] => answer'[a] = answer[a]
         /\ answer'[r[1]] = value
<1> USE DEF Inv
<1>1. /\ Evaluating /\ r[1] \in Opened \ complete /\ r[1] \in Atoms
      /\ clause[r].status \in {"running", "waiting"}
      /\ \A q \in Rules : clause[q].status = "running" => q = r
      /\ clause[r].at = Len(Body(r)) + 1 /\ Len(Body(r)) \in Nat
      /\ interned(r) \subseteq clause[r].delays
      /\ \A i \in clause[r].delays : i \in interned(r) \/ Resolved(Body(r)[i])
  BY AcceptedAnswer
<1>2. /\ clause' \in Runs_of(program) /\ \A q \in Rules : q # r => clause'[q] = clause[q]
      /\ clause'[r].at = clause[r].at /\ clause'[r].delays = interned(r)
      /\ clause'[r].status = status
  <2> DEFINE R == [at : Nat, delays : SUBSET Nat, status : Statuses]
  <2>1. clause \in [Rules -> R] /\ clause[r] \in R /\ Runs_of(program) = [Rules -> R]
    BY DEF Types, Rules, Runs_of
  <2>2. PICK c, D : D = interned(r) /\ c = [clause[r] EXCEPT !.status = status, !.delays = D]
    OBVIOUS
  <2>3. D \in SUBSET Nat
    <3>1. clause[r].delays \in SUBSET Nat
      BY <2>1
    <3> QED BY <1>1, <2>2, <3>1
  <2>4. /\ c \in R /\ c.at = clause[r].at /\ c.delays = D /\ c.status = status
    BY <2>1, <2>2, <2>3 DEF Statuses
  <2>5. clause' = [clause EXCEPT ![r] = c]
    BY <2>1, <2>2
  <2> HIDE DEF R
  <2> QED BY <2>1, <2>2, <2>4, <2>5
<1>3. /\ answer' \in [Atoms -> {"none", "cond", "uncond"}]
      /\ \A a \in Atoms : a # r[1] => answer'[a] = answer[a]
      /\ answer'[r[1]] = value
  BY <1>1 DEF Types
<1>4. FramesGrow /\ Scc' = Scc
  BY SameGrow DEF stack
<1>5. Stepped(r)
  <2>1. clause[r].delays \subseteq 1..clause[r].at - 1
    BY DEF ClausesOK, ClauseOK
  <2>2. clause'[r].at \in clause[r].at..Len(Body(r)) + 1
    BY <1>1, <1>2
  <2>3. \A i \in Pending(r) : i \in NextPending(r) \/ Resolved(Body(r)[i])
    BY <1>1, <1>2 DEF NextPending, Pending, At
  <2>4. status = "dl" => is_conditional_answer(r[1])'
    BY <1>3 DEF is_conditional_answer
  <2>5. status = "gone" => is_unconditional_answer(r[1])' \/ Awaited(r[1])'
    BY <1>3 DEF is_unconditional_answer
  <2> QED BY <1>1, <1>2, <2>1, <2>2, <2>3, <2>4, <2>5 DEF Stepped
<1>6. ASSUME NEW a \in Atoms PROVE answer'[a] = answer[a] \/ NewAnswer(a)
  <2>1. CASE a # r[1] \/ answer[r[1]] = value
    BY <1>3, <2>1
  <2>2. CASE a = r[1] /\ answer[r[1]] = "none"
    <3>1. subgoal_fails(a) /\ a \in Opened \ complete /\ clause[r].status # "failed"
      BY <1>1, <2>2 DEF subgoal_fails
    <3>2. value = "uncond" => NextPending(r) = {}
      <4> HAVE value = "uncond"
      <4>1. interned(r) = {} /\ clause'[r].at..Len(Body(r)) = {}
        BY <1>1, <1>2, <2>2
      <4> QED BY <1>2, <4>1 DEF NextPending
    <3> QED BY <1>3, <2>2, <3>1, <3>2 DEF NewAnswer
  <2> QED BY <2>1, <2>2
<1>7. \A q \in Rules : clause'[q].status # "running"
  BY <1>1, <1>2
<1>8. Evaluated
  <2>1. todo' \in Seq(Atoms)
    BY DEF Types
  <2>2. UNCHANGED <<program, complete, completing, neg_fails>>
    BY DEF stack
  <2>3. \A q \in Rules : clause'[q] = clause[q] \/ Stepped(q)
    BY <1>2, <1>5
  <2> QED BY <1>1, <1>2, <1>3, <1>4, <1>6, <1>7, <2>1, <2>2, <2>3 DEF Evaluated
<1>9. PICK F \in SUBSET Atoms : Stalled(F)
  OBVIOUS
<1>10. r[1] \in F => status = "dl"
  <2> HAVE r[1] \in F
  <2>1. interned(r) # {}
    BY <1>9, AcceptedAnswer
  <2>2. ~ is_unconditional_answer(r[1])
    BY <1>9 DEF Stalled
  <2> QED BY <2>1, <2>2 DEF is_unconditional_answer
<1>11. StallStep(F, r)
  <2>1. r[1] \in F => \E i \in DOMAIN Body(r) : i \in clause'[r].delays /\ Stalls(F, r, Body(r)[i])
    BY <1>2, <1>9, AcceptedAnswer
  <2> QED BY <1>1, <1>2, <1>10, <2>1 DEF StallStep
<1>12. \A a \in F : ~ is_unconditional_answer(a)'
  <2> TAKE a \in F
  <2>1. ~ is_unconditional_answer(a)
    BY <1>9 DEF Stalled
  <2>2. a = r[1] => value = "cond"
    BY <1>10
  <2> QED BY <1>3, <2>1, <2>2 DEF is_unconditional_answer
<1>13. Stalled(F)'
  <2>1. \A q \in Rules : clause'[q] = clause[q] \/ StallStep(F, q)
    BY <1>2, <1>11
  <2> QED BY <1>8, <1>9, <1>12, <2>1, EvaluatedStalled
<1> QED BY <1>2, <1>3, <1>8, <1>13

LEMMA ConditionalAnswerStep ==
  ASSUME Inv, NEW r \in Rules, ConditionalAnswer(r)
  PROVE  Inv' /\ Moves
<1> USE DEF Inv
<1>1. /\ AcceptsAnswer(r) /\ interned(r) # {} /\ ~ is_unconditional_answer(r[1])
      /\ answer' = [answer EXCEPT ![r[1]] = "cond"]
      /\ clause' = [clause EXCEPT ![r].status = "dl", ![r].delays = interned(r)]
      /\ nde_list' = Joined(nde_list, record_de_usage("neg", r))
      /\ pdes' = Joined(pdes, record_de_usage("pos", r))
      /\ depth' = 0 /\ UNCHANGED <<program, todo, stack, calls, neg_fails>>
  BY DEF ConditionalAnswer, Conditional
<1>2. /\ Evaluating /\ r[1] \in Atoms /\ clause[r].status # "dl"
      /\ interned(r) \subseteq clause[r].delays
      /\ \A i \in interned(r) : Body(r)[i].sign = "pos" => ~ is_unconditional_answer(Body(r)[i].atom)
  BY <1>1, AcceptedAnswer
<1>3. answer[r[1]] \in {"none", "cond"}
  BY <1>1, <1>2 DEF Types, is_unconditional_answer
<1>4. /\ Evaluated /\ \E F \in SUBSET Atoms : Stalled(F)'
      /\ clause'[r].status = "dl" /\ clause'[r].delays = interned(r)
      /\ \A q \in Rules : q # r => clause'[q] = clause[q]
      /\ \A a \in Atoms : a # r[1] => answer'[a] = answer[a]
      /\ answer'[r[1]] = "cond"
  <2>1. PICK status \in {"dl", "gone"} : status = "dl"
    OBVIOUS
  <2>2. PICK value \in {"cond", "uncond"} : value = "cond"
    OBVIOUS
  <2> QED BY <1>1, <1>3, <2>1, <2>2, AnswerStep
<1>5. ASSUME NEW sign \in {"pos", "neg"}, NEW a \in Atoms
      PROVE  ElementsOn(sign, a)' = ElementsOn(sign, a) \cup record_de_usage(sign, r)[a]
  <2>1. ASSUME NEW e PROVE e \in ElementsOn(sign, a)' <=>
                             e \in ElementsOn(sign, a) \/ e \in record_de_usage(sign, r)[a]
    <3>1. e \in ElementsOn(sign, a) <=>
             \E q \in Rules : \E i \in clause[q].delays :
               /\ e = <<q, i>> /\ clause[q].status = "dl"
               /\ Body(q)[i] = [sign |-> sign, atom |-> a]
      BY ElementIs
    <3>2. e \in ElementsOn(sign, a)' <=>
             \E q \in Rules : \E i \in clause'[q].delays :
               /\ e = <<q, i>> /\ clause'[q].status = "dl"
               /\ Body(q)[i] = [sign |-> sign, atom |-> a]
      BY <1>4, EvaluatedRest, NextElementIs
    <3>3. e \in record_de_usage(sign, r)[a] <=>
             \E i \in interned(r) : e = <<r, i>> /\ Body(r)[i] = [sign |-> sign, atom |-> a]
      <4>1. record_de_usage(sign, r)[a] =
              {x \in {r} \X interned(r) : Body(r)[x[2]] = [sign |-> sign, atom |-> a]}
        BY DEF record_de_usage
      <4>2. \A i : e = <<r, i>> => e[2] = i
        OBVIOUS
      <4> QED BY <4>1, <4>2
    <3> QED BY <1>2, <1>4, <3>1, <3>2, <3>3
  <2> QED BY <2>1
<1>6. /\ \A a \in Atoms : nde_list'[a] = ElementsOn("neg", a)' /\ pdes'[a] = ElementsOn("pos", a)'
      /\ nde_list' \in [Atoms -> SUBSET ((Atoms \X Nat) \X Nat)]
      /\ pdes' \in [Atoms -> SUBSET ((Atoms \X Nat) \X Nat)]
  <2>1. \A a \in Atoms : nde_list[a] = ElementsOn("neg", a) /\ pdes[a] = ElementsOn("pos", a)
    BY DEF ListsOK
  <2>2. nde_list' = [a \in Atoms |-> nde_list[a] \cup record_de_usage("neg", r)[a]]
        /\ pdes' = [a \in Atoms |-> pdes[a] \cup record_de_usage("pos", r)[a]]
    BY <1>1 DEF Joined
  <2>3. ASSUME NEW sign, NEW a \in Atoms
        PROVE  record_de_usage(sign, r)[a] \subseteq (Atoms \X Nat) \X Nat
    <3>1. r \in Atoms \X Nat
      <4>1. r = <<r[1], r[2]>> /\ r[2] \in 1..MaxClauses
        BY Bodies_OK
      <4>2. r[2] \in Nat
        BY <4>1, ProgramsAssumption
      <4> QED BY <1>2, <4>1, <4>2
    <3>2. interned(r) \subseteq Nat
      <4>1. clause[r].delays \in SUBSET Nat
        BY DEF Types, Rules
      <4> QED BY <1>2, <4>1
    <3> QED BY <3>1, <3>2 DEF record_de_usage
  <2> QED BY <1>5, <2>1, <2>2, <2>3 DEF Types
<1>7. ASSUME NEW a \in Atoms, is_unconditional_answer(a)' PROVE pdes'[a] = {}
  <2>1. is_unconditional_answer(a)
    BY <1>4, <1>7 DEF is_unconditional_answer
  <2>2. pdes[a] = {}
    BY <1>2, <2>1, WhileEvaluating
  <2>3. ElementsOn("pos", a) = {}
    BY <2>2 DEF ListsOK
  <2>4. record_de_usage("pos", r)[a] = {}
    <3>1. \A i \in interned(r) : Body(r)[i] # [sign |-> "pos", atom |-> a]
      BY <1>2, <2>1
    <3> QED BY <3>1 DEF record_de_usage
  <2> QED BY <1>5, <1>6, <2>3, <2>4
<1>8. ListsOK'
  BY <1>6, <1>7 DEF ListsOK
<1>9. calls' = <<>>
  BY <1>1, <1>2 DEF Evaluating
<1>10. CallsOK' /\ DepthOK'
  <2>1. CallsOK'
    BY <1>9 DEF CallsOK
  <2>2. LoopCalls(calls)' = {}
    BY <1>9 DEF LoopCalls
  <2> QED BY <1>1, <2>1, <2>2, FS_EmptySet DEF DepthOK
<1>11. Types'
  <2>1. todo' \in Seq(Atoms) /\ neg_fails' \in Seq(Atoms) /\ depth' \in Nat /\ calls' \in Seq(Calls)
        /\ program' \in DOMAIN Programs
    BY <1>1, <1>9 DEF Types
  <2>2. answer' \in [Atoms -> {"none", "cond", "uncond"}]
    BY <1>4 DEF Evaluated
  <2> QED BY <1>4, <1>6, <2>1, <2>2, EvaluatedKeeps DEF Types
<1> QED BY <1>4, <1>8, <1>10, <1>11, EvaluatedKeeps, EvaluatedClauses, EvaluatedDelays, EvaluatedMoves

LEMMA UnconditionalAnswerStep ==
  ASSUME Inv, NEW r \in Rules, UnconditionalAnswer(r)
  PROVE  Inv' /\ Moves
<1> USE DEF Inv
<1>1. /\ AcceptsAnswer(r)
      /\ interned(r) = {} \/ is_unconditional_answer(r[1])
      /\ answer' = [answer EXCEPT ![r[1]] = IF @ = "none" THEN "uncond" ELSE @]
      /\ clause' = [clause EXCEPT ![r].status = "gone", ![r].delays = interned(r)]
      /\ calls' = IF is_conditional_answer(r[1])
                    THEN <<Call("new_answer", "old", r[1]),
                           Call("pos_unconditional", "enter", r[1])>>
                    ELSE <<Call("new_answer", IF subgoal_fails(r[1]) THEN "new" ELSE "old", r[1])>>
      /\ depth' = 0 /\ UNCHANGED <<program, todo, stack, lists, neg_fails>>
  BY DEF UnconditionalAnswer, Conditional
<1>2. /\ Evaluating /\ r[1] \in Atoms /\ r[1] \in Opened /\ clause[r].status # "dl"
      /\ clause[r].at = Len(Body(r)) + 1
  BY <1>1, AcceptedAnswer
<1>3. PICK a : a = r[1]
  OBVIOUS
<1>4. PICK c, d : c = Call("new_answer", IF subgoal_fails(a) THEN "new" ELSE "old", a)
                  /\ d = Call("pos_unconditional", "enter", a)
  OBVIOUS
<1>5. /\ c \in Calls /\ c.op = "new_answer" /\ c.step \in {"new", "old"} /\ c.atom = a
      /\ d \in Calls /\ d.op = "pos_unconditional" /\ d.step = "enter" /\ d.atom = a
  BY <1>2, <1>3, <1>4 DEF Call, Calls
<1>6. \/ is_conditional_answer(a) /\ calls' = <<c, d>> /\ Awaited(a)'
      \/ ~ is_conditional_answer(a) /\ calls' = <<c>>
  <2>1. CASE is_conditional_answer(a)
    <3>1. ~ subgoal_fails(a)
      BY <2>1 DEF is_conditional_answer, subgoal_fails
    <3>2. calls' = <<c, d>>
      BY <1>1, <1>3, <1>4, <2>1, <3>1
    <3>3. Top' = d /\ calls' # <<>>
      <4>1. Len(<<c, d>>) = 2 /\ <<c, d>>[2] = d /\ <<c, d>> # <<>>
        OBVIOUS
      <4> QED BY <3>2, <4>1 DEF Top, Last
    <3> QED BY <1>4, <2>1, <3>2, <3>3 DEF Awaited, Call
  <2>2. CASE ~ is_conditional_answer(a)
    BY <1>1, <1>3, <1>4, <2>2
  <2> QED BY <2>1, <2>2
<1>7. PICK value \in {"cond", "uncond"} :
        /\ answer' = [answer EXCEPT ![a] = value] /\ answer[a] \in {"none", value}
        /\ value = "uncond" \/ is_conditional_answer(a)
  <2>1. answer[a] \in {"none", "cond", "uncond"}
    BY <1>2, <1>3 DEF Types
  <2>2. CASE answer[a] = "cond"
    <3>1. PICK value \in {"cond", "uncond"} : value = "cond"
      OBVIOUS
    <3>2. answer' = [answer EXCEPT ![a] = value]
      BY <1>1, <1>3, <2>2, <3>1
    <3> QED BY <2>2, <3>1, <3>2 DEF is_conditional_answer
  <2>3. CASE answer[a] # "cond"
    <3>1. PICK value \in {"cond", "uncond"} : value = "uncond"
      OBVIOUS
    <3>2. answer' = [answer EXCEPT ![a] = value]
      BY <1>1, <1>3, <2>1, <2>3, <3>1
    <3> QED BY <2>1, <2>3, <3>1, <3>2
  <2> QED BY <2>2, <2>3
<1>8. /\ Evaluated /\ \E F \in SUBSET Atoms : Stalled(F)'
      /\ clause'[r].status = "gone" /\ clause'[r].at = clause[r].at
      /\ clause'[r].delays = interned(r)
      /\ \A q \in Rules : q # r => clause'[q] = clause[q]
      /\ \A b \in Atoms : b # a => answer'[b] = answer[b]
      /\ answer'[a] = value
  <2>1. PICK status \in {"dl", "gone"} : status = "gone"
    OBVIOUS
  <2>2. value = "uncond" \/ Awaited(r[1])'
    BY <1>3, <1>6, <1>7
  <2>3. interned(r) = {} \/ answer[r[1]] = "uncond"
    BY <1>1 DEF is_unconditional_answer
  <2>4. /\ UNCHANGED <<program, todo, stack, neg_fails>>
        /\ answer' = [answer EXCEPT ![r[1]] = value] /\ answer[r[1]] \in {"none", value}
    BY <1>1, <1>3, <1>7
  <2>5. clause' = [clause EXCEPT ![r].status = status, ![r].delays = interned(r)]
    BY <1>1, <2>1
  <2> QED BY <1>1, <1>3, <2>1, <2>2, <2>3, <2>4, <2>5, AnswerStep
<1>9. ASSUME NEW sign \in {"pos", "neg"}, NEW b \in Atoms
      PROVE  ElementsOn(sign, b)' = ElementsOn(sign, b)
  <2>1. \A q \in Rules : clause'[q].status = "dl" \/ clause[q].status = "dl" => clause'[q] = clause[q]
    BY <1>2, <1>8
  <2>2. ASSUME NEW e PROVE e \in ElementsOn(sign, b)' <=> e \in ElementsOn(sign, b)
    <3>1. e \in ElementsOn(sign, b) <=>
             \E q \in Rules : \E i \in clause[q].delays :
               /\ e = <<q, i>> /\ clause[q].status = "dl"
               /\ Body(q)[i] = [sign |-> sign, atom |-> b]
      BY ElementIs
    <3>2. e \in ElementsOn(sign, b)' <=>
             \E q \in Rules : \E i \in clause'[q].delays :
               /\ e = <<q, i>> /\ clause'[q].status = "dl"
               /\ Body(q)[i] = [sign |-> sign, atom |-> b]
      BY <1>8, EvaluatedRest, NextElementIs
    <3> QED BY <2>1, <3>1, <3>2
  <2> QED BY <2>2
<1>10. ASSUME NEW b \in Atoms, is_unconditional_answer(b)' PROVE pdes'[b] = {}
  <2>1. CASE is_unconditional_answer(b)
    BY <1>1, <1>2, <2>1, WhileEvaluating DEF lists
  <2>2. CASE ~ is_unconditional_answer(b)
    <3>1. b = a /\ value = "uncond"
      BY <1>8, <1>10, <2>2 DEF is_unconditional_answer
    <3>2. subgoal_fails(a)
      BY <1>7, <2>2, <3>1 DEF is_unconditional_answer, subgoal_fails
    <3>3. ASSUME NEW e \in pdes[b] PROVE FALSE
      <4>1. e \in ElementsOn("pos", b)
        BY <3>3 DEF ListsOK
      <4>2. PICK q, i :
              /\ q \in Rules /\ i \in clause[q].delays
              /\ clause[q].status = "dl" /\ Body(q)[i] = [sign |-> "pos", atom |-> b]
        BY <4>1, ElementIs
      <4>3. DelayOK(q, i) /\ Body(q)[i].sign = "pos" /\ Body(q)[i].atom = b /\ q[1] \in Atoms
        BY <4>2, Bodies_OK DEF DelaysOK
      <4>4. q[1] \in called
        <5>1. clause[q].status # Start.status
          BY <4>2 DEF Start
        <5> QED BY <4>2, <4>3, <5>1 DEF Uncalled
      <4>5. q[1] \notin Opened
        BY <1>2, <3>1, <3>2, <4>3, WhileEvaluating DEF DelayOK
      <4>6. q[1] \in Done
        BY <4>4, <4>5 DEF Done, called, Opened
      <4>7. b \in Done
        BY <4>2, <4>3, <4>6 DEF DelayOK
      <4> QED BY <1>2, <1>3, <3>1, <4>7 DEF Done
    <3> QED BY <1>1, <3>3 DEF lists
  <2> QED BY <2>1, <2>2
<1>11. ListsOK'
  <2>1. \A b \in Atoms : nde_list'[b] = ElementsOn("neg", b)' /\ pdes'[b] = ElementsOn("pos", b)'
    BY <1>1, <1>9 DEF ListsOK, lists
  <2> QED BY <1>10, <2>1 DEF ListsOK
<1>12. /\ CallOK(c)' /\ CallOK(d)'
  <2>1. a \in Zone'
    <3>1. completing = 0
      BY <1>2 DEF Evaluating
    <3> QED BY <1>1, <1>2, <1>3, <3>1 DEF Zone, Opened, stack
  <2>2. is_unconditional_answer(a)' \/ Awaited(a)'
    BY <1>6, <1>7, <1>8 DEF is_unconditional_answer
  <2> QED BY <1>5, <2>1, <2>2 DEF CallOK
<1>13. CallsOK' /\ LoopCalls(calls)' = {} /\ calls' \in Seq(Calls)
  <2>1. CASE is_conditional_answer(a) /\ calls' = <<c, d>>
    <3>1. /\ calls' \in Seq(Calls) /\ DOMAIN calls' = {1, 2} /\ Len(calls') = 2
          /\ calls'[1] = c /\ calls'[2] = d /\ calls' # <<>>
      <4>1. <<c, d>> \in Seq(Calls) /\ Len(<<c, d>>) = 2 /\ <<c, d>>[1] = c /\ <<c, d>>[2] = d
            /\ <<c, d>> # <<>> /\ 1..2 = {1, 2}
        BY <1>5
      <4> QED BY <2>1, <4>1
    <3>2. Top' = d
      BY <3>1 DEF Top, Last
    <3>3. is_conditional_answer(a)' /\ \E q \in Rules' : q[1] = a /\ Proof(q)'
      <4>1. interned(r) = {} /\ value = "cond"
        BY <1>1, <1>3, <1>7, <2>1 DEF is_conditional_answer, is_unconditional_answer
      <4>2. r \in Rules' /\ Body(r)' = Body(r)
        BY <1>8, EvaluatedRest
      <4>3. Proof(r)'
        BY <1>2, <1>8, <4>1, <4>2 DEF Proof
      <4> QED BY <1>3, <1>8, <4>1, <4>2, <4>3 DEF is_conditional_answer
    <3>4. TopOK'
      BY <1>5, <3>2, <3>3 DEF TopOK
    <3>5. LoopCalls(calls)' = {}
      BY <1>5, <3>1 DEF LoopCalls
    <3> QED BY <1>5, <1>12, <3>1, <3>4, <3>5 DEF CallsOK
  <2>2. CASE calls' = <<c>>
    <3>1. /\ calls' \in Seq(Calls) /\ DOMAIN calls' = {1} /\ Len(calls') = 1
          /\ calls'[1] = c /\ calls' # <<>>
      <4>1. <<c>> \in Seq(Calls) /\ Len(<<c>>) = 1 /\ <<c>>[1] = c /\ <<c>> # <<>> /\ 1..1 = {1}
        BY <1>5
      <4> QED BY <2>2, <4>1
    <3>2. Top' = c
      BY <3>1 DEF Top, Last
    <3>4. TopOK'
      BY <1>5, <3>2 DEF TopOK
    <3>5. LoopCalls(calls)' = {}
      BY <1>5, <3>1 DEF LoopCalls
    <3> QED BY <1>5, <1>12, <3>1, <3>4, <3>5 DEF CallsOK
  <2> QED BY <1>6, <2>1, <2>2
<1>14. DepthOK'
  <2>1. depth' = 0 /\ LoopCalls(calls)' = {}
    BY <1>1, <1>13
  <2> QED BY <2>1, FS_EmptySet DEF DepthOK
<1>15. Types'
  <2>1. todo' \in Seq(Atoms) /\ neg_fails' \in Seq(Atoms) /\ depth' \in Nat
        /\ program' \in DOMAIN Programs
        /\ nde_list' \in [Atoms -> SUBSET ((Atoms \X Nat) \X Nat)]
        /\ pdes' \in [Atoms -> SUBSET ((Atoms \X Nat) \X Nat)]
    BY <1>1 DEF Types, lists
  <2>2. answer' \in [Atoms -> {"none", "cond", "uncond"}]
    BY <1>8 DEF Evaluated
  <2> QED BY <1>8, <1>13, <2>1, <2>2, EvaluatedKeeps DEF Types
<1> QED BY <1>8, <1>11, <1>13, <1>14, <1>15, EvaluatedKeeps, EvaluatedClauses, EvaluatedDelays, EvaluatedMoves
--------------------------------------------------------------------------
(* COMPLETION *)

(* What a clause with nothing to do is stuck at. *)
LEMMA SettledClause ==
  ASSUME Inv, Fixpoint
  PROVE  /\ \A r \in Rules : clause[r].status # "running"
         /\ \A r \in Rules : r[1] \in Scc =>
              \/ clause[r].status \in {"failed", "dl", "gone", "suspended"}
              \/ /\ clause[r].status = "waiting" /\ At(r) <= Len(Body(r))
                 /\ Literal(r).sign = "pos"
                 /\ Goal(r) \in Scc \ complete /\ subgoal_fails(Goal(r))
<1>1. \A r \in Rules : r[1] \in Scc => Settled(r)
  BY DEF Fixpoint
<1>2. \A r \in Rules : clause[r].status = "running" => r[1] \in Scc
  BY DEF Inv, ClausesOK, ClauseOK
<1> QED BY <1>1, <1>2 DEF Settled, AtLiteral

LEMMA SuspensionsStep ==
  ASSUME Inv, ProcessSuspensionFrames
  PROVE  Inv' /\ Moves
<1> USE DEF Inv
<1>1. /\ Fixpoint /\ Evaluating /\ UNCHANGED <<program, todo, stack, answer, lists, simplifying>>
      /\ clause' = [r \in Rules |->
           IF r \notin Suspensions THEN clause[r]
           ELSE [clause[r] EXCEPT !.status = AfterSuspension(r)]]
  BY DEF ProcessSuspensionFrames, Fixpoint
<1>2. FramesGrow /\ Scc' = Scc
  BY <1>1, SameGrow DEF stack
<1>3. ASSUME NEW r \in Suspensions
      PROVE  /\ r \in Rules /\ r[1] \in Scc /\ r[1] \in Opened /\ clause[r].status = "suspended"
             /\ At(r) <= Len(Body(r)) /\ Literal(r).sign = "neg" /\ Same(r[1], Goal(r))
             /\ Goal(r) \in Scc /\ Goal(r) \in Opened
             /\ Goal(r) \in complete => is_unconditional_answer(Goal(r))
             /\ clause'[r].at = clause[r].at /\ clause'[r].delays = clause[r].delays
             /\ \/ Goal(r) \in complete /\ clause'[r].status = "failed"
                \/ r[1] \in complete /\ clause'[r].status = "gone"
                \/ /\ clause'[r].status = "resumed"
                   /\ Goal(r) \notin complete /\ r[1] \notin complete
  <2>1. r \in Rules /\ r[1] \in Scc /\ clause[r].status = "suspended"
    BY DEF Suspensions
  <2>2. r[1] \in Live /\ r[1] \in Opened
    BY <1>1, <2>1, OpenedGoals, WhileEvaluating
  <2>3. At(r) <= Len(Body(r)) /\ Literal(r).sign = "neg" /\ Same(r[1], Goal(r))
    BY <2>1, <2>2 DEF ClausesOK, ClauseOK, At
  <2>4. Goal(r) \in Scc /\ Goal(r) \in Opened
    BY <2>1, <2>3, SccIsSame
  <2>5. clause[r] \in [at : Nat, delays : SUBSET Nat, status : Statuses]
    BY <2>1 DEF Types, Rules
  <2>6. clause'[r] = [clause[r] EXCEPT !.status = AfterSuspension(r)]
    BY <1>1, <2>1
  <2> QED BY <1>1, <2>1, <2>2, <2>3, <2>4, <2>5, <2>6, WhileEvaluating DEF AfterSuspension
<1>4. \A r \in Rules : r \notin Suspensions => clause'[r] = clause[r]
  BY <1>1
<1>5. clause' \in Runs_of(program)
  <2>1. ASSUME NEW r \in Rules PROVE clause'[r] \in [at : Nat, delays : SUBSET Nat, status : Statuses]
    <3>1. clause[r] \in [at : Nat, delays : SUBSET Nat, status : Statuses]
      BY DEF Types, Rules
    <3>2. AfterSuspension(r) \in Statuses
      BY DEF AfterSuspension, Statuses
    <3> QED BY <1>1, <3>1, <3>2
  <2> QED BY <1>1, <2>1 DEF Runs_of, Rules, Types
<1>6. ASSUME NEW r \in Suspensions PROVE Stepped(r)
  <2>1. r \in Rules /\ clause[r].at \in Pending(r) /\ Literal(r) = Body(r)[clause[r].at] /\ clause[r].at \in 1..Len(Body(r))
        /\ clause[r].delays \subseteq 1..clause[r].at - 1 /\ Goal(r) = Literal(r).atom
    BY <1>3, LiteralAt DEF Goal
  <2>2. clause'[r].at \in clause[r].at..Len(Body(r)) + 1 /\ clause'[r].at <= Len(Body(r))
    <3>1. Len(Body(r)) \in Nat
      BY <2>1, Bodies_OK
    <3> QED BY <1>3, <2>1, <3>1
  <2>3. NextPending(r) = Pending(r)
    BY <1>3 DEF NextPending, Pending, At
  <2>4. r[1] \in complete => is_unconditional_answer(r[1])'
    BY <1>1, <1>3, WhileEvaluating DEF is_unconditional_answer
  <2>5. Goal(r) \in complete => Refuted(Body(r)[clause[r].at])
    BY <1>3, <2>1 DEF Refuted
  <2> QED BY <1>3, <2>1, <2>2, <2>3, <2>4, <2>5 DEF Stepped
<1>7. \A r \in Rules : clause'[r].status # "running" /\ (clause'[r] = clause[r] \/ clause'[r].status # "dl")
  <2> TAKE r \in Rules
  <2>1. CASE r \in Suspensions
    BY <1>3, <2>1
  <2>2. CASE r \notin Suspensions
    BY <1>1, <1>4, <2>2, SettledClause
  <2> QED BY <2>1, <2>2
<1>8. Evaluated
  <2>1. todo' \in Seq(Atoms) /\ answer' \in [Atoms -> {"none", "cond", "uncond"}]
    BY <1>1 DEF Types
  <2> QED BY <1>1, <1>2, <1>4, <1>5, <1>6, <1>7, <2>1 DEF Evaluated, stack, simplifying
<1>9. PICK F \in SUBSET Atoms : Stalled(F)
  OBVIOUS
<1>10. PICK G : G = F \cup {a \in Scc \ complete : ~ is_unconditional_answer(a)}
  OBVIOUS
<1>11. /\ Live' = Opened /\ Live = Opened /\ Rules' = Rules /\ \A r : Body(r)' = Body(r)
       /\ \A a, b : Same(a, b)' <=> Same(a, b)
       /\ complete' = complete /\ Scc \subseteq Opened /\ Opened \subseteq Atoms
       /\ \A a : /\ is_unconditional_answer(a)' <=> is_unconditional_answer(a)
                 /\ Left(a)' <=> Left(a)
  <2>1. Opened' = Opened /\ Live' = Opened' /\ Live = Opened
    BY <1>1, <1>8, EvaluatedRest DEF Opened, stack
  <2>2. \A a, b : Same(a, b)' <=> Same(a, b)
    BY <1>1 DEF Same, stack
  <2>3. Done' = Done
    BY <1>8, EvaluatedRest
  <2>4. \A a : /\ is_unconditional_answer(a)' <=> is_unconditional_answer(a)
               /\ Left(a)' <=> Left(a)
    BY <1>1, <2>3 DEF is_unconditional_answer, is_conditional_answer, Left
  <2> QED BY <1>1, <1>8, <2>1, <2>2, <2>4, EvaluatedRest, OpenedGoals DEF stack
<1>12. ASSUME NEW r, NEW l PROVE Stalls(F, r, l) => Stalls(G, r, l)
  BY <1>10 DEF Stalls
<1>14. ASSUME NEW r \in Suspensions, clause'[r].status = "resumed"
       PROVE  is_unconditional_answer(Goal(r)) \/ (Goal(r) \in G /\ Same(r[1], Goal(r)))
  BY <1>3, <1>10, <1>14
<1>15. ASSUME NEW r \in Rules, r[1] \in G
       PROVE  \/ clause'[r].status = "failed"
              \/ /\ clause'[r].status # "gone"
                 /\ \E i \in DOMAIN Body(r) :
                      /\ i \in clause'[r].delays \/ i = clause'[r].at
                      /\ Stalls(G, r, Body(r)[i])
  <2>0. /\ ~ is_unconditional_answer(r[1]) /\ r[1] \notin complete
        /\ DOMAIN Body(r) = 1..Len(Body(r)) /\ Len(Body(r)) \in Nat
    BY <1>9, <1>10, <1>15, Bodies_OK DEF Stalled
  <2>1. CASE r \in Suspensions
    <3>1. /\ clause[r].at \in DOMAIN Body(r) /\ Literal(r) = Body(r)[clause[r].at]
          /\ Goal(r) = Body(r)[clause[r].at].atom
      BY <1>3, <2>0, <2>1, LiteralAt
    <3>2. clause'[r].status = "failed" \/ Stalls(G, r, Body(r)[clause[r].at])
      <4>1. clause'[r].status \in {"failed", "resumed"} /\ Literal(r).sign = "neg"
        BY <1>3, <2>0, <2>1
      <4>2. CASE clause'[r].status = "failed"
        BY <4>2
      <4>3. CASE clause'[r].status = "resumed"
        <5>1. is_unconditional_answer(Goal(r)) \/ (Goal(r) \in G /\ Same(r[1], Goal(r)))
          BY <1>14, <2>1, <4>3
        <5> QED BY <3>1, <4>1, <5>1 DEF Stalls
      <4> QED BY <4>1, <4>2, <4>3
    <3>3. clause'[r].status # "gone" /\ clause'[r].at = clause[r].at
      BY <1>3, <2>0, <2>1
    <3> QED BY <3>1, <3>2, <3>3
  <2>2. CASE r \notin Suspensions /\ r[1] \in F
    BY <1>4, <1>9, <1>12, <2>2 DEF Stalled
  <2>3. CASE r \notin Suspensions /\ r[1] \in Scc
    <3>1. clause'[r] = clause[r] /\ clause[r].status # "suspended"
      BY <1>4, <2>3 DEF Suspensions
    <3>2. clause[r].status # "gone"
      BY <1>1, <2>0, WhileEvaluating
    <3>3. CASE /\ clause[r].status = "waiting" /\ At(r) <= Len(Body(r))
               /\ Goal(r) \in Scc \ complete /\ subgoal_fails(Goal(r))
      <4>1. ~ is_unconditional_answer(Goal(r)) /\ Same(r[1], Goal(r))
        BY <2>3, <3>3, SccIsSame DEF is_unconditional_answer, subgoal_fails
      <4>2. clause[r].at \in DOMAIN Body(r) /\ Goal(r) = Body(r)[clause[r].at].atom
        BY <2>0, <3>3, LiteralAt
      <4>3. Stalls(G, r, Body(r)[clause[r].at])
        BY <1>10, <3>3, <4>1, <4>2 DEF Stalls
      <4> QED BY <3>1, <3>2, <4>2, <4>3
    <3>4. CASE clause[r].status = "dl"
      <4>1. PICK i \in clause[r].delays : TRUE
        BY <1>1, <3>4, WhileEvaluating
      <4>2. i \in DOMAIN Body(r) /\ Body(r)[i].atom \in Atoms /\ Body(r)[i].sign \in {"pos", "neg"}
            /\ Body(r)[i] = [sign |-> Body(r)[i].sign, atom |-> Body(r)[i].atom]
        BY <2>0, DelayPlaces
      <4>3. r[1] \in Live
        BY <1>11, <2>3
      <4>4. CASE Body(r)[i].sign = "neg"
        <5>1. Stalls(F, r, Body(r)[i])
          BY <1>9, <4>3, <4>4 DEF Stalled, Stalls
        <5> QED BY <1>12, <3>1, <3>2, <4>2, <5>1
      <4>5. CASE Body(r)[i].sign = "pos"
        <5>1. PICK b \in Atoms : b = Body(r)[i].atom
          BY <4>2
        <5>2. <<r, i>> \in ElementsOn("pos", b)
          <6>1. Body(r)[i] = [sign |-> "pos", atom |-> b]
            BY <4>2, <4>5, <5>1
          <6>2. PICK e : e = <<r, i>>
            OBVIOUS
          <6>3. e \in ElementsOn("pos", b)
            BY <3>4, <6>1, <6>2, ElementIs
          <6> QED BY <6>2, <6>3
        <5>3. ~ is_unconditional_answer(b)
          BY <1>1, <5>2, WhileEvaluating DEF ListsOK
        <5>4. DelayOK(r, i)
          BY DEF DelaysOK
        <5>5. is_conditional_answer(b)
          BY <4>3, <4>5, <5>1, <5>3, <5>4 DEF DelayOK, subgoal_fails, is_unconditional_answer,
             is_conditional_answer, Types
        <5>6. b \in Done \/ Same(r[1], b)
          BY <1>11, <4>3, <5>1, <5>4 DEF DelayOK
        <5>7. Stalls(G, r, Body(r)[i])
          <6>1. CASE b \in Done
            BY <5>1, <5>5, <6>1 DEF Stalls, Left
          <6>2. CASE Same(r[1], b)
            <7>1. b \in Scc /\ b \in Opened
              BY <2>3, <6>2, SccIsSame
            <7>2. b \notin complete
              BY <1>1, <5>3, <7>1, WhileEvaluating
            <7> QED BY <1>10, <5>1, <5>3, <6>2, <7>1, <7>2 DEF Stalls
          <6> QED BY <5>6, <6>1, <6>2
        <5> QED BY <3>1, <3>2, <4>2, <5>7
      <4> QED BY <4>2, <4>4, <4>5
    <3> QED BY <1>1, <2>3, <3>1, <3>2, <3>3, <3>4, SettledClause
  <2> QED BY <1>10, <1>15, <2>1, <2>2, <2>3
<1>16. Stalled(G)'
  <2>1. G \subseteq Live' \ complete' /\ \A a \in G : ~ is_unconditional_answer(a)'
    BY <1>9, <1>10, <1>11 DEF Stalled
  <2>2. ASSUME NEW r \in Rules, r[1] \in G
        PROVE  \/ clause'[r].status = "failed"
               \/ /\ clause'[r].status # "gone"
                  /\ \E i \in DOMAIN Body(r) :
                       /\ i \in clause'[r].delays \/ i = clause'[r].at
                       /\ Stalls(G, r, Body(r)[i])
    BY <1>15, <2>2
  <2>3. ASSUME NEW r \in Rules, r[1] \in Live', clause'[r].status = "resumed"
        PROVE  is_unconditional_answer(Goal(r))' \/ (Goal(r)' \in G /\ Same(r[1], Goal(r))')
    <3>1. is_unconditional_answer(Goal(r)) \/ (Goal(r) \in G /\ Same(r[1], Goal(r)))
      <4>1. CASE r \in Suspensions
        BY <1>14, <2>3, <4>1
      <4>2. CASE r \notin Suspensions
        BY <1>4, <1>9, <1>10, <1>11, <2>3, <4>2 DEF Stalled
      <4> QED BY <4>1, <4>2
    <3>2. clause'[r].at = clause[r].at
      BY <1>3, <1>4
    <3>3. Goal(r)' = Goal(r)
      BY <1>11, <3>2 DEF Goal, Literal, At
    <3>4. PICK b : b = Goal(r)
      OBVIOUS
    <3> QED BY <1>11, <3>1, <3>3, <3>4
  <2>4. ASSUME NEW r \in Rules, r[1] \in Live', NEW i \in clause'[r].delays, Body(r)[i].sign = "neg"
        PROVE  \/ Body(r)[i].atom \in G /\ Same(r[1], Body(r)[i].atom)'
               \/ Left(Body(r)[i].atom)'
    <3>1. i \in clause[r].delays
      BY <1>3, <1>4
    <3> QED BY <1>9, <1>10, <1>11, <2>4, <3>1 DEF Stalled
  <2> QED BY <1>11, <2>1, <2>2, <2>3, <2>4 DEF Stalled, Stalls
<1>17. G \in SUBSET Atoms
  BY <1>10, <1>11
<1> QED BY <1>1, <1>7, <1>8, <1>16, <1>17, PlainStep DEF simplifying

(* Steps by which goals are given to completion or leave it: the clauses   *)
(* and the answers stay as they are.                                       *)
Closes ==
  /\ UNCHANGED <<program, todo, answer, clause, lists, neg_fails, depth>> /\ calls = <<>>
  /\ called' = called /\ Opened' \subseteq Opened /\ Live' \subseteq Live /\ Done \subseteq Done'
  /\ complete' \cap Live' \subseteq complete /\ complete \subseteq complete'
  /\ complete' \subseteq complete \cup Closing \cup Closing'
  /\ Closing \subseteq complete' \cup Closing'
  /\ \A a \in Done' \ Done : a \in Opened /\ \A b : Same(a, b) => b \in Done'
  /\ \A a, b : Same(a, b) /\ a \in Opened' => Same(a, b)'
  /\ \A a, b : Same(a, b) /\ a \in Live' => b \in Live'
  /\ \A r \in Rules : clause[r].status # "running"
  /\ \A r \in Rules : r[1] \in Closing' =>
       \/ clause[r].status \in {"failed", "dl", "gone"}
       \/ /\ clause[r].status = "waiting" /\ At(r) <= Len(Body(r))
          /\ Literal(r).sign = "pos" /\ Goal(r) \in Closing' /\ subgoal_fails(Goal(r))

LEMMA ClosesRest ==
  ASSUME Inv, Closes
  PROVE  /\ Rules' = Rules /\ \A r : Body(r)' = Body(r) /\ clause' = clause /\ answer' = answer
         /\ \A r : Goal(r)' = Goal(r) /\ Literal(r)' = Literal(r) /\ At(r)' = At(r)
         /\ \A r : Pending(r)' = Pending(r)
         /\ \A a : /\ is_unconditional_answer(a)' <=> is_unconditional_answer(a)
                   /\ is_conditional_answer(a)' <=> is_conditional_answer(a)
                   /\ subgoal_fails(a)' <=> subgoal_fails(a)
         /\ neg_fails = <<>>
         /\ \A r \in Rules :
              /\ clause[r].status = "gone" => is_unconditional_answer(r[1])
              /\ clause[r].status = "dl" => clause[r].delays # {} /\ is_conditional_answer(r[1])
         /\ \A a \in Atoms : is_unconditional_answer(a) => pdes[a] = {}
<1> USE DEF Inv
<1>1. program' = program /\ clause' = clause /\ answer' = answer /\ calls = <<>>
  BY DEF Closes
<1>2. \A r : Body(r)' = Body(r)
  BY <1>1 DEF Body
<1>3. \A r : Literal(r)' = Literal(r) /\ At(r)' = At(r)
  BY <1>1, <1>2 DEF Literal, At
<1>4. \A r : Goal(r)' = Goal(r)
  BY <1>3 DEF Goal
<1>5. \A r : Pending(r)' = Pending(r)
  BY <1>1, <1>2, <1>3 DEF Pending
<1>6. neg_fails = <<>>
  BY <1>1 DEF StackOK, in_simplify_neg_fails
<1>7. ASSUME NEW r \in Rules
      PROVE  /\ clause[r].status = "gone" => is_unconditional_answer(r[1])
             /\ clause[r].status = "dl" => clause[r].delays # {} /\ is_conditional_answer(r[1])
  BY <1>1 DEF ClausesOK, ClauseOK, Awaited
<1>8. \A a \in Atoms : is_unconditional_answer(a) => pdes[a] = {}
  BY <1>1 DEF ListsOK
<1> QED BY <1>1, <1>2, <1>3, <1>4, <1>5, <1>6, <1>7, <1>8
        DEF Rules, is_unconditional_answer, is_conditional_answer, subgoal_fails

LEMMA ClosesMoves ==
  ASSUME Inv, Closes
  PROVE  Moves
<1> USE DEF Inv
<1>1. FalseGoals = {a \in complete \cup Closing : subgoal_fails(a)}
  BY DEF FalseGoals, Closing
<1>2. FalseGoals' = {a \in complete' \cup Closing' : subgoal_fails(a)}
  <2>1. FalseGoals' = {a \in complete' \cup Closing' : subgoal_fails(a)'}
    BY DEF FalseGoals, Closing
  <2> QED BY <2>1, ClosesRest
<1>3. FalseGoals \subseteq FalseGoals'
  BY <1>1, <1>2 DEF Closes
<1>4. ASSUME NEW r \in Rules, r[1] \in FalseGoals' \ FalseGoals
      PROVE  \/ clause'[r].status = "failed"
             \/ \E i \in Pending(r)' : Body(r)[i].sign = "pos" /\ Body(r)[i].atom \in FalseGoals'
  <2>1. r[1] \in Closing' /\ subgoal_fails(r[1])
    BY <1>1, <1>2, <1>4 DEF Closes
  <2>2. ~ is_unconditional_answer(r[1]) /\ ~ is_conditional_answer(r[1])
    BY <2>1 DEF subgoal_fails, is_unconditional_answer, is_conditional_answer
  <2>3. clause[r].status \notin {"dl", "gone"} /\ clause' = clause
    BY <2>2, ClosesRest
  <2>4. CASE clause[r].status = "failed"
    BY <2>3, <2>4
  <2>5. CASE /\ At(r) <= Len(Body(r)) /\ Literal(r).sign = "pos"
             /\ Goal(r) \in Closing' /\ subgoal_fails(Goal(r))
    <3>1. clause[r].at \in Pending(r)' /\ Body(r)[clause[r].at].sign = "pos"
          /\ Body(r)[clause[r].at].atom = Goal(r)
      BY <2>5, LiteralAt, ClosesRest
    <3> QED BY <1>2, <2>5, <3>1
  <2> QED BY <2>1, <2>3, <2>4, <2>5 DEF Closes
<1>5. program' = program
  BY DEF Closes
<1>6. \A r \in Rules : Pending(r)' = Pending(r) /\ clause'[r] = clause[r]
  BY ClosesRest
<1> QED BY <1>3, <1>4, <1>5, <1>6, ClosesRest DEF Moves

LEMMA ClosesClauses ==
  ASSUME Inv, Closes
  PROVE  ClausesOK'
<1> USE DEF Inv
<1> SUFFICES ASSUME NEW r \in Rules PROVE ClauseOK(r)'
  BY ClosesRest DEF ClausesOK
<1>1. ClauseOK(r)
  BY DEF ClausesOK
<1>2. /\ clause' = clause /\ Body(r)' = Body(r) /\ Goal(r)' = Goal(r) /\ Literal(r)' = Literal(r)
      /\ clause[r].status = "gone" => is_unconditional_answer(r[1])'
      /\ clause[r].status = "dl" => clause[r].delays # {} /\ is_conditional_answer(r[1])'
      /\ clause[r].status # "running"
      /\ subgoal_fails(Goal(r)) => subgoal_fails(Goal(r))'
  <2>1. \A a : subgoal_fails(a) => answer'[a] = "none"
    BY ClosesRest DEF subgoal_fails
  <2>2. Goal(r)' = Goal(r)
    BY ClosesRest
  <2>3. subgoal_fails(Goal(r)) => subgoal_fails(Goal(r))'
    BY <2>1, <2>2 DEF subgoal_fails
  <2> QED BY <2>3, ClosesRest DEF Closes
<1>3. clause'[r].at \in 1..Len(Body(r)') + 1
      /\ clause'[r].delays \subseteq 1..clause'[r].at - 1
  BY <1>1, <1>2 DEF ClauseOK
<1>4. clause'[r].status \in {"suspended", "resumed"} =>
        clause'[r].at <= Len(Body(r)') /\ Literal(r)'.sign = "neg"
  BY <1>1, <1>2 DEF ClauseOK
<1>5. clause'[r].status = "suspended" /\ r[1] \in Live' => Same(r[1], Goal(r))'
  <2> SUFFICES ASSUME clause[r].status = "suspended", r[1] \in Live' PROVE Same(r[1], Goal(r))'
    BY <1>2
  <2>1. Same(r[1], Goal(r)) /\ r[1] \in Opened'
    BY <1>1 DEF ClauseOK, Closes, Live
  <2>2. PICK b : b = Goal(r)
    OBVIOUS
  <2>3. Same(r[1], b)' /\ Goal(r)' = b
    BY <1>2, <2>1, <2>2 DEF Closes
  <2> QED BY <2>3
<1>6. r[1] \in Closing' =>
       \/ clause'[r].status \in {"failed", "dl", "gone"}
       \/ /\ clause'[r].status = "waiting"
          /\ clause'[r].at <= Len(Body(r)') /\ Literal(r)'.sign = "pos"
          /\ Goal(r)' \in Closing' /\ subgoal_fails(Goal(r))'
  <2>1. \/ clause[r].status \in {"failed", "dl", "gone"}
        \/ r[1] \notin Closing'
        \/ /\ clause[r].status = "waiting" /\ clause[r].at <= Len(Body(r))
           /\ Literal(r).sign = "pos" /\ Goal(r) \in Closing' /\ subgoal_fails(Goal(r))
    BY DEF Closes, At
  <2>2. CASE /\ clause[r].status = "waiting" /\ clause[r].at <= Len(Body(r))
             /\ Literal(r).sign = "pos" /\ Goal(r) \in Closing' /\ subgoal_fails(Goal(r))
    <3>1. clause'[r].status = "waiting" /\ clause'[r].at <= Len(Body(r)')
      BY <1>2, <2>2
    <3>2. Literal(r)'.sign = "pos" /\ Goal(r)' \in Closing' /\ subgoal_fails(Goal(r))'
      BY <1>2, <2>2
    <3> QED BY <3>1, <3>2
  <2>3. CASE clause[r].status \in {"failed", "dl", "gone"}
    <3>1. clause'[r].status \in {"failed", "dl", "gone"}
      BY <1>2, <2>3
    <3> QED BY <3>1
  <2> QED BY <2>1, <2>2, <2>3
<1>7. clause'[r].status = "dl" => clause'[r].at = Len(Body(r)') + 1 /\ clause'[r].delays # {}
  BY <1>1, <1>2 DEF ClauseOK
<1> QED BY <1>2, <1>3, <1>4, <1>5, <1>6, <1>7 DEF ClauseOK

LEMMA ClosesDelays ==
  ASSUME Inv, Closes
  PROVE  DelaysOK'
<1> USE DEF Inv
<1> SUFFICES ASSUME NEW r \in Rules, NEW i \in clause[r].delays PROVE DelayOK(r, i)'
  BY ClosesRest DEF DelaysOK
<1>1. DelayOK(r, i)
  BY DEF DelaysOK
<1>2. PICK b : b = Body(r)[i].atom
  OBVIOUS
<1>3. clause' = clause /\ Body(r)' = Body(r)
  BY ClosesRest
<1>4. r[1] \in Opened' => b \in Done' \/ Same(r[1], b)'
  BY <1>1, <1>2 DEF DelayOK, Closes
<1>5. r[1] \in Done' /\ clause[r].status = "dl" => b \in Done'
  <2>1. CASE r[1] \in Done
    BY <1>1, <1>2, <2>1 DEF DelayOK, Closes
  <2>2. CASE r[1] \notin Done
    BY <1>1, <1>2, <2>2 DEF DelayOK, Closes
  <2> QED BY <2>1, <2>2
<1>6. r[1] \in Live' /\ Body(r)[i].sign = "pos" => ~ subgoal_fails(b)'
  <2>1. subgoal_fails(b)' <=> subgoal_fails(b)
    BY ClosesRest
  <2> QED BY <1>1, <1>2, <2>1 DEF DelayOK, Closes
<1>7. ~ subgoal_fails(b)' => ~ subgoal_fails(Body(r)[i].atom)'
  BY <1>2, <1>3 DEF subgoal_fails
<1> QED BY <1>2, <1>3, <1>4, <1>5, <1>6, <1>7 DEF DelayOK

LEMMA ClosesStalled ==
  ASSUME Inv, Closes
  PROVE  \E F \in SUBSET Atoms : Stalled(F)'
<1> USE DEF Inv
<1>1. PICK F \in SUBSET Atoms : Stalled(F)
  OBVIOUS
<1>2. PICK G : G = F \cap Live'
  OBVIOUS
<1>3. /\ Rules' = Rules /\ \A r : Body(r)' = Body(r) /\ clause' = clause
      /\ \A r : Goal(r)' = Goal(r)
      /\ \A a : is_unconditional_answer(a)' <=> is_unconditional_answer(a)
      /\ \A a : Left(a) => Left(a)'
  BY ClosesRest DEF Left, Closes
<1>4. \A a, b : a \in Live' /\ b \in F /\ Same(a, b) => b \in G /\ Same(a, b)'
  <2>1. \A a : a \in Live' => a \in Opened'
    BY DEF Live
  <2> QED BY <1>2, <2>1 DEF Closes
<1>5. ASSUME NEW r \in Rules, r[1] \in Live', NEW l, Stalls(F, r, l)
      PROVE  \/ l.atom \in G /\ Same(r[1], l.atom)'
             \/ Left(l.atom)'
             \/ l.sign = "neg" /\ is_unconditional_answer(l.atom)'
  BY <1>3, <1>4, <1>5 DEF Stalls
<1>6. G \subseteq Live' \ complete' /\ \A a \in G : ~ is_unconditional_answer(a)'
  BY <1>1, <1>2, <1>3 DEF Stalled, Closes
<1>7. ASSUME NEW r \in Rules, r[1] \in G
      PROVE  \/ clause[r].status = "failed"
             \/ /\ clause[r].status # "gone"
                /\ \E i \in DOMAIN Body(r) :
                     /\ i \in clause[r].delays \/ i = clause[r].at
                     /\ \/ Body(r)[i].atom \in G /\ Same(r[1], Body(r)[i].atom)'
                        \/ Left(Body(r)[i].atom)'
                        \/ Body(r)[i].sign = "neg" /\ is_unconditional_answer(Body(r)[i].atom)'
  <2>1. r[1] \in F /\ r[1] \in Live'
    BY <1>2, <1>7
  <2>2. CASE clause[r].status = "failed"
    BY <2>2
  <2>3. CASE clause[r].status # "failed"
    <3>1. clause[r].status # "gone"
      BY <1>1, <2>1, <2>3 DEF Stalled
    <3>2. PICK i \in DOMAIN Body(r) :
            /\ i \in clause[r].delays \/ i = clause[r].at
            /\ Stalls(F, r, Body(r)[i])
      BY <1>1, <2>1, <2>3 DEF Stalled
    <3>3. \/ Body(r)[i].atom \in G /\ Same(r[1], Body(r)[i].atom)'
          \/ Left(Body(r)[i].atom)'
          \/ Body(r)[i].sign = "neg" /\ is_unconditional_answer(Body(r)[i].atom)'
      <4>1. PICK l : l = Body(r)[i]
        OBVIOUS
      <4>2. \/ l.atom \in G /\ Same(r[1], l.atom)'
            \/ Left(l.atom)'
            \/ l.sign = "neg" /\ is_unconditional_answer(l.atom)'
        BY <1>5, <2>1, <3>2, <4>1
      <4>3. PICK b : b = l.atom
        OBVIOUS
      <4> QED BY <1>3, <4>1, <4>2, <4>3 DEF Left, Same, is_unconditional_answer, is_conditional_answer
    <3> QED BY <3>1, <3>2, <3>3
  <2> QED BY <2>2, <2>3
<1>8. ASSUME NEW r \in Rules, r[1] \in Live', clause[r].status = "resumed"
      PROVE  is_unconditional_answer(Goal(r))' \/ (Goal(r)' \in G /\ Same(r[1], Goal(r))')
  <2>1. PICK b : b = Goal(r)
    OBVIOUS
  <2>2. is_unconditional_answer(b) \/ (b \in F /\ Same(r[1], b))
    BY <1>1, <1>8, <2>1 DEF Stalled, Closes
  <2>3. is_unconditional_answer(b)' \/ (b \in G /\ Same(r[1], b)')
    BY <1>3, <1>4, <1>8, <2>2
  <2>4. Goal(r)' = b
    BY <1>3, <2>1
  <2> QED BY <2>3, <2>4
<1>9. ASSUME NEW r \in Rules, r[1] \in Live', NEW i \in clause[r].delays, Body(r)[i].sign = "neg"
      PROVE  \/ Body(r)[i].atom \in G /\ Same(r[1], Body(r)[i].atom)'
             \/ Left(Body(r)[i].atom)'
  <2>1. \/ Body(r)[i].atom \in F /\ Same(r[1], Body(r)[i].atom)
        \/ Left(Body(r)[i].atom)
    BY <1>1, <1>9 DEF Stalled, Closes
  <2> QED BY <1>3, <1>4, <1>9, <2>1
<1>10. Stalled(G)'
  BY <1>3, <1>6, <1>7, <1>8, <1>9 DEF Stalled, Stalls
<1> QED BY <1>1, <1>2, <1>10

(* All of the invariant but what the step does to the stack and the calls. *)
LEMMA ClosesStep ==
  ASSUME Inv, Closes
  PROVE  /\ Moves
         /\ EarlyCompleted' /\ Uncalled' /\ ClausesOK' /\ DelaysOK' /\ ListsOK' /\ StackOK'
         /\ \E F \in SUBSET Atoms : Stalled(F)'
         /\ program' \in DOMAIN Programs /\ todo' \in Seq(Atoms)
         /\ answer' \in [Atoms -> {"none", "cond", "uncond"}]
         /\ clause' \in [Clauses(program)' -> [at : Nat, delays : SUBSET Nat, status : Statuses]]
         /\ nde_list' \in [Atoms -> SUBSET ((Atoms \X Nat) \X Nat)]
         /\ pdes' \in [Atoms -> SUBSET ((Atoms \X Nat) \X Nat)]
         /\ neg_fails' \in Seq(Atoms) /\ depth' \in Nat /\ depth' = depth
<1> USE DEF Inv
<1>1. EarlyCompleted'
  BY ClosesRest DEF EarlyCompleted, Closes
<1>2. Uncalled'
  BY ClosesRest DEF Uncalled, Closes, Start
<1>3. StackOK'
  BY ClosesRest DEF StackOK, Closes
<1>4. ListsOK'
  <2>1. UNCHANGED <<nde_list, pdes, program, clause, answer>>
    BY DEF Closes, lists
  <2>2. ASSUME NEW sign \in {"pos", "neg"}, NEW a \in Atoms, NEW e
        PROVE  e \in ElementsOn(sign, a)' <=> e \in ElementsOn(sign, a)
    <3>1. e \in ElementsOn(sign, a) <=>
             \E r \in Rules : \E i \in clause[r].delays :
               /\ e = <<r, i>> /\ clause[r].status = "dl"
               /\ Body(r)[i] = [sign |-> sign, atom |-> a]
      BY ElementIs
    <3>2. e \in ElementsOn(sign, a)' <=>
             \E r \in Rules : \E i \in clause'[r].delays :
               /\ e = <<r, i>> /\ clause'[r].status = "dl"
               /\ Body(r)[i] = [sign |-> sign, atom |-> a]
      BY ClosesRest, NextElementIs
    <3> QED BY <2>1, <3>1, <3>2
  <2>3. \A a \in Atoms : is_unconditional_answer(a)' => pdes'[a] = {}
    BY <2>1, ClosesRest
  <2>4. \A sign \in {"pos", "neg"}, a \in Atoms : ElementsOn(sign, a)' = ElementsOn(sign, a)
    BY <2>2
  <2>5. \A a \in Atoms : nde_list'[a] = ElementsOn("neg", a)' /\ pdes'[a] = ElementsOn("pos", a)'
    BY <2>1, <2>4 DEF ListsOK
  <2> QED BY <2>3, <2>5 DEF ListsOK
<1>5. UNCHANGED <<program, todo, answer, clause, nde_list, pdes, neg_fails, depth>>
  BY DEF Closes, lists
<1>6. Clauses(program)' = Clauses(program)
  BY <1>5 DEF Clauses
<1>7. /\ program' \in DOMAIN Programs /\ todo' \in Seq(Atoms)
      /\ answer' \in [Atoms -> {"none", "cond", "uncond"}]
      /\ clause' \in [Clauses(program)' -> [at : Nat, delays : SUBSET Nat, status : Statuses]]
      /\ nde_list' \in [Atoms -> SUBSET ((Atoms \X Nat) \X Nat)]
      /\ pdes' \in [Atoms -> SUBSET ((Atoms \X Nat) \X Nat)]
      /\ neg_fails' \in Seq(Atoms) /\ depth' \in Nat /\ depth' = depth
  BY <1>5, <1>6 DEF Types
<1> QED BY <1>1, <1>2, <1>3, <1>4, <1>7, ClosesMoves, ClosesClauses, ClosesDelays, ClosesStalled

(* The topmost SCC is given to completion. *)
LEMMA StartCompletionStep ==
  ASSUME Inv, StartCompletion
  PROVE  Inv' /\ Moves
<1> USE DEF Inv
<1>1. /\ Fixpoint /\ Evaluating /\ frames # <<>> /\ Suspensions = {} /\ completing' = Leader
      /\ UNCHANGED <<program, todo, frames, leaders, complete, answer, clause, nde_list, pdes,
                     calls, neg_fails, depth>>
  BY DEF StartCompletion, Fixpoint, lists, simplifying
<1>2. calls = <<>> /\ completing = 0 /\ Closing = {} /\ Live = Opened /\ Scc \subseteq Opened
  BY <1>1, WhileEvaluating, OpenedGoals
<1>3. Leader \in 1..Len(frames) /\ Len(frames) \in Nat
  BY <1>1, LeaderIs, OpenedGoals
<1>4. Opened' = Opened /\ Scc' = Scc /\ Leader' = Leader
  BY <1>1 DEF Opened, Scc, Leader
<1>5. completing' # 0 /\ Closing' = Scc /\ Live' = Opened \ Scc /\ Zone' = Scc
  BY <1>1, <1>3, <1>4 DEF Closing, Live, Zone
<1>6. Closes
  <2>1. called' = called /\ Done' = Done
    BY <1>1, <1>4 DEF called, Opened, Done
  <2>2. \A a, b : Same(a, b) => Same(a, b)'
    BY <1>1 DEF Same
  <2>3. \A a, b : Same(a, b) /\ a \in Live' => b \in Live'
    BY <1>5, SccIsSame
  <2>4. ASSUME NEW r \in Rules
        PROVE  /\ clause[r].status # "running"
               /\ r[1] \in Scc =>
                    \/ clause[r].status \in {"failed", "dl", "gone"}
                    \/ /\ clause[r].status = "waiting" /\ At(r) <= Len(Body(r))
                       /\ Literal(r).sign = "pos"
                       /\ Goal(r) \in Scc /\ subgoal_fails(Goal(r))
    BY <1>1, SettledClause DEF Suspensions
  <2> QED BY <1>1, <1>2, <1>4, <1>5, <2>1, <2>2, <2>3, <2>4 DEF Closes, lists
<1>7. Types'
  <2>1. completing' \in Nat /\ completing' <= Len(frames) + 1
    BY <1>1, <1>3
  <2> QED BY <1>1, <1>6, <2>1, ClosesStep DEF Types
<1>8. Frames'
  <2>1. ASSUME NEW f \in DOMAIN frames PROVE ~ (Leader <= f /\ f < Leader)
    BY <1>3, OpenedGoals
  <2> QED BY <1>1, <1>3, <1>4, <2>1 DEF Frames
<1>9. CallsOK' /\ DepthOK'
  <2>1. calls = <<>> /\ calls' = <<>> /\ depth' = depth
    BY <1>1, <1>2
  <2>2. CallsOK'
    BY <2>1 DEF CallsOK
  <2> QED BY <2>1, <2>2 DEF DepthOK, LoopCalls
<1> QED BY <1>6, <1>7, <1>8, <1>9, ClosesStep

(* One goal of the SCC is marked as complete. *)
LEMMA CompleteGoalStep ==
  ASSUME Inv, CompleteGoal
  PROVE  Inv' /\ Moves
<1> USE DEF Inv
<1>1. PICK a : a = frames[completing]
  OBVIOUS
<1>2. /\ completing \in DOMAIN frames /\ calls = <<>> /\ complete' = complete \cup {a}
      /\ calls' = MayPush(neg_simplif_possible(a), Call("neg_fails", "enter", a))
      /\ completing' = completing + 1
      /\ UNCHANGED <<program, todo, frames, leaders, answer, clause, nde_list, pdes,
                     neg_fails, depth>>
  BY <1>1 DEF CompleteGoal, lists
<1>3. /\ completing \in 1..Len(frames) /\ Len(frames) \in Nat /\ DOMAIN frames = 1..Len(frames)
      /\ completing # 0 /\ completing' # 0 /\ frames # <<>>
      /\ completing' \in Nat /\ completing' <= Len(frames) + 1
  <2>1. completing \in 1..Len(frames) /\ Len(frames) \in Nat /\ DOMAIN frames = 1..Len(frames)
    BY <1>2, OpenedGoals
  <2> QED BY <1>2, <2>1, EmptySeq
<1>4. Leader \in 1..Len(frames) /\ Leader <= completing
  BY <1>3, LeaderIs DEF Frames
<1>5. Opened' = Opened /\ Scc' = Scc /\ Leader' = Leader
  BY <1>2 DEF Opened, Scc, Leader
<1>6. /\ Closing' = Scc /\ Closing = Scc /\ Live' = Live /\ Live = Opened \ Scc /\ Zone' = Scc
      /\ Scc \subseteq Opened
  BY <1>3, <1>5, OpenedGoals DEF Closing, Live, Zone
<1>7. a \in Scc /\ a \in Opened /\ a \in Atoms
  <2>1. completing >= Leader
    BY <1>3, <1>4
  <2>2. a \in Scc
    BY <1>1, <1>2, <2>1 DEF Scc
  <2> QED BY <2>2, OpenedGoals
<1>8. Closes
  <2>1. called' = called /\ Done' = Done
    BY <1>2, <1>5, <1>7 DEF called, Opened, Done
  <2>2. \A x, b : Same(x, b) => Same(x, b)'
    BY <1>2 DEF Same
  <2>3. \A x, b : Same(x, b) /\ x \in Live' => b \in Live'
    BY <1>6, SccIsSame
  <2>4. ASSUME NEW r \in Rules
        PROVE  /\ clause[r].status # "running"
               /\ r[1] \in Scc =>
                    \/ clause[r].status \in {"failed", "dl", "gone"}
                    \/ /\ clause[r].status = "waiting" /\ At(r) <= Len(Body(r))
                       /\ Literal(r).sign = "pos"
                       /\ Goal(r) \in Scc /\ subgoal_fails(Goal(r))
    BY <1>3, <1>6 DEF ClausesOK, ClauseOK, Evaluating, At
  <2> QED BY <1>2, <1>5, <1>6, <1>7, <2>1, <2>2, <2>3, <2>4 DEF Closes, lists
<1>9. PICK c : c = Call("neg_fails", "enter", a)
  OBVIOUS
<1>10. /\ c \in Calls /\ c.op = "neg_fails" /\ c.step = "enter" /\ c.atom = a
       /\ calls' = <<>> \/ (calls' = <<c>> /\ subgoal_fails(a))
  <2>1. c \in Calls /\ c.op = "neg_fails" /\ c.step = "enter" /\ c.atom = a
    BY <1>7, <1>9 DEF Call, Calls
  <2>2. Append(<<>>, c) = <<c>>
    OBVIOUS
  <2> QED BY <1>2, <1>9, <2>1, <2>2 DEF MayPush, neg_simplif_possible
<1>11. Types'
  <2>1. calls' \in Seq(Calls)
    <3>1. <<c>> \in Seq(Calls) /\ calls \in Seq(Calls)
      BY <1>10 DEF Types
    <3> QED BY <1>2, <1>10, <3>1
  <2>2. complete' \subseteq Atoms
    BY <1>2, <1>7 DEF Types
  <2> QED BY <1>2, <1>3, <1>8, <2>1, <2>2, ClosesStep DEF Types
<1>12. Frames'
  <2>1. ASSUME NEW f \in DOMAIN frames, Leader <= f, f < completing' PROVE frames[f] \in complete'
    <3>1. f \in 1..Len(frames) /\ f < completing + 1 /\ completing \in 1..Len(frames)
      BY <1>2, <1>3, <2>1
    <3>2. f < completing \/ f = completing
      BY <3>1
    <3>3. CASE f < completing
      BY <1>2, <1>3, <2>1, <3>3 DEF Frames
    <3>4. CASE f = completing
      BY <1>1, <1>2, <3>4
    <3> QED BY <3>2, <3>3, <3>4
  <2>2. Leader <= completing'
    BY <1>2, <1>3, <1>4
  <2> QED BY <1>2, <1>3, <1>5, <2>1, <2>2 DEF Frames
<1>13. CallsOK'
  <2>1. CASE calls' = <<>>
    BY <2>1 DEF CallsOK
  <2>2. CASE calls' = <<c>> /\ subgoal_fails(a)
    <3>1. Len(calls') = 1 /\ DOMAIN calls' = {1} /\ calls'[1] = c
      BY <2>2
    <3>2. subgoal_fails(a)' /\ a \in complete' /\ a \in Zone'
      BY <1>2, <1>6, <1>7, <2>2 DEF subgoal_fails
    <3>3. Top' = c
      <4>1. Top' = calls'[Len(calls')]
        BY <2>2 DEF Top, Last
      <4> QED BY <3>1, <4>1
    <3>4. CallOK(c)'
      BY <1>3, <1>10, <3>2 DEF CallOK
    <3>5. TopOK'
      BY <1>10, <3>3 DEF TopOK
    <3> QED BY <1>10, <3>1, <3>4, <3>5 DEF CallsOK
  <2> QED BY <1>10, <2>1, <2>2
<1>14. DepthOK'
  <2>1. LoopCalls(calls)' = {}
    <3>1. \A i \in DOMAIN calls' : calls'[i].step # "loop"
      BY <1>10
    <3> QED BY <3>1 DEF LoopCalls
  <2>2. depth' \in Nat /\ Cardinality({}) = 0
    BY <1>8, ClosesStep, FS_EmptySet
  <2> QED BY <2>1, <2>2 DEF DepthOK
<1> QED BY <1>8, <1>11, <1>12, <1>13, <1>14, ClosesStep

(* The SCC is popped. *)
LEMMA FinishCompletionStep ==
  ASSUME Inv, FinishCompletion
  PROVE  Inv' /\ Moves
<1> USE DEF Inv
<1>1. /\ completing = Len(frames) + 1 /\ calls = <<>> /\ completing' = 0
      /\ frames' = SubSeq(frames, 1, Leader - 1) /\ leaders' = Older(Leader)
      /\ UNCHANGED <<program, todo, complete, answer, clause, nde_list, pdes,
                     calls, neg_fails, depth>>
  BY DEF FinishCompletion, lists, simplifying
<1>2. Len(frames) \in Nat /\ completing # 0 /\ frames # <<>>
  <2>1. Len(frames) \in Nat
    BY OpenedGoals
  <2>2. completing # 0
    BY <1>1, <2>1
  <2> QED BY <2>1, <2>2 DEF Frames
<1>3. /\ frames' \in Seq(Atoms) /\ IsInjective(frames') /\ leaders' \subseteq DOMAIN frames'
      /\ frames' # <<>> => 1 \in leaders'
      /\ Opened' = Opened \ Scc
      /\ \A b, c : Same(b, c) /\ b \notin Scc => Same(b, c)'
  BY <1>1, <1>2, PopFrames
<1>4. Scc \subseteq complete /\ Scc \subseteq Opened
  <2>1. Scc = {frames[f] : f \in {f \in DOMAIN frames : f >= Leader}}
    BY DEF Scc
  <2>2. Leader \in 1..Len(frames) /\ DOMAIN frames = 1..Len(frames)
    BY <1>2, LeaderIs, OpenedGoals
  <2>3. ASSUME NEW f \in DOMAIN frames, f >= Leader PROVE frames[f] \in complete
    <3>1. Leader <= f /\ f < completing
      BY <1>1, <1>2, <2>2, <2>3
    <3> QED BY <1>2, <3>1 DEF Frames
  <2> QED BY <2>1, <2>3, OpenedGoals
<1>5. /\ Closing' = {} /\ Closing = Scc /\ Live = Opened \ Scc /\ Live' = Opened \ Scc
      /\ Done' = Done \cup Scc
  BY <1>1, <1>2, <1>3, <1>4 DEF Closing, Live, Done
<1>6. Closes
  <2>1. called' = called
    BY <1>1, <1>3, <1>4 DEF called, Opened
  <2>2. \A a, b : Same(a, b) => (a \in Opened /\ b \in Opened /\ (a \in Scc <=> b \in Scc))
    BY SccIsSame
  <2>3. ASSUME NEW r \in Rules PROVE clause[r].status # "running"
    BY <1>2 DEF ClausesOK, ClauseOK, Evaluating
  <2> QED BY <1>1, <1>3, <1>4, <1>5, <2>1, <2>2, <2>3 DEF Closes, lists
<1>7. Types'
  <2>1. completing' \in Nat /\ completing' <= Len(frames') + 1
    <3>1. frames' \in Seq(Atoms) /\ completing' = 0
      BY <1>1, <1>3
    <3> QED BY <3>1
  <2>2. calls' \in Seq(Calls) /\ complete' \subseteq Atoms
    BY <1>1 DEF Types
  <2> QED BY <1>3, <1>6, <2>1, <2>2, ClosesStep DEF Types
<1>8. Frames'
  BY <1>1, <1>3 DEF Frames
<1>9. CallsOK' /\ DepthOK'
  <2>1. calls = <<>> /\ calls' = <<>> /\ depth' = depth
    BY <1>1
  <2>2. CallsOK'
    BY <2>1 DEF CallsOK
  <2> QED BY <2>1, <2>2 DEF DepthOK, LoopCalls
<1> QED BY <1>6, <1>7, <1>8, <1>9, ClosesStep
--------------------------------------------------------------------------
(* THEOREMS *)

LEMMA EvaluateStep ==
  ASSUME Inv, Evaluate
  PROVE  Inv' /\ Moves
<1>1. PICK r \in Rules :
        \/ CallNew(r) \/ CallIncomplete(r) \/ AnswerReturn(r)
        \/ Suspend(r) \/ SLG_NOT(r) \/ Prune(r)
        \/ RejectAnswer(r) \/ ConditionalAnswer(r) \/ UnconditionalAnswer(r)
  BY DEF Evaluate
<1> QED BY <1>1, CallNewStep, CallIncompleteStep, AnswerReturnStep, SuspendStep, SLG_NOT_Step,
           PruneStep, RejectAnswerStep, ConditionalAnswerStep, UnconditionalAnswerStep

(* Each step keeps the invariant and moves the residual program on. *)
LEMMA StepInv ==
  ASSUME Inv, Step
  PROVE  Inv' /\ Moves
<1>1. CASE Query
  BY <1>1, QueryStep
<1>2. CASE Evaluate
  BY <1>2, EvaluateStep
<1>3. CASE Simplify
  BY <1>3, SimplifyInv, SimplifyIsSimplified, SimplifiedMoves
<1>4. CASE ProcessSuspensionFrames
  BY <1>4, SuspensionsStep
<1>5. CASE StartCompletion
  BY <1>5, StartCompletionStep
<1>6. CASE CompleteGoal
  BY <1>6, CompleteGoalStep
<1>7. CASE FinishCompletion
  BY <1>7, FinishCompletionStep
<1> QED BY <1>1, <1>2, <1>3, <1>4, <1>5, <1>6, <1>7 DEF Step

LEMMA StutterInv ==
  ASSUME Inv, UNCHANGED vars
  PROVE  Inv' /\ UNCHANGED Residual!vars
<1> USE DEF Inv
<1>1. UNCHANGED <<program, todo, frames, leaders, complete, completing, answer, clause,
                  nde_list, pdes, calls, neg_fails, depth>>
  BY DEF vars
<1>2. /\ Opened' = Opened /\ Scc' = Scc /\ Closing' = Closing /\ Live' = Live /\ Zone' = Zone
      /\ Done' = Done /\ called' = called /\ Leader' = Leader
      /\ \A a, b : Same(a, b)' <=> Same(a, b)
  BY <1>1, KeptFrames DEF Done, called
<1>3. /\ Rules' = Rules /\ \A r : Body(r)' = Body(r) /\ Literal(r)' = Literal(r)
      /\ \A r : Goal(r)' = Goal(r) /\ At(r)' = At(r)
      /\ \A a : /\ is_unconditional_answer(a)' <=> is_unconditional_answer(a)
                /\ is_conditional_answer(a)' <=> is_conditional_answer(a)
                /\ subgoal_fails(a)' <=> subgoal_fails(a)
                /\ Left(a)' <=> Left(a)
      /\ Evaluating' <=> Evaluating
      /\ Top' = Top
  <2>1. Rules' = Rules /\ \A r : Body(r)' = Body(r) /\ Literal(r)' = Literal(r)
    BY <1>1 DEF Rules, Body, Literal, At
  <2>2. \A r : Goal(r)' = Goal(r) /\ At(r)' = At(r)
    BY <1>1, <2>1 DEF Goal, At
  <2>3. /\ \A a : /\ is_unconditional_answer(a)' <=> is_unconditional_answer(a)
                  /\ is_conditional_answer(a)' <=> is_conditional_answer(a)
                  /\ subgoal_fails(a)' <=> subgoal_fails(a)
                  /\ Left(a)' <=> Left(a)
        /\ Evaluating' <=> Evaluating
    BY <1>1, <1>2 DEF is_unconditional_answer, is_conditional_answer, subgoal_fails, Left, Evaluating
  <2>4. Top' = Top
    BY <1>1 DEF Top
  <2> QED BY <2>1, <2>2, <2>3, <2>4
<1>4. \A a : Awaited(a)' <=> Awaited(a)
  BY <1>1, <1>3 DEF Awaited
<1>5. Types'
  <2>1. Clauses(program)' = Clauses(program)
    BY <1>1 DEF Clauses
  <2> QED BY <1>1, <2>1 DEF Types
<1>6. Frames' /\ EarlyCompleted' /\ Uncalled'
  BY <1>1, <1>2, <1>3 DEF Frames, EarlyCompleted, Uncalled, Start
<1>7. ClausesOK'
  <2> SUFFICES ASSUME NEW r \in Rules PROVE ClauseOK(r)'
    BY <1>3 DEF ClausesOK
  <2>1. ClauseOK(r)
    BY DEF ClausesOK
  <2>2. PICK b : b = Goal(r)
    OBVIOUS
  <2>3. /\ Goal(r)' = b /\ (Same(r[1], Goal(r))' <=> Same(r[1], b))
        /\ (subgoal_fails(Goal(r))' <=> subgoal_fails(b))
    BY <1>1, <1>3, <2>2 DEF Same, subgoal_fails
  <2> QED BY <1>1, <1>2, <1>3, <1>4, <2>1, <2>2, <2>3 DEF ClauseOK, CallEmptyDl
<1>8. DelaysOK'
  <2> SUFFICES ASSUME NEW r \in Rules, NEW i \in clause[r].delays PROVE DelayOK(r, i)'
    BY <1>1, <1>3 DEF DelaysOK
  <2>1. DelayOK(r, i)
    BY DEF DelaysOK
  <2> QED BY <1>1, <1>2, <1>3, <2>1 DEF DelayOK, Same, subgoal_fails
<1>9. ListsOK'
  <2>1. ASSUME NEW sign \in {"pos", "neg"}, NEW a \in Atoms, NEW e
        PROVE  e \in ElementsOn(sign, a)' <=> e \in ElementsOn(sign, a)
    <3>1. e \in ElementsOn(sign, a) <=>
             \E r \in Rules : \E i \in clause[r].delays :
               /\ e = <<r, i>> /\ clause[r].status = "dl"
               /\ Body(r)[i] = [sign |-> sign, atom |-> a]
      BY ElementIs
    <3>2. e \in ElementsOn(sign, a)' <=>
             \E r \in Rules : \E i \in clause'[r].delays :
               /\ e = <<r, i>> /\ clause'[r].status = "dl"
               /\ Body(r)[i] = [sign |-> sign, atom |-> a]
      BY <1>3, NextElementIs
    <3> QED BY <1>1, <3>1, <3>2
  <2>2. \A sign \in {"pos", "neg"}, a \in Atoms : ElementsOn(sign, a)' = ElementsOn(sign, a)
    BY <2>1
  <2>3. \A a \in Atoms : nde_list'[a] = ElementsOn("neg", a)' /\ pdes'[a] = ElementsOn("pos", a)'
    BY <1>1, <2>2 DEF ListsOK
  <2> QED BY <1>1, <1>3, <2>3 DEF ListsOK
<1>10. CallsOK'
  <2>1. \A i \in DOMAIN calls' : CallOK(calls[i])'
    <3> SUFFICES ASSUME NEW i \in DOMAIN calls PROVE CallOK(calls[i])'
      BY <1>1
    <3>1. CallOK(calls[i])
      BY DEF CallsOK
    <3> QED BY <1>1, <1>2, <1>3, <1>4, <3>1
            DEF CallOK, subgoal_fails, is_unconditional_answer, Awaited
  <2>2. calls # <<>> => TopOK'
    <3>1. calls # <<>> => TopOK
      BY DEF CallsOK
    <3>2. \A r : Proof(r)' <=> Proof(r)
      BY <1>1, <1>3 DEF Proof
    <3>3. \A a : dls(a)' = dls(a)
      BY <1>1, <1>3 DEF dls
    <3> QED BY <1>1, <1>3, <3>1, <3>2, <3>3 DEF TopOK, is_conditional_answer
  <2> QED BY <1>1, <2>1, <2>2 DEF CallsOK
<1>11. StackOK'
  BY <1>1, <1>2, <1>3 DEF StackOK, in_simplify_neg_fails, subgoal_fails
<1>12. DepthOK'
  BY <1>1 DEF DepthOK, LoopCalls
<1>13. \E F \in SUBSET Atoms : Stalled(F)'
  <2>1. PICK F \in SUBSET Atoms : Stalled(F)
    OBVIOUS
  <2>2. Stalled(F)'
    BY <1>1, <1>2, <1>3, <2>1 DEF Stalled, Stalls, Same, Left, is_unconditional_answer
  <2> QED BY <2>2
<1>14. UNCHANGED Residual!vars
  <2>1. FalseGoals' = FalseGoals /\ TrueGoals' = TrueGoals /\ Dead' = Dead
    BY <1>1, <1>2, <1>3 DEF FalseGoals, TrueGoals, Dead
  <2>2. \A r : Pending(r)' = Pending(r)
    BY <1>1, <1>3 DEF Pending
  <2>3. HeadOf' = HeadOf /\ BodyOf' = BodyOf /\ LeftOf' = LeftOf
    BY <1>3, <2>2 DEF HeadOf, BodyOf, LeftOf
  <2> QED BY <2>1, <2>3 DEF Residual!vars
<1> QED BY <1>5, <1>6, <1>7, <1>8, <1>9, <1>10, <1>11, <1>12, <1>13, <1>14

(* The initial states. *)
LEMMA InitTypes ==
  ASSUME Init
  PROVE  /\ Types /\ Opened = {} /\ called = {} /\ Rules = Clauses(program)
         /\ \A r \in Rules : clause[r] = Start
         /\ \A r \in Rules : clause[r].at = 1 /\ clause[r].delays = {} /\ clause[r].status = "waiting"
<1>1. /\ program \in DOMAIN Programs /\ todo \in Seq(Atoms) /\ frames = <<>> /\ leaders = {}
      /\ complete = {} /\ completing = 0 /\ calls = <<>> /\ neg_fails = <<>> /\ depth = 0
      /\ answer = [a \in Atoms |-> "none"]
      /\ clause = [r \in Clauses(program) |-> Start]
      /\ nde_list = [a \in Atoms |-> {}] /\ pdes = [a \in Atoms |-> {}]
  BY QueriesAssumption DEF Init
<1>2. /\ DOMAIN frames = {} /\ frames \in Seq(Atoms) /\ calls \in Seq(Calls)
      /\ neg_fails \in Seq(Atoms) /\ Len(frames) = 0
  <2>1. /\ <<>> \in Seq(Atoms) /\ <<>> \in Seq(Calls) /\ Len(<<>>) = 0
        /\ DOMAIN <<>> = 1..0
    BY EmptySeq
  <2> QED BY <1>1, <2>1
<1>3. IsInjective(frames) /\ Opened = {}
  BY <1>2 DEF IsInjective, Opened, Range
<1>4. Start \in [at : Nat, delays : SUBSET Nat, status : Statuses]
      /\ Start.at = 1 /\ Start.delays = {} /\ Start.status = "waiting"
  BY DEF Start, Statuses
<1>5. clause \in [Clauses(program) -> [at : Nat, delays : SUBSET Nat, status : Statuses]]
      /\ Rules = Clauses(program) /\ \A r \in Rules : clause[r] = Start
  BY <1>1, <1>4 DEF Rules
<1>6. Types
  BY <1>1, <1>2, <1>3, <1>5 DEF Types
<1> QED BY <1>1, <1>3, <1>4, <1>5, <1>6 DEF called, Opened

LEMMA InitInv ==
  ASSUME Init
  PROVE  Inv
<1>1. /\ frames = <<>> /\ leaders = {} /\ complete = {} /\ completing = 0 /\ calls = <<>>
      /\ neg_fails = <<>> /\ depth = 0 /\ answer = [a \in Atoms |-> "none"]
      /\ nde_list = [a \in Atoms |-> {}] /\ pdes = [a \in Atoms |-> {}]
  BY DEF Init
<1>2. /\ Types /\ Opened = {} /\ called = {}
      /\ \A r \in Rules : clause[r] = Start
      /\ \A r \in Rules : clause[r].at = 1 /\ clause[r].delays = {} /\ clause[r].status = "waiting"
  BY InitTypes
<1>3. Frames /\ EarlyCompleted
  BY <1>1 DEF Frames, EarlyCompleted
<1>4. \A a \in Atoms : subgoal_fails(a) /\ ~ is_unconditional_answer(a)
  BY <1>1 DEF subgoal_fails, is_unconditional_answer
<1>5. Uncalled
  BY <1>2, <1>4 DEF Uncalled
<1>6. Closing = {} /\ Live = {}
  BY <1>1, <1>2 DEF Closing, Live
<1>7. ClausesOK
  <2> SUFFICES ASSUME NEW r \in Rules PROVE ClauseOK(r)
    BY DEF ClausesOK
  <2>1. 1 \in 1..Len(Body(r)) + 1
    BY <1>2, Bodies_OK
  <2> QED BY <1>2, <1>6, <2>1 DEF ClauseOK
<1>8. DelaysOK
  BY <1>2 DEF DelaysOK
<1>9. ListsOK
  <2>1. ASSUME NEW sign, NEW a PROVE ElementsOn(sign, a) = {}
    <3>1. Elements({r \in Rules : clause[r].status = "dl"}) = {}
      BY <1>2 DEF Elements
    <3> QED BY <3>1 DEF ElementsOn
  <2> QED BY <1>1, <1>4, <2>1 DEF ListsOK
<1>10. CallsOK
  BY <1>1 DEF CallsOK
<1>11. StackOK
  BY <1>1 DEF StackOK
<1>12. DepthOK
  <2>1. LoopCalls(calls) = {}
    BY <1>1 DEF LoopCalls
  <2> QED BY <1>1, <2>1, FS_EmptySet DEF DepthOK
<1>13. Stalled({})
  BY <1>2, <1>6 DEF Stalled
<1> QED BY <1>2, <1>3, <1>5, <1>7, <1>8, <1>9, <1>10, <1>11, <1>12, <1>13 DEF Inv

LEMMA InitResidual ==
  ASSUME Init
  PROVE  Residual!Init
<1>1. /\ Types
      /\ \A r \in Rules : clause[r].at = 1 /\ clause[r].delays = {} /\ clause[r].status = "waiting"
  BY InitTypes
<1>2. HeadOf \in [RuleNames -> Atoms]
  BY DEF HeadOf, RuleNames
<1>3. ASSUME NEW r \in RuleNames
      PROVE  BodyOf[r] \subseteq Residual!Literal /\ LeftOf[r] = BodyOf[r]
  <2>1. CASE r \notin Rules
    <3>1. r[1] \in Atoms
      BY DEF RuleNames
    <3> QED BY <2>1, <3>1 DEF BodyOf, LeftOf, Pos, Residual!Literal
  <2>2. CASE r \in Rules
    <3>1. DOMAIN Body(r) = 1..Len(Body(r)) /\ \A i \in 1..Len(Body(r)) : Body(r)[i] \in Literals
      BY <1>1, <2>2, Bodies_OK
    <3>2. Pending(r) = 1..Len(Body(r))
      BY <1>1, <2>2 DEF Pending, At
    <3>3. \A l \in Literals : l \in Residual!Literal
      BY DEF Literals, Pos, Neg, Residual!Literal
    <3>4. BodyOf[r] = {Body(r)[i] : i \in 1..Len(Body(r))}
      BY <2>2, <3>1 DEF BodyOf, Range
    <3> QED BY <2>2, <3>1, <3>2, <3>3, <3>4 DEF LeftOf
  <2> QED BY <2>1, <2>2
<1>4. BodyOf \in [RuleNames -> SUBSET Residual!Literal] /\ LeftOf = BodyOf
  <2>1. /\ BodyOf = [r \in RuleNames |-> BodyOf[r]] /\ LeftOf = [r \in RuleNames |-> LeftOf[r]]
    BY DEF BodyOf, LeftOf
  <2> QED BY <1>3, <2>1
<1>5. Dead = {}
  BY <1>1 DEF Dead
<1>6. TrueGoals = {} /\ FalseGoals = {}
  BY DEF TrueGoals, FalseGoals, is_unconditional_answer, Init
<1> QED BY <1>2, <1>4, <1>5, <1>6 DEF Residual!Init

(* The inductive invariant holds. *)
THEOREM DelaysInvariant == Spec => []Inv
<1>1. Inv /\ [Next]_vars => Inv'
  BY StepInv, StutterInv DEF Next, Idle
<1> QED
  BY InitInv, <1>1, PTL DEF Spec

(* The lists of a goal lead to just the delay elements on it. *)
THEOREM ListsAlwaysAgree == Spec => []ListsAgree
<1>1. Inv => ListsAgree
  <2> SUFFICES ASSUME Inv PROVE ListsAgree
    OBVIOUS
  <2> USE DEF Inv
  <2>1. \A a \in Atoms : nde_list[a] = ElementsOn("neg", a) /\ pdes[a] = ElementsOn("pos", a)
    BY DEF ListsOK
  <2>2. ASSUME NEW a \in Atoms PROVE nde_list[a] \cup pdes[a] \subseteq Rules \X Nat
    <3>1. ASSUME NEW sign \in {"pos", "neg"} PROVE ElementsOn(sign, a) \subseteq Rules \X Nat
      <4> SUFFICES ASSUME NEW e \in ElementsOn(sign, a) PROVE e \in Rules \X Nat
        OBVIOUS
      <4>0. e \in ElementsOn(sign, a) <=>
               \E r \in Rules : \E i \in clause[r].delays :
                 /\ e = <<r, i>> /\ clause[r].status = "dl"
                 /\ Body(r)[i] = [sign |-> sign, atom |-> a]
        BY ElementIs
      <4>1. PICK r \in Rules : \E i \in clause[r].delays : e = <<r, i>>
        BY <4>0
      <4>2. clause[r].delays \subseteq Nat
        BY DEF Types, Rules
      <4> QED BY <4>1, <4>2
    <3> QED BY <2>1, <3>1
  <2>3. completing \in 0..Len(frames) + 1
    BY OpenedGoals DEF Types
  <2>4. \A r \in Rules :
          /\ clause[r].at \in 1..Len(Body(r)) + 1
          /\ clause[r].delays \subseteq 1..clause[r].at - 1
          /\ clause[r].status \in {"running", "waiting", "suspended", "resumed", "failed", "dl", "gone"}
    <3> TAKE r \in Rules
    <3>1. clause[r].status \in Statuses
      BY DEF Types, Rules
    <3>2. ClauseOK(r)
      BY DEF ClausesOK
    <3> QED BY <3>1, <3>2 DEF ClauseOK, Statuses
  <2>5. TypeOK
    BY <2>2, <2>3, <2>4 DEF TypeOK, Types
  <2> QED BY <2>1, <2>5 DEF ListsAgree
<1> QED
  BY DelaysInvariant, <1>1, PTL

(* Every step is one that the semantics of the residual program allows. *)
THEOREM DelaysImplementResidual == Spec => ImplementsResidual
<1>1. Inv /\ [Next]_vars => [Residual!Next]_Residual!vars
  <2> SUFFICES ASSUME Inv, [Next]_vars PROVE [Residual!Next]_Residual!vars
    OBVIOUS
  <2>1. CASE Step
    <3>1. Inv' /\ Moves
      BY <2>1, StepInv
    <3> QED BY <3>1, MovesResidual DEF Inv
  <2>2. CASE UNCHANGED vars
    BY <2>2, StutterInv
  <2> QED BY <2>1, <2>2 DEF Next, Idle
<1> QED
  BY InitResidual, <1>1, DelaysInvariant, PTL DEF Spec, ImplementsResidual, Residual!Spec

(* What is proved of the semantics, for the program that is evaluated.     *)
RP == INSTANCE ResidualProgramProofs
  WITH Rules <- RuleNames, head <- HeadOf, body <- BodyOf, left <- LeftOf,
       dead <- Dead, true <- TrueGoals, false <- FalseGoals

(* Unconditional answers are true, and goals completed without an answer   *)
(* false, in every partial stable model of the program: in its             *)
(* well-founded model therefore.                                           *)
THEOREM AnswersSound == Spec => []Residual!Sound
<1>1. RP!Spec => []RP!Sound
  BY RP!Soundness
<1>2. Residual!Init => RP!Init
  BY DEF RP!Init, Residual!Init, RP!Literal, Residual!Literal
<1>3. [Residual!Next]_Residual!vars => [RP!Next]_RP!vars
  <2>1. Residual!Next => RP!Next
    <3>1. Residual!Resolve => RP!Resolve
      BY DEF Residual!Resolve, RP!Resolve, Residual!Satisfied, RP!Satisfied,
             Residual!Literal, RP!Literal
    <3>2. Residual!Refute => RP!Refute
      BY DEF Residual!Refute, RP!Refute, Residual!Refuted, RP!Refuted,
             Residual!Tautology, RP!Tautology, Residual!Pos, RP!Pos
    <3>3. Residual!Accept => RP!Accept
      BY DEF Residual!Accept, RP!Accept
    <3>4. Residual!Reject => RP!Reject
      BY DEF Residual!Reject, RP!Reject, Residual!Pos, RP!Pos
    <3> QED BY <3>1, <3>2, <3>3, <3>4 DEF Residual!Next, RP!Next
  <2> QED BY <2>1 DEF Residual!vars, RP!vars
<1>4. RP!Sound => Residual!Sound
  BY DEF RP!Sound, Residual!Sound, RP!PartialStable, Residual!PartialStable,
         RP!Least, Residual!Least, RP!Closed, Residual!Closed, RP!Fires, Residual!Fires
<1>5. Residual!Spec => RP!Spec
  BY <1>2, <1>3, PTL DEF Residual!Spec, RP!Spec
<1> QED
  BY <1>1, <1>4, <1>5, DelaysImplementResidual, PTL DEF ImplementsResidual
==========================================================================
