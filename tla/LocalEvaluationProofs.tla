----------------------- MODULE LocalEvaluationProofs -----------------------
(* Proofs about LocalEvaluation for any program, whatever its recursion:   *)
(* the types, that the tables are sound and follow the rules of            *)
(* TableCompletion up to the completion of an SCC, that the lists of       *)
(* consumers are never cut or overwritten, and that the user is given what *)
(* the table of his query holds. *)
EXTENDS LocalEvaluation, FiniteSetTheorems, SequenceTheorems, WellFoundedInduction, TLAPS

--------------------------------------------------------------------------
(* THE SCHEDULES *)

Place == [root : Subgoals \cup {NoGoal}, clause : Nat, lit : Nat, val : Values]

(* The choice points that refer to the first n of the stack, or to none.   *)
Slot(n) ==
  [kind : {"generator", "consumer", "trie"}, goal : Subgoals, pc : Nat, cont : Place,
   prev : 0..n, bf : 0..n, look : 0..n, ret : Nat, left : SUBSET Values]
Stack(n) == [1..n -> Slot(n)]

(* Choice points that differ in their links only. *)
SameButLinks(a, b) ==
  /\ b.kind = a.kind /\ b.goal = a.goal /\ b.pc = a.pc /\ b.cont = a.cont
  /\ b.bf = a.bf /\ b.ret = a.ret /\ b.left = a.left

(* b is the stack a after consumers of C were linked among themselves, the *)
(* last of them to base.                                                   *)
Relinked(a, b, C, base) ==
  \A i \in DOMAIN a :
    /\ SameButLinks(a[i], b[i])
    /\ i \notin C => b[i] = a[i]
    /\ b[i].prev \in {a[i].prev, base} \cup C

(* Whoever follows a list in C goes down in the order Below. *)
Chained(stack, C, Below) ==
  \A c \in C : stack[c].look = 0 \/ <<c, stack[c].look>> \in Below
Order(C, Below) ==
  /\ Below \subseteq C \X C
  /\ \A a, b, c \in C : <<a, b>> \in Below /\ <<b, c>> \in Below => <<a, c>> \in Below

(* Induction up to n, for a set. *)
LEMMA Induct ==
  ASSUME NEW n \in Nat, NEW S, 0 \in S, \A i \in 1..n : i - 1 \in S => i \in S
  PROVE  0..n \subseteq S
<1> DEFINE R == OpToRel(<, Nat)
           T == 0..n \ S
<1>1. IsWellFoundedOn(R, Nat)
  BY NatLessThanWellFounded
<1>2. \A x, y \in Nat : x < y => <<x, y>> \in R
  BY DEF OpToRel
<1> HIDE DEF R
<1>3. T \in SUBSET Nat
  OBVIOUS
<1> SUFFICES ASSUME T # {} PROVE FALSE
  OBVIOUS
<1>4. PICK i \in T : \A j \in T : ~ (<<j, i>> \in R)
  <2> HIDE DEF T
  <2> QED
    BY <1>1, <1>3, WFMin
<1>5. i \in 1..n /\ i - 1 \in 0..n
  BY <1>4
<1>6. i - 1 \notin T
  <2>1. <<i - 1, i>> \in R
    BY <1>2, <1>5
  <2> HIDE DEF T
  <2> QED
    BY <1>4, <2>1
<1> QED
  BY <1>4, <1>5, <1>6

Steps(X, n) == [X \X (1..n) -> X]

Iterates(X, b, n, F) ==
  \E g \in [0..n -> X] : g[0] = b /\ \A i \in 1..n : g[i] = F[<<g[i - 1], i>>]

(* A function defined by recursion over 0..n stays in the set that its     *)
(* step does not leave. *)
LEMMA Recursion ==
  ASSUME NEW X, NEW b \in X, NEW n \in Nat, NEW F \in Steps(X, n)
  PROVE  Iterates(X, b, n, F)
<1> USE DEF Steps
<1> DEFINE Ok(m, g) == g[0] = b /\ \A i \in 1..m : g[i] = F[<<g[i - 1], i>>]
           S == {m \in 0..n : \E g \in [0..m -> X] : Ok(m, g)}
<1>1. 0 \in S
  <2>1. [i \in 0..0 |-> b] \in [0..0 -> X] /\ Ok(0, [i \in 0..0 |-> b])
    OBVIOUS
  <2>2. \E g \in [0..0 -> X] : Ok(0, g)
    <3> HIDE DEF Ok
    <3> QED
      BY <2>1
  <2> QED
    BY <2>2
<1>2. ASSUME NEW m \in 1..n, m - 1 \in S PROVE m \in S
  <2>1. PICK g \in [0..m - 1 -> X] : Ok(m - 1, g)
    BY <1>2
  <2> DEFINE h == [i \in 0..m |-> IF i = m THEN F[<<g[m - 1], m>>] ELSE g[i]]
  <2>2. F[<<g[m - 1], m>>] \in X
    BY <2>1
  <2>3. h \in [0..m -> X]
    BY <2>1, <2>2
  <2>4. Ok(m, h)
    <3>1. h[0] = b
      BY <2>1
    <3>2. ASSUME NEW i \in 1..m PROVE h[i] = F[<<h[i - 1], i>>]
      <4>1. h[i - 1] = g[i - 1]
        OBVIOUS
      <4>2. CASE i = m
        <5>1. h[i] = F[<<g[i - 1], i>>]
          BY <4>2
        <5> HIDE DEF h
        <5> QED
          BY <4>1, <5>1
      <4>3. CASE i # m
        <5>1. h[i] = g[i] /\ g[i] = F[<<g[i - 1], i>>]
          BY <2>1, <4>3
        <5> QED
          BY <4>1, <5>1
      <4> QED
        BY <4>2, <4>3
    <3> QED
      BY <3>1, <3>2
  <2>5. \E f \in [0..m -> X] : Ok(m, f)
    <3> HIDE DEF Ok, h
    <3> QED
      BY <2>3, <2>4
  <2> QED
    BY <2>5
<1>3. n \in S
  <2> HIDE DEF S
  <2> QED
    BY <1>1, <1>2, Induct
<1> QED
  BY <1>3 DEF Iterates

(* The greater and the smaller of two numbers. *)
LEMMA MaxOf ==
  ASSUME NEW a \in Int, NEW b \in Int
  PROVE  Max({a, b}) = IF a >= b THEN a ELSE b
BY DEF Max

(* The smaller of two numbers. *)
LEMMA MinOf ==
  ASSUME NEW a \in Int, NEW b \in Int
  PROVE  Min({a, b}) = IF a <= b THEN a ELSE b
BY DEF Min
--------------------------------------------------------------------------
(* What is known of the walk along a list of consumers of the stack a.     *)
Walks(n, a, C, Below, base) ==
  {w \in [stack : Stack(n), next : C \cup {0}, perm : C \cup {0, AtHead},
          first : C \cup {0}, last : C \cup {0}] :
     /\ Relinked(a, w.stack, C, base)
     /\ Chained(w.stack, C, Below)
     /\ w.perm \in C /\ w.next \in C => w.perm = w.next \/ <<w.perm, w.next>> \in Below}

(* A choice point that gets another link. *)
LEMMA LinkOf ==
  ASSUME NEW n \in Nat, NEW a \in Stack(n), NEW b \in Stack(n), NEW C \in SUBSET (1..n),
         NEW Below, NEW base \in 0..n, Relinked(a, b, C, base), Chained(b, C, Below),
         NEW c \in C \cup {0}, NEW d \in C \cup {base}
  PROVE  /\ Link(b, c, d) \in Stack(n)
         /\ Relinked(a, Link(b, c, d), C, base)
         /\ Chained(Link(b, c, d), C, Below)
<1>1. CASE c = 0
  BY <1>1 DEF Link
<1>2. CASE c \in C
  <2> DEFINE e == [b EXCEPT ![c].prev = d]
  <2>1. c \in 1..n /\ c # 0 /\ Link(b, c, d) = e
    BY <1>2 DEF Link
  <2>2. d \in 0..n
    OBVIOUS
  <2>3. b[c] \in Slot(n) /\ [b[c] EXCEPT !.prev = d] \in Slot(n)
    <3>1. b[c] \in Slot(n)
      BY <2>1 DEF Stack
    <3> QED
      BY <2>2, <3>1 DEF Slot
  <2>4. \A i \in 1..n : e[i] = IF i = c THEN [b[c] EXCEPT !.prev = d] ELSE b[i]
    BY <2>1 DEF Stack
  <2>5. e \in Stack(n)
    BY <2>1, <2>3 DEF Stack
  <2>6. /\ e[c].prev = d /\ e[c].look = b[c].look
        /\ SameButLinks(b[c], e[c])
    BY <2>1, <2>3, <2>4 DEF Slot, SameButLinks
  <2> HIDE DEF e
  <2>7. Relinked(a, e, C, base)
    BY <1>2, <2>1, <2>4, <2>6 DEF Relinked, SameButLinks, Stack
  <2>8. Chained(e, C, Below)
    BY <2>1, <2>4, <2>6 DEF Chained
  <2> QED
    BY <2>1, <2>5, <2>7, <2>8
<1> QED
  BY <1>1, <1>2

(* A choice point that is cut out of a list, from perm on. *)
LEMMA CutOf ==
  ASSUME NEW n \in Nat, NEW a \in Stack(n), NEW b \in Stack(n), NEW C \in SUBSET (1..n),
         NEW Below, NEW base \in 0..n, Relinked(a, b, C, base), Chained(b, C, Below),
         NEW c \in C \cup {0}, NEW d \in C \cup {0},
         c \in C /\ d # 0 => <<c, d>> \in Below
  PROVE  /\ [b EXCEPT ![c].look = d] \in Stack(n)
         /\ Relinked(a, [b EXCEPT ![c].look = d], C, base)
         /\ Chained([b EXCEPT ![c].look = d], C, Below)
<1> DEFINE e == [b EXCEPT ![c].look = d]
<1>1. CASE c = 0
  <2>1. e = b
    BY <1>1 DEF Stack
  <2> QED
    BY <2>1
<1>2. CASE c \in C
  <2>1. c \in 1..n /\ d \in 0..n
    BY <1>2
  <2>3. b[c] \in Slot(n) /\ [b[c] EXCEPT !.look = d] \in Slot(n)
    BY <2>1 DEF Stack, Slot
  <2>4. \A i \in 1..n : e[i] = IF i = c THEN [b[c] EXCEPT !.look = d] ELSE b[i]
    BY <2>1 DEF Stack
  <2>5. e \in Stack(n)
    BY <2>1, <2>3 DEF Stack
  <2>6. /\ e[c].look = d /\ e[c].prev = b[c].prev
        /\ SameButLinks(b[c], e[c])
    BY <2>1, <2>3, <2>4 DEF Slot, SameButLinks
  <2> HIDE DEF e
  <2>7. Relinked(a, e, C, base)
    BY <1>2, <2>1, <2>4, <2>6 DEF Relinked, SameButLinks, Stack
  <2>8. Chained(e, C, Below)
    BY <1>2, <2>1, <2>4, <2>6 DEF Chained
  <2> QED
    BY <2>5, <2>7, <2>8 DEF e
<1> QED
  BY <1>1, <1>2

(* One consumer is passed, dropped or scheduled. *)
LEMMA ScheduleOrUnchainOf ==
  ASSUME NEW n \in Nat, NEW a \in Stack(n), NEW C \in SUBSET (1..n), NEW Below,
         Order(C, Below), NEW base \in 0..n, NEW s,
         NEW w \in Walks(n, a, C, Below, base), w.next # 0
  PROVE  ScheduleOrUnchain(s, w) \in Walks(n, a, C, Below, base)
<1> DEFINE c == w.next
           consumer == w.stack[c]
           d == consumer.look
<1> USE DEF AtHead
<1>1. /\ w.stack \in Stack(n) /\ c \in C /\ c \in 1..n
      /\ w.perm \in C \cup {0, AtHead} /\ w.first \in C \cup {0} /\ w.last \in C \cup {0}
      /\ Relinked(a, w.stack, C, base)
      /\ Chained(w.stack, C, Below)
      /\ w.perm \in C => w.perm = c \/ <<w.perm, c>> \in Below
      /\ w = [stack |-> w.stack, next |-> w.next, perm |-> w.perm, first |-> w.first,
              last |-> w.last]
  BY DEF Walks
<1>2. d = 0 \/ <<c, d>> \in Below
  BY <1>1 DEF Chained
<1>3. d \in C \cup {0}
  BY <1>2 DEF Order
<1>4. w.perm \in C /\ d \in C => <<w.perm, d>> \in Below
  BY <1>1, <1>2, <1>3 DEF Order
<1>5. 0 \notin C /\ -1 \notin C
  OBVIOUS
<1> DEFINE v == ScheduleOrUnchain(s, w)
<1>6. CASE AllTaken(s, consumer)
  <2>1. v = [stack |-> w.stack, next |-> d, perm |-> w.perm, first |-> w.first,
             last |-> w.last]
    <3>1. v = [w EXCEPT !.next = d]
      BY <1>6 DEF ScheduleOrUnchain
    <3> QED
      BY <1>1, <3>1
  <2> HIDE DEF c, d, v
  <2> QED
    BY <1>1, <1>3, <1>4, <2>1 DEF Walks, v
<1>7. CASE ~ AllTaken(s, consumer) /\ is_completed(consumer.cont.root) /\ w.perm = AtHead
  <2>1. v = [stack |-> w.stack, next |-> d, perm |-> d, first |-> w.first,
             last |-> w.last]
    BY <1>1, <1>7 DEF ScheduleOrUnchain
  <2> HIDE DEF c, d, v
  <2> QED
    BY <1>1, <1>3, <2>1 DEF Walks, v
<1>8. CASE ~ AllTaken(s, consumer) /\ is_completed(consumer.cont.root) /\ w.perm # AtHead
  <2> DEFINE e == [w.stack EXCEPT ![w.perm].look = d]
  <2>1. v = [stack |-> e, next |-> d, perm |-> w.perm, first |-> w.first,
             last |-> w.last]
    BY <1>1, <1>8 DEF ScheduleOrUnchain
  <2>2. w.perm \in C \cup {0}
    BY <1>1, <1>8
  <2> HIDE DEF c, d, v
  <2>3. e \in Stack(n) /\ Relinked(a, e, C, base) /\ Chained(e, C, Below)
    BY <1>1, <1>3, <1>4, <2>2, CutOf
  <2> HIDE DEF e
  <2> QED
    BY <1>1, <1>3, <1>4, <2>1, <2>2, <2>3 DEF Walks, v
<1>9. CASE ~ AllTaken(s, consumer) /\ ~ is_completed(consumer.cont.root)
  <2> DEFINE e == Link(w.stack, w.last, c)
  <2>1. v = [stack |-> e, next |-> d, perm |-> d,
             first |-> IF w.first = 0 THEN c ELSE w.first, last |-> c]
    BY <1>1, <1>9 DEF ScheduleOrUnchain
  <2> HIDE DEF c, d, v
  <2>2. e \in Stack(n) /\ Relinked(a, e, C, base) /\ Chained(e, C, Below)
    BY <1>1, LinkOf
  <2> HIDE DEF e
  <2> QED
    BY <1>1, <1>3, <2>1, <2>2 DEF Walks, v
<1> QED
  BY <1>6, <1>7, <1>8, <1>9

(* A stack of n choice points is a sequence of length n. *)
LEMMA StackIsSeq ==
  ASSUME NEW n \in Nat, NEW a \in Stack(n)
  PROVE  a \in Seq(Slot(n)) /\ Len(a) = n /\ DOMAIN a = 1..n
BY DEF Stack

(* The walk along all consumers of s. *)
LEMMA WalkConsumersOf ==
  ASSUME NEW n \in Nat, NEW a \in Stack(n), NEW b \in Stack(n), NEW C \in SUBSET (1..n),
         NEW Below, Order(C, Below), NEW base \in 0..n, NEW s,
         sf[s].pos_cons \in C \cup {0}, Relinked(a, b, C, base), Chained(b, C, Below)
  PROVE  WalkConsumers(s, b)[Len(b)] \in Walks(n, a, C, Below, base)
<1> DEFINE X == Walks(n, a, C, Below, base)
           start == [stack |-> b, next |-> sf[s].pos_cons, perm |-> AtHead,
                     first |-> 0, last |-> 0]
           After(w) == IF w.next = 0 THEN w ELSE ScheduleOrUnchain(s, w)
           F == [wk \in X \X (1..n) |-> After(wk[1])]
           walk == WalkConsumers(s, b)
<1>1. Len(b) = n
  BY StackIsSeq
<1>2. start \in X
  <2>1. AtHead \notin C
    BY DEF AtHead
  <2> QED
    BY <2>1 DEF Walks
<1>3. \A w \in X : After(w) \in X
  BY ScheduleOrUnchainOf
<1>4. F \in Steps(X, n)
  <2> HIDE DEF X, After
  <2> QED
    BY <1>3 DEF Steps
<1>5. walk = [k \in 0..n |-> IF k = 0 THEN start ELSE After(walk[k - 1])]
  <2> HIDE DEF X, F, start
  <2>1. PICK g \in [0..n -> X] : g[0] = start /\ \A i \in 1..n : g[i] = F[<<g[i - 1], i>>]
    <3>1. Iterates(X, start, n, F)
      BY <1>2, <1>4, Recursion
    <3> QED
      BY <3>1 DEF Iterates
  <2>2. \A i \in 1..n : g[i] = After(g[i - 1])
    <3> TAKE i \in 1..n
    <3>1. g[i - 1] \in X
      BY <2>1
    <3> HIDE DEF After
    <3>2. F[<<g[i - 1], i>>] = After(g[i - 1])
      BY <3>1 DEF F
    <3> QED
      BY <2>1, <3>2
  <2>3. g = [k \in 0..n |-> IF k = 0 THEN start ELSE After(g[k - 1])]
    <3> HIDE DEF After
    <3> QED
      BY <2>1, <2>2
  <2>4. walk = CHOOSE f : f = [k \in 0..n |-> IF k = 0 THEN start ELSE After(f[k - 1])]
    BY <1>1 DEF WalkConsumers, start
  <2> HIDE DEF walk, After
  <2> QED
    BY <2>3, <2>4
<1>6. 0..n \subseteq {k \in 0..n : walk[k] \in X}
  <2> HIDE DEF walk, X, After, start
  <2>1. walk[0] \in X
    BY <1>2, <1>5
  <2>2. \A i \in 1..n : walk[i - 1] \in X => walk[i] \in X
    BY <1>3, <1>5
  <2> DEFINE S == {k \in 0..n : walk[k] \in X}
  <2>3. 0 \in S /\ \A i \in 1..n : i - 1 \in S => i \in S
    BY <2>1, <2>2
  <2> HIDE DEF S
  <2> QED
    BY <2>3, Induct DEF S
<1> QED
  BY <1>1, <1>6

(* What is known of the result of sched_answers. *)
Schedules(n, a, C, Below, base) ==
  {r \in [stack : Stack(n), first : C \cup {0}, last : C \cup {0}, head : 0..n] :
     Relinked(a, r.stack, C, base) /\ Chained(r.stack, C, Below)}

(* Scheduling the consumers of one subgoal relinks choice points of C      *)
(* only, in their order. *)
LEMMA sched_answersOf ==
  ASSUME NEW n \in Nat, NEW a \in Stack(n), NEW b \in Stack(n), NEW C \in SUBSET (1..n),
         NEW Below, Order(C, Below), NEW base \in 0..n, NEW s,
         sf[s].pos_cons \in C \cup {0}, Relinked(a, b, C, base), Chained(b, C, Below)
  PROVE  /\ sched_answers(s, b, base) \in Schedules(n, a, C, Below, base)
         /\ sched_answers(s, b, base).head \in {0, sf[s].pos_cons}
<1> DEFINE w == WalkConsumers(s, b)[Len(b)]
           r == sched_answers(s, b, base)
           due == ~ (sf[s].answers = <<>> \/ sf[s].pos_cons = 0 \/ sf[s].is_reclaimed)
<1>1. w \in Walks(n, a, C, Below, base)
  BY WalkConsumersOf
<1>2. /\ w.stack \in Stack(n) /\ w.first \in C \cup {0} /\ w.last \in C \cup {0}
      /\ Relinked(a, w.stack, C, base) /\ Chained(w.stack, C, Below)
  BY <1>1 DEF Walks
<1> DEFINE e == Link(w.stack, w.last, base)
<1>3. e \in Stack(n) /\ Relinked(a, e, C, base) /\ Chained(e, C, Below)
  BY <1>2, LinkOf
<1> DEFINE h == IF sf[s].is_complete THEN 0 ELSE sf[s].pos_cons
<1>4. sf[s].pos_cons \in 0..n /\ h \in 0..n /\ h \in {0, sf[s].pos_cons}
  <2>1. h \in {0, sf[s].pos_cons}
    OBVIOUS
  <2> HIDE DEF h
  <2>2. \A x : x \in C \cup {0} => x \in 0..n
    OBVIOUS
  <2>3. sf[s].pos_cons \in 0..n /\ 0 \in 0..n
    BY <2>2
  <2> QED
    BY <2>1, <2>3
<1>5. CASE due
  <2>1. r = [stack |-> e, first |-> w.first, last |-> w.last, head |-> h]
    BY <1>5 DEF sched_answers
  <2> HIDE DEF r, w, e, h
  <2>2. r \in [stack : Stack(n), first : C \cup {0}, last : C \cup {0}, head : 0..n]
    BY <1>2, <1>3, <1>4, <2>1
  <2>3. r.stack = e /\ r.head = h
    BY <2>1
  <2>4. r \in Schedules(n, a, C, Below, base)
    BY <1>3, <2>2, <2>3 DEF Schedules
  <2> QED
    BY <1>4, <2>3, <2>4 DEF r
<1>6. CASE ~ due
  <2>1. r = [stack |-> b, first |-> 0, last |-> 0, head |-> sf[s].pos_cons]
    BY <1>6 DEF sched_answers
  <2> HIDE DEF r
  <2>2. r \in [stack : Stack(n), first : C \cup {0}, last : C \cup {0}, head : 0..n]
    BY <1>4, <2>1
  <2>3. r.stack = b /\ r.head = sf[s].pos_cons
    BY <2>1
  <2>4. r \in Schedules(n, a, C, Below, base)
    BY <2>2, <2>3 DEF Schedules
  <2> QED
    BY <2>3, <2>4 DEF r
<1> QED
  BY <1>5, <1>6

(* What is known of the walk along the frames of an SCC. *)
Fixpoints(n, a, C, Below) ==
  {w \in [stack : Stack(n), heads : [Subgoals -> 0..n], chain : C \cup {0}, last : C \cup {0}] :
     /\ Relinked(a, w.stack, C, breg)
     /\ Chained(w.stack, C, Below)
     /\ \A s \in Subgoals : w.heads[s] \in {0, sf[s].pos_cons}}

(* The walk of find_fixpoint stays among such schedules when it comes to   *)
(* another frame. *)
LEMMA ScheduleFrameOf ==
  ASSUME NEW n \in Nat, NEW a \in Stack(n), NEW C \in SUBSET (1..n), NEW Below,
         Order(C, Below), breg \in 0..n, NEW w \in Fixpoints(n, a, C, Below),
         NEW f, frames[f] \in Subgoals, sf[frames[f]].pos_cons \in C \cup {0}
  PROVE  ScheduleFrame(w, f) \in Fixpoints(n, a, C, Below)
<1> DEFINE s == frames[f]
           b == Link(w.stack, sf[s].pos_cons, breg)
           r == sched_answers(s, b, breg)
           v == ScheduleFrame(w, f)
           heads == [w.heads EXCEPT ![s] = r.head]
<1>1. /\ w.stack \in Stack(n) /\ w.heads \in [Subgoals -> 0..n]
      /\ w.chain \in C \cup {0} /\ w.last \in C \cup {0}
      /\ Relinked(a, w.stack, C, breg)
      /\ Chained(w.stack, C, Below)
      /\ \A t \in Subgoals : w.heads[t] \in {0, sf[t].pos_cons}
      /\ w = [stack |-> w.stack, heads |-> w.heads, chain |-> w.chain, last |-> w.last]
  BY DEF Fixpoints
<1>2. b \in Stack(n) /\ Relinked(a, b, C, breg) /\ Chained(b, C, Below)
  BY <1>1, LinkOf
<1>3. r \in Schedules(n, a, C, Below, breg) /\ r.head \in {0, sf[s].pos_cons}
  <2> HIDE DEF b
  <2> QED
    BY <1>2, sched_answersOf
<1>4. /\ r.stack \in Stack(n) /\ r.first \in C \cup {0} /\ r.last \in C \cup {0}
      /\ r.head \in 0..n
      /\ Relinked(a, r.stack, C, breg) /\ Chained(r.stack, C, Below)
  BY <1>3 DEF Schedules
<1> HIDE DEF r
<1>5. heads \in [Subgoals -> 0..n] /\ \A t \in Subgoals : heads[t] \in {0, sf[t].pos_cons}
  BY <1>1, <1>3, <1>4
<1>6. CASE r.first = 0
  <2>1. v = [w EXCEPT !.stack = r.stack, !.heads = heads]
    BY <1>6 DEF ScheduleFrame, r
  <2>2. v = [stack |-> r.stack, heads |-> heads, chain |-> w.chain, last |-> w.last]
    BY <1>1, <2>1
  <2> HIDE DEF v, heads
  <2> QED
    BY <1>1, <1>4, <1>5, <2>2 DEF Fixpoints, v
<1>7. CASE r.first # 0
  <2> DEFINE e == Link(r.stack, w.last, r.first)
             chain == IF w.chain = 0 THEN r.first ELSE w.chain
  <2>1. v = [w EXCEPT !.stack = e, !.heads = heads, !.chain = chain, !.last = r.last]
    BY <1>7 DEF ScheduleFrame, r
  <2>2. v = [stack |-> e, heads |-> heads, chain |-> chain, last |-> r.last]
    BY <1>1, <2>1
  <2>3. e \in Stack(n) /\ Relinked(a, e, C, breg) /\ Chained(e, C, Below)
    BY <1>1, <1>4, <1>7, LinkOf
  <2>4. chain \in C \cup {0}
    BY <1>1, <1>4
  <2> HIDE DEF v, heads, e, chain
  <2> QED
    BY <1>1, <1>4, <1>5, <2>2, <2>3, <2>4 DEF Fixpoints, v
<1> QED
  BY <1>6, <1>7

(* So it does over all the frames of an SCC. *)
LEMMA WalkFramesOf ==
  ASSUME NEW n \in Nat, NEW a \in Stack(n), NEW b \in Stack(n), NEW C \in SUBSET (1..n),
         NEW Below, Order(C, Below), breg \in 0..n,
         Relinked(a, b, C, breg), Chained(b, C, Below),
         frames \in Seq(Subgoals), NEW leader \in DOMAIN frames,
         \A f \in leader..Len(frames) : sf[frames[f]].pos_cons \in C \cup {0},
         NEW heads \in [Subgoals -> 0..n],
         \A s \in Subgoals : heads[s] \in {0, sf[s].pos_cons}
  PROVE  WalkFrames(leader, b, heads)[Len(frames) - leader] \in Fixpoints(n, a, C, Below)
<1> DEFINE X == Fixpoints(n, a, C, Below)
           m == Len(frames) - leader
           start == [stack |-> b, heads |-> heads, chain |-> 0, last |-> 0]
           After(w, f) == IF f \in DueFrames(leader) THEN ScheduleFrame(w, f) ELSE w
           F == [wk \in X \X (1..m) |-> After(wk[1], Len(frames) + 1 - wk[2])]
           walk == WalkFrames(leader, b, heads)
<1>1. m \in Nat /\ leader \in Nat /\ Len(frames) \in Nat
  OBVIOUS
<1>2. start \in X
  <2>1. start \in [stack : Stack(n), heads : [Subgoals -> 0..n], chain : C \cup {0},
                   last : C \cup {0}]
    OBVIOUS
  <2>2. start.stack = b /\ start.heads = heads
    OBVIOUS
  <2> HIDE DEF start
  <2> QED
    BY <2>1, <2>2 DEF Fixpoints
<1>3. \A w \in X, i \in 1..m : After(w, Len(frames) + 1 - i) \in X
  <2> SUFFICES ASSUME NEW w \in X, NEW i \in 1..m
               PROVE  ScheduleFrame(w, Len(frames) + 1 - i) \in X
    OBVIOUS
  <2> DEFINE f == Len(frames) + 1 - i
  <2>1. f \in leader..Len(frames) /\ f \in 1..Len(frames)
    BY <1>1
  <2>2. frames[f] \in Subgoals /\ sf[frames[f]].pos_cons \in C \cup {0}
    BY <2>1
  <2> HIDE DEF f, X
  <2> QED
    BY <2>2, ScheduleFrameOf DEF f, X
<1>4. F \in Steps(X, m)
  <2> HIDE DEF X, After, m
  <2> QED
    BY <1>3 DEF Steps
<1>5. walk = [k \in 0..m |-> IF k = 0 THEN start ELSE After(walk[k - 1], Len(frames) + 1 - k)]
  <2> HIDE DEF X, F, start, m
  <2>1. PICK g \in [0..m -> X] : g[0] = start /\ \A i \in 1..m : g[i] = F[<<g[i - 1], i>>]
    <3>1. m \in Nat
      BY <1>1
    <3>2. Iterates(X, start, m, F)
      BY <1>2, <1>4, <3>1, Recursion
    <3> QED
      BY <3>2 DEF Iterates
  <2>2. \A i \in 1..m : g[i] = After(g[i - 1], Len(frames) + 1 - i)
    <3> TAKE i \in 1..m
    <3>1. g[i - 1] \in X
      BY <1>1, <2>1
    <3> HIDE DEF After
    <3>2. F[<<g[i - 1], i>>] = After(g[i - 1], Len(frames) + 1 - i)
      BY <3>1 DEF F
    <3> QED
      BY <2>1, <3>2
  <2>3. g = [k \in 0..m |-> IF k = 0 THEN start ELSE After(g[k - 1], Len(frames) + 1 - k)]
    <3> HIDE DEF After
    <3> QED
      BY <1>1, <2>1, <2>2
  <2>4. walk = CHOOSE h : h = [k \in 0..m |-> IF k = 0 THEN start
                                               ELSE After(h[k - 1], Len(frames) + 1 - k)]
    BY DEF WalkFrames, start, m
  <2> HIDE DEF walk, After
  <2> QED
    BY <2>3, <2>4
<1>6. 0..m \subseteq {k \in 0..m : walk[k] \in X}
  <2> HIDE DEF walk, X, After, start, m
  <2>1. walk[0] \in X
    BY <1>1, <1>2, <1>5
  <2>2. \A i \in 1..m : walk[i - 1] \in X => walk[i] \in X
    <3> TAKE i \in 1..m
    <3>1. i \in 0..m /\ i # 0
      BY <1>1
    <3>2. walk[i] = After(walk[i - 1], Len(frames) + 1 - i)
      <4> HIDE DEF After
      <4> QED
        BY <1>5, <3>1
    <3> HIDE DEF After
    <3> QED
      BY <1>3, <3>2
  <2> DEFINE S == {k \in 0..m : walk[k] \in X}
  <2>3. 0 \in S /\ \A i \in 1..m : i - 1 \in S => i \in S
    BY <1>1, <2>1, <2>2
  <2> HIDE DEF S
  <2> QED
    BY <1>1, <2>3, Induct DEF S
<1> QED
  <2> HIDE DEF walk, X
  <2>1. m \in 0..m
    BY <1>1
  <2> QED
    BY <1>6, <2>1 DEF walk, X

(* find_fixpoint relinks consumers of C only, in their order. *)
LEMMA find_fixpointOf ==
  ASSUME NEW n \in Nat, NEW a \in Stack(n), NEW b \in Stack(n), NEW C \in SUBSET (1..n),
         NEW Below, Order(C, Below), breg \in 0..n,
         Relinked(a, b, C, breg), Chained(b, C, Below),
         frames \in Seq(Subgoals), NEW leader \in DOMAIN frames,
         \A f \in leader..Len(frames) : sf[frames[f]].pos_cons \in C \cup {0},
         NEW heads \in [Subgoals -> 0..n],
         \A s \in Subgoals : heads[s] \in {0, sf[s].pos_cons}
  PROVE  find_fixpoint(leader, b, heads) \in Fixpoints(n, a, C, Below)
<1> DEFINE w == WalkFrames(leader, b, heads)[Len(frames) - leader]
           e == Link(w.stack, w.last, breg)
           v == find_fixpoint(leader, b, heads)
<1>1. w \in Fixpoints(n, a, C, Below)
  BY WalkFramesOf
<1> HIDE DEF w
<1>2. /\ w.stack \in Stack(n) /\ w.heads \in [Subgoals -> 0..n]
      /\ w.chain \in C \cup {0} /\ w.last \in C \cup {0}
      /\ Relinked(a, w.stack, C, breg)
      /\ Chained(w.stack, C, Below)
      /\ \A t \in Subgoals : w.heads[t] \in {0, sf[t].pos_cons}
      /\ w = [stack |-> w.stack, heads |-> w.heads, chain |-> w.chain, last |-> w.last]
  BY <1>1 DEF Fixpoints
<1>3. e \in Stack(n) /\ Relinked(a, e, C, breg) /\ Chained(e, C, Below)
  BY <1>2, LinkOf
<1>4. v = [w EXCEPT !.stack = e]
  BY DEF find_fixpoint, w
<1>5. v = [stack |-> e, heads |-> w.heads, chain |-> w.chain, last |-> w.last]
  BY <1>2, <1>4
<1> HIDE DEF e, v
<1> QED
  BY <1>2, <1>3, <1>5 DEF Fixpoints, v

(* The list of consumers that begins at head goes down in the order: none  *)
(* is met twice. *)
LEMMA ConsumersOf ==
  ASSUME NEW n \in Nat, NEW a \in Stack(n), NEW C \in SUBSET (1..n), NEW Below,
         Order(C, Below), \A c, d \in C : <<c, d>> \in Below => c # d, Chained(a, C, Below),
         NEW head \in C \cup {0}
  PROVE  IsInjective(Consumers(a, head)) /\ Range(Consumers(a, head)) \subseteq C
<1> DEFINE X == C \cup {0}
           After(c) == IF c = 0 THEN 0 ELSE a[c].look
           F == [ck \in X \X (1..n) |-> After(ck[1])]
           pos == Walk(a, head)
<1>1. Len(a) = n
  BY StackIsSeq
<1>2. 0 \notin C /\ \A c \in C : a[c].look \in X /\ (a[c].look # 0 => <<c, a[c].look>> \in Below)
  <2>1. \A c \in C : a[c].look = 0 \/ <<c, a[c].look>> \in Below
    BY DEF Chained
  <2>2. \A c \in C : <<c, a[c].look>> \in Below => a[c].look \in C
    BY DEF Order
  <2>3. 0 \notin C
    OBVIOUS
  <2> QED
    BY <2>1, <2>2, <2>3
<1>3. F \in Steps(X, n)
  <2>1. \A c \in X : After(c) \in X
    BY <1>2
  <2> HIDE DEF X, After
  <2> QED
    BY <2>1 DEF Steps
<1>4. pos = [k \in 0..n |-> IF k = 0 THEN head ELSE After(pos[k - 1])]
  <2> HIDE DEF X, F
  <2>1. PICK g \in [0..n -> X] : g[0] = head /\ \A i \in 1..n : g[i] = F[<<g[i - 1], i>>]
    <3>1. head \in X
      BY DEF X
    <3>2. Iterates(X, head, n, F)
      BY <1>3, <3>1, Recursion
    <3> QED
      BY <3>2 DEF Iterates
  <2>2. \A i \in 1..n : g[i] = After(g[i - 1])
    <3> TAKE i \in 1..n
    <3>1. g[i - 1] \in X
      BY <2>1
    <3> HIDE DEF After
    <3>2. F[<<g[i - 1], i>>] = After(g[i - 1])
      BY <3>1 DEF F
    <3> QED
      BY <2>1, <3>2
  <2>3. g = [k \in 0..n |-> IF k = 0 THEN head ELSE After(g[k - 1])]
    <3> HIDE DEF After
    <3> QED
      BY <2>1, <2>2
  <2>4. pos = CHOOSE f : f = [k \in 0..n |-> IF k = 0 THEN head ELSE After(f[k - 1])]
    BY <1>1 DEF Walk
  <2> HIDE DEF pos, After
  <2> QED
    BY <2>3, <2>4
<1>5. DOMAIN pos = 0..n /\ pos[0] = head /\ \A k \in 1..n : pos[k] = After(pos[k - 1])
  <2> HIDE DEF pos, After
  <2>1. \A k \in 1..n : k \in 0..n /\ k # 0
    OBVIOUS
  <2> QED
    BY <1>4, <2>1
<1> HIDE DEF pos, F
(* Down to k all are consumers, and each is above those that follow it. *)
<1> DEFINE Down(k) ==
      /\ pos[k] \in X
      /\ \A j \in 0..k - 1 : pos[k] # 0 => pos[j] # 0 /\ <<pos[j], pos[k]>> \in Below
<1>6. 0..n \subseteq {k \in 0..n : Down(k)}
  <2> DEFINE S == {k \in 0..n : Down(k)}
  <2>1. 0 \in S
    BY <1>5
  <2>2. ASSUME NEW k \in 1..n, k - 1 \in S PROVE k \in S
    <3>1. Down(k - 1)
      BY <2>2
    <3>2. pos[k] \in X
      BY <1>2, <1>5, <3>1
    <3>3. ASSUME NEW j \in 0..k - 1, pos[k] # 0
          PROVE  pos[j] # 0 /\ <<pos[j], pos[k]>> \in Below
      <4>1. pos[k - 1] # 0 /\ <<pos[k - 1], pos[k]>> \in Below
        BY <1>2, <1>5, <3>1, <3>3
      <4>2. CASE j = k - 1
        BY <4>1, <4>2
      <4>3. CASE j # k - 1
        <5>1. j \in 0..(k - 1) - 1
          BY <4>3
        <5>2. pos[j] # 0 /\ <<pos[j], pos[k - 1]>> \in Below
          BY <3>1, <4>1, <5>1
        <5>3. pos[j] \in C /\ pos[k - 1] \in C /\ pos[k] \in C
          BY <3>1, <3>2, <3>3, <4>1, <5>2 DEF Order
        <5> QED
          BY <4>1, <5>2, <5>3 DEF Order
      <4> QED
        BY <4>2, <4>3
    <3> QED
      BY <3>2, <3>3
  <2> HIDE DEF S, Down
  <2> QED
    BY <2>1, <2>2, Induct DEF S
<1>7. \A k \in 0..n : Down(k)
  <2> HIDE DEF Down
  <2> QED
    BY <1>6
<1> DEFINE S == {k \in DOMAIN pos : pos[k] # 0}
           m == Cardinality(S)
<1>8. IsFiniteSet(S) /\ m \in Nat
  <2>1. S \subseteq 0..n
    BY <1>5
  <2> HIDE DEF S
  <2>2. IsFiniteSet(0..n)
    BY FS_Interval
  <2>3. S \in SUBSET (0..n)
    BY <2>1
  <2>4. IsFiniteSet(S)
    BY <2>2, <2>3, FS_Subset
  <2> QED
    BY <2>4, FS_CardinalityType
<1>9. \A k \in 1..m : k - 1 \in 0..n /\ pos[k - 1] # 0
  <2> SUFFICES ASSUME NEW k \in 1..m, ~ (k - 1 \in 0..n /\ pos[k - 1] # 0) PROVE FALSE
    OBVIOUS
  <2>1. k \in Nat /\ k <= m
    BY <1>8
  <2>2. S \subseteq 0..k - 2
    <3> SUFFICES ASSUME NEW j \in 0..n, pos[j] # 0, ~ (j <= k - 2) PROVE FALSE
      BY <1>5, <2>1
    <3>1. k - 1 \in 0..j
      BY <2>1
    <3>2. k - 1 = j \/ k - 1 \in 0..j - 1
      BY <2>1, <3>1
    <3>3. Down(j)
      BY <1>7
    <3>4. pos[k - 1] # 0
      BY <2>1, <3>2, <3>3
    <3> QED
      BY <2>1, <3>1, <3>4
  <2>3. IsFiniteSet(0..k - 2) /\ Cardinality(0..k - 2) <= k - 1
    <3>1. 0 \in Int /\ k - 2 \in Int
      BY <2>1
    <3>2. /\ IsFiniteSet(0..k - 2)
          /\ Cardinality(0..k - 2) = IF 0 > k - 2 THEN 0 ELSE (k - 2) - 0 + 1
      BY <3>1, FS_Interval
    <3> QED
      BY <2>1, <3>2
  <2>4. m <= k - 1
    <3> HIDE DEF S
    <3>1. S \in SUBSET (0..k - 2)
      BY <2>2
    <3>2. m <= Cardinality(0..k - 2) /\ Cardinality(0..k - 2) \in Nat
      BY <2>3, <3>1, FS_Subset, FS_CardinalityType
    <3> QED
      BY <1>8, <2>1, <2>3, <3>2
  <2> QED
    BY <1>8, <2>1, <2>4
<1>10. Consumers(a, head) = [k \in 1..m |-> pos[k - 1]]
  BY DEF Consumers, pos
<1> DEFINE list == Consumers(a, head)
<1>11. DOMAIN list = 1..m /\ \A k \in 1..m : list[k] = pos[k - 1]
  <2> HIDE DEF m
  <2> QED
    BY <1>10
<1> HIDE DEF m, S, list
<1>12. \A k \in 1..m : list[k] \in C
  BY <1>7, <1>9, <1>11
<1>13. ASSUME NEW j \in 1..m, NEW k \in 1..m, j < k PROVE list[j] # list[k]
  <2>1. j - 1 \in 0..(k - 1) - 1 /\ k - 1 \in 0..n
    BY <1>8, <1>9, <1>13
  <2>2. <<pos[j - 1], pos[k - 1]>> \in Below
    BY <1>7, <1>9, <2>1
  <2> QED
    BY <1>11, <1>12, <2>2
<1>14. IsInjective(list)
  <2> SUFFICES ASSUME NEW j \in 1..m, NEW k \in 1..m, list[j] = list[k] PROVE j = k
    BY <1>11 DEF IsInjective
  <2>1. ~ (j < k) /\ ~ (k < j)
    BY <1>13
  <2> QED
    BY <1>8, <2>1
<1>15. Range(list) \subseteq C
  BY <1>11, <1>12 DEF Range
<1> QED
  BY <1>14, <1>15 DEF list
--------------------------------------------------------------------------
(* PROGRAMS *)

Run == [val : Values, body : SUBSET (Subgoals \X Values)]

Literal(l) ==
  /\ l.goal \in Subgoals
  /\ DOMAIN l.step \subseteq Values \X Values
  /\ \A xy \in DOMAIN l.step : l.step[xy] \in Values

(* The clauses of a program are sequences of literals. *)
LEMMA ClauseOf ==
  ASSUME program \in DOMAIN Programs, NEW s \in Subgoals
  PROVE  /\ Len(Clauses(s)) \in Nat /\ Len(Clauses(s)) >= 1
         /\ DOMAIN Clauses(s) = 1..Len(Clauses(s))
         /\ \A i \in 1..Len(Clauses(s)) :
              /\ Clauses(s)[i].start \in Values
              /\ Len(Clauses(s)[i].body) \in Nat
              /\ DOMAIN Clauses(s)[i].body = 1..Len(Clauses(s)[i].body)
              /\ \A k \in 1..Len(Clauses(s)[i].body) : Literal(Clauses(s)[i].body[k])
<1> DEFINE clauses == Programs[program][s]
<1>1. /\ clauses \in Seq(Range(clauses)) /\ clauses # <<>>
      /\ \A i \in DOMAIN clauses :
           /\ clauses[i].start \in Values
           /\ clauses[i].body \in Seq(Range(clauses[i].body))
           /\ \A l \in Range(clauses[i].body) : Literal(l)
  BY ProgramsAssumption DEF IsSequence, Literal
<1>2. Clauses(s) = clauses
  BY DEF Clauses
<1> HIDE DEF clauses
<1>3. Len(clauses) \in Nat /\ Len(clauses) >= 1 /\ DOMAIN clauses = 1..Len(clauses)
  BY <1>1
<1>4. ASSUME NEW i \in 1..Len(clauses)
      PROVE  /\ Len(clauses[i].body) \in Nat
             /\ DOMAIN clauses[i].body = 1..Len(clauses[i].body)
             /\ \A k \in 1..Len(clauses[i].body) : Literal(clauses[i].body[k])
  <2> DEFINE body == clauses[i].body
  <2>1. body \in Seq(Range(body)) /\ \A l \in Range(body) : Literal(l)
    BY <1>1, <1>3
  <2> HIDE DEF body
  <2>2. Len(body) \in Nat /\ DOMAIN body = 1..Len(body)
    BY <2>1
  <2>3. \A k \in 1..Len(body) : body[k] \in Range(body)
    BY <2>2 DEF Range
  <2> QED
    BY <2>1, <2>2, <2>3 DEF body
<1> QED
  BY <1>1, <1>2, <1>3, <1>4

(* The runs of a clause up to each of its literals. *)
LEMMA RunsAre ==
  ASSUME NEW clause, clause.start \in Values, Len(clause.body) \in Nat,
         \A k \in 1..Len(clause.body) : Literal(clause.body[k])
  PROVE  /\ \A k \in 0..Len(clause.body) : Runs(clause)[k] \in SUBSET Run
         /\ Runs(clause)[0] = {[val |-> clause.start, body |-> {}]}
         /\ \A k \in 1..Len(clause.body) :
              Runs(clause)[k] = Extend(Runs(clause)[k - 1], clause.body[k])
<1> DEFINE m == Len(clause.body)
           X == SUBSET Run
           start == {[val |-> clause.start, body |-> {}]}
           F == [Sk \in X \X (1..m) |-> Extend(Sk[1], clause.body[Sk[2]])]
           runs == Runs(clause)
<1>1. start \in X
  BY DEF Run
<1>2. \A S \in X, k \in 1..m : Extend(S, clause.body[k]) \in X
  <2> SUFFICES ASSUME NEW S \in X, NEW k \in 1..m, NEW r \in Extend(S, clause.body[k])
               PROVE  r \in Run
    OBVIOUS
  <2> DEFINE l == clause.body[k]
  <2>1. Literal(l)
    OBVIOUS
  <2> HIDE DEF l
  <2>2. PICK ry \in S \X Values :
          /\ <<ry[1].val, ry[2]>> \in DOMAIN l.step
          /\ r = [val |-> l.step[<<ry[1].val, ry[2]>>], body |-> ry[1].body \cup {<<l.goal, ry[2]>>}]
    BY DEF Extend, l
  <2>3. l.step[<<ry[1].val, ry[2]>>] \in Values
    BY <2>1, <2>2 DEF Literal
  <2>4. ry[1] \in Run /\ ry[1].body \subseteq Subgoals \X Values
    BY DEF Run
  <2>5. ry[1].body \cup {<<l.goal, ry[2]>>} \subseteq Subgoals \X Values
    BY <2>1, <2>4 DEF Literal
  <2> QED
    BY <2>2, <2>3, <2>5 DEF Run
<1>3. F \in Steps(X, m)
  <2> HIDE DEF X, m
  <2> QED
    BY <1>2 DEF Steps
<1>4. runs = [k \in 0..m |-> IF k = 0 THEN start ELSE Extend(runs[k - 1], clause.body[k])]
  <2> HIDE DEF X, F, start
  <2>1. PICK g \in [0..m -> X] : g[0] = start /\ \A i \in 1..m : g[i] = F[<<g[i - 1], i>>]
    <3>1. m \in Nat
      OBVIOUS
    <3> HIDE DEF m
    <3>2. Iterates(X, start, m, F)
      BY <1>1, <1>3, <3>1, Recursion
    <3> QED
      BY <3>2 DEF Iterates
  <2>2. \A i \in 1..m : g[i] = Extend(g[i - 1], clause.body[i])
    <3> TAKE i \in 1..m
    <3>1. g[i - 1] \in X
      BY <2>1
    <3>2. F[<<g[i - 1], i>>] = Extend(g[i - 1], clause.body[i])
      BY <3>1 DEF F
    <3> QED
      BY <2>1, <3>2
  <2>3. g = [k \in 0..m |-> IF k = 0 THEN start ELSE Extend(g[k - 1], clause.body[k])]
    BY <2>1, <2>2
  <2>4. runs = CHOOSE f : f = [k \in 0..m |-> IF k = 0 THEN start
                                              ELSE Extend(f[k - 1], clause.body[k])]
    BY DEF Runs, start
  <2> HIDE DEF runs
  <2> QED
    BY <2>3, <2>4
<1> HIDE DEF runs
<1>5. runs[0] = start
  BY <1>4
<1>6. \A k \in 1..m : runs[k] = Extend(runs[k - 1], clause.body[k])
  <2> TAKE k \in 1..m
  <2>1. k \in 0..m /\ k # 0
    OBVIOUS
  <2> HIDE DEF m, start
  <2> QED
    BY <1>4, <2>1
<1>7. 0..m \subseteq {k \in 0..m : runs[k] \in X}
  <2> HIDE DEF X, start
  <2> DEFINE S == {k \in 0..m : runs[k] \in X}
  <2>1. 0 \in S
    BY <1>1, <1>5
  <2>2. \A k \in 1..m : k - 1 \in S => k \in S
    <3> TAKE k \in 1..m
    <3>1. runs[k - 1] \in X => runs[k] \in X
      BY <1>2, <1>6
    <3> QED
      BY <3>1
  <2> HIDE DEF S
  <2> QED
    BY <2>1, <2>2, Induct DEF S
<1> QED
  BY <1>5, <1>6, <1>7 DEF runs
--------------------------------------------------------------------------
(* TABLES AND PLACES *)

(* The clause of a place. *)
Literals(place) == Clauses(place.root)[place.clause].body

(* A run of the clause up to the literal has reached the value of the      *)
(* place, and the atoms that it uses are answered. *)
Answered(r) == \A a \in r.body : a[2] \in Answers(a[1])
Derived(place) ==
  \E r \in Runs(Clauses(place.root)[place.clause])[place.lit - 1] :
    r.val = place.val /\ Answered(r)

InQuery(place) ==
  place = AskQuery \/ (place.root = NoGoal /\ place.clause = 1 /\ place.lit = 2)
InClause(place) ==
  /\ place.root \in Subgoals /\ sf[place.root].exists
  /\ place.clause \in 1..Len(Clauses(place.root))
  /\ place.lit \in 1..Len(Literals(place)) + 1
  /\ Derived(place)
Places == {place \in Place : InQuery(place) \/ InClause(place)}

(* The literal of the place calls s. *)
WaitsFor(place, s) ==
  \/ place = AskQuery
  \/ /\ place.root \in Subgoals
     /\ place.lit <= Len(Literals(place))
     /\ Literals(place)[place.lit].goal = s

(* Choice points of the program, live or not. *)
Slots ==
  {c \in Slot(Len(cps)) :
     /\ sf[c.goal].exists
     /\ c.cont \in Places /\ WaitsFor(c.cont, c.goal)
     /\ c.left \subseteq Answers(c.goal)
     /\ c.kind = "generator" => c.pc >= 1}

Frame ==
  [exists : BOOLEAN, is_complete : BOOLEAN, is_reclaimed : BOOLEAN,
   answers : Seq(Values), pos_cons : 0..Len(cps), cp_ptr : 0..Len(cps)]

Registers ==
  /\ breg \in 0..Len(cps) /\ bfreg \in 0..Len(cps) /\ root_address \in 0..Len(cps)

(* The subgoals that were called are open or complete. *)
Opened ==
  /\ \A f \in DOMAIN frames : sf[frames[f]].exists
  /\ \A s \in Subgoals :
       /\ sf[s].exists => s \in Range(frames) \/ sf[s].is_complete
       /\ ~ sf[s].exists => sf[s].answers = <<>>

Typed ==
  /\ program \in DOMAIN Programs /\ todo \in Seq(Subgoals) /\ got \subseteq Values
  /\ cps \in Seq(Slots)
  /\ Registers
  /\ sf \in [Subgoals -> Frame]
  /\ frames \in Seq(Subgoals)
  /\ leaders \subseteq DOMAIN frames /\ sched_heap \subseteq DOMAIN frames
  /\ Opened
  /\ at = Failed \/ at \in Places
  /\ todo = <<>> => at = Failed /\ breg = 0

(* The tables only grow. *)
Grown ==
  /\ program' = program
  /\ \A s \in Subgoals : (sf[s].exists => sf'[s].exists) /\ Answers(s) \subseteq Answers(s)'

(* A place is within a clause or within the query. *)
LEMMA PlaceTypes ==
  ASSUME NEW place \in Places
  PROVE  /\ place \in Place
         /\ place.root \in Subgoals => InClause(place)
         /\ place.root \notin Subgoals => InQuery(place) /\ place.root = NoGoal
BY ProgramsAssumption DEF Places, InQuery, InClause, AskQuery

(* The literals of a place in a clause. *)
LEMMA BodyOf ==
  ASSUME program \in DOMAIN Programs, NEW place \in Places, place.root \in Subgoals
  PROVE  /\ Body(place) = Literals(place)
         /\ Len(Literals(place)) \in Nat
         /\ \A k \in 1..Len(Literals(place)) : Literal(Literals(place)[k])
         /\ place.lit \in 1..Len(Literals(place)) + 1
         /\ LET clause == Clauses(place.root)[place.clause]
            IN  /\ clause.start \in Values
                /\ Len(clause.body) \in Nat
                /\ \A k \in 1..Len(clause.body) : Literal(clause.body[k])
<1>1. InClause(place)
  BY PlaceTypes
<1>2. place.root # NoGoal
  BY ProgramsAssumption
<1>3. Body(place) = Literals(place)
  BY <1>2 DEF Body, Literals
<1> QED
  BY <1>1, <1>3, ClauseOf DEF InClause, Literals

(* The query is a clause of one literal that hands on what it is answered. *)
LEMMA AskQueryOf ==
  /\ AskQuery.root = NoGoal /\ AskQuery.lit = 1 /\ AskQuery.val = Truth /\ AskQuery.clause = 1
  /\ Len(Body(AskQuery)) = 1
  /\ Body(AskQuery)[1].goal = Head(todo)
  /\ Body(AskQuery)[1].step = [xy \in Values \X Values |-> xy[2]]
BY DEF AskQuery, Body

(* The answers of a table are values. *)
LEMMA AnswersAreValues ==
  ASSUME sf \in [Subgoals -> Frame], NEW s \in Subgoals
  PROVE  Answers(s) \subseteq Values
<1>1. sf[s].answers \in Seq(Values)
  BY DEF Frame
<1> QED
  BY <1>1 DEF Answers, Range

(* An answer returned to a place leads to the next literal or fails. *)
LEMMA ReturnOf ==
  ASSUME program \in DOMAIN Programs, sf \in [Subgoals -> Frame],
         NEW place \in Places, NEW s \in Subgoals, WaitsFor(place, s), NEW y \in Answers(s)
  PROVE  \/ Return(place, y) = Failed /\ place # AskQuery
         \/ /\ Return(place, y) \in Places
            /\ Return(place, y).root = place.root
            /\ place = AskQuery => Return(place, y).lit = 2 /\ Return(place, y).val = y
<1> DEFINE q == Return(place, y)
<1>1. y \in Values
  BY AnswersAreValues
<1>2. CASE place = AskQuery
  <2>1. <<Truth, y>> \in Values \X Values
    BY <1>1, ProgramsAssumption
  <2>2. q = [AskQuery EXCEPT !.lit = 2, !.val = y]
    <3> DEFINE step == [xy \in Values \X Values |-> xy[2]]
    <3>1. <<Truth, y>> \in DOMAIN step /\ step[<<Truth, y>>] = y
      BY <2>1
    <3> HIDE DEF step
    <3>2. q = [AskQuery EXCEPT !.lit = @ + 1, !.val = step[<<Truth, y>>]]
      <4>1. Body(AskQuery)[AskQuery.lit].step = step /\ AskQuery.val = Truth
        BY AskQueryOf DEF step
      <4> QED
        BY <1>2, <3>1, <4>1 DEF Return
    <3>3. AskQuery.lit + 1 = 2
      BY AskQueryOf
    <3> QED
      BY <3>1, <3>2, <3>3
  <2>3. q = [root |-> NoGoal, clause |-> 1, lit |-> 2, val |-> y]
    BY <2>2 DEF AskQuery
  <2>4. q \in Place
    BY <1>1, <2>3 DEF Place
  <2> HIDE DEF q
  <2>5. q \in Places /\ q.root = place.root /\ q.lit = 2 /\ q.val = y
    BY <1>2, <2>3, <2>4, AskQueryOf DEF Places, InQuery
  <2> QED
    BY <2>5 DEF q
<1>3. CASE place # AskQuery
  <2>1. place.root \in Subgoals /\ place.lit <= Len(Literals(place))
        /\ Literals(place)[place.lit].goal = s
    BY <1>3 DEF WaitsFor
  <2>2. InClause(place) /\ place \in Place
    BY <2>1, PlaceTypes
  <2> DEFINE clause == Clauses(place.root)[place.clause]
             l == Literals(place)[place.lit]
             k == place.lit
  <2>3. /\ clause.start \in Values /\ Len(clause.body) \in Nat
        /\ \A j \in 1..Len(clause.body) : Literal(clause.body[j])
        /\ Body(place) = clause.body /\ Literals(place) = clause.body
    BY <2>1, BodyOf DEF Literals
  <2>4. k \in 1..Len(clause.body) /\ l = clause.body[k] /\ l.goal = s /\ Literal(l)
    BY <2>1, <2>2, <2>3 DEF InClause
  <2>5. PICK r \in Runs(clause)[k - 1] : r.val = place.val /\ Answered(r)
    BY <2>2 DEF InClause, Derived
  <2>6. /\ Runs(clause)[k - 1] \in SUBSET Run /\ Runs(clause)[k] = Extend(Runs(clause)[k - 1], l)
    <3> HIDE DEF clause
    <3>1. k - 1 \in 0..Len(clause.body)
      BY <2>3, <2>4
    <3> QED
      BY <2>3, <2>4, <3>1, RunsAre
  <2>7. CASE <<place.val, y>> \notin DOMAIN l.step
    BY <1>3, <2>3, <2>4, <2>7 DEF Return
  <2>8. CASE <<place.val, y>> \in DOMAIN l.step
    <3> DEFINE v == l.step[<<place.val, y>>]
    <3>1. v \in Values
      BY <2>4, <2>8 DEF Literal
    <3>2. q = [place EXCEPT !.lit = k + 1, !.val = v]
      BY <2>3, <2>4, <2>8 DEF Return
    <3>3. q = [root |-> place.root, clause |-> place.clause, lit |-> k + 1, val |-> v]
      BY <2>2, <3>2 DEF Place
    <3>4. k + 1 \in 1..Len(clause.body) + 1
      BY <2>3, <2>4
    <3> DEFINE next == [val |-> v, body |-> r.body \cup {<<s, y>>}]
    <3>5. next \in Runs(clause)[k]
      <4>1. <<r, y>> \in Runs(clause)[k - 1] \X Values
        BY <1>1
      <4>2. next \in Extend(Runs(clause)[k - 1], l)
        <5> DEFINE ry == <<r, y>>
        <5>1. ry[1] = r /\ ry[2] = y /\ ry \in Runs(clause)[k - 1] \X Values
          BY <4>1
        <5>2. next = [val |-> l.step[<<ry[1].val, ry[2]>>],
                      body |-> ry[1].body \cup {<<l.goal, ry[2]>>}]
          BY <2>4, <2>5, <5>1
        <5>3. <<ry[1].val, ry[2]>> \in DOMAIN l.step
          BY <2>5, <2>8, <5>1
        <5> HIDE DEF clause, l, k, next, ry
        <5> QED
          BY <5>1, <5>2, <5>3 DEF Extend
      <4> QED
        BY <2>6, <4>2
    <3>6. Answered(next)
      BY <2>5 DEF Answered
    <3>7. Derived(q)
      <4>1. q.lit - 1 = k /\ q.val = next.val /\ Clauses(q.root)[q.clause] = clause
        BY <2>4, <3>3
      <4> HIDE DEF q, next, clause, k
      <4> QED
        BY <3>5, <3>6, <4>1 DEF Derived
    <3>8. q \in Place
      BY <2>2, <3>1, <3>3, <3>4 DEF Place
    <3>9. InClause(q)
      <4>1. q.root = place.root /\ q.clause = place.clause /\ q.lit = k + 1
        BY <3>3
      <4> HIDE DEF q
      <4> QED
        BY <2>2, <2>3, <3>4, <3>7, <4>1 DEF InClause, Literals
    <3>10. q.root = place.root
      BY <3>3
    <3> HIDE DEF q
    <3> QED
      BY <1>3, <3>8, <3>9, <3>10 DEF Places, q
  <2> QED
    BY <2>7, <2>8
<1> QED
  BY <1>2, <1>3

(* A place that is legal stays legal as tables grow. *)
LEMMA PlacesGrow ==
  ASSUME program \in DOMAIN Programs, sf \in [Subgoals -> Frame], Grown
  PROVE  Places \subseteq Places'
<1> SUFFICES ASSUME NEW place \in Places PROVE place \in Places'
  OBVIOUS
<1>1. CASE place.root \notin Subgoals
  <2>1. place \in Place /\ InQuery(place)
    BY <1>1, PlaceTypes
  <2> QED
    BY <2>1 DEF Places, Place, InQuery, AskQuery
<1>2. CASE place.root \in Subgoals
  <2>1. place \in Place /\ InClause(place)
    BY <1>2, PlaceTypes
  <2> DEFINE clause == Clauses(place.root)[place.clause]
  <2>2. Clauses(place.root)' = Clauses(place.root)
    BY DEF Grown, Clauses
  <2>3. PICK r \in Runs(clause)[place.lit - 1] : r.val = place.val /\ Answered(r)
    BY <2>1 DEF InClause, Derived
  <2>4. r \in Run
    <3>1. /\ clause.start \in Values /\ Len(clause.body) \in Nat
          /\ \A j \in 1..Len(clause.body) : Literal(clause.body[j])
          /\ place.lit \in 1..Len(clause.body) + 1
      BY <1>2, BodyOf DEF Literals
    <3> HIDE DEF clause
    <3>2. place.lit - 1 \in 0..Len(clause.body)
      BY <3>1
    <3> QED
      BY <2>3, <3>1, <3>2, RunsAre
  <2>5. Answered(r)'
    <3> SUFFICES ASSUME NEW a \in r.body PROVE a[2] \in Answers(a[1])'
      BY DEF Answered
    <3>1. a[1] \in Subgoals
      BY <2>4 DEF Run
    <3> QED
      BY <2>3, <3>1 DEF Answered, Grown
  <2>6. Derived(place)'
    BY <2>2, <2>3, <2>5 DEF Derived
  <2>7. InClause(place)'
    BY <2>1, <2>2, <2>6 DEF InClause, Literals, Grown
  <2> QED
    BY <2>1, <2>7 DEF Places, Place
<1> QED
  BY <1>1, <1>2

(* So does a choice point. *)
LEMMA SlotsGrow ==
  ASSUME program \in DOMAIN Programs, sf \in [Subgoals -> Frame], Grown,
         Len(cps) \in Nat, Len(cps') \in Nat, Len(cps) <= Len(cps')
  PROVE  Slots \subseteq Slots'
<1> SUFFICES ASSUME NEW c \in Slots PROVE c \in Slots'
  OBVIOUS
<1>1. /\ c \in Slot(Len(cps)) /\ c.goal \in Subgoals
      /\ sf[c.goal].exists
      /\ c.cont \in Places /\ WaitsFor(c.cont, c.goal)
      /\ c.left \subseteq Answers(c.goal)
      /\ c.kind = "generator" => c.pc >= 1
  BY DEF Slots, Slot
<1>2. c \in Slot(Len(cps'))
  BY <1>1 DEF Slot
<1>3. c.cont \in Places'
  BY <1>1, PlacesGrow
<1>4. WaitsFor(c.cont, c.goal)'
  BY <1>1 DEF WaitsFor, Grown, Literals, Clauses, AskQuery
<1>5. sf'[c.goal].exists /\ c.left \subseteq Answers(c.goal)'
  BY <1>1 DEF Grown
<1> QED
  BY <1>1, <1>2, <1>3, <1>4, <1>5 DEF Slots, Slot

(* Nothing that tables are made of has changed. *)
LEMMA GrownSame ==
  ASSUME UNCHANGED <<program, sf>>
  PROVE  Grown
BY DEF Grown, Answers

(* A sequence over a set is one over a larger set. *)
LEMMA SeqGrows ==
  ASSUME NEW S, NEW T, S \subseteq T, NEW a \in Seq(S)
  PROVE  a \in Seq(T)
OBVIOUS

(* Put writes one choice point and leaves the others. *)
LEMMA PutOf ==
  ASSUME NEW S, NEW a \in Seq(S), NEW t \in 1..Len(a) + 1, NEW cp \in S
  PROVE  /\ Put(a, t, cp) \in Seq(S)
         /\ Len(Put(a, t, cp)) = IF t <= Len(a) THEN Len(a) ELSE t
         /\ Len(Put(a, t, cp)) \in Nat /\ Len(a) <= Len(Put(a, t, cp)) /\ t <= Len(Put(a, t, cp))
         /\ Put(a, t, cp)[t] = cp
         /\ \A i \in 1..Len(a) : i # t => Put(a, t, cp)[i] = a[i]
<1> DEFINE m == Max({Len(a), t})
           p == [i \in 1..m |-> IF i = t THEN cp ELSE a[i]]
<1>1. Len(a) \in Nat /\ t \in Nat /\ m = IF Len(a) >= t THEN Len(a) ELSE t
  BY MaxOf
<1>2. Put(a, t, cp) = p
  BY DEF Put
<1> HIDE DEF m
<1>3. \A i \in 1..m : (IF i = t THEN cp ELSE a[i]) \in S
  BY <1>1
<1>4. p \in [1..m -> S]
  BY <1>3
<1>5. p \in Seq(S) /\ Len(p) = m
  BY <1>1, <1>4
<1>6. p[t] = cp /\ \A i \in 1..Len(a) : i # t => p[i] = a[i]
  BY <1>1
<1> HIDE DEF p
<1> QED
  BY <1>1, <1>2, <1>5, <1>6

(* What a step leaves when it opens, fills and completes no table.         *)
LEMMA QuietTyped ==
  ASSUME Typed,
         UNCHANGED <<program, sf, bfreg, root_address, frames, leaders, sched_heap>>,
         todo' \in Seq(Subgoals), got' \subseteq Values,
         Len(cps) <= Len(cps'), cps' \in Seq(Slots'), breg' \in 0..Len(cps'),
         at' = Failed \/ at' \in Places \/ at' \in Places',
         todo' = <<>> => at' = Failed /\ breg' = 0
  PROVE  Typed'
<1>1. Len(cps) \in Nat /\ Len(cps') \in Nat
  BY DEF Typed
<1>2. Places \subseteq Places'
  BY PlacesGrow, GrownSame DEF Typed
<1>3. Registers'
  BY <1>1 DEF Typed, Registers
<1>4. sf' \in [Subgoals -> Frame']
  <2>1. Frame \subseteq Frame'
    BY <1>1 DEF Frame
  <2> QED
    BY <2>1 DEF Typed
<1>5. Opened'
  BY DEF Typed, Opened
<1>6. at' = Failed \/ at' \in Places'
  BY <1>2
<1> QED
  BY <1>3, <1>4, <1>5, <1>6 DEF Typed

(* A goal that is called. *)
LEMMA CalledGoal ==
  ASSUME Typed, Calling
  PROVE  /\ Goal \in Subgoals /\ at \in Places /\ WaitsFor(at, Goal)
         /\ at.root \notin Subgoals => at = AskQuery
         /\ todo # <<>>
<1>1. at \in Places /\ at # Failed /\ todo # <<>>
  BY DEF Typed, Calling
<1>2. CASE at.root \in Subgoals
  <2>1. /\ Body(at) = Literals(at) /\ Len(Literals(at)) \in Nat
        /\ at.lit \in 1..Len(Literals(at)) + 1
        /\ \A k \in 1..Len(Literals(at)) : Literal(Literals(at)[k])
    BY <1>1, <1>2, BodyOf DEF Typed
  <2>2. at.lit <= Len(Literals(at)) /\ Goal = Literals(at)[at.lit].goal
    BY <2>1 DEF Calling, Goal
  <2>3. Goal \in Subgoals
    BY <2>1, <2>2 DEF Literal
  <2> QED
    BY <1>1, <1>2, <2>2, <2>3 DEF WaitsFor
<1>3. CASE at.root \notin Subgoals
  <2>1. InQuery(at) /\ at.root = NoGoal
    BY <1>1, <1>3, PlaceTypes
  <2>2. Len(Body(at)) = 1
    BY <2>1 DEF Body
  <2>3. at = AskQuery
    BY <2>1, <2>2 DEF Calling, InQuery
  <2>4. Goal = Head(todo)
    BY <2>3, AskQueryOf DEF Goal
  <2>5. Goal \in Subgoals
    BY <1>1, <2>4 DEF Typed
  <2> QED
    BY <1>1, <2>3, <2>5 DEF WaitsFor
<1> QED
  BY <1>2, <1>3
--------------------------------------------------------------------------
(* EACH STEP KEEPS THE TYPES *)

(* The stack is a sequence of choice points. *)
LEMMA StackTyped ==
  ASSUME Typed
  PROVE  /\ Len(cps) \in Nat /\ DOMAIN cps = 1..Len(cps)
         /\ cps \in Stack(Len(cps))
         /\ \A i \in 1..Len(cps) : cps[i] \in Slots /\ cps[i] \in Slot(Len(cps))
         /\ \A i \in 1..Len(cps) : cps[i].goal \in Subgoals
<1>1. Len(cps) \in Nat /\ DOMAIN cps = 1..Len(cps) /\ \A i \in 1..Len(cps) : cps[i] \in Slots
  BY DEF Typed
<1>2. \A i \in 1..Len(cps) : cps[i] \in Slot(Len(cps))
  BY <1>1 DEF Slots
<1>3. \A i \in 1..Len(cps) : cps[i].goal \in Subgoals
  BY <1>2 DEF Slot
<1>4. cps = [i \in 1..Len(cps) |-> cps[i]]
  BY <1>1 DEF Typed
<1> QED
  BY <1>1, <1>2, <1>3, <1>4 DEF Stack

(* A choice point is pushed. *)
LEMMA PutTyped ==
  ASSUME Typed, Grown, NEW t \in 1..Len(cps) + 1, NEW cp \in Slot(Len(cps)),
         sf'[cp.goal].exists, cp.cont \in Places, WaitsFor(cp.cont, cp.goal),
         cp.left \subseteq Answers(cp.goal)', cp.kind = "generator" => cp.pc >= 1,
         cps' = Put(cps, t, cp)
  PROVE  /\ cps' \in Seq(Slots')
         /\ Len(cps) \in Nat /\ Len(cps') \in Nat
         /\ Len(cps) <= Len(cps') /\ t <= Len(cps') /\ 1 <= t
         /\ cps'[t] = cp /\ \A i \in 1..Len(cps) : i # t => cps'[i] = cps[i]
<1>1. cps \in Seq(Slots \cup {cp})
  BY DEF Typed
<1>2. /\ cps' \in Seq(Slots \cup {cp})
      /\ Len(cps') \in Nat /\ Len(cps) <= Len(cps') /\ t <= Len(cps')
      /\ cps'[t] = cp /\ \A i \in 1..Len(cps) : i # t => cps'[i] = cps[i]
  <2> DEFINE S == Slots \cup {cp}
             p == Put(cps, t, cp)
  <2>1. cps \in Seq(S) /\ cp \in S
    BY <1>1
  <2> HIDE DEF S
  <2>2. /\ p \in Seq(S)
        /\ Len(p) \in Nat /\ Len(cps) <= Len(p) /\ t <= Len(p)
        /\ p[t] = cp /\ \A i \in 1..Len(cps) : i # t => p[i] = cps[i]
    BY <2>1, PutOf
  <2> HIDE DEF p
  <2>3. cps' = p
    BY DEF p
  <2> QED
    BY <2>2, <2>3 DEF S
<1>3. Len(cps) \in Nat
  BY StackTyped
<1>4. Slots \subseteq Slots'
  BY <1>2, <1>3, SlotsGrow DEF Typed
<1>5. cp \in Slots'
  <2>1. cp \in Slot(Len(cps'))
    BY <1>2, <1>3 DEF Slot
  <2>2. cp.cont \in Places'
    BY PlacesGrow DEF Typed
  <2>3. WaitsFor(cp.cont, cp.goal)'
    BY DEF WaitsFor, Grown, Literals, Clauses, AskQuery
  <2> QED
    BY <2>1, <2>2, <2>3 DEF Slots
<1>6. Slots \cup {cp} \subseteq Slots'
  BY <1>4, <1>5
<1>7. cps' \in Seq(Slots')
  BY <1>2, <1>6, SeqGrows
<1> QED
  BY <1>2, <1>3, <1>7

(* Choice points change in place, but not what they wait for. *)
LEMMA ChangeTyped ==
  ASSUME Typed, Grown, DOMAIN cps' = DOMAIN cps, cps' \in Stack(Len(cps)),
         \A i \in 1..Len(cps) :
           /\ cps'[i].goal = cps[i].goal /\ cps'[i].cont = cps[i].cont
           /\ cps'[i].left \subseteq cps[i].left
           /\ cps'[i].kind = "generator" => cps'[i].pc >= 1
  PROVE  cps' \in Seq(Slots') /\ Len(cps') = Len(cps)
<1>1. Len(cps) \in Nat /\ Len(cps') = Len(cps) /\ cps' \in Seq(Slot(Len(cps)))
  BY StackTyped, StackIsSeq
<1>2. Slots \subseteq Slots'
  BY <1>1, SlotsGrow DEF Typed
<1>3. ASSUME NEW i \in 1..Len(cps) PROVE cps'[i] \in Slots'
  <2>1. cps[i] \in Slots'
    BY <1>2, StackTyped
  <2>2. cps'[i] \in Slot(Len(cps'))
    BY <1>1
  <2>3. cps[i] \in Slot(Len(cps))
    BY StackTyped
  <2>5. PICK c : c = cps'[i]
    OBVIOUS
  <2>6. WaitsFor(c.cont, c.goal)'
    BY <2>1, <2>5 DEF Slots
  <2>7. c \in Slots'
    BY <2>1, <2>2, <2>5, <2>6 DEF Slots
  <2> QED
    BY <2>5, <2>7
<1>4. cps' \in Seq(Slots')
  BY <1>1, <1>3
<1> QED
  BY <1>1, <1>4

(* A stack that is not written keeps its type. *)
LEMMA UnchangedStack == ASSUME Typed, UNCHANGED <<program, sf, cps>> PROVE cps' \in Seq(Slots')
<1>1. \A i \in 1..Len(cps) : cps[i].left \subseteq cps[i].left
  OBVIOUS
<1>2. \A i \in 1..Len(cps) : cps[i].kind = "generator" => cps[i].pc >= 1
  BY StackTyped DEF Slots
<1> QED
  BY <1>1, <1>2, ChangeTyped, StackTyped, GrownSame

(* A known answer keeps the types. *)
LEMMA IgnoreAnswerTyped == ASSUME Typed, IgnoreAnswer PROVE Typed'
<1>1. UNCHANGED <<program, todo, got, sf, cps, breg, bfreg, root_address, frames, leaders, sched_heap>>
  BY DEF IgnoreAnswer, stacks
<1>2. cps' \in Seq(Slots') /\ Len(cps) \in Nat
  BY <1>1, UnchangedStack, StackTyped
<1> QED
  BY <1>1, <1>2, QuietTyped DEF IgnoreAnswer, Typed, Registers

(* The top of the stack is the later of breg and bfreg. *)
LEMMA TopOf ==
  ASSUME Registers, Len(cps) \in Nat
  PROVE  /\ top_of_cpstack = IF breg >= bfreg THEN breg ELSE bfreg
         /\ top_of_cpstack \in 0..Len(cps)
         /\ top_of_cpstack + 1 \in 1..Len(cps) + 1
<1>1. breg \in Int /\ bfreg \in Int
  BY DEF Registers
<1>2. top_of_cpstack = IF breg >= bfreg THEN breg ELSE bfreg
  BY <1>1, MaxOf DEF top_of_cpstack
<1> QED
  BY <1>2 DEF Registers

(* A clause is entered. *)
LEMMA EnterOf ==
  ASSUME Typed, Grown, NEW s \in Subgoals, sf'[s].exists, NEW i \in 1..Len(Clauses(s))
  PROVE  /\ Enter(s, i) \in Places'
         /\ Enter(s, i).root = s
         /\ Enter(s, i) # Failed /\ Enter(s, i) # AskQuery
<1> DEFINE clause == Clauses(s)[i]
           e == Enter(s, i)
<1>1. /\ clause.start \in Values /\ Len(clause.body) \in Nat
      /\ \A j \in 1..Len(clause.body) : Literal(clause.body[j])
      /\ Len(Clauses(s)) \in Nat
  BY ClauseOf DEF Typed
<1>2. e = [root |-> s, clause |-> i, lit |-> 1, val |-> clause.start]
  BY DEF Enter
<1>3. Clauses(s)' = Clauses(s)
  BY DEF Grown, Clauses
<1>4. [val |-> clause.start, body |-> {}] \in Runs(clause)[0]
  <2> HIDE DEF clause
  <2> QED
    BY <1>1, RunsAre
<1> HIDE DEF clause, e
<1>5. e.root = s /\ e.clause = i /\ e.lit = 1 /\ e.val = clause.start
  BY <1>2
<1>6. e \in Place
  BY <1>1, <1>2 DEF Place
<1>7. PICK c : c = e
  OBVIOUS
<1>8. Derived(c)'
  <2>1. PICK r : r = [val |-> clause.start, body |-> {}]
    OBVIOUS
  <2>2. Clauses(c.root)'[c.clause] = clause
    BY <1>3, <1>5, <1>7 DEF clause
  <2>3. r \in Runs(Clauses(c.root)[c.clause])'[c.lit - 1]
    BY <1>4, <1>5, <1>7, <2>1, <2>2
  <2>4. r.val = c.val /\ r.body = {}
    BY <1>5, <1>7, <2>1
  <2>5. Answered(r)'
    BY <2>4 DEF Answered
  <2> QED
    BY <2>3, <2>4, <2>5 DEF Derived
<1>9. InClause(c)'
  <2>1. Literals(c)' = clause.body /\ Clauses(c.root)' = Clauses(s)
    BY <1>3, <1>5, <1>7 DEF Literals, clause
  <2> QED
    BY <1>1, <1>5, <1>7, <1>8, <2>1 DEF InClause
<1>10. c \in Places'
  BY <1>6, <1>7, <1>9 DEF Places, Place
<1>11. s # NoGoal /\ Failed.root = NoGoal /\ AskQuery.root = NoGoal
  BY ProgramsAssumption DEF Failed, AskQuery
<1> QED
  BY <1>5, <1>7, <1>10, <1>11 DEF e

(* A first call keeps the types. *)
LEMMA CallNewTyped == ASSUME Typed, CallNew PROVE Typed' /\ Grown
<1> DEFINE s == Goal
           top == top_of_cpstack + 1
           frame == [NoFrame EXCEPT !.exists = TRUE, !.cp_ptr = top]
<1>1. s \in Subgoals /\ at \in Places /\ WaitsFor(at, s) /\ todo # <<>> /\ ~ sf[s].exists
  BY CalledGoal DEF CallNew
<1>2. /\ cps' = Put(cps, top, Generator(s))
      /\ breg' = top
      /\ sf' = [sf EXCEPT ![s] = frame]
      /\ root_address' = IF root_address = 0 THEN top ELSE root_address
      /\ frames' = Append(frames, s)
      /\ leaders' = leaders \cup {Len(frames) + 1}
      /\ at' = Enter(s, 1)
      /\ UNCHANGED <<program, todo, got, bfreg, sched_heap>>
  BY DEF CallNew
<1>3. Len(cps) \in Nat /\ top \in 1..Len(cps) + 1
  BY StackTyped, TopOf DEF Typed
<1>4. /\ frame.exists /\ ~ frame.is_complete /\ frame.answers = <<>> /\ frame.cp_ptr = top
      /\ frame.pos_cons = 0 /\ ~ frame.is_reclaimed
  BY DEF NoFrame
<1>a. \A n \in Nat : top \in 0..n =>
        frame \in [exists : BOOLEAN, is_complete : BOOLEAN, is_reclaimed : BOOLEAN,
                  answers : Seq(Values), pos_cons : 0..n, cp_ptr : 0..n]
  <2> TAKE n \in Nat
  <2> HAVE top \in 0..n
  <2>1. <<>> \in Seq(Values) /\ 0 \in 0..n
    OBVIOUS
  <2> HIDE DEF top
  <2> QED
    BY <2>1 DEF NoFrame
<1> HIDE DEF s, top, frame
<1>5. \A t \in Subgoals : sf'[t] = IF t = s THEN frame ELSE sf[t]
  BY <1>1, <1>2 DEF Typed
<1>6. sf[s].answers = <<>>
  BY <1>1 DEF Typed, Opened
<1>7. Grown
  BY <1>1, <1>2, <1>4, <1>5, <1>6 DEF Grown, Answers
<1> DEFINE cp == Generator(s)
<1>8. cp = [kind |-> "generator", goal |-> s, pc |-> 2, cont |-> at, prev |-> breg,
            bf |-> bfreg, look |-> 0, ret |-> 0, left |-> {}]
  BY DEF Generator
<1>9. cp \in Slot(Len(cps))
  <2>1. at \in Place
    BY <1>1 DEF Places
  <2> HIDE DEF cp
  <2> QED
    BY <1>1, <1>3, <1>8, <2>1 DEF Slot, Typed, Registers
<1>10. /\ cps' \in Seq(Slots') /\ Len(cps') \in Nat
       /\ Len(cps) <= Len(cps') /\ top <= Len(cps') /\ 1 <= top
  <2>1. /\ cp.goal = s /\ cp.cont = at /\ cp.left = {} /\ cp.kind = "generator" /\ cp.pc = 2
    BY <1>8
  <2>2. sf'[cp.goal].exists
    BY <1>1, <1>4, <1>5, <2>1
  <2> HIDE DEF cp
  <2>3. cps' = Put(cps, top, cp)
    BY <1>2 DEF cp
  <2>4. \A x : {} \subseteq x
    OBVIOUS
  <2> QED
    BY <1>1, <1>3, <1>7, <1>9, <2>1, <2>2, <2>3, <2>4, PutTyped
<1>11. Registers'
  BY <1>2, <1>3, <1>10 DEF Typed, Registers
<1>12. sf' \in [Subgoals -> Frame']
  <2>1. frame \in Frame'
    BY <1>3, <1>a, <1>10 DEF Frame
  <2>2. Frame \subseteq Frame'
    BY <1>3, <1>10 DEF Frame
  <2>3. \A t \in Subgoals : sf'[t] \in Frame'
    BY <1>5, <2>1, <2>2 DEF Typed
  <2> QED
    BY <1>2, <2>3 DEF Typed
<1>13. /\ frames' \in Seq(Subgoals)
       /\ DOMAIN frames' = DOMAIN frames \cup {Len(frames) + 1}
       /\ \A f \in DOMAIN frames : frames'[f] = frames[f]
       /\ frames'[Len(frames) + 1] = s
  BY <1>1, <1>2 DEF Typed
<1>14. leaders' \subseteq DOMAIN frames' /\ sched_heap' \subseteq DOMAIN frames'
  BY <1>2, <1>13 DEF Typed
<1>15. Opened'
  <2>1. \A f \in DOMAIN frames' : sf'[frames'[f]].exists
    <3> TAKE f \in DOMAIN frames'
    <3>1. CASE f = Len(frames) + 1
      BY <1>1, <1>4, <1>5, <1>13, <3>1
    <3>2. CASE f # Len(frames) + 1
      <4>1. f \in DOMAIN frames /\ frames'[f] = frames[f] /\ frames[f] \in Subgoals
        BY <1>13, <3>2 DEF Typed
      <4> QED
        BY <1>4, <1>5, <4>1 DEF Typed, Opened
    <3> QED
      BY <3>1, <3>2
  <2>2. Range(frames') = Range(frames) \cup {s}
    BY <1>13 DEF Range
  <2>3. \A t \in Subgoals :
          /\ sf'[t].exists => t \in Range(frames') \/ sf'[t].is_complete
          /\ ~ sf'[t].exists => sf'[t].answers = <<>>
    BY <1>4, <1>5, <2>2 DEF Typed, Opened
  <2> QED
    BY <2>1, <2>3 DEF Opened
<1>16. at' \in Places'
  <2>1. 1 \in 1..Len(Clauses(s))
    BY <1>1, ClauseOf DEF Typed
  <2>2. sf'[s].exists
    BY <1>1, <1>4, <1>5
  <2> QED
    BY <1>1, <1>2, <1>7, <2>1, <2>2, EnterOf
<1> QED
  BY <1>1, <1>2, <1>7, <1>10, <1>11, <1>12, <1>13, <1>14, <1>15, <1>16 DEF Typed

(* The answers of a completed table are returned. *)
LEMMA AnswerFromTrieTyped ==
  ASSUME Typed, Grown, NEW s \in Subgoals, sf[s].exists,
         NEW place \in Places, WaitsFor(place, s),
         NEW prev \in 0..Len(cps), NEW top \in 1..Len(cps) + 1,
         AnswerFromTrie(s, place, prev, top)
  PROVE  /\ at' = Failed \/ at' \in Places
         /\ cps' \in Seq(Slots')
         /\ Len(cps) \in Nat /\ Len(cps') \in Nat /\ Len(cps) <= Len(cps')
         /\ breg' \in 0..Len(cps')
<1> DEFINE all == Range(sf[s].answers)
<1>1. PICK y \in all :
        /\ at' = Return(place, y)
        /\ IF all = {y}
             THEN breg' = prev /\ UNCHANGED cps
             ELSE /\ breg' = top
                  /\ cps' = Put(cps, top, TrieReturn(s, place, prev, all \ {y}))
  BY DEF AnswerFromTrie
<1>2. all = Answers(s) /\ Len(cps) \in Nat
  BY StackTyped DEF Answers
<1>3. at' = Failed \/ at' \in Places
  BY <1>1, <1>2, ReturnOf DEF Typed
<1>4. CASE all = {y}
  <2>1. UNCHANGED cps /\ breg' = prev
    BY <1>1, <1>4
  <2>2. cps' \in Seq(Slots')
    <3>1. Slots \subseteq Slots'
      BY <1>2, <2>1, SlotsGrow DEF Typed
    <3> QED
      BY <2>1, <3>1, SeqGrows DEF Typed
  <2> QED
    BY <1>2, <1>3, <2>1, <2>2
<1>5. CASE all # {y}
  <2> DEFINE cp == TrieReturn(s, place, prev, all \ {y})
  <2>1. breg' = top /\ cps' = Put(cps, top, cp)
    BY <1>1, <1>5
  <2>2. cp = [kind |-> "trie", goal |-> s, pc |-> 0, cont |-> place, prev |-> prev,
              bf |-> 0, look |-> 0, ret |-> 0, left |-> all \ {y}]
    BY DEF TrieReturn
  <2>3. all \subseteq Values /\ place \in Place
    BY <1>2, AnswersAreValues DEF Typed, Places
  <2> HIDE DEF cp, all
  <2>4. cp \in Slot(Len(cps))
    BY <1>2, <2>2, <2>3 DEF Slot
  <2>5. sf'[cp.goal].exists /\ cp.cont = place /\ cp.goal = s /\ cp.left = all \ {y}
        /\ cp.kind # "generator"
    BY <2>2 DEF Grown
  <2>7. PICK c : c = cp
    OBVIOUS
  <2>8. c.left \subseteq Answers(c.goal)'
    <3>1. Answers(s) \subseteq Answers(s)'
      BY DEF Grown
    <3> QED
      BY <1>2, <2>5, <2>7, <3>1
  <2>9. cps' \in Seq(Slots') /\ Len(cps') \in Nat /\ Len(cps) <= Len(cps') /\ top <= Len(cps')
    BY <2>1, <2>4, <2>5, <2>7, <2>8, PutTyped
  <2> QED
    BY <1>2, <1>3, <2>1, <2>9
<1> QED
  BY <1>4, <1>5

(* A call of a completed subgoal keeps the types. *)
LEMMA CallCompletedTyped == ASSUME Typed, CallCompleted PROVE Typed' /\ Grown
<1>1. /\ Goal \in Subgoals /\ at \in Places /\ WaitsFor(at, Goal) /\ todo # <<>>
      /\ sf[Goal].exists
  BY CalledGoal DEF CallCompleted, is_completed
<1>2. UNCHANGED <<program, todo, got, sf, bfreg, root_address, frames, leaders, sched_heap>>
  BY DEF CallCompleted
<1>3. Grown
  BY <1>2, GrownSame
<1>4. CASE sf[Goal].answers = <<>>
  <2>1. at' = Failed /\ UNCHANGED <<breg, cps>>
    BY <1>4 DEF CallCompleted
  <2>2. cps' \in Seq(Slots') /\ Len(cps) \in Nat
    BY <1>2, <2>1, UnchangedStack, StackTyped
  <2> QED
    BY <1>1, <1>2, <1>3, <2>1, <2>2, QuietTyped DEF Typed, Registers
<1>5. CASE sf[Goal].answers # <<>>
  <2>1. AnswerFromTrie(Goal, at, breg, top_of_cpstack + 1)
    BY <1>5 DEF CallCompleted
  <2>2. top_of_cpstack + 1 \in 1..Len(cps) + 1 /\ breg \in 0..Len(cps)
    BY StackTyped, TopOf DEF Typed, Registers
  <2>3. /\ at' = Failed \/ at' \in Places
        /\ cps' \in Seq(Slots')
        /\ Len(cps) <= Len(cps')
        /\ breg' \in 0..Len(cps')
    BY <1>1, <1>3, <2>1, <2>2, AnswerFromTrieTyped
  <2> QED
    BY <1>1, <1>2, <1>3, <2>3, QuietTyped DEF Typed
<1> QED
  BY <1>4, <1>5

(* A call of an open subgoal keeps the types. *)
LEMMA CallIncompleteTyped == ASSUME Typed, CallIncomplete PROVE Typed' /\ Grown
<1> DEFINE s == Goal
           top == top_of_cpstack + 1
           answered == sf[s].answers # <<>>
           one == IF answered THEN 1 ELSE 0
           cp == [Consumer(s) EXCEPT !.ret = one]
<1>1. s \in Subgoals /\ at \in Places /\ WaitsFor(at, s) /\ todo # <<>> /\ sf[s].exists
  BY CalledGoal DEF CallIncomplete
<1>2. /\ leaders' = adjust_level_ptrs(s)
      /\ cps' = Put(cps, top, cp)
      /\ sf' = [sf EXCEPT ![s].pos_cons = top]
      /\ bfreg' = top
      /\ breg' = IF answered THEN top ELSE breg
      /\ at' = IF answered THEN Return(at, Head(sf[s].answers)) ELSE Failed
      /\ UNCHANGED <<program, todo, got, root_address, frames, sched_heap>>
  BY DEF CallIncomplete
<1>3. Len(cps) \in Nat /\ top \in 1..Len(cps) + 1
  BY StackTyped, TopOf DEF Typed
<1>a. one \in Nat
  OBVIOUS
<1>4. cp = [kind |-> "consumer", goal |-> s, pc |-> 0, cont |-> at, prev |-> breg,
            bf |-> 0, look |-> sf[s].pos_cons, ret |-> one, left |-> {}]
  <2> HIDE DEF one
  <2> QED
    BY DEF Consumer
<1> HIDE DEF s, top, cp, one
<1>5. \A t \in Subgoals :
        /\ sf'[t].exists = sf[t].exists /\ sf'[t].answers = sf[t].answers
        /\ sf'[t].is_complete = sf[t].is_complete
  BY <1>1, <1>2 DEF Typed, Frame
<1>6. Grown
  BY <1>2, <1>5 DEF Grown, Answers
<1>7. cp \in Slot(Len(cps))
  <2>1. at \in Place /\ sf[s].pos_cons \in 0..Len(cps)
    BY <1>1 DEF Places, Typed, Frame
  <2> QED
    BY <1>1, <1>a, <1>3, <1>4, <2>1 DEF Slot, Typed, Registers
<1>8. /\ cps' \in Seq(Slots') /\ Len(cps') \in Nat
      /\ Len(cps) <= Len(cps') /\ top <= Len(cps') /\ 1 <= top
  <2>1. cp.goal = s /\ cp.cont = at /\ cp.left = {} /\ cp.kind # "generator"
    BY <1>4
  <2>2. sf'[cp.goal].exists
    BY <1>1, <1>5, <2>1
  <2>3. \A x : {} \subseteq x
    OBVIOUS
  <2> QED
    BY <1>1, <1>2, <1>3, <1>6, <1>7, <2>1, <2>2, <2>3, PutTyped
<1>9. Registers'
  BY <1>2, <1>3, <1>8 DEF Typed, Registers
<1>10. sf' \in [Subgoals -> Frame']
  <2>1. Frame \subseteq Frame'
    BY <1>3, <1>8 DEF Frame
  <2>2. top \in 0..Len(cps')
    BY <1>3, <1>8
  <2>3. sf[s] \in Frame'
    BY <1>1, <2>1 DEF Typed
  <2>4. [sf[s] EXCEPT !.pos_cons = top] \in Frame'
    BY <2>2, <2>3 DEF Frame
  <2> QED
    BY <1>1, <1>2, <2>1, <2>4 DEF Typed
<1>11. leaders' \subseteq DOMAIN frames'
  BY <1>2 DEF Typed, adjust_level_ptrs
<1>12. Opened'
  BY <1>2, <1>5 DEF Typed, Opened
<1>13. at' = Failed \/ at' \in Places
  <2>1. CASE answered
    <3>1. sf[s].answers \in Seq(Values) /\ Head(sf[s].answers) \in Answers(s)
      <4>1. sf[s].answers \in Seq(Values)
        BY <1>1 DEF Typed, Frame
      <4>2. 1 \in DOMAIN sf[s].answers /\ Head(sf[s].answers) = sf[s].answers[1]
        BY <2>1, <4>1
      <4> QED
        BY <4>1, <4>2 DEF Answers, Range
    <3> QED
      BY <1>1, <1>2, <2>1, <3>1, ReturnOf DEF Typed
  <2> QED
    BY <1>2, <2>1
<1>14. at' = Failed \/ at' \in Places'
  BY <1>6, <1>13, PlacesGrow DEF Typed
<1> QED
  BY <1>1, <1>2, <1>6, <1>8, <1>9, <1>10, <1>11, <1>12, <1>14 DEF Typed

(* FrameOf finds the frame of an open subgoal. *)
LEMMA FrameOfOf ==
  ASSUME NEW s \in Range(frames)
  PROVE  FrameOf(s) \in DOMAIN frames /\ frames[FrameOf(s)] = s
BY DEF FrameOf, Range

(* The ground rules of a program. *)
LEMMA RulesAreRules ==
  ASSUME program \in DOMAIN Programs, NEW r \in RulesOf(program)
  PROVE  r \in [head : Subgoals \X Values, body : SUBSET (Subgoals \X Values)]
<1> DEFINE OfClause(t, c) == {[head |-> <<t, q.val>>, body |-> q.body] : q \in RunsOf(c)}
           OfGoal(t) == UNION {OfClause(t, c) : c \in Range(Programs[program][t])}
<1>1. RulesOf(program) = UNION {OfGoal(t) : t \in Subgoals}
  BY DEF RulesOf
<1>2. PICK t \in Subgoals : r \in OfGoal(t)
  <2> HIDE DEF OfGoal
  <2> QED
    BY <1>1
<1>3. PICK c \in Range(Programs[program][t]) : r \in OfClause(t, c)
  <2> HIDE DEF OfClause
  <2> QED
    BY <1>2
<1>4. PICK q \in RunsOf(c) : r = [head |-> <<t, q.val>>, body |-> q.body]
  BY <1>3
<1>5. PICK i \in 1..Len(Clauses(t)) : c = Clauses(t)[i]
  BY <1>3, ClauseOf DEF Range, Clauses
<1>6. /\ c.start \in Values /\ Len(c.body) \in Nat
      /\ \A k \in 1..Len(c.body) : Literal(c.body[k])
  BY <1>5, ClauseOf
<1>7. Len(c.body) \in 0..Len(c.body)
  BY <1>6
<1>8. q \in Run
  BY <1>4, <1>6, <1>7, RunsAre DEF RunsOf
<1> QED
  BY <1>4, <1>8 DEF Run

(* The place at the end of a clause, and its rule. *)
LEMMA ProvedPlace ==
  ASSUME Typed, Proved
  PROVE  /\ at.root \in Subgoals /\ at.val \in Values /\ sf[at.root].exists
         /\ todo # <<>>
         /\ \E r \in RulesOf(program) :
              r.head = <<at.root, at.val>> /\ Answered(r) /\ r.body \subseteq Subgoals \X Values
<1>1. at \in Places /\ at.root # NoGoal /\ at.lit > Len(Body(at)) /\ todo # <<>>
  BY DEF Typed, Proved
<1>2. at \in Place /\ at.root \in Subgoals
  BY <1>1 DEF Places, Place
<1>3. InClause(at)
  BY <1>1, <1>2, PlaceTypes
<1> DEFINE clause == Clauses(at.root)[at.clause]
<1>4. /\ clause.start \in Values /\ Len(clause.body) \in Nat
      /\ \A j \in 1..Len(clause.body) : Literal(clause.body[j])
      /\ at.lit \in 1..Len(clause.body) + 1
      /\ Body(at) = clause.body
  BY <1>1, <1>2, BodyOf DEF Typed, Literals
<1>5. at.lit - 1 = Len(clause.body)
  <2>1. at.lit > Len(clause.body) /\ Len(clause.body) \in Nat /\ at.lit \in 1..Len(clause.body) + 1
    BY <1>1, <1>4
  <2> HIDE DEF clause
  <2> QED
    BY <2>1
<1>6. PICK r \in Runs(clause)[Len(clause.body)] : r.val = at.val /\ Answered(r)
  BY <1>3, <1>5 DEF InClause, Derived
<1>7. r \in Run
  <2> HIDE DEF clause
  <2>1. Len(clause.body) \in 0..Len(clause.body)
    BY <1>4
  <2> QED
    BY <1>4, <1>6, <2>1, RunsAre
<1> DEFINE rule == [head |-> <<at.root, r.val>>, body |-> r.body]
<1>8. rule \in RulesOf(program)
  <2>1. at.clause \in DOMAIN Clauses(at.root)
    BY <1>2, <1>3, ClauseOf DEF InClause, Typed
  <2>2. clause \in Range(Programs[program][at.root])
    BY <2>1 DEF Range, Clauses
  <2>3. r \in RunsOf(clause)
    BY <1>6 DEF RunsOf
  <2> HIDE DEF clause
  <2> DEFINE OfClause(t, c) == {[head |-> <<t, q.val>>, body |-> q.body] : q \in RunsOf(c)}
             OfGoal(t) == UNION {OfClause(t, c) : c \in Range(Programs[program][t])}
  <2>4. rule \in OfClause(at.root, clause)
    BY <2>3
  <2>5. RulesOf(program) = UNION {OfGoal(t) : t \in Subgoals}
    BY DEF RulesOf
  <2> HIDE DEF OfClause, rule
  <2>6. rule \in OfGoal(at.root)
    BY <2>2, <2>4
  <2> HIDE DEF OfGoal
  <2> QED
    BY <1>2, <2>5, <2>6
<1>9. rule.head = <<at.root, at.val>> /\ Answered(rule) /\ rule.body \subseteq Subgoals \X Values
  BY <1>6, <1>7 DEF Answered, Run
<1> HIDE DEF rule
<1> QED
  BY <1>1, <1>2, <1>3, <1>8, <1>9 DEF InClause, Place

(* Appending adds one member. *)
LEMMA RangeAppend ==
  ASSUME NEW S, NEW a \in Seq(S), NEW v
  PROVE  Range(Append(a, v)) = Range(a) \cup {v}
<1> DEFINE b == Append(a, v)
<1>1. /\ Len(a) \in Nat /\ DOMAIN a = 1..Len(a) /\ DOMAIN b = 1..Len(a) + 1
      /\ \A i \in 1..Len(a) : b[i] = a[i]
      /\ b[Len(a) + 1] = v
  OBVIOUS
<1> HIDE DEF b
<1>2. 1..Len(a) + 1 = (1..Len(a)) \cup {Len(a) + 1}
  BY <1>1
<1>3. Range(b) = Range(a) \cup {v}
  BY <1>1, <1>2 DEF Range
<1> QED
  BY <1>3 DEF b

(* A new answer keeps the types. *)
LEMMA NewAnswerTyped == ASSUME Typed, NewAnswer PROVE Typed' /\ Grown
<1> DEFINE s == at.root
           v == at.val
           early == s \in Ground
           p == sf[s].cp_ptr
           generates == cps[p].kind = "generator"
<1>1. s \in Subgoals /\ v \in Values /\ sf[s].exists /\ todo # <<>> /\ ~ sf[s].is_complete
  BY ProvedPlace DEF NewAnswer, IsNewAnswer, is_completed
<1>2. /\ sf' = [sf EXCEPT ![s].answers = Append(@, v), ![s].is_complete = early]
      /\ sched_heap' = sched_heap \cup {FrameOf(s)}
      /\ IF early /\ generates
              THEN /\ cps' = [cps EXCEPT ![p].pc = Len(Clauses(s)) + 1]
                   /\ breg' = p
              ELSE UNCHANGED <<cps, breg>>
      /\ at' = Failed
      /\ UNCHANGED <<program, todo, got, bfreg, root_address, frames, leaders>>
  BY DEF NewAnswer
<1>3. Len(Clauses(s)) \in Nat
  BY <1>1, ClauseOf DEF Typed
<1> HIDE DEF s, v
<1>4. /\ \A t \in Subgoals \ {s} : sf'[t] = sf[t]
      /\ sf'[s].exists /\ sf'[s].answers = Append(sf[s].answers, v)
      /\ sf'[s].is_complete = early
  BY <1>1, <1>2 DEF Typed, Frame
<1>5. sf[s].answers \in Seq(Values)
  BY <1>1 DEF Typed, Frame
<1>6. Range(Append(sf[s].answers, v)) = Range(sf[s].answers) \cup {v}
  BY <1>1, <1>5, RangeAppend
<1>7. Grown
  BY <1>1, <1>2, <1>4, <1>6 DEF Grown, Answers
<1>8. p \in 0..Len(cps) /\ Len(cps) \in Nat
  BY <1>1, StackTyped DEF Typed, Frame
<1>9. cps' \in Stack(Len(cps)) /\ DOMAIN cps' = DOMAIN cps
      /\ \A i \in 1..Len(cps) :
           /\ cps'[i].goal = cps[i].goal /\ cps'[i].cont = cps[i].cont
           /\ cps'[i].left \subseteq cps[i].left
           /\ cps'[i].kind = "generator" => cps'[i].pc >= 1
  <2>1. \A i \in 1..Len(cps) : cps[i].kind = "generator" => cps[i].pc >= 1
    BY StackTyped DEF Slots
  <2>2. CASE early /\ generates /\ p # 0
    <3> DEFINE k == Len(Clauses(s)) + 1
    <3> HIDE DEF p, k
    <3>1. p \in 1..Len(cps) /\ k \in Nat /\ k >= 1
      BY <1>3, <1>8, <2>2 DEF k
    <3>2. cps' = [cps EXCEPT ![p].pc = k]
      BY <1>2, <2>2 DEF p, k
    <3>3. cps[p] \in Slot(Len(cps))
      BY <3>1, StackTyped
    <3>4. [cps[p] EXCEPT !.pc = k] \in Slot(Len(cps))
      BY <3>1, <3>3 DEF Slot
    <3>5. \A i \in 1..Len(cps) : cps'[i] = IF i = p THEN [cps[p] EXCEPT !.pc = k] ELSE cps[i]
      BY <3>1, <3>2, StackTyped
    <3>6. cps' \in Stack(Len(cps)) /\ DOMAIN cps' = DOMAIN cps
      BY <3>1, <3>2, <3>4, StackTyped DEF Stack
    <3>7. LET c == [cps[p] EXCEPT !.pc = k]
          IN  c.goal = cps[p].goal /\ c.cont = cps[p].cont /\ c.left = cps[p].left /\ c.pc = k
      BY <3>3 DEF Slot
    <3> QED
      BY <2>1, <3>1, <3>5, <3>6, <3>7
  <2>3. CASE ~ (early /\ generates /\ p # 0)
    <3>1. cps' = cps
      <4>1. CASE early /\ generates
        <5> DEFINE k == Len(Clauses(s)) + 1
        <5>1. cps' = [cps EXCEPT ![p].pc = k] /\ p = 0
          BY <1>2, <2>3, <4>1
        <5>2. cps = [i \in 1..Len(cps) |-> cps[i]] /\ p \notin 1..Len(cps)
          BY <1>8, <5>1, StackTyped DEF Stack
        <5> HIDE DEF p, k
        <5> QED
          BY <5>1, <5>2
      <4>2. CASE ~ (early /\ generates)
        BY <1>2, <4>2
      <4> QED
        BY <4>1, <4>2
    <3> QED
      BY <2>1, <3>1, StackTyped
  <2> QED
    BY <2>2, <2>3
<1>10. cps' \in Seq(Slots') /\ Len(cps') = Len(cps)
  BY <1>7, <1>9, ChangeTyped
<1>11. Registers'
  BY <1>2, <1>8, <1>10 DEF Typed, Registers
<1>12. sf' \in [Subgoals -> Frame']
  <2>1. Frame' = Frame
    BY <1>10 DEF Frame
  <2>2. Append(sf[s].answers, v) \in Seq(Values) /\ sf[s] \in Frame /\ early \in BOOLEAN
    BY <1>1, <1>5 DEF Typed
  <2>3. [[sf[s] EXCEPT !.answers = Append(sf[s].answers, v)] EXCEPT !.is_complete = early] \in Frame
    <3> HIDE DEF early
    <3> QED
      BY <2>2 DEF Frame
  <2>4. sf' = [sf EXCEPT ![s] = [[sf[s] EXCEPT !.answers = Append(sf[s].answers, v)]
                                 EXCEPT !.is_complete = early]]
    BY <1>1, <1>2 DEF Typed
  <2> QED
    BY <1>1, <2>1, <2>3, <2>4 DEF Typed
<1>13. Opened'
  <2>1. Range(frames)' = Range(frames)
    BY <1>2
  <2>2. \A t \in Subgoals :
          /\ sf'[t].exists => t \in Range(frames) \/ sf'[t].is_complete
          /\ ~ sf'[t].exists => sf'[t].answers = <<>>
    <3> TAKE t \in Subgoals
    <3>1. CASE t = s
      BY <1>1, <1>4, <3>1 DEF Typed, Opened
    <3>2. CASE t # s
      BY <1>4, <3>2 DEF Typed, Opened
    <3> QED
      BY <3>1, <3>2
  <2>3. \A f \in DOMAIN frames : sf'[frames[f]].exists
    BY <1>4 DEF Typed, Opened
  <2> QED
    BY <1>2, <2>2, <2>3 DEF Opened
<1>14. sched_heap' \subseteq DOMAIN frames'
  <2>1. s \in Range(frames)
    BY <1>1 DEF Typed, Opened
  <2> QED
    BY <1>2, <2>1, FrameOfOf DEF Typed
<1> QED
  BY <1>1, <1>2, <1>7, <1>10, <1>11, <1>12, <1>13, <1>14 DEF Typed

(* An answer for the user keeps the types. *)
LEMMA AnswerQueryTyped == ASSUME Typed, AnswerQuery PROVE Typed' /\ Grown
<1>1. /\ UNCHANGED <<program, todo, sf, cps, breg, bfreg, root_address, frames, leaders, sched_heap>>
      /\ got' = got \cup {at.val} /\ at' = Failed /\ at # Failed
  BY DEF AnswerQuery, stacks
<1>2. cps' \in Seq(Slots') /\ Len(cps) \in Nat /\ Grown
  BY <1>1, UnchangedStack, StackTyped, GrownSame
<1>3. at.val \in Values
  BY <1>1 DEF Typed, Places, Place
<1> QED
  BY <1>1, <1>2, <1>3, QuietTyped DEF Typed, Registers

(* The choice point to which a failure goes. *)
LEMMA Breg ==
  ASSUME Typed, breg # 0
  PROVE  /\ breg \in 1..Len(cps) /\ cps[breg] \in Slots /\ cps[breg] \in Slot(Len(cps))
         /\ cps[breg].goal \in Subgoals /\ sf[cps[breg].goal].exists
         /\ cps[breg].cont \in Places /\ WaitsFor(cps[breg].cont, cps[breg].goal)
         /\ cps[breg].prev \in 0..Len(cps)
         /\ todo # <<>>
<1>1. breg \in 1..Len(cps) /\ todo # <<>>
  BY StackTyped DEF Typed, Registers
<1>2. cps[breg] \in Slots /\ cps[breg] \in Slot(Len(cps))
  BY <1>1, StackTyped
<1> QED
  BY <1>1, <1>2 DEF Slots, Slot

(* A choice point whose counters or set of answers change. *)
LEMMA EditTyped ==
  ASSUME Typed, Grown, NEW i \in 1..Len(cps), NEW cp \in Slot(Len(cps)),
         cp.goal = cps[i].goal, cp.cont = cps[i].cont, cp.left \subseteq cps[i].left,
         cp.kind = "generator" => cp.pc >= 1,
         cps' = [cps EXCEPT ![i] = cp]
  PROVE  cps' \in Seq(Slots') /\ Len(cps') = Len(cps)
<1>1. \A j \in 1..Len(cps) : cps[j].kind = "generator" => cps[j].pc >= 1
  BY StackTyped DEF Slots
<1>2. \A j \in 1..Len(cps) : cps'[j] = IF j = i THEN cp ELSE cps[j]
  BY StackTyped
<1>3. cps' \in Stack(Len(cps)) /\ DOMAIN cps' = DOMAIN cps
  BY StackTyped DEF Stack
<1>4. \A j \in 1..Len(cps) :
        /\ cps'[j].goal = cps[j].goal /\ cps'[j].cont = cps[j].cont
        /\ cps'[j].left \subseteq cps[j].left
        /\ cps'[j].kind = "generator" => cps'[j].pc >= 1
  BY <1>1, <1>2
<1> QED
  BY <1>3, <1>4, ChangeTyped

(* Trying the next clause keeps the types. *)
LEMMA NextClauseTyped == ASSUME Typed, NextClause PROVE Typed' /\ Grown
<1> DEFINE b == cps[breg]
<1>1. /\ breg # 0 /\ b.kind = "generator" /\ b.pc <= Len(Clauses(b.goal))
      /\ at' = Enter(b.goal, b.pc)
      /\ cps' = [cps EXCEPT ![breg].pc = @ + 1]
      /\ UNCHANGED <<program, todo, got, sf, breg, bfreg, root_address, frames, leaders, sched_heap>>
  BY DEF NextClause, Backtracking, stacks
<1>2. /\ breg \in 1..Len(cps) /\ b \in Slots /\ b \in Slot(Len(cps)) /\ b.goal \in Subgoals
      /\ sf[b.goal].exists /\ todo # <<>>
  BY <1>1, Breg
<1>3. Grown
  BY <1>1, GrownSame
<1>4. b.pc \in Nat /\ b.pc >= 1 /\ Len(Clauses(b.goal)) \in Nat
  BY <1>1, <1>2, ClauseOf DEF Slots, Slot, Typed
<1>5. at' \in Places'
  <2>1. b.pc \in 1..Len(Clauses(b.goal))
    BY <1>1, <1>4
  <2> HIDE DEF b
  <2> QED
    BY <1>1, <1>2, <1>3, <2>1, EnterOf
<1> DEFINE cp == [b EXCEPT !.pc = b.pc + 1]
<1>6. /\ cp \in Slot(Len(cps)) /\ cp.goal = b.goal /\ cp.cont = b.cont /\ cp.left = b.left
      /\ cp.pc = b.pc + 1
  <2> HIDE DEF b
  <2> QED
    BY <1>2, <1>4 DEF Slot
<1>7. cps' = [cps EXCEPT ![breg] = cp]
  BY <1>1
<1>10. cp.pc >= 1 /\ cp.left \subseteq b.left
  BY <1>4, <1>6
<1> HIDE DEF b, cp
<1>8. cps' \in Seq(Slots') /\ Len(cps') = Len(cps)
  BY <1>2, <1>3, <1>6, <1>7, <1>10, EditTyped DEF b
<1>9. breg' \in 0..Len(cps') /\ Len(cps) <= Len(cps')
  BY <1>1, <1>8, StackTyped DEF Typed, Registers
<1> QED
  BY <1>1, <1>2, <1>3, <1>5, <1>8, <1>9, QuietTyped DEF Typed

(* Returning an answer to a consumer keeps the types. *)
LEMMA AnswerReturnTyped == ASSUME Typed, AnswerReturn PROVE Typed' /\ Grown
<1> DEFINE b == cps[breg]
           all == sf[b.goal].answers
<1>1. /\ breg # 0
      /\ UNCHANGED <<program, todo, got, sf, bfreg, root_address, frames, leaders, sched_heap>>
      /\ IF b.ret < Len(all)
           THEN /\ at' = Return(b.cont, all[b.ret + 1])
                /\ cps' = [cps EXCEPT ![breg].ret = @ + 1]
                /\ UNCHANGED breg
           ELSE breg' = b.prev /\ UNCHANGED <<at, cps>>
  BY DEF AnswerReturn, Backtracking
<1>2. /\ breg \in 1..Len(cps) /\ b \in Slots /\ b \in Slot(Len(cps)) /\ b.goal \in Subgoals
      /\ sf[b.goal].exists /\ b.cont \in Places /\ WaitsFor(b.cont, b.goal)
      /\ b.prev \in 0..Len(cps) /\ todo # <<>>
  BY <1>1, Breg
<1>3. Grown /\ Len(cps) \in Nat
  BY <1>1, GrownSame, StackTyped
<1>4. b.ret \in Nat /\ all \in Seq(Values)
  BY <1>2 DEF Slot, Typed, Frame
<1>5. CASE b.ret < Len(all)
  <2>1. all[b.ret + 1] \in Answers(b.goal)
    <3>1. b.ret + 1 \in DOMAIN all
      BY <1>4, <1>5
    <3> QED
      BY <3>1 DEF Answers, Range
  <2>2. at' = Failed \/ at' \in Places
    BY <1>1, <1>2, <1>5, <2>1, ReturnOf DEF Typed
  <2> DEFINE cp == [b EXCEPT !.ret = b.ret + 1]
  <2>3. /\ cp \in Slot(Len(cps)) /\ cp.goal = b.goal /\ cp.cont = b.cont /\ cp.left = b.left
        /\ cp.kind = b.kind /\ cp.pc = b.pc
    <3> HIDE DEF b
    <3> QED
      BY <1>2, <1>4 DEF Slot
  <2>4. cps' = [cps EXCEPT ![breg] = cp]
    BY <1>1, <1>5
  <2>5. b.kind = "generator" => b.pc >= 1
    BY <1>2 DEF Slots
  <2> HIDE DEF b, cp
  <2>6. cps' \in Seq(Slots') /\ Len(cps') = Len(cps)
    BY <1>2, <1>3, <2>3, <2>4, <2>5, EditTyped DEF b
  <2>7. breg' \in 0..Len(cps') /\ Len(cps) <= Len(cps')
    BY <1>1, <1>3, <1>5, <2>6 DEF Typed, Registers
  <2> QED
    BY <1>1, <1>2, <1>3, <2>2, <2>6, <2>7, QuietTyped DEF Typed
<1>6. CASE ~ (b.ret < Len(all))
  <2>1. breg' = b.prev /\ UNCHANGED <<at, cps>>
    BY <1>1, <1>6
  <2>2. cps' \in Seq(Slots')
    BY <1>1, <2>1, UnchangedStack
  <2>3. breg' \in 0..Len(cps') /\ Len(cps) <= Len(cps')
    BY <1>2, <1>3, <2>1
  <2> HIDE DEF b
  <2> QED
    BY <1>1, <1>2, <1>3, <2>1, <2>2, <2>3, QuietTyped DEF Typed
<1> QED
  BY <1>5, <1>6

(* Returning an answer of a completed table keeps the types. *)
LEMMA TrieAnswerTyped == ASSUME Typed, TrieAnswer PROVE Typed' /\ Grown
<1> DEFINE b == cps[breg]
<1>1. PICK y \in b.left :
        /\ at' = Return(b.cont, y)
        /\ IF b.left = {y}
             THEN breg' = b.prev /\ UNCHANGED cps
             ELSE cps' = [cps EXCEPT ![breg].left = @ \ {y}] /\ UNCHANGED breg
  BY DEF TrieAnswer
<1>2. breg # 0
      /\ UNCHANGED <<program, todo, got, sf, bfreg, root_address, frames, leaders, sched_heap>>
  BY DEF TrieAnswer, Backtracking
<1>3. /\ breg \in 1..Len(cps) /\ b \in Slots /\ b \in Slot(Len(cps)) /\ b.goal \in Subgoals
      /\ sf[b.goal].exists /\ b.cont \in Places /\ WaitsFor(b.cont, b.goal)
      /\ b.prev \in 0..Len(cps) /\ todo # <<>>
  BY <1>2, Breg
<1>4. Grown /\ Len(cps) \in Nat
  BY <1>2, GrownSame, StackTyped
<1>5. y \in Answers(b.goal)
  BY <1>3 DEF Slots
<1>6. at' = Failed \/ at' \in Places
  BY <1>1, <1>3, <1>5, ReturnOf DEF Typed
<1>7. CASE b.left = {y}
  <2>1. breg' = b.prev /\ UNCHANGED cps
    BY <1>1, <1>7
  <2>2. cps' \in Seq(Slots')
    BY <1>2, <2>1, UnchangedStack
  <2>3. breg' \in 0..Len(cps') /\ Len(cps) <= Len(cps')
    BY <1>3, <1>4, <2>1
  <2> HIDE DEF b
  <2> QED
    BY <1>2, <1>3, <1>4, <1>6, <2>2, <2>3, QuietTyped DEF Typed
<1>8. CASE b.left # {y}
  <2> DEFINE cp == [b EXCEPT !.left = b.left \ {y}]
  <2>1. cps' = [cps EXCEPT ![breg] = cp] /\ UNCHANGED breg
    BY <1>1, <1>8
  <2>2. /\ cp \in Slot(Len(cps)) /\ cp.goal = b.goal /\ cp.cont = b.cont
        /\ cp.left \subseteq b.left /\ cp.kind = b.kind /\ cp.pc = b.pc
    <3> HIDE DEF b
    <3> QED
      BY <1>3 DEF Slot
  <2>3. b.kind = "generator" => b.pc >= 1
    BY <1>3 DEF Slots
  <2> HIDE DEF b, cp
  <2>4. cps' \in Seq(Slots') /\ Len(cps') = Len(cps)
    BY <1>3, <1>4, <2>1, <2>2, <2>3, EditTyped DEF b
  <2>5. breg' \in 0..Len(cps') /\ Len(cps) <= Len(cps')
    BY <1>4, <2>1, <2>4 DEF Typed, Registers
  <2> QED
    BY <1>2, <1>3, <1>4, <1>6, <2>4, <2>5, QuietTyped DEF Typed
<1> QED
  BY <1>7, <1>8

(* The next query keeps the types. *)
LEMMA NextQueryTyped == ASSUME Typed, NextQuery PROVE Typed' /\ Grown
<1>1. /\ breg = 0 /\ todo # <<>> /\ todo' = Tail(todo) /\ got' = {}
      /\ at' = IF Tail(todo) = <<>> THEN Failed ELSE AskQuery
      /\ UNCHANGED <<program, sf, cps, breg, bfreg, root_address, frames, leaders, sched_heap>>
  BY DEF NextQuery, stacks
<1>2. cps' \in Seq(Slots') /\ Len(cps) \in Nat /\ Grown
  BY <1>1, UnchangedStack, StackTyped, GrownSame
<1>3. todo' \in Seq(Subgoals)
  BY <1>1 DEF Typed
<1>4. AskQuery \in Places
  <2>1. AskQuery \in Place
    BY ProgramsAssumption DEF AskQuery, Place
  <2> QED
    BY <2>1 DEF Places, InQuery
<1>5. breg' \in 0..Len(cps') /\ Len(cps) <= Len(cps')
  BY <1>1, <1>2 DEF Typed, Registers
<1>6. got' \subseteq Values
  BY <1>1
<1>7. at' = Failed \/ at' \in Places
  BY <1>1, <1>4
<1>8. todo' = <<>> => at' = Failed /\ breg' = 0
  BY <1>1
<1>9. UNCHANGED <<program, sf, bfreg, root_address, frames, leaders, sched_heap>>
  BY <1>1
<1> QED
  BY <1>2, <1>3, <1>5, <1>6, <1>7, <1>8, <1>9, QuietTyped

(* Whatever the list of consumers, the schedule of the generator at breg.  *)
LEMMA OwnScheduleOf ==
  ASSUME Typed, breg # 0, NEW C \in SUBSET (1..Len(cps)), NEW Below, Order(C, Below),
         Chained(cps, C, Below), sf[Checked].pos_cons \in C \cup {0}
  PROVE  /\ OwnSchedule \in Schedules(Len(cps), cps, C, Below, breg)
         /\ OwnSchedule.head \in {0, sf[Checked].pos_cons}
<1>1. Len(cps) \in Nat /\ cps \in Stack(Len(cps)) /\ breg \in 0..Len(cps)
  BY StackTyped, Breg
<1>2. Relinked(cps, cps, C, breg)
  BY DEF Relinked, SameButLinks
<1> QED
  BY <1>1, <1>2, sched_answersOf DEF OwnSchedule

(* And that of its SCC. *)
LEMMA SccScheduleOf ==
  ASSUME Typed, breg # 0, IsLeader, NEW C \in SUBSET (1..Len(cps)), NEW Below,
         Order(C, Below), Chained(cps, C, Below), sf[Checked].pos_cons \in C \cup {0},
         \A f \in FrameOf(Checked)..Len(frames) : sf[frames[f]].pos_cons \in C \cup {0}
  PROVE  SccSchedule \in Fixpoints(Len(cps), cps, C, Below)
<1> DEFINE own == OwnSchedule
           heads == [s \in Subgoals |-> IF s = Checked THEN own.head ELSE sf[s].pos_cons]
           leader == FrameOf(Checked)
<1>1. /\ own \in Schedules(Len(cps), cps, C, Below, breg)
      /\ own.head \in {0, sf[Checked].pos_cons}
  BY OwnScheduleOf
<1>2. SccSchedule = find_fixpoint(leader, own.stack, heads)
  BY DEF SccSchedule
<1>3. Len(cps) \in Nat /\ cps \in Stack(Len(cps)) /\ breg \in 0..Len(cps)
  BY StackTyped, Breg
<1>4. frames \in Seq(Subgoals) /\ leader \in DOMAIN frames
  BY DEF Typed, IsLeader
<1> HIDE DEF own
<1>5. own.stack \in Stack(Len(cps)) /\ own.head \in 0..Len(cps)
      /\ Relinked(cps, own.stack, C, breg) /\ Chained(own.stack, C, Below)
  BY <1>1 DEF Schedules
<1>6. \A s \in Subgoals : sf[s].pos_cons \in 0..Len(cps)
  BY DEF Typed, Frame
<1>7. heads \in [Subgoals -> 0..Len(cps)] /\ \A s \in Subgoals : heads[s] \in {0, sf[s].pos_cons}
  BY <1>1, <1>5, <1>6
<1> HIDE DEF heads, leader
<1>8. \A f \in leader..Len(frames) : sf[frames[f]].pos_cons \in C \cup {0}
  BY DEF leader
<1> QED
  BY <1>2, <1>3, <1>4, <1>5, <1>7, <1>8, find_fixpointOf

(* The coarsest choice of consumers and order. *)
LEMMA Coarsest ==
  ASSUME Typed, NEW C, C = 1..Len(cps)
  PROVE  /\ Order(C, C \X C) /\ Chained(cps, C, C \X C)
         /\ \A s \in Subgoals : sf[s].pos_cons \in C \cup {0}
<1>1. Len(cps) \in Nat /\ \A i \in C : cps[i].look \in 0..Len(cps)
  BY StackTyped DEF Slot
<1>2. \A i \in C : cps[i].look = 0 \/ cps[i].look \in C
  BY <1>1
<1>3. \A s \in Subgoals : sf[s].pos_cons \in 0..Len(cps)
  BY DEF Typed, Frame
<1> QED
  BY <1>1, <1>2, <1>3 DEF Order, Chained

(* Choice points that were linked anew. *)
LEMMA RelinkedTyped ==
  ASSUME Typed, Grown, NEW b \in Stack(Len(cps)), NEW C, NEW base, Relinked(cps, b, C, base),
         cps' = b
  PROVE  cps' \in Seq(Slots') /\ Len(cps') = Len(cps)
<1>1. \A i \in 1..Len(cps) : cps[i].kind = "generator" => cps[i].pc >= 1
  BY StackTyped DEF Slots
<1>2. DOMAIN cps' = DOMAIN cps /\ cps' \in Stack(Len(cps))
  BY StackIsSeq, StackTyped
<1>3. \A i \in 1..Len(cps) :
        /\ cps'[i].goal = cps[i].goal /\ cps'[i].cont = cps[i].cont
        /\ cps'[i].left \subseteq cps[i].left
        /\ cps'[i].kind = "generator" => cps'[i].pc >= 1
  BY <1>1, StackTyped DEF Relinked, SameButLinks
<1> QED
  BY <1>2, <1>3, ChangeTyped

(* Steps that change the lists of consumers only. *)
OnlyLists ==
  /\ UNCHANGED <<program, todo, got, bfreg, root_address, frames, leaders, at>>
  /\ sf' \in [Subgoals -> Frame]
  /\ \A s \in Subgoals :
       /\ sf'[s].exists = sf[s].exists /\ sf'[s].is_complete = sf[s].is_complete
       /\ sf'[s].is_reclaimed = sf[s].is_reclaimed /\ sf'[s].cp_ptr = sf[s].cp_ptr
       /\ sf'[s].answers = sf[s].answers
  /\ sched_heap' \subseteq sched_heap
  /\ breg # 0

(* A step that relinks lists adds and takes away no answer. *)
LEMMA OnlyListsGrown == ASSUME OnlyLists PROVE Grown
BY DEF OnlyLists, Grown, Answers

(* Relinking keeps the types. *)
LEMMA OnlyListsTyped ==
  ASSUME Typed, OnlyLists, cps' \in Seq(Slots'), Len(cps') = Len(cps), breg' \in 0..Len(cps)
  PROVE  Typed'
<1>1. Registers'
  BY DEF OnlyLists, Typed, Registers
<1>2. Frame' = Frame
  BY DEF Frame
<1>3. Opened'
  <2>1. \A f \in DOMAIN frames : frames[f] \in Subgoals
    BY DEF Typed
  <2>2. frames' = frames /\ Range(frames)' = Range(frames)
    BY DEF OnlyLists
  <2>3. \A f \in DOMAIN frames : sf'[frames[f]].exists
    BY <2>1 DEF OnlyLists, Typed, Opened
  <2>4. \A s \in Subgoals :
          /\ sf'[s].exists => s \in Range(frames) \/ sf'[s].is_complete
          /\ ~ sf'[s].exists => sf'[s].answers = <<>>
    BY DEF OnlyLists, Typed, Opened
  <2> QED
    BY <2>2, <2>3, <2>4 DEF Opened
<1>4. at' = Failed \/ at' \in Places'
  BY OnlyListsGrown, PlacesGrow DEF Typed, OnlyLists
<1>5. todo # <<>>
  BY Breg DEF OnlyLists
<1> QED
  BY <1>1, <1>2, <1>3, <1>4, <1>5 DEF Typed, OnlyLists

(* The heads of lists are set. *)
HeadSet(s, h) ==
  /\ sf' \in [Subgoals -> Frame]
  /\ sf'[s].pos_cons = h
  /\ \A t \in Subgoals :
       /\ sf'[t].exists = sf[t].exists /\ sf'[t].is_complete = sf[t].is_complete
       /\ sf'[t].is_reclaimed = sf[t].is_reclaimed /\ sf'[t].cp_ptr = sf[t].cp_ptr
       /\ sf'[t].answers = sf[t].answers
       /\ t # s => sf'[t] = sf[t]

(* Writing one head of a list leaves the rest of the frames. *)
LEMMA SetHead ==
  ASSUME Typed, NEW s \in Subgoals, NEW h \in 0..Len(cps), sf' = [sf EXCEPT ![s].pos_cons = h]
  PROVE  HeadSet(s, h)
<1>1. sf[s] \in Frame
  BY DEF Typed
<1> DEFINE frame == [sf[s] EXCEPT !.pos_cons = h]
<1>2. /\ frame \in Frame
      /\ frame.exists = sf[s].exists /\ frame.is_complete = sf[s].is_complete
      /\ frame.is_reclaimed = sf[s].is_reclaimed /\ frame.cp_ptr = sf[s].cp_ptr
      /\ frame.answers = sf[s].answers /\ frame.pos_cons = h
  BY <1>1 DEF Frame
<1>3. sf' = [sf EXCEPT ![s] = frame]
  OBVIOUS
<1> HIDE DEF frame
<1> QED
  BY <1>2, <1>3 DEF Typed, HeadSet

(* So does writing all heads. *)
LEMMA SetHeads ==
  ASSUME Typed, NEW heads \in [Subgoals -> 0..Len(cps)], sf' = WithHeads(heads)
  PROVE  /\ sf' \in [Subgoals -> Frame]
         /\ \A t \in Subgoals :
              /\ sf'[t].exists = sf[t].exists /\ sf'[t].is_complete = sf[t].is_complete
              /\ sf'[t].is_reclaimed = sf[t].is_reclaimed /\ sf'[t].cp_ptr = sf[t].cp_ptr
              /\ sf'[t].answers = sf[t].answers /\ sf'[t].pos_cons = heads[t]
<1> DEFINE frame(t) == [sf[t] EXCEPT !.pos_cons = heads[t]]
<1>1. ASSUME NEW t \in Subgoals
      PROVE  /\ frame(t) \in Frame
             /\ frame(t).exists = sf[t].exists /\ frame(t).is_complete = sf[t].is_complete
             /\ frame(t).is_reclaimed = sf[t].is_reclaimed /\ frame(t).cp_ptr = sf[t].cp_ptr
             /\ frame(t).answers = sf[t].answers /\ frame(t).pos_cons = heads[t]
  <2>1. sf[t] \in Frame /\ heads[t] \in 0..Len(cps)
    BY DEF Typed
  <2> QED
    BY <2>1 DEF Frame
<1>2. sf' = [t \in Subgoals |-> frame(t)]
  BY DEF WithHeads
<1> HIDE DEF frame
<1> QED
  BY <1>1, <1>2

(* Scheduling the consumers of a generator only relinks lists. *)
LEMMA ScheduleOwnConsumersLists ==
  ASSUME Typed, ScheduleOwnConsumers
  PROVE  OnlyLists
<1>1. /\ breg # 0 /\ sf' = [sf EXCEPT ![Checked].pos_cons = OwnSchedule.head]
      /\ UNCHANGED <<program, todo, got, bfreg, root_address, frames, leaders, sched_heap, at>>
  BY DEF ScheduleOwnConsumers, CheckingComplete, Backtracking
<1> DEFINE C == 1..Len(cps)
           own == OwnSchedule
<1>2. own \in Schedules(Len(cps), cps, C, C \X C, breg)
  BY <1>1, Coarsest, OwnScheduleOf, Breg DEF Checked
<1> HIDE DEF own
<1>3. own.head \in 0..Len(cps)
  BY <1>2 DEF Schedules
<1>4. Checked \in Subgoals
  BY <1>1, Breg DEF Checked
<1>5. sf' = [sf EXCEPT ![Checked].pos_cons = own.head]
  BY <1>1 DEF own
<1> QED
  BY <1>1, <1>3, <1>4, <1>5, SetHead DEF OnlyLists, HeadSet

(* Scheduling the consumers of a generator keeps the types. *)
LEMMA ScheduleOwnConsumersTyped == ASSUME Typed, ScheduleOwnConsumers PROVE Typed' /\ Grown
<1>1. /\ breg # 0 /\ cps' = OwnSchedule.stack /\ breg' = OwnSchedule.first
  BY DEF ScheduleOwnConsumers, CheckingComplete, Backtracking
<1> DEFINE C == 1..Len(cps)
           own == OwnSchedule
<1>2. own \in Schedules(Len(cps), cps, C, C \X C, breg)
  BY <1>1, Coarsest, OwnScheduleOf, Breg DEF Checked
<1> HIDE DEF own
<1>3. own.stack \in Stack(Len(cps)) /\ Relinked(cps, own.stack, C, breg) /\ own.first \in C \cup {0}
  BY <1>2 DEF Schedules
<1>4. OnlyLists /\ Grown
  BY ScheduleOwnConsumersLists, OnlyListsGrown
<1>5. cps' = own.stack /\ breg' = own.first
  BY <1>1 DEF own
<1>6. cps' \in Seq(Slots') /\ Len(cps') = Len(cps)
  BY <1>3, <1>4, <1>5, RelinkedTyped
<1>7. breg' \in 0..Len(cps)
  BY <1>3, <1>5, StackTyped
<1> QED
  BY <1>4, <1>6, <1>7, OnlyListsTyped

(* Scheduling an SCC only relinks lists. *)
LEMMA ScheduleSccLists == ASSUME Typed, ScheduleScc PROVE OnlyLists
<1>1. /\ breg # 0 /\ IsLeader /\ sf' = WithHeads(SccSchedule.heads)
      /\ sched_heap' = {f \in sched_heap : f < FrameOf(Checked)}
      /\ UNCHANGED <<program, todo, got, bfreg, root_address, frames, leaders, at>>
  BY DEF ScheduleScc, CheckingComplete, Backtracking
<1> DEFINE C == 1..Len(cps)
           scc == SccSchedule
<1>2. scc \in Fixpoints(Len(cps), cps, C, C \X C)
  <2>1. \A f \in FrameOf(Checked)..Len(frames) : sf[frames[f]].pos_cons \in C \cup {0}
    <3>1. \A f \in FrameOf(Checked)..Len(frames) : frames[f] \in Subgoals
      BY <1>1 DEF Typed, IsLeader
    <3> QED
      BY <3>1, Coarsest
  <2> QED
    BY <1>1, <2>1, Coarsest, SccScheduleOf, Breg DEF Checked
<1> HIDE DEF scc
<1>3. scc.heads \in [Subgoals -> 0..Len(cps)]
  BY <1>2 DEF Fixpoints
<1>4. sf' = WithHeads(scc.heads)
  BY <1>1 DEF scc
<1> QED
  BY <1>1, <1>3, <1>4, SetHeads DEF OnlyLists

(* Scheduling an SCC keeps the types. *)
LEMMA ScheduleSccTyped == ASSUME Typed, ScheduleScc PROVE Typed' /\ Grown
<1>1. /\ breg # 0 /\ IsLeader /\ cps' = SccSchedule.stack /\ breg' = SccSchedule.chain
  BY DEF ScheduleScc, CheckingComplete, Backtracking
<1> DEFINE C == 1..Len(cps)
           scc == SccSchedule
<1>2. scc \in Fixpoints(Len(cps), cps, C, C \X C)
  <2>1. \A f \in FrameOf(Checked)..Len(frames) : sf[frames[f]].pos_cons \in C \cup {0}
    <3>1. \A f \in FrameOf(Checked)..Len(frames) : frames[f] \in Subgoals
      BY <1>1 DEF Typed, IsLeader
    <3> QED
      BY <3>1, Coarsest
  <2> QED
    BY <1>1, <2>1, Coarsest, SccScheduleOf, Breg DEF Checked
<1> HIDE DEF scc
<1>3. scc.stack \in Stack(Len(cps)) /\ Relinked(cps, scc.stack, C, breg) /\ scc.chain \in C \cup {0}
  BY <1>2 DEF Fixpoints
<1>4. OnlyLists /\ Grown
  BY ScheduleSccLists, OnlyListsGrown
<1>5. cps' = scc.stack /\ breg' = scc.chain
  BY <1>1 DEF scc
<1>6. cps' \in Seq(Slots') /\ Len(cps') = Len(cps)
  BY <1>3, <1>4, <1>5, RelinkedTyped
<1>7. breg' \in 0..Len(cps)
  BY <1>3, <1>5, StackTyped
<1> QED
  BY <1>4, <1>6, <1>7, OnlyListsTyped

(* Making a consumer of a generator only relinks lists. *)
LEMMA makeConsumerLists == ASSUME Typed, makeConsumerFromGenerator PROVE OnlyLists
<1>1. /\ breg # 0 /\ sf' = [sf EXCEPT ![Checked].pos_cons = breg]
      /\ UNCHANGED <<program, todo, got, bfreg, root_address, frames, leaders, sched_heap, at>>
  BY DEF makeConsumerFromGenerator, CheckingComplete, Backtracking
<1>2. Checked \in Subgoals /\ breg \in 0..Len(cps)
  BY <1>1, Breg, StackTyped DEF Checked
<1> QED
  BY <1>1, <1>2, SetHead DEF OnlyLists, HeadSet

(* The generator that becomes a consumer, on the stack b. *)
AsConsumer(b, i, h) ==
  [b EXCEPT ![i].kind = "consumer", ![i].ret = 0, ![i].look = h]

Converted(d, n, b, i, h) ==
  /\ d \in Stack(n)
  /\ \A j \in 1..n : j # i => d[j] = b[j]
  /\ d[i].kind = "consumer" /\ d[i].ret = 0 /\ d[i].look = h
  /\ d[i].goal = b[i].goal /\ d[i].cont = b[i].cont /\ d[i].left = b[i].left
  /\ d[i].prev = b[i].prev /\ d[i].bf = b[i].bf

(* What makeConsumerFromGenerator leaves of the stack. *)
LEMMA MadeConsumer ==
  ASSUME NEW n \in Nat, NEW b \in Stack(n), NEW i \in 1..n, NEW h \in 0..n, NEW d,
         d = AsConsumer(b, i, h)
  PROVE  Converted(d, n, b, i, h)
<1> DEFINE cp == [[[b[i] EXCEPT !.kind = "consumer"] EXCEPT !.ret = 0] EXCEPT !.look = h]
<1>1. b[i] \in Slot(n)
  BY DEF Stack
<1>2. /\ cp \in Slot(n) /\ cp.kind = "consumer" /\ cp.ret = 0 /\ cp.look = h
      /\ cp.goal = b[i].goal /\ cp.cont = b[i].cont /\ cp.left = b[i].left
      /\ cp.prev = b[i].prev /\ cp.bf = b[i].bf
  BY <1>1 DEF Slot
<1>3. d = [b EXCEPT ![i] = cp]
  BY DEF Stack, AsConsumer
<1> HIDE DEF cp
<1>4. d \in Stack(n)
  BY <1>2, <1>3 DEF Stack
<1>5. d[i] = cp /\ \A j \in 1..n : j # i => d[j] = b[j]
  BY <1>3 DEF Stack
<1> QED
  BY <1>2, <1>4, <1>5 DEF Converted

(* Making a consumer of a generator keeps the types. *)
LEMMA makeConsumerTyped == ASSUME Typed, makeConsumerFromGenerator PROVE Typed' /\ Grown
<1>1. /\ breg # 0 /\ breg' = cps[breg].prev
      /\ cps' = [OwnSchedule.stack EXCEPT ![breg].kind = "consumer", ![breg].ret = 0,
                                          ![breg].look = OwnSchedule.head]
  BY DEF makeConsumerFromGenerator, CheckingComplete, Backtracking
<1> DEFINE C == 1..Len(cps)
           own == OwnSchedule
           b == own.stack
<1>2. own \in Schedules(Len(cps), cps, C, C \X C, breg)
  BY <1>1, Coarsest, OwnScheduleOf, Breg DEF Checked
<1> HIDE DEF own
<1>3. b \in Stack(Len(cps)) /\ Relinked(cps, b, C, breg) /\ own.head \in 0..Len(cps)
  BY <1>2 DEF Schedules
<1>4. OnlyLists /\ Grown
  BY makeConsumerLists, OnlyListsGrown
<1>5. cps' = [b EXCEPT ![breg].kind = "consumer", ![breg].ret = 0, ![breg].look = own.head]
  BY <1>1 DEF own
<1> HIDE DEF b
<1>6. breg \in 1..Len(cps) /\ breg' \in 0..Len(cps) /\ Len(cps) \in Nat
  BY <1>1, Breg, StackTyped
<1>7. /\ cps' \in Stack(Len(cps))
      /\ \A j \in 1..Len(cps) : j # breg => cps'[j] = b[j]
      /\ cps'[breg].kind = "consumer"
      /\ cps'[breg].goal = b[breg].goal /\ cps'[breg].cont = b[breg].cont
      /\ cps'[breg].left = b[breg].left
  <2>1. PICK d, h : d = cps' /\ h = own.head
    OBVIOUS
  <2>2. d = AsConsumer(b, breg, h)
    BY <1>5, <2>1 DEF AsConsumer
  <2>3. /\ d \in Stack(Len(cps))
        /\ \A j \in 1..Len(cps) : j # breg => d[j] = b[j]
        /\ d[breg].kind = "consumer"
        /\ d[breg].goal = b[breg].goal /\ d[breg].cont = b[breg].cont
        /\ d[breg].left = b[breg].left
    <3>1. PICK n, i, s : n = Len(cps) /\ i = breg /\ s = b
      OBVIOUS
    <3>2. n \in Nat /\ s \in Stack(n) /\ i \in 1..n /\ h \in 0..n /\ d = AsConsumer(s, i, h)
      BY <1>3, <1>6, <2>1, <2>2, <3>1
    <3>3. Converted(d, n, s, i, h)
      BY <3>2, MadeConsumer
    <3>4. /\ d \in Stack(n)
          /\ \A j \in 1..n : j # i => d[j] = s[j]
          /\ d[i].kind = "consumer"
          /\ d[i].goal = s[i].goal /\ d[i].cont = s[i].cont /\ d[i].left = s[i].left
      BY <3>3 DEF Converted
    <3> QED
      BY <3>1, <3>4
  <2> QED
    BY <2>1, <2>3
<1>8. \A i \in 1..Len(cps) : cps[i].kind = "generator" => cps[i].pc >= 1
  BY StackTyped DEF Slots
<1>9. \A i \in 1..Len(cps) :
        /\ cps'[i].goal = cps[i].goal /\ cps'[i].cont = cps[i].cont
        /\ cps'[i].left \subseteq cps[i].left
        /\ cps'[i].kind = "generator" => cps'[i].pc >= 1
  BY <1>3, <1>7, <1>8, StackTyped DEF Relinked, SameButLinks
<1>10. cps' \in Seq(Slots') /\ Len(cps') = Len(cps)
  BY <1>4, <1>7, <1>9, ChangeTyped, StackIsSeq, StackTyped
<1> QED
  BY <1>4, <1>6, <1>10, OnlyListsTyped

(* A frame that is marked complete. *)
LEMMA MarkAsCompleted ==
  ASSUME Typed, NEW frame \in Frame
  PROVE  /\ mark_as_completed(frame) \in Frame
         /\ mark_as_completed(frame).exists = frame.exists
         /\ mark_as_completed(frame).answers = frame.answers
         /\ mark_as_completed(frame).cp_ptr = frame.cp_ptr
         /\ mark_as_completed(frame).is_complete
<1> DEFINE yes == TRUE
           g == [[[frame EXCEPT !.is_complete = yes] EXCEPT !.is_reclaimed = yes] EXCEPT !.pos_cons = 0]
<1>1. yes \in BOOLEAN /\ yes
  OBVIOUS
<1>2. mark_as_completed(frame) = g
  BY Zenon DEF mark_as_completed
<1> HIDE DEF yes
<1>3. 0 \in 0..Len(cps)
  BY StackTyped
<1>4. g \in Frame
  BY <1>1, <1>3 DEF Frame
<1>5. g.exists = frame.exists /\ g.answers = frame.answers /\ g.cp_ptr = frame.cp_ptr
  BY DEF Frame
<1>6. g.is_complete = yes
  BY DEF Frame
<1> QED
  BY <1>1, <1>2, <1>4, <1>5, <1>6

(* Completing an SCC keeps the types. *)
LEMMA CompleteSccTyped == ASSUME Typed, CompleteScc PROVE Typed' /\ Grown
<1> DEFINE leader == FrameOf(Checked)
           scc == {frames[f] : f \in leader..Len(frames)}
           generator == cps[breg]
<1>a. breg # 0 /\ leader \in leaders
  BY DEF CompleteScc, CheckingComplete, Backtracking, IsLeader
<1>b. sf' = [s \in Subgoals |-> IF s \in scc THEN mark_as_completed(sf[s]) ELSE sf[s]]
  BY DEF CompleteScc, CompleteSimplifyAndReclaim
<1>c. /\ frames' = SubSeq(frames, 1, leader - 1)
      /\ leaders' = Older(leaders, leader)
      /\ sched_heap' = Older(sched_heap, leader)
      /\ reclaim_stacks
      /\ UNCHANGED <<program, todo, got>>
  BY DEF CompleteScc, CompleteSimplifyAndReclaim
<1>2. /\ breg \in 1..Len(cps) /\ generator \in Slot(Len(cps)) /\ Checked \in Subgoals
      /\ sf[Checked].exists
      /\ generator.cont \in Places /\ WaitsFor(generator.cont, Checked)
      /\ generator.prev \in 0..Len(cps)
      /\ todo # <<>> /\ Len(cps) \in Nat
  BY <1>a, Breg, StackTyped DEF Checked
<1>3. leader \in 1..Len(frames) /\ Len(frames) \in Nat /\ DOMAIN frames = 1..Len(frames)
  BY <1>a DEF Typed
<1> HIDE DEF scc, leader
<1>5. \A s \in Subgoals :
        /\ sf'[s] \in Frame /\ sf'[s].exists = sf[s].exists /\ sf'[s].answers = sf[s].answers
        /\ s \in scc => sf'[s].is_complete
        /\ sf[s].is_complete => sf'[s].is_complete
  BY <1>b, MarkAsCompleted DEF Typed
<1>6. Grown
  BY <1>c, <1>5 DEF Grown, Answers
<1>7. bfreg' \in 0..Len(cps) /\ root_address' \in 0..Len(cps)
  <2>1. generator.bf \in 0..Len(cps) /\ bfreg \in 0..Len(cps) /\ root_address \in 0..Len(cps)
    BY <1>2 DEF Slot, Typed, Registers
  <2>2. Min({bfreg, generator.bf}) \in {bfreg, generator.bf}
    BY <1>2, <2>1, MinOf
  <2> QED
    BY <1>c, <1>2, <2>1, <2>2 DEF reclaim_stacks
<1>8. /\ at' = Failed \/ at' \in Places
      /\ cps' \in Seq(Slots')
      /\ Len(cps') \in Nat /\ Len(cps) <= Len(cps')
      /\ breg' \in 0..Len(cps')
  <2>1. CASE sf[Checked].answers = <<>>
    <3>1. breg' = generator.prev /\ UNCHANGED <<at, cps>>
      BY <2>1 DEF CompleteScc, SetupReturnFromLeader
    <3>2. cps' \in Seq(Slots')
      <4>1. Slots \subseteq Slots'
        BY <1>2, <1>6, <3>1, SlotsGrow DEF Typed
      <4> QED
        BY <3>1, <4>1, SeqGrows DEF Typed
    <3> QED
      BY <1>2, <3>1, <3>2 DEF Typed
  <2>2. CASE sf[Checked].answers # <<>>
    <3>1. PICK top : top = Max({generator.prev, bfreg'}) + 1
      OBVIOUS
    <3>2. AnswerFromTrie(Checked, generator.cont, generator.prev, top)
      BY <2>2, <3>1 DEF CompleteScc, SetupReturnFromLeader, AnswerFromTrie
    <3>3. PICK low, free : low = generator.prev /\ free = bfreg'
      OBVIOUS
    <3>4. low \in 0..Len(cps) /\ free \in 0..Len(cps) /\ top = Max({low, free}) + 1
      BY <1>2, <1>7, <3>1, <3>3
    <3>5. top \in 1..Len(cps) + 1
      BY <1>2, <3>4, MaxOf
    <3> QED
      BY <1>2, <1>6, <3>2, <3>5, AnswerFromTrieTyped
  <2> QED
    BY <2>1, <2>2
<1>9. at' = Failed \/ at' \in Places'
  BY <1>6, <1>8, PlacesGrow DEF Typed
<1>10. Registers'
  BY <1>2, <1>7, <1>8 DEF Registers
<1>11. sf' \in [Subgoals -> Frame']
  <2>1. Frame \subseteq Frame'
    BY <1>2, <1>8 DEF Frame
  <2> QED
    BY <1>b, <1>5, <2>1
<1>12. /\ frames' \in Seq(Subgoals)
       /\ DOMAIN frames' = 1..leader - 1 /\ \A f \in 1..leader - 1 : frames'[f] = frames[f]
       /\ Len(frames') = leader - 1
  BY <1>c, <1>3 DEF Typed
<1>13. leaders' \subseteq DOMAIN frames' /\ sched_heap' \subseteq DOMAIN frames'
  BY <1>c, <1>3, <1>12 DEF Older, Typed
<1>14. Opened'
  <2>1. ASSUME NEW s \in Subgoals, sf[s].exists
        PROVE  s \in Range(frames') \/ sf'[s].is_complete
    <3>1. CASE s \in Range(frames)
      <4>1. PICK f \in DOMAIN frames : frames[f] = s
        BY <3>1 DEF Range
      <4>2. CASE f < leader
        <5>1. f \in DOMAIN frames' /\ frames'[f] = s
          BY <1>3, <1>12, <4>1, <4>2
        <5> QED
          BY <5>1 DEF Range
      <4>3. CASE ~ (f < leader)
        <5>1. f \in leader..Len(frames)
          BY <1>3, <4>3
        <5>2. s \in scc
          BY <4>1, <5>1 DEF scc
        <5> QED
          BY <1>5, <5>2
      <4> QED
        BY <4>2, <4>3
    <3>2. CASE sf[s].is_complete
      BY <1>5, <3>2
    <3> QED
      BY <2>1, <3>1, <3>2 DEF Typed, Opened
  <2>2. \A f \in DOMAIN frames' : sf'[frames'[f]].exists
    <3> TAKE f \in DOMAIN frames'
    <3>1. f \in DOMAIN frames /\ frames'[f] = frames[f] /\ frames[f] \in Subgoals
      BY <1>3, <1>12 DEF Typed
    <3>2. sf[frames[f]].exists
      BY <3>1 DEF Typed, Opened
    <3> QED
      BY <1>5, <3>1, <3>2
  <2>3. \A s \in Subgoals : ~ sf'[s].exists => sf'[s].answers = <<>>
    BY <1>5 DEF Typed, Opened
  <2> QED
    BY <1>5, <2>1, <2>2, <2>3 DEF Opened
<1> QED
  BY <1>c, <1>2, <1>6, <1>8, <1>9, <1>10, <1>11, <1>12, <1>13, <1>14 DEF Typed

(* The types hold at the start. *)
LEMMA InitTyped == Init => Typed
<1> SUFFICES ASSUME Init PROVE Typed
  OBVIOUS
<1>1. todo \in Seq(Subgoals) /\ program \in DOMAIN Programs
  BY ProgramsAssumption DEF Init
<1>2. NoFrame \in Frame /\ ~ NoFrame.exists /\ NoFrame.answers = <<>>
  <2>1. <<>> \in Seq(Values) /\ 0 \in 0..Len(cps)
    BY DEF Init
  <2> QED
    BY <2>1 DEF NoFrame, Frame
<1>3. sf \in [Subgoals -> Frame] /\ \A s \in Subgoals : ~ sf[s].exists /\ sf[s].answers = <<>>
  BY <1>2 DEF Init
<1>4. at \in Places
  <2>1. AskQuery \in Place
    BY ProgramsAssumption DEF AskQuery, Place
  <2> QED
    BY <2>1 DEF Init, Places, InQuery
<1>5. Opened
  BY <1>3 DEF Init, Opened
<1>6. Registers
  BY DEF Init, Registers
<1>7. todo # <<>>
  BY ProgramsAssumption DEF Init
<1>8. <<>> \in Seq(Slots) /\ <<>> \in Seq(Subgoals)
  OBVIOUS
<1> QED
  BY <1>1, <1>3, <1>4, <1>5, <1>6, <1>7, <1>8 DEF Init, Typed

(* Every step keeps the types, and adds only to what is known. *)
LEMMA StepTyped == ASSUME Typed, [Next]_vars PROVE Typed' /\ Grown
<1>1. CASE Step
  BY <1>1, CallNewTyped, CallCompletedTyped, CallIncompleteTyped, IgnoreAnswerTyped,
     NewAnswerTyped, AnswerQueryTyped, NextClauseTyped, AnswerReturnTyped, TrieAnswerTyped,
     NextQueryTyped, ScheduleOwnConsumersTyped, ScheduleSccTyped, CompleteSccTyped,
     makeConsumerTyped, GrownSame DEF Step, IgnoreAnswer
<1>2. CASE UNCHANGED vars
  <2>1. UNCHANGED <<program, todo, got, sf, cps, breg, bfreg, root_address, frames, leaders, sched_heap, at>>
    BY <1>2 DEF vars
  <2>2. Grown
    BY <2>1, GrownSame
  <2>3. cps' \in Seq(Slots') /\ Len(cps) \in Nat
    BY <2>1, UnchangedStack, StackTyped
  <2>4. breg' \in 0..Len(cps') /\ Len(cps) <= Len(cps')
    BY <2>1, <2>3 DEF Typed, Registers
  <2>5. /\ todo' \in Seq(Subgoals) /\ got' \subseteq Values
        /\ at' = Failed \/ at' \in Places
        /\ todo' = <<>> => at' = Failed /\ breg' = 0
    BY <2>1 DEF Typed
  <2> QED
    BY <2>1, <2>2, <2>3, <2>4, <2>5, QuietTyped
<1> QED
  BY <1>1, <1>2 DEF Next, Idle

(* The types that the induction needs give those of TypeOK. *)
LEMMA TypedIsTypeOK == ASSUME Typed PROVE TypeOK
<1>1. \A c \in Slots : c \in ChoicePoint
  <2> TAKE c \in Slots
  <2>1. Len(cps) \in Nat /\ c \in Slot(Len(cps))
    BY StackTyped DEF Slots
  <2> QED
    BY <2>1 DEF Slot, ChoicePoint, Place
<1>2. cps \in Seq(ChoicePoint)
  BY <1>1 DEF Typed
<1>3. Range(frames) \subseteq Subgoals
  BY DEF Typed, Range
<1>4. \A s \in Subgoals : sf[s].answers \in Seq(Values) /\ sf[s].pos_cons \in 0..Len(cps)
  BY DEF Typed, Frame
<1> QED
  BY <1>2, <1>3, <1>4 DEF Typed, TypeOK, Registers

(* The types are invariant. *)
LEMMA SpecTyped == Spec => []Typed
<1>1. Typed /\ [Next]_vars => Typed'
  BY StepTyped
<1> QED
  BY <1>1, InitTyped, PTL DEF Spec

(* Whatever program is loaded and however it recurses, the registers, the  *)
(* subgoal frames, the completion stack and the choice points that the     *)
(* instructions write stay within their types: every link, head of a list  *)
(* and register leads into the choice point stack. *)
THEOREM TypeCorrect == Spec => []TypeOK
BY SpecTyped, TypedIsTypeOK, PTL
--------------------------------------------------------------------------
(* TABLES *)

(* Steps that open, fill and complete no table. *)
LEMMA SameTables ==
  ASSUME program' = program,
         \A s \in Subgoals :
           /\ sf'[s].exists = sf[s].exists /\ sf'[s].answers = sf[s].answers
           /\ sf'[s].is_complete = sf[s].is_complete
  PROVE  UNCHANGED Tables!vars
<1>1. \A s \in Subgoals :
        Answers(s)' = Answers(s) /\ is_completed(s)' = is_completed(s)
  BY DEF Answers, is_completed
<1> QED
  BY <1>1 DEF Tables!vars

(* All but three of the instructions leave the tables as they are. *)
LEMMA QuietTables ==
  ASSUME Typed, [Next]_vars, ~ CallNew, ~ NewAnswer, ~ CompleteScc
  PROVE  UNCHANGED Tables!vars
<1>1. CASE UNCHANGED <<program, sf>>
  BY <1>1, SameTables
<1>2. CASE OnlyLists
  <2>1. \A s \in Subgoals :
           /\ sf'[s].exists = sf[s].exists /\ sf'[s].answers = sf[s].answers
           /\ sf'[s].is_complete = sf[s].is_complete
    BY <1>2 DEF OnlyLists
  <2>2. program' = program
    BY <1>2 DEF OnlyLists
  <2> QED
    BY <2>1, <2>2, SameTables
<1>3. CASE CallIncomplete
  <2> DEFINE top == top_of_cpstack + 1
  <2>1. sf' = [sf EXCEPT ![Goal].pos_cons = top] /\ program' = program
    BY <1>3 DEF CallIncomplete
  <2> HIDE DEF top
  <2>2. \A s \in Subgoals :
           /\ sf'[s].exists = sf[s].exists /\ sf'[s].answers = sf[s].answers
           /\ sf'[s].is_complete = sf[s].is_complete
    BY <2>1 DEF Typed, Frame
  <2> QED
    BY <2>1, <2>2, SameTables
<1>4. CallCompleted \/ IgnoreAnswer \/ AnswerQuery \/ NextClause \/ AnswerReturn
      \/ TrieAnswer \/ NextQuery \/ UNCHANGED vars => UNCHANGED <<program, sf>>
  BY DEF CallCompleted, IgnoreAnswer, AnswerQuery, NextClause, AnswerReturn, TrieAnswer,
     NextQuery, vars, stacks
<1>5. ScheduleOwnConsumers \/ ScheduleScc \/ makeConsumerFromGenerator => OnlyLists
  BY ScheduleOwnConsumersLists, ScheduleSccLists, makeConsumerLists
<1> QED
  BY <1>1, <1>2, <1>3, <1>4, <1>5 DEF Next, Idle, Step

(* The first call of a subgoal opens its table. *)
LEMMA CallNewTables == ASSUME Typed, CallNew PROVE \E s \in Subgoals : Tables!Call(s)
<1> DEFINE s == Goal
           frame == [NoFrame EXCEPT !.exists = TRUE, !.cp_ptr = top_of_cpstack + 1]
<1>1. s \in Subgoals /\ ~ sf[s].exists
  BY CalledGoal DEF CallNew
<1>2. sf' = [sf EXCEPT ![s] = frame] /\ program' = program
  BY DEF CallNew
<1>3. frame.exists /\ ~ frame.is_complete /\ frame.answers = <<>>
  BY DEF NoFrame
<1> HIDE DEF frame, s
<1>4. \A t \in Subgoals : sf'[t] = IF t = s THEN frame ELSE sf[t]
  BY <1>1, <1>2 DEF Typed
<1>5. sf[s].answers = <<>>
  BY <1>1 DEF Typed, Opened
<1>6. \A t \in Subgoals :
        /\ Answers(t)' = Answers(t) /\ is_completed(t)' = is_completed(t)
        /\ sf'[t].exists <=> sf[t].exists \/ t = s
  BY <1>1, <1>3, <1>4, <1>5 DEF Answers, is_completed
<1>7. {t \in Subgoals : sf'[t].exists} = {t \in Subgoals : sf[t].exists} \cup {s}
  BY <1>1, <1>6
<1>8. /\ [t \in Subgoals |-> Answers(t)]' = [t \in Subgoals |-> Answers(t)]
      /\ {t \in Subgoals : is_completed(t)}' = {t \in Subgoals : is_completed(t)}
  BY <1>6
<1>9. PICK t : t = s
  OBVIOUS
<1>10. t \in Subgoals /\ Tables!Call(t)
  BY <1>1, <1>2, <1>7, <1>8, <1>9 DEF Tables!Call
<1> QED
  BY <1>10

(* A clause that succeeds adds an answer that a rule gives. *)
LEMMA NewAnswerTables ==
  ASSUME Typed, NewAnswer
  PROVE  \E s \in Subgoals, v \in Values :
           /\ s = at.root /\ v = at.val /\ program' = program
           /\ Tables!Derive(s, v) \/ Tables!DeriveLast(s, v)
<1> DEFINE early == at.root \in Ground
<1>0. PICK s, v : s = at.root /\ v = at.val
  OBVIOUS
<1>1. s \in Subgoals /\ v \in Values /\ sf[s].exists /\ ~ is_completed(s)
  <2>1. at.root \in Subgoals /\ at.val \in Values /\ sf[at.root].exists /\ ~ is_completed(at.root)
    BY ProvedPlace DEF NewAnswer, IsNewAnswer
  <2> QED
    BY <1>0, <2>1
<1>2. /\ sf' = [sf EXCEPT ![s].answers = Append(@, v), ![s].is_complete = early]
      /\ program' = program
  BY <1>0 DEF NewAnswer
<1>3. PICK r \in RulesOf(program) :
        r.head = <<s, v>> /\ Answered(r) /\ r.body \subseteq Subgoals \X Values
  BY <1>0, ProvedPlace DEF NewAnswer
<1>4. \A q \in RulesOf(program) : q.head[1] = s /\ early => q.head[2] = Truth
  BY <1>0, GroundAssumption DEF Typed
<1>5. /\ \A t \in Subgoals \ {s} : sf'[t] = sf[t]
      /\ sf'[s].exists /\ sf'[s].answers = Append(sf[s].answers, v)
      /\ sf'[s].is_complete = early
  BY <1>1, <1>2 DEF Typed, Frame
<1>6. Range(Append(sf[s].answers, v)) = Range(sf[s].answers) \cup {v}
  <2>1. sf[s].answers \in Seq(Values)
    BY <1>1 DEF Typed, Frame
  <2> QED
    BY <1>1, <2>1, RangeAppend
<1>7. \A t \in Subgoals :
        /\ Answers(t)' = IF t = s THEN Answers(s) \cup {v} ELSE Answers(t)
        /\ sf'[t].exists <=> sf[t].exists
        /\ is_completed(t)' <=> is_completed(t) \/ (t = s /\ early)
  <2> HIDE DEF early
  <2> TAKE t \in Subgoals
  <2>1. CASE t = s
    BY <1>1, <1>5, <1>6, <2>1 DEF Answers, is_completed
  <2>2. CASE t # s
    BY <1>5, <2>2 DEF Answers, is_completed
  <2> QED
    BY <2>1, <2>2
<1>8. /\ [t \in Subgoals |-> Answers(t)]' =
           [[t \in Subgoals |-> Answers(t)] EXCEPT ![s] = @ \cup {v}]
      /\ {t \in Subgoals : sf'[t].exists} = {t \in Subgoals : sf[t].exists}
      /\ {t \in Subgoals : is_completed(t)}' =
           {t \in Subgoals : is_completed(t)} \cup (IF early THEN {s} ELSE {})
  BY <1>1, <1>7
<1>9. Tables!Derivable(s, v)
  BY <1>1, <1>3 DEF Tables!Derivable, Tables!Holds, Answered
<1>10. CASE early
  <2>1. v = Truth
    BY <1>3, <1>4, <1>10
  <2> QED
    BY <1>2, <1>4, <1>8, <1>9, <1>10, <2>1, <1>0, <1>1 DEF Tables!DeriveLast
<1>11. CASE ~ early
  BY <1>0, <1>1, <1>2, <1>8, <1>9, <1>11 DEF Tables!Derive
<1> QED
  BY <1>10, <1>11

(* Completing an SCC closes tables and changes no answer. *)
LEMMA CompleteSccTables ==
  ASSUME Typed, CompleteScc
  PROVE  /\ program' = program
         /\ \A s \in Subgoals :
              /\ sf'[s].exists = sf[s].exists /\ Answers(s)' = Answers(s)
              /\ is_completed(s) => is_completed(s)'
<1> DEFINE scc == {frames[f] : f \in FrameOf(Checked)..Len(frames)}
<1>1. /\ sf' = [s \in Subgoals |-> IF s \in scc THEN mark_as_completed(sf[s]) ELSE sf[s]]
      /\ program' = program
  BY DEF CompleteScc, CompleteSimplifyAndReclaim
<1> HIDE DEF scc
<1>2. \A s \in Subgoals :
        /\ sf'[s].exists = sf[s].exists /\ sf'[s].answers = sf[s].answers
        /\ sf[s].is_complete => sf'[s].is_complete
  BY <1>1, MarkAsCompleted DEF Typed
<1> QED
  BY <1>1, <1>2 DEF Answers, is_completed

(* The rules, and with them the models, are those of the program that was  *)
(* loaded. *)
LEMMA ModelsKept == ASSUME program' = program PROVE Tables!Models' = Tables!Models
BY DEF Tables!Models

(* Soundness of the tables, written out. *)
LEMMA SoundIs ==
  Tables!Sound <=>
    \A M \in Tables!Models : \A s \in Subgoals : \A v \in Answers(s) : <<s, v>> \in M
BY Zenon DEF Tables!Sound

(* The same in the next state. *)
LEMMA SoundNext ==
  Tables!Sound' <=>
    \A M \in Tables!Models' : \A s \in Subgoals : \A v \in Answers(s)' : <<s, v>> \in M
BY Zenon DEF Tables!Sound

(* An answer that a clause adds belongs to each model. *)
LEMMA NewAnswerSound ==
  ASSUME Typed, Tables!Sound, NewAnswer
  PROVE  Tables!Sound'
<1>1. PICK p \in Subgoals, w \in Values :
        /\ p = at.root /\ w = at.val
        /\ Tables!Derive(p, w) \/ Tables!DeriveLast(p, w)
  BY NewAnswerTables
<1>2. [t \in Subgoals |-> Answers(t)]' =
        [[t \in Subgoals |-> Answers(t)] EXCEPT ![p] = @ \cup {w}]
  BY <1>1 DEF Tables!Derive, Tables!DeriveLast
<1>3. Tables!Models' = Tables!Models
  BY ModelsKept DEF NewAnswer
<1>4. PICK r \in RulesOf(program) :
        /\ r.head = <<p, w>>
        /\ \A a \in r.body : a \in Subgoals \X Values /\ a[2] \in Answers(a[1])
  <2>1. PICK r \in RulesOf(program) :
          r.head = <<at.root, at.val>> /\ Answered(r) /\ r.body \subseteq Subgoals \X Values
    BY ProvedPlace DEF NewAnswer
  <2> QED
    BY <1>1, <2>1 DEF Answered
<1>5. ASSUME NEW M \in Tables!Models, NEW s \in Subgoals, NEW v \in Answers(s)'
      PROVE  <<s, v>> \in M
  <2>1. \A t \in Subgoals : \A y \in Answers(t) : <<t, y>> \in M
    BY SoundIs, Zenon
  <2>2. CASE s = p /\ v = w
    <3>1. r.body \subseteq M
      <4> SUFFICES ASSUME NEW a \in r.body PROVE a \in M
        OBVIOUS
      <4>1. a \in Subgoals \X Values /\ a[2] \in Answers(a[1])
        BY <1>4
      <4>2. <<a[1], a[2]>> \in M
        BY <2>1, <4>1
      <4> QED
        BY <4>1, <4>2
    <3>2. r.head \in M
      BY <1>4, <3>1 DEF Tables!Models
    <3> QED
      BY <1>4, <2>2, <3>2
  <2>3. CASE ~ (s = p /\ v = w)
    <3>1. v \in Answers(s)
      BY <1>2, <2>3
    <3> QED
      BY <2>1, <3>1
  <2> QED
    BY <2>2, <2>3
<1> QED
  BY <1>3, <1>5, SoundNext

(* Every step keeps the tables sound. *)
LEMMA StepSound == ASSUME Typed, Tables!Sound, [Next]_vars PROVE Tables!Sound'
<1>1. CASE NewAnswer
  BY <1>1, NewAnswerSound
<1>2. CASE program' = program /\ \A s \in Subgoals : Answers(s)' = Answers(s)
  <2>1. Tables!Models' = Tables!Models
    BY <1>2, ModelsKept
  <2> QED
    BY <1>2, <2>1, SoundIs, SoundNext
<1>3. CASE CallNew
  <2>1. PICK t \in Subgoals : Tables!Call(t)
    BY <1>3, CallNewTables
  <2>2. [s \in Subgoals |-> Answers(s)]' = [s \in Subgoals |-> Answers(s)]
    BY <2>1 DEF Tables!Call
  <2>3. \A s \in Subgoals : Answers(s)' = Answers(s)
    BY <2>2
  <2>4. program' = program
    BY <1>3 DEF CallNew
  <2> QED
    BY <1>2, <2>3, <2>4
<1>4. CASE CompleteScc
  BY <1>2, <1>4, CompleteSccTables
<1>5. CASE ~ CallNew /\ ~ NewAnswer /\ ~ CompleteScc
  <2>1. UNCHANGED Tables!vars
    BY <1>5, QuietTables
  <2>2. [s \in Subgoals |-> Answers(s)]' = [s \in Subgoals |-> Answers(s)]
    BY <2>1 DEF Tables!vars
  <2>3. \A s \in Subgoals : Answers(s)' = Answers(s)
    BY <2>2
  <2>4. program' = program
    BY StepTyped DEF Grown
  <2> QED
    BY <1>2, <2>3, <2>4
<1> QED
  BY <1>1, <1>3, <1>4, <1>5

(* Every answer that reaches a table - by a clause run against answers     *)
(* returned in any order, from lists of consumers that are relinked and    *)
(* stacks that are overwritten - belongs to every model of the program.    *)
THEOREM AnswersSound == Spec => []Tables!Sound
<1>1. Init => Tables!Sound
  <2> SUFFICES ASSUME Init PROVE Tables!Sound
    OBVIOUS
  <2>1. NoFrame.answers = <<>>
    BY DEF NoFrame
  <2>2. \A s \in Subgoals : sf[s].answers = <<>>
    BY <2>1 DEF Init
  <2>3. Range(<<>>) = {}
    BY DEF Range
  <2>4. \A s \in Subgoals : Answers(s) = {}
    BY <2>2, <2>3 DEF Answers
  <2> QED
    BY <2>4, SoundIs
<1>2. Typed /\ Tables!Sound /\ [Next]_vars => Tables!Sound'
  BY StepSound
<1> QED
  BY <1>1, <1>2, SpecTyped, PTL DEF Spec

(* The engine opens a table at the first call and adds only answers that   *)
(* a clause gives from answers already returned; early completion closes a *)
(* table only when it can have no other answer.  Steps that link, schedule *)
(* and cut choice points do not touch the tables.  What is left to be      *)
(* shown of the refinement is the completion of an SCC. *)
THEOREM TablesFollowRules ==
  Spec => Tables!Init /\ [][~ CompleteScc => [Tables!Next]_(Tables!vars)]_vars
<1>1. Init => Tables!Init
  <2> SUFFICES ASSUME Init PROVE Tables!Init
    OBVIOUS
  <2>1. Typed
    BY InitTyped
  <2>2. NoFrame.answers = <<>> /\ ~ NoFrame.exists
    BY DEF NoFrame
  <2>3. \A s \in Subgoals : sf[s].answers = <<>> /\ ~ sf[s].exists
    BY <2>2 DEF Init
  <2>4. Range(<<>>) = {}
    BY DEF Range
  <2>5. \A s \in Subgoals : Answers(s) = {}
    BY <2>3, <2>4 DEF Answers
  <2>6. RulesOf(program) \subseteq Tables!Rule
    BY <2>1, RulesAreRules DEF Tables!Rule, Tables!Atom, Typed
  <2> QED
    BY <2>3, <2>5, <2>6 DEF Tables!Init, is_completed
<1>2. ASSUME Typed, [Next]_vars, ~ CompleteScc
      PROVE  [Tables!Next]_(Tables!vars)
  <2>1. CASE CallNew
    BY <1>2, <2>1, CallNewTables DEF Tables!Next
  <2>2. CASE NewAnswer
    BY <1>2, <2>2, NewAnswerTables DEF Tables!Next
  <2>3. CASE ~ CallNew /\ ~ NewAnswer
    BY <1>2, <2>3, QuietTables
  <2> QED
    BY <2>1, <2>2, <2>3
<1>3. Typed /\ [Next]_vars => [~ CompleteScc => [Tables!Next]_(Tables!vars)]_vars
  BY <1>2
<1> QED
  BY <1>1, <1>3, SpecTyped, PTL DEF Spec

(* A table that is complete, early or with its SCC, is never changed: no   *)
(* consumer or clause of it that still runs adds an answer to it.          *)
THEOREM CompletedTablesKept ==
  Spec => [][\A s \in Subgoals :
               is_completed(s) => is_completed(s)' /\ Answers(s)' = Answers(s)]_vars
<1> DEFINE Kept == \A s \in Subgoals :
                     is_completed(s) => is_completed(s)' /\ Answers(s)' = Answers(s)
<1>1. ASSUME Typed, [Next]_vars PROVE Kept
  <2>1. CASE CompleteScc
    BY <1>1, <2>1, CompleteSccTables
  <2>2. CASE CallNew \/ NewAnswer
    <3>1. \E t \in Subgoals :
            \/ Tables!Call(t)
            \/ \E v \in Values : Tables!Derive(t, v) \/ Tables!DeriveLast(t, v)
      BY <1>1, <2>2, CallNewTables, NewAnswerTables
    <3>2. PICK t \in Subgoals :
            \/ Tables!Call(t)
            \/ \E v \in Values : Tables!Derive(t, v) \/ Tables!DeriveLast(t, v)
      BY <3>1
    <3>3. /\ {s \in Subgoals : is_completed(s)} \subseteq {s \in Subgoals : is_completed(s)}'
          /\ \A s \in Subgoals : is_completed(s) =>
               [q \in Subgoals |-> Answers(q)]'[s] = [q \in Subgoals |-> Answers(q)][s]
      BY <3>2 DEF Tables!Call, Tables!Derive, Tables!DeriveLast, Tables!Derivable
    <3> QED
      BY <3>3
  <2>3. CASE ~ CompleteScc /\ ~ CallNew /\ ~ NewAnswer
    <3>1. UNCHANGED Tables!vars
      BY <1>1, <2>3, QuietTables
    <3>2. /\ {s \in Subgoals : is_completed(s)}' = {s \in Subgoals : is_completed(s)}
          /\ [s \in Subgoals |-> Answers(s)]' = [s \in Subgoals |-> Answers(s)]
      BY <3>1 DEF Tables!vars
    <3>3. \A s \in Subgoals : Answers(s)' = Answers(s) /\ (is_completed(s) => is_completed(s)')
      BY <3>2
    <3> QED
      BY <3>3
  <2> QED
    BY <2>1, <2>2, <2>3
<1>2. Typed /\ [Next]_vars => [Kept]_vars
  BY <1>1
<1> QED
  BY <1>2, SpecTyped, PTL DEF Spec
--------------------------------------------------------------------------
(* THE STACKS *)

Top == top_of_cpstack

(* The place of the generator of a frame.  It is there until the frame is  *)
(* completed, even when it has become a consumer. *)
Gen(f) == sf[frames[f]].cp_ptr

(* The user's query is at the bottom of the stack. *)
Rooted ==
  /\ frames = <<>> =>
       /\ bfreg = 0 /\ root_address = 0
       /\ at # Failed => at.root = NoGoal
       /\ breg # 0 => /\ breg = 1
                      /\ cps[1].kind = "trie" /\ cps[1].prev = 0 /\ cps[1].cont = AskQuery
  /\ frames # <<>> => 1 \in leaders /\ root_address = 1 /\ Gen(1) = 1 /\ cps[1].prev = 0
  /\ at = AskQuery => breg = 0 /\ frames = <<>>

(* Open subgoals were called one after the other. *)
Generators ==
  /\ \A f, g \in DOMAIN frames : f < g => Gen(f) < Gen(g)
  /\ \A f \in DOMAIN frames : Gen(f) \in 1..Top /\ cps[Gen(f)].goal = frames[f]
  /\ \A i \in 1..Top :
       /\ cps[i].kind = "generator" => \E f \in DOMAIN frames : i = Gen(f)
       /\ cps[i].kind # "consumer" => cps[i].prev < i

(* A root that was called since frame l, or before it. *)
Since(root, l) == \E f \in l..Len(frames) : root = frames[f]
Before(root, l) == root = NoGoal \/ \E f \in 1..l - 1 : root = frames[f]

(* What is above the generator of a leader belongs to its SCC or to a      *)
(* younger one, and failing there does not leave it. *)
Components ==
  \A l \in leaders :
    /\ cps[Gen(l)].kind = "generator"
    /\ Gen(l) <= breg
    /\ \A i \in Gen(l) + 1 .. Top : Gen(l) <= cps[i].prev /\ Since(cps[i].cont.root, l)
    /\ \A i \in 1 .. Gen(l) : Before(cps[i].cont.root, l)
    /\ at # Failed => Since(at.root, l)

(* What a leader finds frozen when it is completed: all that older         *)
(* subgoals need which are not leaders. *)
Frozen ==
  /\ \A f \in DOMAIN frames \ leaders : Gen(f) <= bfreg
  /\ \A l \in leaders :
       /\ cps[Gen(l)].bf < Gen(l) /\ cps[Gen(l)].bf <= bfreg
       /\ \A k \in leaders : k < l => cps[Gen(k)].bf <= cps[Gen(l)].bf
       /\ \A f \in DOMAIN frames \ leaders : f < l => Gen(f) <= cps[Gen(l)].bf

(* Places that stay when the freeze register is b and m frames are left. *)
Safe(i, b, m) == i <= b \/ \E f \in 1..m : i = Gen(f)

(* The choice point i can be a consumer of frame f, and stay one when a    *)
(* younger SCC is completed. *)
Consumes(i, f) ==
  /\ cps[i].goal = frames[f] /\ Gen(f) <= i
  /\ i <= bfreg /\ Safe(cps[i].prev, bfreg, Len(frames))
  /\ \A l \in leaders :
       f < l => i <= cps[Gen(l)].bf /\ Safe(cps[i].prev, cps[Gen(l)].bf, l - 1)

Kept == \A i \in 1..Top : cps[i].kind = "consumer" => \E f \in DOMAIN frames : Consumes(i, f)

Shape == Rooted /\ Generators /\ Components /\ Frozen /\ Kept

(* The registers and the top of the stack are numbers in order. *)
LEMMA TopIs ==
  ASSUME Typed
  PROVE  /\ Top \in Nat /\ breg \in Nat /\ bfreg \in Nat /\ Len(cps) \in Nat
         /\ breg <= Top /\ bfreg <= Top /\ Top <= Len(cps)
         /\ Top = breg \/ Top = bfreg
<1>1. Len(cps) \in Nat
  BY StackTyped
<1> QED
  BY <1>1, TopOf DEF Typed, Registers, Top

(* The same in the next state. *)
LEMMA TopNext ==
  ASSUME Typed'
  PROVE  /\ Top' \in Nat /\ breg' \in Nat /\ bfreg' \in Nat /\ Len(cps') \in Nat
         /\ breg' <= Top' /\ bfreg' <= Top' /\ Top' <= Len(cps')
         /\ Top' = breg' \/ Top' = bfreg'
<1>1. Len(cps') \in Nat /\ breg' \in 0..Len(cps') /\ bfreg' \in 0..Len(cps')
  BY DEF Typed, Registers
<1>2. Top' = IF breg' >= bfreg' THEN breg' ELSE bfreg'
  <2>1. Max({breg', bfreg'}) = IF breg' >= bfreg' THEN breg' ELSE bfreg'
    BY <1>1, MaxOf
  <2> QED
    BY <2>1 DEF Top, top_of_cpstack
<1> QED
  BY <1>1, <1>2

(* Frames and choice points are numbered. *)
LEMMA Numbers ==
  ASSUME Typed
  PROVE  /\ Len(frames) \in Nat /\ DOMAIN frames = 1..Len(frames) /\ leaders \subseteq DOMAIN frames
         /\ frames = <<>> <=> Len(frames) = 0
         /\ \A f \in DOMAIN frames : frames[f] \in Subgoals /\ Gen(f) \in Nat
         /\ \A i \in 1..Top :
              /\ cps[i].prev \in Nat /\ cps[i].bf \in Nat /\ cps[i].look \in Nat
              /\ cps[i].kind \in {"generator", "consumer", "trie"} /\ cps[i].cont \in Places
<1>1. \A f \in DOMAIN frames : frames[f] \in Subgoals
  BY DEF Typed
<1>2. \A s \in Subgoals : sf[s].cp_ptr \in Nat
  BY StackTyped DEF Typed, Frame
<1>3. \A i \in 1..Top : cps[i] \in Slot(Len(cps)) /\ cps[i] \in Slots
  BY StackTyped, TopIs
<1>4. \A i \in 1..Top :
         /\ cps[i].prev \in Nat /\ cps[i].bf \in Nat /\ cps[i].look \in Nat
         /\ cps[i].kind \in {"generator", "consumer", "trie"} /\ cps[i].cont \in Places
  BY <1>3, StackTyped DEF Slot, Slots
<1> QED
  BY <1>1, <1>2, <1>4 DEF Typed, Gen

(* The order of frames is that of their generators. *)
LEMMA GenOrder ==
  ASSUME Typed, Generators, NEW f \in DOMAIN frames, NEW g \in DOMAIN frames
  PROVE  /\ Gen(f) <= Gen(g) <=> f <= g
         /\ frames[f] = frames[g] => f = g
         /\ Gen(f) \in 1..Top
<1>1. f \in Int /\ g \in Int /\ Gen(f) \in Int /\ Gen(g) \in Int
  BY Numbers
<1>2. Gen(f) = Gen(g) => f = g
  BY <1>1 DEF Generators
<1>3. frames[f] = frames[g] => Gen(f) = Gen(g)
  BY DEF Gen
<1> QED
  BY <1>1, <1>2, <1>3 DEF Generators

(* The generator at which the engine fails is that of an open subgoal, and *)
(* no leader is younger. *)
LEMMA AtGenerator ==
  ASSUME Typed, Shape, breg # 0, cps[breg].kind = "generator"
  PROVE  /\ Checked \in Range(frames)
         /\ FrameOf(Checked) \in DOMAIN frames
         /\ frames[FrameOf(Checked)] = Checked /\ Gen(FrameOf(Checked)) = breg
         /\ breg \in 1..Top
         /\ \A l \in leaders : l <= FrameOf(Checked) /\ Gen(l) <= breg
<1>1. breg \in 1..Top
  BY TopIs
<1>2. PICK f \in DOMAIN frames : breg = Gen(f)
  BY <1>1 DEF Shape, Generators
<1>3. Checked = frames[f]
  BY <1>2 DEF Shape, Generators, Checked
<1>4. Checked \in Range(frames)
  BY <1>3 DEF Range
<1>5. FrameOf(Checked) \in DOMAIN frames /\ frames[FrameOf(Checked)] = Checked
  BY <1>4, FrameOfOf
<1>6. FrameOf(Checked) = f
  BY <1>3, <1>5, GenOrder DEF Shape
<1>7. \A l \in leaders : l \in DOMAIN frames /\ Gen(l) <= Gen(f)
  BY <1>2, Numbers DEF Shape, Components
<1>8. \A l \in leaders : l <= f
  BY <1>7, GenOrder DEF Shape
<1> QED
  BY <1>1, <1>2, <1>4, <1>5, <1>6, <1>7, <1>8

(* Safe for the generators after the step. *)
SafeNext(i, b, m) == i <= b \/ \E f \in 1..m : i = Gen(f)'

(* A consumer that is linked anew, or was a generator. *)
Renewed(i) ==
  /\ cps'[i].kind = "consumer"
  /\ \A l \in leaders : Gen(l) # i /\ Gen(l) <= cps'[i].prev
  /\ \E f \in DOMAIN frames :
       /\ cps[i].goal = frames[f] /\ Gen(f) <= i
       /\ i <= bfreg /\ Safe(cps'[i].prev, bfreg, Len(frames))
       /\ \A l \in leaders : l <= f

(* Steps that open and complete no subgoal and push no choice point. *)
Moved ==
  /\ UNCHANGED <<frames, leaders, bfreg, root_address>>
  /\ \A s \in Subgoals : sf'[s].cp_ptr = sf[s].cp_ptr
  /\ breg' <= Top
  /\ \A l \in leaders : Gen(l) <= breg'
  /\ \A i \in 1..Top :
       /\ cps'[i].goal = cps[i].goal /\ cps'[i].cont = cps[i].cont /\ cps'[i].bf = cps[i].bf
       /\ (cps'[i].kind = cps[i].kind /\ cps'[i].prev = cps[i].prev) \/ Renewed(i)
  /\ at' # Failed => \A l \in leaders : Since(at'.root, l)
  /\ frames = <<>> => breg' \in {0, breg} /\ (at' # Failed => at'.root = NoGoal)
  /\ at' = AskQuery => breg' = 0 /\ frames = <<>>

(* After a step that only moves, the generators are where they were. *)
LEMMA MovedNumbers ==
  ASSUME Typed, Typed', Shape, Moved
  PROVE  /\ \A f \in DOMAIN frames : Gen(f)' = Gen(f)
         /\ Top' <= Top /\ bfreg <= Top' /\ Top' \in Nat /\ Top \in Nat
         /\ \A f \in DOMAIN frames : Gen(f) <= Top'
<1>1. \A f \in DOMAIN frames : Gen(f)' = Gen(f)
  BY Numbers DEF Moved, Gen
<1>2. Top' <= Top /\ bfreg <= Top' /\ Top' \in Nat /\ Top \in Nat /\ bfreg \in Nat /\ breg' <= Top'
      /\ breg' \in Nat
  BY TopIs, TopNext DEF Moved
<1>3. ASSUME NEW f \in DOMAIN frames PROVE Gen(f) <= Top'
  <2>1. Gen(f) \in Nat
    BY Numbers
  <2>2. CASE f \in leaders
    BY <1>2, <2>1, <2>2 DEF Moved
  <2>3. CASE f \notin leaders
    BY <1>2, <2>1, <2>3 DEF Shape, Frozen
  <2> QED
    BY <2>2, <2>3
<1> QED
  BY <1>1, <1>2, <1>3

(* A step that only moves keeps the shape of the stack. *)
LEMMA MovedShape ==
  ASSUME Typed, Typed', Shape, Moved
  PROVE  Shape'
<1>1. /\ \A f \in DOMAIN frames : Gen(f)' = Gen(f)
      /\ Top' <= Top /\ bfreg <= Top' /\ Top' \in Nat /\ Top \in Nat
      /\ \A f \in DOMAIN frames : Gen(f) <= Top'
  BY MovedNumbers
<1>2. /\ Len(frames) \in Nat /\ DOMAIN frames = 1..Len(frames) /\ leaders \subseteq DOMAIN frames
      /\ frames = <<>> <=> Len(frames) = 0
      /\ \A f \in DOMAIN frames : frames[f] \in Subgoals /\ Gen(f) \in Nat
  BY Numbers
<1>3. frames' = frames /\ leaders' = leaders /\ bfreg' = bfreg /\ root_address' = root_address
  BY DEF Moved
<1>4. \A i \in 1..Top' : i \in 1..Top
  BY <1>1
<1>5. \A i \in 1..Top :
       /\ cps'[i].goal = cps[i].goal /\ cps'[i].cont = cps[i].cont /\ cps'[i].bf = cps[i].bf
       /\ (cps'[i].kind = cps[i].kind /\ cps'[i].prev = cps[i].prev) \/ Renewed(i)
  BY DEF Moved
<1>6. \A l \in leaders : Gen(l) \in 1..Top /\ cps'[Gen(l)].kind = "generator"
                         /\ cps'[Gen(l)].prev = cps[Gen(l)].prev /\ cps'[Gen(l)].bf = cps[Gen(l)].bf
  <2> TAKE l \in leaders
  <2>1. Gen(l) \in 1..Top /\ cps[Gen(l)].kind = "generator"
    BY <1>2 DEF Shape, Generators, Components
  <2>2. ~ Renewed(Gen(l))
    BY DEF Renewed
  <2> QED
    BY <1>5, <2>1, <2>2
<1>7. Rooted'
  <2>1. CASE frames = <<>>
    <3>1. /\ bfreg = 0 /\ root_address = 0 /\ breg' \in {0, breg}
          /\ at' # Failed => at'.root = NoGoal
          /\ breg # 0 => breg = 1 /\ cps[1].kind = "trie" /\ cps[1].prev = 0 /\ cps[1].cont = AskQuery
          /\ at' = AskQuery => breg' = 0
      BY <2>1 DEF Moved, Shape, Rooted
    <3>2. breg' # 0 => cps'[1].kind = "trie" /\ cps'[1].prev = 0 /\ cps'[1].cont = AskQuery
      <4> SUFFICES ASSUME breg' # 0
                   PROVE  cps'[1].kind = "trie" /\ cps'[1].prev = 0 /\ cps'[1].cont = AskQuery
        OBVIOUS
      <4>1. breg = 1 /\ 1 \in 1..Top
        BY <3>1, TopIs
      <4>2. ~ Renewed(1)
        BY <1>2, <2>1 DEF Renewed
      <4> QED
        BY <1>5, <3>1, <4>1, <4>2
    <3> QED
      BY <1>3, <2>1, <3>1, <3>2 DEF Rooted
  <2>2. CASE frames # <<>>
    <3>1. 1 \in leaders /\ root_address = 1 /\ Gen(1) = 1 /\ cps[1].prev = 0
      BY <2>2 DEF Shape, Rooted
    <3>2. Gen(1)' = 1 /\ cps'[1].prev = 0
      BY <1>1, <1>2, <1>6, <3>1
    <3>3. at' # AskQuery
      BY <2>2 DEF Moved
    <3> QED
      BY <1>3, <2>2, <3>1, <3>2, <3>3 DEF Rooted
  <2> QED
    BY <2>1, <2>2
<1>8. Generators'
  <2>1. \A f, g \in DOMAIN frames : f < g => Gen(f)' < Gen(g)'
    BY <1>1 DEF Shape, Generators
  <2>2. \A f \in DOMAIN frames : Gen(f) \in 1..Top /\ Gen(f) \in 1..Top' /\ cps'[Gen(f)].goal = frames[f]
    BY <1>1, <1>5 DEF Shape, Generators
  <2>3. \A i \in 1..Top' :
          /\ cps'[i].kind = "generator" => \E f \in DOMAIN frames : i = Gen(f)
          /\ cps'[i].kind # "consumer" => cps'[i].prev < i
    BY <1>4, <1>5 DEF Renewed, Shape, Generators
  <2> QED
    BY <1>1, <1>3, <2>1, <2>2, <2>3 DEF Generators
<1>9. Components'
  <2> SUFFICES ASSUME NEW l \in leaders
               PROVE  /\ cps'[Gen(l)].kind = "generator"
                      /\ Gen(l) <= breg'
                      /\ \A i \in Gen(l) + 1 .. Top' :
                           Gen(l) <= cps'[i].prev /\ Since(cps'[i].cont.root, l)
                      /\ \A i \in 1 .. Gen(l) : Before(cps'[i].cont.root, l)
                      /\ at' # Failed => Since(at'.root, l)
    BY <1>1, <1>2, <1>3 DEF Components, Since, Before
  <2>1. Gen(l) \in 1..Top /\ l \in DOMAIN frames
    BY <1>2, <1>6
  <2>2. ASSUME NEW i \in Gen(l) + 1 .. Top'
        PROVE  Gen(l) <= cps'[i].prev /\ Since(cps'[i].cont.root, l)
    <3>1. i \in 1..Top /\ i \in Gen(l) + 1..Top
      BY <1>1, <2>1
    <3> QED
      BY <1>5, <3>1 DEF Renewed, Shape, Components
  <2>3. ASSUME NEW i \in 1 .. Gen(l)
        PROVE  Before(cps'[i].cont.root, l)
    <3>1. i \in 1..Top
      BY <1>1, <2>1
    <3> QED
      BY <1>5, <3>1 DEF Shape, Components
  <2> QED
    BY <1>6, <2>2, <2>3 DEF Moved
<1>10. Frozen'
  BY <1>1, <1>2, <1>3, <1>6 DEF Shape, Frozen
<1>11. Kept'
  <2> SUFFICES ASSUME NEW i \in 1..Top', cps'[i].kind = "consumer"
               PROVE  \E f \in DOMAIN frames : Consumes(i, f)'
    BY <1>3 DEF Kept
  <2>1. i \in 1..Top
    BY <1>4
  <2>2. \A f \in DOMAIN frames :
          Consumes(i, f)' <=>
            /\ cps'[i].goal = frames[f] /\ Gen(f) <= i
            /\ i <= bfreg /\ Safe(cps'[i].prev, bfreg, Len(frames))
            /\ \A l \in leaders :
                 f < l => i <= cps[Gen(l)].bf /\ Safe(cps'[i].prev, cps[Gen(l)].bf, l - 1)
    <3>1. \A j, b, m : m \in 0..Len(frames) => (SafeNext(j, b, m) <=> Safe(j, b, m))
      BY <1>1, <1>2 DEF Safe, SafeNext
    <3>2. \A l \in leaders :
            l - 1 \in 0..Len(frames) /\ Gen(l)' = Gen(l) /\ cps'[Gen(l)].bf = cps[Gen(l)].bf
      BY <1>1, <1>2, <1>6
    <3> TAKE f \in DOMAIN frames
    <3>3. Consumes(i, f)' <=>
            /\ cps'[i].goal = frames[f] /\ Gen(f) <= i
            /\ i <= bfreg /\ SafeNext(cps'[i].prev, bfreg, Len(frames))
            /\ \A l \in leaders :
                 f < l => i <= cps[Gen(l)].bf /\ SafeNext(cps'[i].prev, cps[Gen(l)].bf, l - 1)
      BY <1>1, <1>3, <3>2 DEF Consumes, Safe, SafeNext
    <3>4. Len(frames) \in 0..Len(frames)
      BY <1>2
    <3> QED
      BY <1>2, <3>1, <3>2, <3>3, <3>4
  <2>3. CASE cps'[i].kind = cps[i].kind /\ cps'[i].prev = cps[i].prev
    <3>1. PICK f \in DOMAIN frames : Consumes(i, f)
      BY <2>1, <2>3 DEF Shape, Kept
    <3> QED
      BY <1>5, <2>1, <2>2, <2>3, <3>1 DEF Consumes
  <2>4. CASE Renewed(i)
    <3>1. PICK f \in DOMAIN frames :
            /\ cps[i].goal = frames[f] /\ Gen(f) <= i
            /\ i <= bfreg /\ Safe(cps'[i].prev, bfreg, Len(frames))
            /\ \A l \in leaders : l <= f
      BY <2>4 DEF Renewed
    <3>2. \A l \in leaders : ~ (f < l)
      BY <1>2, <3>1
    <3> QED
      BY <1>5, <2>1, <2>2, <3>1, <3>2
  <2> QED
    BY <1>5, <2>1, <2>3, <2>4
<1> QED
  BY <1>7, <1>8, <1>9, <1>10, <1>11 DEF Shape

(* The consumers that are on the stack. *)
Waiting == {i \in 1..Top : cps[i].kind = "consumer"}

(* Following a list of consumers goes down in E. *)
LinkedBy(E) ==
  /\ \A a, b, c \in Waiting : <<a, b>> \in E /\ <<b, c>> \in E => <<a, c>> \in E
  /\ \A a \in Waiting : <<a, a>> \notin E
  /\ \A i \in Waiting :
       cps[i].look # 0 => <<i, cps[i].look>> \in E /\ cps[cps[i].look].goal = cps[i].goal

Heads ==
  \A f \in DOMAIN frames :
    LET head == sf[frames[f]].pos_cons
    IN  head # 0 => head \in Waiting /\ cps[head].goal = frames[f]

(* Links lead from consumers to consumers. *)
LEMMA Looks ==
  ASSUME NEW E \in SUBSET (Waiting \X Waiting), LinkedBy(E)
  PROVE  \A i \in Waiting : cps[i].look # 0 => cps[i].look \in Waiting
<1>1. \A i \in Waiting : cps[i].look # 0 => <<i, cps[i].look>> \in E
  BY DEF LinkedBy
<1>2. \A i, j : <<i, j>> \in E => j \in Waiting
  OBVIOUS
<1> QED
  BY <1>1, <1>2

Linked == Heads /\ \E E \in SUBSET (Waiting \X Waiting) : LinkedBy(E)

(* Steps that change neither links nor what choice points are for. *)
Quiet ==
  /\ UNCHANGED <<frames, leaders, bfreg, root_address>>
  /\ \A s \in Subgoals : sf'[s].cp_ptr = sf[s].cp_ptr /\ sf'[s].pos_cons = sf[s].pos_cons
  /\ \A i \in 1..Top :
       /\ cps'[i].kind = cps[i].kind /\ cps'[i].goal = cps[i].goal
       /\ cps'[i].cont = cps[i].cont /\ cps'[i].bf = cps[i].bf
       /\ cps'[i].prev = cps[i].prev /\ cps'[i].look = cps[i].look

(* A step that turns no choice point into a consumer keeps the set of      *)
(* them. *)
LEMMA WaitingKept ==
  ASSUME Typed, Typed', Shape, Moved, \A i \in 1..Top : cps'[i].kind = cps[i].kind
  PROVE  Waiting' = Waiting
<1>1. Top' <= Top /\ bfreg <= Top' /\ Top' \in Nat /\ Top \in Nat
  BY MovedNumbers
<1>2. \A i \in 1..Top' : i \in 1..Top
  BY <1>1
<1>3. \A i \in Waiting : i \in 1..Top /\ i <= bfreg /\ bfreg \in Nat
  BY TopIs DEF Waiting, Shape, Kept, Consumes
<1>4. \A i \in Waiting : i \in 1..Top'
  BY <1>1, <1>3
<1> QED
  BY <1>2, <1>4 DEF Waiting

(* A step that writes no link keeps the lists. *)
LEMMA QuietLinked ==
  ASSUME Typed, Typed', Shape, Moved, Linked, Quiet
  PROVE  Linked'
<1>1. Waiting' = Waiting
  BY WaitingKept DEF Quiet
<1>2. PICK E \in SUBSET (Waiting \X Waiting) : LinkedBy(E)
  BY DEF Linked
<1>3. \A i \in Waiting : i \in 1..Top
  BY DEF Waiting
<1>4. \A i \in Waiting : cps[i].look # 0 => cps[i].look \in Waiting
  BY <1>2, Looks
<1>5. LinkedBy(E)'
  BY <1>1, <1>2, <1>3, <1>4 DEF LinkedBy, Quiet
<1>6. Heads'
  <2>1. \A f \in DOMAIN frames : frames[f] \in Subgoals
    BY Numbers
  <2> QED
    BY <1>1, <1>3, <2>1 DEF Heads, Linked, Quiet
<1> QED
  BY <1>1, <1>5, <1>6 DEF Linked

(* The stack is not touched. *)
LEMMA SameStackQuiet ==
  ASSUME UNCHANGED <<cps, bfreg, root_address, frames, leaders>>,
         \A s \in Subgoals : sf'[s].cp_ptr = sf[s].cp_ptr /\ sf'[s].pos_cons = sf[s].pos_cons
  PROVE  Quiet
BY DEF Quiet

(* When a step without writes is one that only moves. *)
LEMMA QuietMoved ==
  ASSUME Typed, Shape, Quiet, breg' <= Top, \A l \in leaders : Gen(l) <= breg',
         at' # Failed => \A l \in leaders : Since(at'.root, l),
         frames = <<>> => breg' \in {0, breg} /\ (at' # Failed => at'.root = NoGoal),
         at' = AskQuery => breg' = 0 /\ frames = <<>>
  PROVE  Moved
BY DEF Quiet, Moved

(* The first frame is a leader: all continuations above it are in its SCC  *)
(* or a younger one. *)
LEMMA FailedIsNot ==
  /\ AskQuery # Failed
  /\ \A s \in Subgoals : s # NoGoal
BY ProgramsAssumption DEF Failed, AskQuery

(* An answer that is known already, and one for the user, write no link. *)
LEMMA IgnoreAnswerQuiet ==
  ASSUME Typed, Shape, IgnoreAnswer \/ AnswerQuery
  PROVE  Quiet /\ Moved
<1>1. UNCHANGED <<sf, cps, breg, bfreg, root_address, frames, leaders>> /\ at' = Failed
  BY DEF IgnoreAnswer, AnswerQuery, stacks
<1>2. Quiet
  BY <1>1, SameStackQuiet
<1>3. breg' <= Top /\ \A l \in leaders : Gen(l) <= breg'
  BY <1>1, TopIs DEF Shape, Components
<1> QED
  BY <1>1, <1>2, <1>3, QuietMoved, FailedIsNot

(* Neither does turning to the next query, *)
LEMMA NextQueryQuiet ==
  ASSUME Typed, Shape, NextQuery
  PROVE  Quiet /\ Moved
<1>1. /\ UNCHANGED <<sf, cps, breg, bfreg, root_address, frames, leaders>>
      /\ breg = 0 /\ at' \in {Failed, AskQuery}
  BY DEF NextQuery, stacks
<1>2. Quiet
  BY <1>1, SameStackQuiet
<1>3. frames = <<>>
  <2> SUFFICES ASSUME frames # <<>> PROVE FALSE
    OBVIOUS
  <2>1. 1 \in leaders /\ Gen(1) = 1 /\ Gen(1) <= breg
    BY DEF Shape, Rooted, Components
  <2> QED
    BY <1>1, <2>1
<1>4. leaders = {}
  BY <1>3, Numbers
<1>5. breg' <= Top
  BY <1>1, TopIs
<1>6. at' # Failed => at'.root = NoGoal
  BY <1>1, AskQueryOf
<1> QED
  BY <1>1, <1>2, <1>3, <1>4, <1>5, <1>6, QuietMoved

(* A choice point changes in a counter or a set of answers only. *)
LEMMA EditQuiet ==
  ASSUME Typed, UNCHANGED <<bfreg, root_address, frames, leaders>>,
         \A s \in Subgoals : sf'[s].cp_ptr = sf[s].cp_ptr /\ sf'[s].pos_cons = sf[s].pos_cons,
         NEW i \in 1..Len(cps), NEW cp, cps' = [cps EXCEPT ![i] = cp],
         cp.kind = cps[i].kind, cp.goal = cps[i].goal, cp.cont = cps[i].cont,
         cp.bf = cps[i].bf, cp.prev = cps[i].prev, cp.look = cps[i].look
  PROVE  Quiet
<1>1. \A j \in 1..Len(cps) : cps'[j] = IF j = i THEN cp ELSE cps[j]
  BY StackTyped
<1>2. \A j \in 1..Top : j \in 1..Len(cps)
  BY TopIs
<1>3. \A j \in 1..Len(cps) :
       /\ cps'[j].kind = cps[j].kind /\ cps'[j].goal = cps[j].goal
       /\ cps'[j].cont = cps[j].cont /\ cps'[j].bf = cps[j].bf
       /\ cps'[j].prev = cps[j].prev /\ cps'[j].look = cps[j].look
  BY <1>1
<1> QED
  BY <1>2, <1>3 DEF Quiet

(* What a place becomes when an answer is returned to it. *)
LEMMA Returned ==
  ASSUME Typed, NEW place \in Places, NEW s \in Subgoals, WaitsFor(place, s), NEW y \in Answers(s)
  PROVE  /\ Return(place, y) # AskQuery
         /\ Return(place, y) # Failed => Return(place, y).root = place.root
<1>1. \/ Return(place, y) = Failed
      \/ /\ Return(place, y).root = place.root
         /\ place = AskQuery => Return(place, y).lit = 2
  BY ReturnOf DEF Typed
<1>2. place # AskQuery => place.root # NoGoal
  BY ProgramsAssumption DEF WaitsFor
<1> QED
  BY <1>1, <1>2, AskQueryOf, FailedIsNot

(* A frame that gets an answer. *)
LEMMA AnswerFrame ==
  ASSUME Typed, NewAnswer
  PROVE  /\ at.root \in Subgoals
         /\ at.root \in Range(frames)
         /\ \A s \in Subgoals :
              /\ sf'[s].cp_ptr = sf[s].cp_ptr /\ sf'[s].pos_cons = sf[s].pos_cons
              /\ sf'[s].exists = sf[s].exists
<1> DEFINE early == at.root \in Ground
<1>1. at.root \in Subgoals /\ sf[at.root].exists /\ ~ sf[at.root].is_complete
  BY ProvedPlace DEF NewAnswer, IsNewAnswer, is_completed
<1>2. sf' = [sf EXCEPT ![at.root].answers = Append(@, at.val), ![at.root].is_complete = early]
  BY DEF NewAnswer
<1>3. \A s \in Subgoals : s # at.root => sf'[s] = sf[s]
  BY <1>2 DEF Typed
<1>4. /\ sf'[at.root].cp_ptr = sf[at.root].cp_ptr /\ sf'[at.root].pos_cons = sf[at.root].pos_cons
      /\ sf'[at.root].exists = sf[at.root].exists
  BY <1>1, <1>2 DEF Typed, Frame
<1> QED
  BY <1>1, <1>3, <1>4 DEF Typed, Opened

(* nor a new answer, *)
LEMMA NewAnswerQuiet ==
  ASSUME Typed, Shape, NewAnswer
  PROVE  Quiet /\ Moved
<1> DEFINE p == sf[at.root].cp_ptr
           early == at.root \in Ground
           generates == cps[p].kind = "generator"
           k == Len(Clauses(at.root)) + 1
<1>1. /\ at.root \in Subgoals /\ at.root \in Range(frames)
      /\ \A s \in Subgoals : sf'[s].cp_ptr = sf[s].cp_ptr /\ sf'[s].pos_cons = sf[s].pos_cons
  BY AnswerFrame
<1>2. /\ IF early /\ generates
           THEN cps' = [cps EXCEPT ![p].pc = k] /\ breg' = p
           ELSE UNCHANGED <<cps, breg>>
      /\ at' = Failed /\ at # Failed
      /\ UNCHANGED <<bfreg, root_address, frames, leaders>>
  BY DEF NewAnswer, Proved
<1>3. PICK f \in DOMAIN frames : at.root = frames[f]
  BY <1>1 DEF Range
<1>4. p = Gen(f) /\ p \in 1..Top /\ p \in 1..Len(cps)
  BY <1>3, TopIs DEF Gen, Shape, Generators
<1>5. \A l \in leaders : Gen(l) <= p
  <2> TAKE l \in leaders
  <2>1. Since(at.root, l) /\ l \in DOMAIN frames
    BY <1>2, Numbers DEF Shape, Components
  <2>2. PICK g \in l..Len(frames) : at.root = frames[g]
    BY <2>1 DEF Since
  <2>3. g \in DOMAIN frames /\ l <= g
    BY <2>1, <2>2, Numbers
  <2>4. g = f
    BY <1>3, <2>2, <2>3, GenOrder DEF Shape
  <2> QED
    BY <1>4, <2>1, <2>3, <2>4, GenOrder DEF Shape
<1>6. Top \in Nat /\ breg <= Top
  BY TopIs
<1> HIDE DEF p, k
<1>7. CASE early /\ generates
  <2> DEFINE cp == [cps[p] EXCEPT !.pc = k]
  <2>1. cps' = [cps EXCEPT ![p] = cp] /\ breg' = p
    BY <1>2, <1>7
  <2>2. /\ cp.kind = cps[p].kind /\ cp.goal = cps[p].goal /\ cp.cont = cps[p].cont
        /\ cp.bf = cps[p].bf /\ cp.prev = cps[p].prev /\ cp.look = cps[p].look
    <3>1. cps[p] \in Slot(Len(cps))
      BY <1>4, StackTyped
    <3> QED
      BY <3>1 DEF Slot
  <2> HIDE DEF cp
  <2>3. Quiet
    BY <1>1, <1>2, <1>4, <2>1, <2>2, EditQuiet
  <2>4. breg' <= Top
    BY <1>4, <1>6, <2>1
  <2>5. \A l \in leaders : Gen(l) <= breg'
    BY <1>5, <2>1
  <2>6. frames # <<>>
    BY <1>3
  <2> QED
    BY <1>2, <2>3, <2>4, <2>5, <2>6, QuietMoved, FailedIsNot
<1>8. CASE ~ (early /\ generates)
  <2>1. UNCHANGED <<cps, breg>>
    BY <1>2, <1>8
  <2>2. Quiet
    BY <1>1, <1>2, <2>1, SameStackQuiet
  <2>3. breg' <= Top /\ \A l \in leaders : Gen(l) <= breg'
    BY <1>6, <2>1 DEF Shape, Components
  <2> QED
    BY <1>2, <2>1, <2>2, <2>3, QuietMoved, FailedIsNot
<1> QED
  BY <1>7, <1>8

(* nor trying the next clause, *)
LEMMA NextClauseQuiet ==
  ASSUME Typed, Shape, NextClause
  PROVE  Quiet /\ Moved
<1> DEFINE b == cps[breg]
           cp == [b EXCEPT !.pc = b.pc + 1]
<1>1. /\ breg # 0 /\ b.kind = "generator" /\ b.pc <= Len(Clauses(b.goal))
      /\ at' = Enter(b.goal, b.pc)
      /\ cps' = [cps EXCEPT ![breg] = cp]
      /\ UNCHANGED <<program, sf, breg, bfreg, root_address, frames, leaders>>
  BY DEF NextClause, Backtracking, stacks
<1>2. breg \in 1..Len(cps) /\ b \in Slot(Len(cps)) /\ b \in Slots
  BY <1>1, Breg
<1>3. /\ cp.kind = b.kind /\ cp.goal = b.goal /\ cp.cont = b.cont
      /\ cp.bf = b.bf /\ cp.prev = b.prev /\ cp.look = b.look
  BY <1>2 DEF Slot
<1>4. /\ Checked = b.goal /\ FrameOf(Checked) \in DOMAIN frames /\ frames[FrameOf(Checked)] = Checked
      /\ \A l \in leaders : l <= FrameOf(Checked) /\ Gen(l) <= breg
  BY <1>1, AtGenerator DEF Checked
<1>5. at'.root = Checked /\ at' # AskQuery
  <2>1. b.goal \in Subgoals /\ sf[b.goal].exists
    BY <1>1, Breg
  <2>2. b.pc \in Nat /\ b.pc >= 1 /\ Len(Clauses(b.goal)) \in Nat
    BY <1>1, <1>2, <2>1, ClauseOf DEF Slots, Slot, Typed
  <2>3. b.pc \in 1..Len(Clauses(b.goal))
    BY <1>1, <2>2
  <2>4. Grown
    BY <1>1, GrownSame
  <2> HIDE DEF b
  <2> QED
    BY <1>1, <1>4, <2>1, <2>3, <2>4, EnterOf
<1> HIDE DEF cp
<1>6. Quiet
  BY <1>1, <1>2, <1>3, EditQuiet
<1>7. breg' <= Top /\ frames # <<>>
  BY <1>1, <1>4, TopIs
<1>8. \A l \in leaders : Gen(l) <= breg' /\ Since(at'.root, l)
  <2> TAKE l \in leaders
  <2>1. FrameOf(Checked) \in l..Len(frames)
    BY <1>4, Numbers
  <2> QED
    BY <1>1, <1>4, <1>5, <2>1 DEF Since
<1> QED
  BY <1>5, <1>6, <1>7, <1>8, QuietMoved

(* A consumer or a trie choice point at which the engine fails is in the   *)
(* SCC of the youngest leader. *)
LEMMA AboveLeaders ==
  ASSUME Typed, Shape, breg # 0, cps[breg].kind # "generator"
  PROVE  /\ breg \in 1..Top /\ cps[breg].prev \in Nat
         /\ \A l \in leaders :
              Gen(l) < breg /\ Gen(l) <= cps[breg].prev /\ Since(cps[breg].cont.root, l)
         /\ cps[breg].kind = "consumer" => frames # <<>> /\ cps[breg].prev <= Top
         /\ cps[breg].kind = "trie" => cps[breg].prev <= Top
<1>1. breg \in 1..Top /\ Top \in Nat /\ bfreg <= Top /\ bfreg \in Nat
  BY TopIs
<1>2. cps[breg].prev \in Nat
  BY <1>1, Numbers
<1>3. ASSUME NEW l \in leaders
      PROVE  Gen(l) < breg /\ Gen(l) <= cps[breg].prev /\ Since(cps[breg].cont.root, l)
  <2>1. cps[Gen(l)].kind = "generator" /\ Gen(l) <= breg /\ Gen(l) \in Nat
    BY Numbers DEF Shape, Components
  <2>2. Gen(l) # breg
    BY <2>1
  <2>3. breg \in Gen(l) + 1..Top
    BY <1>1, <2>1, <2>2
  <2> QED
    BY <2>1, <2>2, <2>3, <1>1 DEF Shape, Components
<1>4. ASSUME cps[breg].kind = "consumer" PROVE frames # <<>> /\ cps[breg].prev <= Top
  <2>1. PICK f \in DOMAIN frames : Consumes(breg, f)
    BY <1>1, <1>4 DEF Shape, Kept
  <2>2. Safe(cps[breg].prev, bfreg, Len(frames))
    BY <2>1 DEF Consumes
  <2>3. DOMAIN frames = 1..Len(frames)
    BY Numbers
  <2>4. \A g \in 1..Len(frames) : Gen(g) <= Top
    BY <1>1, <2>3 DEF Shape, Generators
  <2>5. cps[breg].prev <= Top
    BY <1>1, <1>2, <2>2, <2>4 DEF Safe
  <2> QED
    BY <2>1, <2>5
<1>5. ASSUME cps[breg].kind = "trie" PROVE cps[breg].prev <= Top
  <2>1. cps[breg].prev < breg
    BY <1>1, <1>5 DEF Shape, Generators
  <2> QED
    BY <1>1, <1>2, <2>1
<1> QED
  BY <1>1, <1>2, <1>3, <1>4, <1>5

(* nor returning an answer to a consumer, *)
LEMMA AnswerReturnQuiet ==
  ASSUME Typed, Shape, AnswerReturn
  PROVE  Quiet /\ Moved
<1> DEFINE c == cps[breg]
           y == sf[c.goal].answers[c.ret + 1]
           cp == [c EXCEPT !.ret = c.ret + 1]
<1>1. /\ at = Failed /\ breg # 0 /\ c.kind = "consumer"
      /\ UNCHANGED <<program, sf, bfreg, root_address, frames, leaders>>
  BY DEF AnswerReturn, Backtracking
<1>2. /\ breg \in 1..Top /\ c.prev \in Nat
      /\ \A l \in leaders : Gen(l) < breg /\ Gen(l) <= c.prev /\ Since(c.cont.root, l)
      /\ frames # <<>> /\ c.prev <= Top
  BY <1>1, AboveLeaders
<1>3. breg <= Top /\ Top \in Nat /\ breg \in Nat
  BY TopIs
<1>4. CASE c.ret < Len(sf[c.goal].answers)
  <2>1. at' = Return(c.cont, y) /\ cps' = [cps EXCEPT ![breg] = cp] /\ breg' = breg
    BY <1>4 DEF AnswerReturn
  <2>2. breg \in 1..Len(cps) /\ c \in Slot(Len(cps)) /\ c.goal \in Subgoals
        /\ c.cont \in Places /\ WaitsFor(c.cont, c.goal)
    BY <1>1, Breg
  <2>3. /\ cp.kind = c.kind /\ cp.goal = c.goal /\ cp.cont = c.cont
        /\ cp.bf = c.bf /\ cp.prev = c.prev /\ cp.look = c.look
    BY <2>2 DEF Slot
  <2>4. y \in Answers(c.goal)
    <3>1. sf[c.goal].answers \in Seq(Values) /\ c.ret \in Nat
      BY <2>2 DEF Typed, Frame, Slot
    <3>2. c.ret + 1 \in DOMAIN sf[c.goal].answers
      BY <1>4, <3>1
    <3> QED
      BY <3>2 DEF Answers, Range
  <2> HIDE DEF y, cp
  <2>5. at' # AskQuery /\ (at' # Failed => at'.root = c.cont.root)
    <3> PICK place, s : place = c.cont /\ s = c.goal
      OBVIOUS
    <3>1. Return(place, y) # AskQuery
          /\ (Return(place, y) # Failed => Return(place, y).root = place.root)
      BY <2>2, <2>4, Returned
    <3> QED
      BY <2>1, <3>1
  <2>6. Quiet
    BY <1>1, <2>1, <2>2, <2>3, EditQuiet
  <2>7. breg' <= Top /\ \A l \in leaders : Gen(l) <= breg'
    BY <1>2, <1>3, <2>1, Numbers
  <2>8. at' # Failed => \A l \in leaders : Since(at'.root, l)
    BY <1>2, <2>5
  <2> HIDE DEF c
  <2> QED
    BY <1>2, <2>5, <2>6, <2>7, <2>8, QuietMoved
<1>5. CASE ~ (c.ret < Len(sf[c.goal].answers))
  <2>1. breg' = c.prev /\ at' = Failed /\ cps' = cps
    BY <1>1, <1>5 DEF AnswerReturn
  <2>2. Quiet
    BY <1>1, <2>1, SameStackQuiet
  <2>3. breg' <= Top /\ \A l \in leaders : Gen(l) <= breg'
    BY <1>2, <2>1
  <2> QED
    BY <1>2, <2>1, <2>2, <2>3, QuietMoved, FailedIsNot
<1> QED
  BY <1>4, <1>5

(* nor returning one from a completed table. *)
LEMMA TrieAnswerQuiet ==
  ASSUME Typed, Shape, TrieAnswer
  PROVE  Quiet /\ Moved
<1> DEFINE c == cps[breg]
<1>1. /\ at = Failed /\ breg # 0 /\ c.kind = "trie"
      /\ UNCHANGED <<program, sf, bfreg, root_address, frames, leaders>>
  BY DEF TrieAnswer, Backtracking
<1>2. PICK y \in c.left :
       /\ at' = Return(c.cont, y)
       /\ IF c.left = {y}
            THEN breg' = c.prev /\ UNCHANGED cps
            ELSE cps' = [cps EXCEPT ![breg].left = c.left \ {y}] /\ UNCHANGED breg
  BY DEF TrieAnswer
<1> DEFINE cp == [c EXCEPT !.left = c.left \ {y}]
<1>3. /\ breg \in 1..Top /\ c.prev \in Nat
      /\ \A l \in leaders : Gen(l) < breg /\ Gen(l) <= c.prev /\ Since(c.cont.root, l)
      /\ c.prev <= Top
  BY <1>1, AboveLeaders
<1>4. breg <= Top /\ Top \in Nat /\ breg \in Nat
  BY TopIs
<1>5. breg \in 1..Len(cps) /\ c \in Slot(Len(cps)) /\ c \in Slots /\ c.goal \in Subgoals
      /\ c.cont \in Places /\ WaitsFor(c.cont, c.goal)
  BY <1>1, Breg
<1>6. y \in Answers(c.goal)
  BY <1>2, <1>5 DEF Slots
<1>7. at' # AskQuery /\ (at' # Failed => at'.root = c.cont.root)
  <2> PICK place, s : place = c.cont /\ s = c.goal
    OBVIOUS
  <2>1. Return(place, y) # AskQuery
        /\ (Return(place, y) # Failed => Return(place, y).root = place.root)
    BY <1>5, <1>6, Returned
  <2> QED
    BY <1>2, <2>1
<1>8. at' # Failed => \A l \in leaders : Since(at'.root, l)
  BY <1>3, <1>7
<1>9. Quiet /\ breg' \in {c.prev, breg}
  <2>1. CASE c.left = {y}
    BY <1>1, <1>2, <2>1, SameStackQuiet
  <2>2. CASE c.left # {y}
    <3>1. cps' = [cps EXCEPT ![breg] = cp] /\ breg' = breg
      BY <1>2, <2>2
    <3>2. /\ cp.kind = c.kind /\ cp.goal = c.goal /\ cp.cont = c.cont
          /\ cp.bf = c.bf /\ cp.prev = c.prev /\ cp.look = c.look
      BY <1>5 DEF Slot
    <3> HIDE DEF cp
    <3>3. Quiet
      BY <1>1, <1>5, <3>1, <3>2, EditQuiet
    <3> QED
      BY <3>1, <3>3
  <2> QED
    BY <2>1, <2>2
<1>10. breg' <= Top /\ \A l \in leaders : Gen(l) <= breg'
  BY <1>3, <1>4, <1>9, Numbers
<1>11. frames = <<>> => breg' \in {0, breg} /\ (at' # Failed => at'.root = NoGoal)
  <2> SUFFICES ASSUME frames = <<>>
               PROVE  breg' \in {0, breg} /\ (at' # Failed => at'.root = NoGoal)
    OBVIOUS
  <2>1. breg = 1 /\ cps[1].prev = 0 /\ cps[1].cont = AskQuery
    BY <1>1 DEF Shape, Rooted
  <2>2. c.prev = 0 /\ c.cont = AskQuery
    BY <2>1
  <2> HIDE DEF c
  <2> QED
    BY <1>7, <1>9, <2>2, AskQueryOf
<1> HIDE DEF c
<1> QED
  BY <1>7, <1>8, <1>9, <1>10, <1>11, QuietMoved

(* The consumers of some frames, and their links. *)
WaitingFor(F) == {i \in Waiting : \E f \in F : cps[i].goal = frames[f]}
Links(E, C) == {p \in C \X C : p \in E /\ cps[p[1]].goal = cps[p[2]].goal}

(* The consumers of a set of frames are linked in an order. *)
LEMMA ListsOf ==
  ASSUME Typed, Heads, NEW F \in SUBSET DOMAIN frames,
         NEW E \in SUBSET (Waiting \X Waiting), LinkedBy(E), NEW C, C = WaitingFor(F)
  PROVE  /\ C \in SUBSET (1..Len(cps)) /\ C \subseteq Waiting
         /\ Order(C, Links(E, C)) /\ Chained(cps, C, Links(E, C))
         /\ \A f \in F : sf[frames[f]].pos_cons \in C \cup {0}
<1>1. C \subseteq Waiting /\ Waiting \subseteq 1..Top /\ 1..Top \subseteq 1..Len(cps)
  BY TopIs DEF Waiting, WaitingFor
<1>2. Order(C, Links(E, C))
  BY <1>1 DEF Order, Links, LinkedBy
<1>3. Chained(cps, C, Links(E, C))
  <2> SUFFICES ASSUME NEW c \in C, cps[c].look # 0 PROVE <<c, cps[c].look>> \in Links(E, C)
    BY DEF Chained
  <2>1. <<c, cps[c].look>> \in E /\ cps[cps[c].look].goal = cps[c].goal
    BY <1>1 DEF LinkedBy
  <2>2. cps[c].look \in Waiting
    BY <2>1
  <2>3. cps[c].look \in C
    BY <2>1, <2>2 DEF WaitingFor
  <2> QED
    BY <2>1, <2>3 DEF Links
<1>4. \A f \in F : sf[frames[f]].pos_cons \in C \cup {0}
  BY DEF Heads, WaitingFor
<1> QED
  BY <1>1, <1>2, <1>3, <1>4

(* A consumer of the SCC that is checked, linked to another one, to the    *)
(* generator or where it was. *)
LEMMA IsRenewed ==
  ASSUME Typed, Shape, breg # 0, cps[breg].kind = "generator",
         NEW F \in SUBSET DOMAIN frames, \A f \in F : FrameOf(Checked) <= f,
         NEW C, C = WaitingFor(F), NEW c \in C,
         cps'[c].kind = "consumer", cps'[c].prev \in {cps[c].prev, breg} \cup C
  PROVE  Renewed(c)
<1> DEFINE p == cps'[c].prev
<1>1. /\ FrameOf(Checked) \in DOMAIN frames /\ Gen(FrameOf(Checked)) = breg /\ breg \in 1..Top
      /\ \A l \in leaders : l <= FrameOf(Checked) /\ Gen(l) <= breg
  BY AtGenerator
<1>2. \A d \in C : d \in 1..Top /\ cps[d].kind = "consumer" /\ d <= bfreg
                   /\ \E f \in F : cps[d].goal = frames[f]
  BY DEF WaitingFor, Waiting, Shape, Kept, Consumes
<1>3. \A d \in C : \A l \in leaders : Gen(l) < d /\ l \in DOMAIN frames
  <2> TAKE d \in C
  <2> TAKE l \in leaders
  <2>1. PICK f \in DOMAIN frames : Consumes(d, f)
    BY <1>2 DEF Shape, Kept
  <2>2. PICK g \in F : cps[d].goal = frames[g]
    BY <1>2
  <2>3. f = g
    BY <2>1, <2>2, GenOrder DEF Shape, Consumes
  <2>4. l \in DOMAIN frames /\ l \in Int /\ f \in Int /\ FrameOf(Checked) \in Int
    BY <1>1, Numbers
  <2>5. l <= f
    BY <1>1, <2>2, <2>3, <2>4
  <2>6. Gen(l) <= Gen(f) /\ Gen(f) <= d /\ Gen(l) \in Nat /\ Gen(f) \in Nat
    BY <2>1, <2>4, <2>5, GenOrder, Numbers DEF Shape, Consumes
  <2>7. Gen(l) # d
    BY <1>2 DEF Shape, Components
  <2> QED
    BY <1>2, <2>4, <2>6, <2>7
<1>4. Top \in Nat /\ bfreg \in Nat
  BY TopIs
<1>5. c \in 1..Top
  BY <1>2
<1>6. \A l \in leaders : Gen(l) # c /\ Gen(l) <= p
  <2> TAKE l \in leaders
  <2>1. Gen(l) \in Nat /\ Gen(l) < c
    BY <1>3, Numbers
  <2>2. Gen(l) # c
    BY <1>5, <2>1
  <2>3. Gen(l) <= cps[c].prev
    <3>1. c \in Gen(l) + 1..Top
      BY <1>4, <1>5, <2>1
    <3> QED
      BY <3>1 DEF Shape, Components
  <2>4. \A d \in C : Gen(l) <= d
    BY <1>2, <1>3, <2>1
  <2> QED
    BY <1>1, <2>2, <2>3, <2>4
<1>7. PICK f \in DOMAIN frames : Consumes(c, f)
  BY <1>2 DEF Shape, Kept
<1>8. PICK g \in F : cps[c].goal = frames[g]
  BY <1>2
<1>9. f = g
  BY <1>7, <1>8, GenOrder DEF Shape, Consumes
<1>10. \A l \in leaders : l <= f
  <2>1. FrameOf(Checked) <= f /\ f \in Int /\ FrameOf(Checked) \in Int /\ \A l \in leaders : l \in Int
    BY <1>1, <1>8, <1>9, Numbers
  <2> QED
    BY <1>1, <2>1
<1>11. Safe(p, bfreg, Len(frames))
  <2>1. Safe(cps[c].prev, bfreg, Len(frames))
    BY <1>7 DEF Consumes
  <2>2. Safe(breg, bfreg, Len(frames))
    BY <1>1, Numbers DEF Safe
  <2>3. \A d \in C : Safe(d, bfreg, Len(frames))
    BY <1>2 DEF Safe
  <2> QED
    BY <2>1, <2>2, <2>3
<1>12. cps[c].goal = frames[f] /\ Gen(f) <= c /\ c <= bfreg
  BY <1>7 DEF Consumes
<1> QED
  BY <1>6, <1>10, <1>11, <1>12 DEF Renewed

(* The consumers of some frames are linked and one of them is entered. *)
LEMMA ScheduledMoved ==
  ASSUME Typed, Shape, breg # 0, cps[breg].kind = "generator", at = Failed, OnlyLists,
         NEW F \in SUBSET DOMAIN frames, \A f \in F : FrameOf(Checked) <= f,
         NEW C, C = WaitingFor(F), Relinked(cps, cps', C, breg), breg' \in C
  PROVE  Moved
<1>1. \A i \in 1..Top : i \in DOMAIN cps
  BY TopIs, StackTyped
<1>2. \A i \in 1..Top :
       /\ SameButLinks(cps[i], cps'[i])
       /\ i \notin C => cps'[i] = cps[i]
       /\ cps'[i].prev \in {cps[i].prev, breg} \cup C
  BY <1>1 DEF Relinked
<1>3. C \subseteq Waiting /\ \A c \in C : c \in 1..Top /\ cps[c].kind = "consumer"
  BY DEF WaitingFor, Waiting
<1>4. \A c \in C : Renewed(c)
  <2> TAKE c \in C
  <2>1. cps'[c].kind = "consumer" /\ cps'[c].prev \in {cps[c].prev, breg} \cup C
    BY <1>2, <1>3 DEF SameButLinks
  <2> QED
    BY <2>1, IsRenewed
<1>5. breg' \in 1..Top /\ \A l \in leaders : Gen(l) <= breg'
  <2>1. /\ breg \in 1..Top
        /\ \A l \in leaders : l <= FrameOf(Checked)
        /\ FrameOf(Checked) \in DOMAIN frames
    BY AtGenerator
  <2>2. PICK d : d = breg' /\ d \in C /\ d \in 1..Top
    BY <1>3
  <2>3. PICK f \in DOMAIN frames :
          /\ cps[d].goal = frames[f] /\ Gen(f) <= d
          /\ \A l \in leaders : l <= f
    BY <1>4, <2>2 DEF Renewed
  <2>4. \A l \in leaders : Gen(l) <= Gen(f) /\ Gen(l) \in Nat /\ Gen(f) \in Nat
    BY <2>3, GenOrder, Numbers DEF Shape
  <2>5. \A l \in leaders : Gen(l) <= d
    BY <2>2, <2>3, <2>4
  <2> QED
    BY <2>2, <2>5
<1>6. frames # <<>>
  BY AtGenerator
<1>7. \A i \in 1..Top :
       /\ cps'[i].goal = cps[i].goal /\ cps'[i].cont = cps[i].cont /\ cps'[i].bf = cps[i].bf
       /\ (cps'[i].kind = cps[i].kind /\ cps'[i].prev = cps[i].prev) \/ Renewed(i)
  BY <1>2, <1>4 DEF SameButLinks
<1>8. breg' <= Top
  BY <1>5, TopIs
<1> QED
  BY <1>5, <1>6, <1>7, <1>8, FailedIsNot DEF Moved, OnlyLists

(* Relinking them in that order keeps the lists. *)
LEMMA ScheduledLinked ==
  ASSUME Typed, Typed', Shape, Moved, Heads,
         NEW E \in SUBSET (Waiting \X Waiting), LinkedBy(E),
         NEW C \in SUBSET Waiting, NEW base, Relinked(cps, cps', C, base), Chained(cps', C, Links(E, C)),
         \A s \in Subgoals : sf'[s].pos_cons \in {0, sf[s].pos_cons}
  PROVE  Linked'
<1>1. \A i \in 1..Top : i \in DOMAIN cps
  BY TopIs, StackTyped
<1>2. \A i \in 1..Top :
       /\ cps'[i].kind = cps[i].kind /\ cps'[i].goal = cps[i].goal
       /\ i \notin C => cps'[i] = cps[i]
  BY <1>1 DEF Relinked, SameButLinks
<1>3. Waiting' = Waiting
  BY <1>2, WaitingKept
<1>4. \A i \in Waiting : i \in 1..Top
  BY DEF Waiting
<1>5. \A i \in Waiting :
        cps'[i].look # 0 => <<i, cps'[i].look>> \in E /\ cps'[cps'[i].look].goal = cps'[i].goal
  <2> SUFFICES ASSUME NEW i \in Waiting, cps'[i].look # 0
               PROVE  <<i, cps'[i].look>> \in E /\ cps'[cps'[i].look].goal = cps'[i].goal
    OBVIOUS
  <2>1. <<i, cps'[i].look>> \in E /\ cps[cps'[i].look].goal = cps[i].goal
    <3>1. CASE i \in C
      BY <3>1 DEF Chained, Links
    <3>2. CASE i \notin C
      BY <1>2, <1>4, <3>2 DEF LinkedBy
    <3> QED
      BY <3>1, <3>2
  <2>2. cps'[i].look \in Waiting
    BY <2>1
  <2> QED
    BY <1>2, <1>4, <2>1, <2>2
<1>6. LinkedBy(E)'
  BY <1>3, <1>5 DEF LinkedBy
<1>7. Heads'
  <2>1. \A f \in DOMAIN frames : frames[f] \in Subgoals
    BY Numbers
  <2>2. frames' = frames
    BY DEF Moved
  <2> QED
    BY <1>2, <1>3, <1>4, <2>1, <2>2 DEF Heads
<1> QED
  BY <1>3, <1>6, <1>7 DEF Linked

(* Scheduling the consumers of a generator keeps stack and lists. *)
LEMMA ScheduleOwnConsumersShape ==
  ASSUME Typed, Typed', Shape, Linked, ScheduleOwnConsumers
  PROVE  Shape' /\ Linked'
<1>1. /\ breg # 0 /\ cps[breg].kind = "generator" /\ at = Failed
      /\ OwnSchedule.first # 0
      /\ cps' = OwnSchedule.stack /\ breg' = OwnSchedule.first
      /\ sf' = [sf EXCEPT ![Checked].pos_cons = OwnSchedule.head]
  BY DEF ScheduleOwnConsumers, CheckingComplete, Backtracking
<1>2. PICK E \in SUBSET (Waiting \X Waiting) : LinkedBy(E)
  BY DEF Linked
<1> DEFINE F == {FrameOf(Checked)}
<1>3. FrameOf(Checked) \in DOMAIN frames /\ frames[FrameOf(Checked)] = Checked
  BY <1>1, AtGenerator
<1>4. PICK C : C = WaitingFor(F)
  OBVIOUS
<1>5. F \in SUBSET DOMAIN frames /\ \A f \in F : FrameOf(Checked) <= f
  BY <1>3, Numbers
<1>6. /\ C \in SUBSET (1..Len(cps)) /\ C \subseteq Waiting
      /\ Order(C, Links(E, C)) /\ Chained(cps, C, Links(E, C))
      /\ \A f \in F : sf[frames[f]].pos_cons \in C \cup {0}
  <2> HIDE DEF F
  <2> QED
    BY <1>2, <1>4, <1>5, ListsOf DEF Linked
<1>7. sf[Checked].pos_cons \in C \cup {0}
  BY <1>3, <1>6
<1> HIDE DEF F
<1> DEFINE own == OwnSchedule
<1>8. own \in Schedules(Len(cps), cps, C, Links(E, C), breg) /\ own.head \in {0, sf[Checked].pos_cons}
  BY <1>1, <1>6, <1>7, OwnScheduleOf
<1>9. cps' = own.stack /\ breg' = own.first /\ own.first # 0
      /\ sf' = [sf EXCEPT ![Checked].pos_cons = own.head]
  BY <1>1
<1> HIDE DEF own
<1>10. Relinked(cps, cps', C, breg) /\ Chained(cps', C, Links(E, C)) /\ breg' \in C
       /\ own.head \in 0..Len(cps)
  BY <1>8, <1>9 DEF Schedules
<1>11. OnlyLists
  BY ScheduleOwnConsumersLists
<1>12. Moved
  BY <1>1, <1>4, <1>5, <1>10, <1>11, ScheduledMoved
<1>13. \A s \in Subgoals : sf'[s].pos_cons \in {0, sf[s].pos_cons}
  <2>1. PICK s : s = Checked /\ s \in Subgoals
    BY <1>1, Breg DEF Checked
  <2>2. PICK h \in 0..Len(cps) : h = own.head
    BY <1>10
  <2>3. sf' = [sf EXCEPT ![s].pos_cons = h] /\ h \in {0, sf[s].pos_cons}
    BY <1>8, <1>9, <2>1, <2>2
  <2>4. sf'[s].pos_cons = h /\ \A t \in Subgoals : t # s => sf'[t] = sf[t]
    <3>1. h \in 0..Len(cps)
      OBVIOUS
    <3>2. HeadSet(s, h)
      BY <2>1, <2>3, <3>1, SetHead
    <3> QED
      BY <3>2 DEF HeadSet
  <2> QED
    BY <2>3, <2>4
<1>14. Linked'
  BY <1>2, <1>6, <1>10, <1>12, <1>13, ScheduledLinked DEF Linked
<1> QED
  BY <1>12, <1>14, MovedShape

(* So does scheduling an SCC, *)
LEMMA ScheduleSccShape ==
  ASSUME Typed, Typed', Shape, Linked, ScheduleScc
  PROVE  Shape' /\ Linked'
<1>1. /\ breg # 0 /\ cps[breg].kind = "generator" /\ at = Failed /\ IsLeader
      /\ SccSchedule.chain # 0
      /\ cps' = SccSchedule.stack /\ breg' = SccSchedule.chain
      /\ sf' = WithHeads(SccSchedule.heads)
  BY DEF ScheduleScc, CheckingComplete, Backtracking
<1>2. PICK E \in SUBSET (Waiting \X Waiting) : LinkedBy(E)
  BY DEF Linked
<1> DEFINE F == FrameOf(Checked)..Len(frames)
<1>3. FrameOf(Checked) \in DOMAIN frames /\ frames[FrameOf(Checked)] = Checked
  BY <1>1, AtGenerator
<1>4. PICK C : C = WaitingFor(F)
  OBVIOUS
<1>5. F \in SUBSET DOMAIN frames /\ \A f \in F : FrameOf(Checked) <= f
  BY <1>3, Numbers
<1>6. FrameOf(Checked) \in F
  BY <1>3, Numbers
<1> HIDE DEF F
<1>7. /\ C \in SUBSET (1..Len(cps)) /\ C \subseteq Waiting
      /\ Order(C, Links(E, C)) /\ Chained(cps, C, Links(E, C))
      /\ \A f \in F : sf[frames[f]].pos_cons \in C \cup {0}
  BY <1>2, <1>4, <1>5, ListsOf DEF Linked
<1>8. sf[Checked].pos_cons \in C \cup {0}
  BY <1>3, <1>6, <1>7
<1> DEFINE scc == SccSchedule
<1>9. scc \in Fixpoints(Len(cps), cps, C, Links(E, C))
  BY <1>1, <1>7, <1>8, SccScheduleOf DEF F
<1>10. cps' = scc.stack /\ breg' = scc.chain /\ scc.chain # 0 /\ sf' = WithHeads(scc.heads)
  BY <1>1
<1> HIDE DEF scc
<1>11. Relinked(cps, cps', C, breg) /\ Chained(cps', C, Links(E, C)) /\ breg' \in C
       /\ scc.heads \in [Subgoals -> 0..Len(cps)]
       /\ \A s \in Subgoals : scc.heads[s] \in {0, sf[s].pos_cons}
  BY <1>9, <1>10 DEF Fixpoints
<1>12. OnlyLists
  BY ScheduleSccLists
<1>13. Moved
  BY <1>1, <1>4, <1>5, <1>11, <1>12, ScheduledMoved
<1>14. \A s \in Subgoals : sf'[s].pos_cons \in {0, sf[s].pos_cons}
  <2>1. PICK heads \in [Subgoals -> 0..Len(cps)] : heads = scc.heads
    BY <1>11
  <2>2. sf' = WithHeads(heads)
    BY <1>10, <2>1
  <2>3. \A s \in Subgoals : sf'[s].pos_cons = heads[s]
    BY <2>2, SetHeads
  <2> QED
    BY <1>11, <2>1, <2>3
<1>15. Linked'
  BY <1>2, <1>7, <1>11, <1>13, <1>14, ScheduledLinked DEF Linked
<1> QED
  BY <1>13, <1>15, MovedShape

(* A generator joins the consumers of its own table. *)
LEMMA JoinedLinked ==
  ASSUME Typed, Typed', Shape, Moved, Heads,
         NEW E \in SUBSET (Waiting \X Waiting), LinkedBy(E),
         NEW C \in SUBSET Waiting, NEW g \in 1..Top, g \notin Waiting, g <= Top',
         \A i \in 1..Top : cps'[i].goal = cps[i].goal,
         \A i \in 1..Top : i # g /\ i \notin C => cps'[i] = cps[i],
         \A i \in C : cps'[i].kind = "consumer", Chained(cps', C, Links(E, C)),
         cps'[g].kind = "consumer",
         cps'[g].look # 0 => cps'[g].look \in Waiting /\ cps[cps'[g].look].goal = cps[g].goal,
         \A s \in Subgoals : sf'[s].pos_cons = IF s = cps[g].goal THEN g ELSE sf[s].pos_cons
  PROVE  Linked'
<1>0. PICK D : D = E \cup ({g} \X Waiting)
  OBVIOUS
<1>1. Top' <= Top /\ bfreg <= Top' /\ Top' \in Nat /\ Top \in Nat
  BY MovedNumbers
<1>2. \A i \in Waiting : i \in 1..Top /\ i <= bfreg /\ bfreg \in Nat /\ cps[i].kind = "consumer"
  BY TopIs DEF Waiting, Shape, Kept, Consumes
<1>3. \A i \in 1..Top : cps'[i].kind = "consumer" <=> i \in Waiting \/ i = g
  BY <1>2 DEF Waiting
<1>4. \A i \in 1..Top : i \in Waiting \/ i = g => i \in 1..Top'
  BY <1>1, <1>2
<1>5. \A i \in 1..Top' : i \in 1..Top
  BY <1>1
<1>6. Waiting' = Waiting \cup {g}
  <2>1. Waiting' = {i \in 1..Top' : cps'[i].kind = "consumer"}
    BY DEF Waiting
  <2> QED
    BY <1>2, <1>3, <1>4, <1>5, <2>1
<1>7. D \in SUBSET (Waiting' \X Waiting')
  BY <1>6, <1>0
<1>8. \A i \in Waiting :
        cps'[i].look # 0 => <<i, cps'[i].look>> \in E /\ cps[cps'[i].look].goal = cps[i].goal
  <2> SUFFICES ASSUME NEW i \in Waiting, cps'[i].look # 0
               PROVE  <<i, cps'[i].look>> \in E /\ cps[cps'[i].look].goal = cps[i].goal
    OBVIOUS
  <2>1. CASE i \in C
    BY <2>1 DEF Links, Chained
  <2>2. CASE i \notin C
    BY <1>2, <2>2 DEF LinkedBy
  <2> QED
    BY <2>1, <2>2
<1>9. \A i \in Waiting' :
        cps'[i].look # 0 => <<i, cps'[i].look>> \in D /\ cps'[cps'[i].look].goal = cps'[i].goal
  <2> SUFFICES ASSUME NEW i \in Waiting \cup {g}, cps'[i].look # 0
               PROVE  <<i, cps'[i].look>> \in D /\ cps'[cps'[i].look].goal = cps'[i].goal
    BY <1>6
  <2>1. cps'[i].look \in Waiting /\ <<i, cps'[i].look>> \in D
        /\ cps[cps'[i].look].goal = cps[i].goal
    BY <1>8, <1>0
  <2> QED
    BY <1>2, <2>1
<1>10. \A a, b, c \in Waiting' : <<a, b>> \in D /\ <<b, c>> \in D => <<a, c>> \in D
  BY <1>6, <1>0 DEF LinkedBy
<1>11. \A a, b \in Waiting' : <<a, b>> \in D => a # b
  BY <1>0, <1>6 DEF LinkedBy
<1>12. LinkedBy(D)'
  BY <1>9, <1>10, <1>11 DEF LinkedBy
<1>13. Heads'
  <2>1. frames' = frames /\ \A f \in DOMAIN frames : frames[f] \in Subgoals
    BY Numbers DEF Moved
  <2>2. SUFFICES ASSUME NEW f \in DOMAIN frames, sf'[frames[f]].pos_cons # 0
                 PROVE  LET head == sf'[frames[f]].pos_cons
                        IN  head \in Waiting' /\ cps'[head].goal = frames[f]
    BY <2>1 DEF Heads
  <2> QED
    BY <1>2, <1>6, <2>1, <2>2 DEF Heads
<1> QED
  BY <1>7, <1>12, <1>13 DEF Linked

(* and making a consumer of a generator that leads no longer. *)
LEMMA makeConsumerShape ==
  ASSUME Typed, Typed', Shape, Linked, makeConsumerFromGenerator
  PROVE  Shape' /\ Linked'
<1>1. /\ breg # 0 /\ cps[breg].kind = "generator" /\ at = Failed /\ ~ IsLeader
      /\ cps' = AsConsumer(OwnSchedule.stack, breg, OwnSchedule.head)
      /\ breg' = cps[breg].prev
      /\ sf' = [sf EXCEPT ![Checked].pos_cons = breg]
  BY DEF makeConsumerFromGenerator, CheckingComplete, Backtracking, AsConsumer
<1>2. PICK E \in SUBSET (Waiting \X Waiting) : LinkedBy(E)
  BY DEF Linked
<1> DEFINE F == {FrameOf(Checked)}
<1>3. /\ FrameOf(Checked) \in DOMAIN frames /\ frames[FrameOf(Checked)] = Checked
      /\ Gen(FrameOf(Checked)) = breg /\ breg \in 1..Top
      /\ \A l \in leaders : l <= FrameOf(Checked) /\ Gen(l) <= breg
  BY <1>1, AtGenerator
<1>4. PICK C : C = WaitingFor(F)
  OBVIOUS
<1>5. F \in SUBSET DOMAIN frames /\ \A f \in F : FrameOf(Checked) <= f
  BY <1>3, Numbers
<1>6. /\ C \in SUBSET (1..Len(cps)) /\ C \subseteq Waiting
      /\ Order(C, Links(E, C)) /\ Chained(cps, C, Links(E, C))
      /\ \A f \in F : sf[frames[f]].pos_cons \in C \cup {0}
  <2> HIDE DEF F
  <2> QED
    BY <1>2, <1>4, <1>5, ListsOf DEF Linked
<1>7. sf[Checked].pos_cons \in C \cup {0}
  BY <1>3, <1>6
<1> HIDE DEF F
<1> DEFINE own == OwnSchedule
<1>8. own \in Schedules(Len(cps), cps, C, Links(E, C), breg) /\ own.head \in {0, sf[Checked].pos_cons}
  BY <1>1, <1>6, <1>7, OwnScheduleOf
<1>9. cps' = AsConsumer(own.stack, breg, own.head)
  BY <1>1
<1> HIDE DEF own
<1>10. /\ own.stack \in Stack(Len(cps)) /\ own.head \in 0..Len(cps)
       /\ Relinked(cps, own.stack, C, breg) /\ Chained(own.stack, C, Links(E, C))
  BY <1>8 DEF Schedules
<1>11. /\ Len(cps) \in Nat /\ DOMAIN cps = 1..Len(cps) /\ breg \in 1..Len(cps)
       /\ \A i \in 1..Top : i \in 1..Len(cps)
       /\ Top \in Nat /\ bfreg \in Nat
  BY <1>3, StackTyped, TopIs
<1>12. /\ \A j \in 1..Len(cps) : j # breg => cps'[j] = own.stack[j]
       /\ cps'[breg].kind = "consumer" /\ cps'[breg].look = own.head
       /\ cps'[breg].goal = own.stack[breg].goal /\ cps'[breg].cont = own.stack[breg].cont
       /\ cps'[breg].prev = own.stack[breg].prev /\ cps'[breg].bf = own.stack[breg].bf
  <2>0. PICK n, b, i, h : n = Len(cps) /\ b = own.stack /\ i = breg /\ h = own.head
    OBVIOUS
  <2>1. n \in Nat /\ b \in Stack(n) /\ i \in 1..n /\ h \in 0..n
    BY <1>10, <1>11, <2>0
  <2>2. cps' = AsConsumer(b, i, h)
    BY <1>9, <2>0
  <2>3. /\ \A j \in 1..n : j # i => cps'[j] = b[j]
        /\ cps'[i].kind = "consumer" /\ cps'[i].look = h
        /\ cps'[i].goal = b[i].goal /\ cps'[i].cont = b[i].cont
        /\ cps'[i].prev = b[i].prev /\ cps'[i].bf = b[i].bf
    <3>0. PICK d : d = cps'
      OBVIOUS
    <3>1. d = AsConsumer(b, i, h)
      BY <2>2, <3>0
    <3>2. Converted(d, n, b, i, h)
      BY <2>1, <3>1, MadeConsumer
    <3>3. /\ d \in Stack(n)
          /\ \A j \in 1..n : j # i => d[j] = b[j]
          /\ d[i].kind = "consumer" /\ d[i].ret = 0 /\ d[i].look = h
          /\ d[i].goal = b[i].goal /\ d[i].cont = b[i].cont /\ d[i].left = b[i].left
          /\ d[i].prev = b[i].prev /\ d[i].bf = b[i].bf
      BY <3>2 DEF Converted
    <3> QED
      BY <3>0, <3>3
  <2> QED
    BY <2>0, <2>3
<1>13. breg \notin C /\ breg \notin Waiting /\ \A c \in C : c \in 1..Top /\ cps[c].kind = "consumer"
  BY <1>1, <1>6 DEF Waiting
<1>14. \A i \in 1..Top :
        /\ SameButLinks(cps[i], own.stack[i])
        /\ i \notin C => own.stack[i] = cps[i]
        /\ own.stack[i].prev \in {cps[i].prev, breg} \cup C
  BY <1>10, <1>11 DEF Relinked
<1>15. \A c \in C : Renewed(c)
  <2> TAKE c \in C
  <2>1. cps'[c].kind = "consumer" /\ cps'[c].prev \in {cps[c].prev, breg} \cup C
    BY <1>11, <1>12, <1>13, <1>14 DEF SameButLinks
  <2> QED
    BY <1>1, <1>4, <1>5, <2>1, IsRenewed
<1>16. \A l \in leaders : Gen(l) # breg /\ Gen(l) <= cps[breg].prev
  <2> TAKE l \in leaders
  <2>1. l \in DOMAIN frames /\ l # FrameOf(Checked) /\ Gen(l) \in Nat
    BY <1>1, Numbers DEF IsLeader
  <2>2. Gen(l) # breg
    BY <1>3, <2>1, GenOrder, Numbers DEF Shape
  <2>3. breg \in Gen(l) + 1..Top
    BY <1>3, <1>11, <2>1, <2>2
  <2> QED
    BY <2>2, <2>3 DEF Shape, Components
<1>17. cps[breg].prev \in Nat /\ cps[breg].prev < breg /\ breg <= bfreg
  <2>1. breg <= bfreg
    BY <1>1, <1>3 DEF Shape, Frozen, IsLeader
  <2> QED
    BY <1>1, <1>3, <2>1, Numbers DEF Shape, Generators
<1>18. cps'[breg].prev = cps[breg].prev /\ cps'[breg].bf = cps[breg].bf
       /\ cps'[breg].goal = cps[breg].goal /\ cps'[breg].cont = cps[breg].cont
  BY <1>3, <1>12, <1>13, <1>14
<1>19. Renewed(breg)
  <2>1. cps[breg].goal = frames[FrameOf(Checked)] /\ Gen(FrameOf(Checked)) <= breg
    BY <1>3, <1>11 DEF Checked
  <2>2. Safe(cps'[breg].prev, bfreg, Len(frames))
    BY <1>11, <1>17, <1>18 DEF Safe
  <2> QED
    BY <1>3, <1>12, <1>16, <1>17, <1>18, <2>1, <2>2 DEF Renewed
<1>20. \A i \in 1..Top :
        /\ cps'[i].goal = cps[i].goal /\ cps'[i].cont = cps[i].cont /\ cps'[i].bf = cps[i].bf
        /\ (cps'[i].kind = cps[i].kind /\ cps'[i].prev = cps[i].prev) \/ Renewed(i)
  <2> TAKE i \in 1..Top
  <2>1. CASE i = breg
    BY <1>18, <1>19, <2>1
  <2>2. CASE i # breg
    <3>1. cps'[i] = own.stack[i]
      BY <1>11, <1>12, <2>2
    <3> QED
      BY <1>14, <1>15, <3>1 DEF SameButLinks
  <2> QED
    BY <2>1, <2>2
<1>21. OnlyLists
  BY makeConsumerLists
<1>22. breg' <= Top /\ \A l \in leaders : Gen(l) <= breg'
  BY <1>1, <1>3, <1>11, <1>16, <1>17
<1>23. Moved
  <2>1. frames # <<>>
    BY <1>3
  <2> QED
    BY <1>1, <1>20, <1>21, <1>22, <2>1, FailedIsNot DEF Moved, OnlyLists
<1>24. breg <= Top'
  BY <1>3, <1>23, MovedNumbers
<1>25. (\A i \in C : cps'[i].kind = "consumer") /\ Chained(cps', C, Links(E, C))
  <2>1. \A i \in C : cps'[i] = own.stack[i] /\ own.stack[i].kind = "consumer"
    BY <1>11, <1>12, <1>13, <1>14 DEF SameButLinks
  <2> QED
    BY <1>10, <2>1 DEF Chained
<1>26. cps'[breg].look # 0 => cps'[breg].look \in Waiting /\ cps[cps'[breg].look].goal = cps[breg].goal
  <2>1. \A f \in F : frames[f] = Checked
    BY <1>3 DEF F
  <2>2. \A c \in C : cps[c].goal = Checked
    BY <1>4, <2>1 DEF WaitingFor
  <2> QED
    BY <1>6, <1>7, <1>8, <1>12, <2>2 DEF Checked
<1>27. \A s \in Subgoals : sf'[s].pos_cons = IF s = cps[breg].goal THEN breg ELSE sf[s].pos_cons
  <2>1. PICK s : s = Checked /\ s \in Subgoals
    BY <1>1, Breg DEF Checked
  <2>2. PICK h \in 0..Len(cps) : h = breg
    BY <1>11
  <2>3. sf' = [sf EXCEPT ![s].pos_cons = h]
    BY <1>1, <2>1, <2>2
  <2>4. sf'[s].pos_cons = h /\ \A t \in Subgoals : t # s => sf'[t] = sf[t]
    BY <2>1, <2>3, SetHead DEF HeadSet
  <2> QED
    BY <2>1, <2>2, <2>4 DEF Checked
<1>28. \A i \in 1..Top : i # breg /\ i \notin C => cps'[i] = cps[i]
  BY <1>11, <1>12, <1>14
<1>29. Linked'
  <2> PICK g \in 1..Top : g = breg
    BY <1>3
  <2>1. Heads
    BY DEF Linked
  <2> QED
    BY <1>2, <1>6, <1>12, <1>13, <1>20, <1>23, <1>24, <1>25, <1>26, <1>27, <1>28, <2>1, JoinedLinked
<1> QED
  BY <1>23, <1>29, MovedShape

(* A choice point on top of the stack. *)
LEMMA PushOf ==
  ASSUME Typed, NEW cp \in Slot(Len(cps)), cps' = Put(cps, Top + 1, cp)
  PROVE  cps'[Top + 1] = cp /\ \A i \in 1..Top : cps'[i] = cps[i]
<1>1. cps \in Seq(Slot(Len(cps))) /\ Len(cps) \in Nat
  BY StackTyped, StackIsSeq
<1>2. Top + 1 \in 1..Len(cps) + 1 /\ Top \in Nat /\ Top <= Len(cps)
  BY <1>1, TopIs
<1>0. PICK t, S : t = Top + 1 /\ S = Slot(Len(cps))
  OBVIOUS
<1>3. t \in 1..Len(cps) + 1 /\ cps \in Seq(S) /\ cp \in S /\ cps' = Put(cps, t, cp)
  BY <1>0, <1>1, <1>2
<1>4. cps'[t] = cp /\ \A i \in 1..Len(cps) : i # t => cps'[i] = cps[i]
  <2>0. PICK a : a = cps
    OBVIOUS
  <2>1. t \in 1..Len(a) + 1 /\ a \in Seq(S) /\ cps' = Put(a, t, cp)
    BY <1>3, <2>0
  <2>2. Put(a, t, cp)[t] = cp /\ \A i \in 1..Len(a) : i # t => Put(a, t, cp)[i] = a[i]
    BY <1>3, <2>1, PutOf
  <2> QED
    BY <2>0, <2>1, <2>2
<1> QED
  BY <1>0, <1>2, <1>4

(* The caller is the query when no subgoal is open, and belongs to all     *)
(* SCCs otherwise. *)
LEMMA Callers ==
  ASSUME Typed, Shape, Calling
  PROVE  /\ frames = <<>> => at = AskQuery /\ Top = 0 /\ breg = 0 /\ bfreg = 0 /\ leaders = {}
         /\ frames # <<>> => at # AskQuery
         /\ \A l \in leaders : Since(at.root, l)
<1>1. at # Failed
  BY DEF Calling
<1>2. ASSUME frames = <<>> PROVE at = AskQuery /\ Top = 0 /\ breg = 0 /\ bfreg = 0 /\ leaders = {}
  <2>1. at.root = NoGoal
    BY <1>1, <1>2 DEF Shape, Rooted
  <2>2. at = AskQuery
    BY <2>1, CalledGoal, ProgramsAssumption
  <2>3. breg = 0 /\ bfreg = 0
    BY <1>2, <2>2 DEF Shape, Rooted
  <2> QED
    BY <1>2, <2>2, <2>3, TopIs, Numbers
<1> QED
  BY <1>1, <1>2 DEF Shape, Rooted, Components

(* What each part of the stack below a new generator is. *)
LEMMA RootsOpen ==
  ASSUME Typed, Shape, NEW i \in 1..Top
  PROVE  Before(cps[i].cont.root, Len(frames) + 1)
<1>1. CASE frames = <<>>
  <2>1. i = 1 /\ cps[1].cont = AskQuery
    BY <1>1, TopIs DEF Shape, Rooted
  <2> QED
    BY <2>1, AskQueryOf DEF Before
<1>2. CASE frames # <<>>
  <2>1. 1 \in leaders /\ Gen(1) = 1 /\ Len(frames) \in Nat /\ Top \in Nat
    BY <1>2, Numbers, TopIs DEF Shape, Rooted
  <2>2. Before(cps[i].cont.root, 1) \/ Since(cps[i].cont.root, 1)
    <3>1. i \in 1..1 \/ i \in 2..Top
      OBVIOUS
    <3> QED
      BY <2>1, <3>1 DEF Shape, Components
  <2> QED
    BY <2>1, <2>2 DEF Before, Since
<1> QED
  BY <1>1, <1>2

(* The first call of a subgoal, seen from the stacks. *)
LEMMA CallNewPushes ==
  ASSUME Typed, Typed', Shape, CallNew, NEW t, t = Top + 1, NEW n, n = Len(frames) + 1
  PROVE  /\ Top' = t /\ breg' = t /\ bfreg' = bfreg
         /\ root_address' = IF root_address = 0 THEN t ELSE root_address
         /\ at'.root = Goal /\ at' # AskQuery
         /\ DOMAIN frames' = 1..n /\ Len(frames') = n /\ frames'[n] = Goal
         /\ \A f \in DOMAIN frames : frames'[f] = frames[f]
         /\ leaders' = leaders \cup {n}
         /\ \A f \in DOMAIN frames : Gen(f)' = Gen(f)
         /\ Gen(n)' = t
         /\ \A f \in DOMAIN frames : sf'[frames[f]].pos_cons = sf[frames[f]].pos_cons
         /\ sf'[Goal].pos_cons = 0
         /\ cps'[t] = [kind |-> "generator", goal |-> Goal, pc |-> 2, cont |-> at, prev |-> breg,
                       bf |-> bfreg, look |-> 0, ret |-> 0, left |-> {}]
         /\ \A i \in 1..Top : cps'[i] = cps[i]
<1> DEFINE s == Goal
           frame == [NoFrame EXCEPT !.exists = TRUE, !.cp_ptr = t]
           cp == Generator(s)
<1>1. s \in Subgoals /\ at \in Places /\ ~ sf[s].exists
  BY CalledGoal DEF CallNew
<1>2. /\ cps' = Put(cps, t, cp)
      /\ breg' = t
      /\ sf' = [sf EXCEPT ![s] = frame]
      /\ root_address' = IF root_address = 0 THEN t ELSE root_address
      /\ frames' = Append(frames, s)
      /\ leaders' = leaders \cup {n}
      /\ at' = Enter(s, 1)
      /\ UNCHANGED <<program, bfreg>>
  BY DEF CallNew, Top
<1>3. frame.cp_ptr = t /\ frame.pos_cons = 0
  BY DEF NoFrame
<1>4. cp = [kind |-> "generator", goal |-> s, pc |-> 2, cont |-> at, prev |-> breg,
            bf |-> bfreg, look |-> 0, ret |-> 0, left |-> {}]
  BY DEF Generator
<1> HIDE DEF s, frame, cp
<1>5. Top \in Nat /\ bfreg \in Nat /\ breg \in Nat /\ Len(cps) \in Nat /\ bfreg <= Top /\ breg <= Top
      /\ Top <= Len(cps)
  BY TopIs
<1>6. Top' = t
  BY <1>2, <1>5, TopNext
<1>7. cp \in Slot(Len(cps))
  <2>1. at \in Place
    BY <1>1 DEF Places
  <2> QED
    BY <1>1, <1>4, <1>5, <2>1 DEF Slot
<1>8. cps'[t] = cp /\ \A i \in 1..Top : cps'[i] = cps[i]
  BY <1>2, <1>7, PushOf
<1>9. Len(frames) \in Nat /\ DOMAIN frames = 1..Len(frames) /\ \A f \in DOMAIN frames : frames[f] \in Subgoals
  BY Numbers
<1>10. /\ Len(frames') = n /\ DOMAIN frames' = 1..n
       /\ \A f \in DOMAIN frames : frames'[f] = frames[f]
       /\ frames'[n] = s
  BY <1>1, <1>2 DEF Typed
<1>11. \A u \in Subgoals : sf'[u] = IF u = s THEN frame ELSE sf[u]
  BY <1>1, <1>2 DEF Typed
<1>12. \A f \in DOMAIN frames : frames[f] # s
  BY <1>1 DEF Typed, Opened
<1>13. \A f \in DOMAIN frames : sf'[frames'[f]] = sf[frames[f]] /\ sf'[frames[f]] = sf[frames[f]]
  BY <1>9, <1>10, <1>11, <1>12
<1>14. \A f \in DOMAIN frames : Gen(f)' = Gen(f)
  BY <1>13 DEF Gen
<1>15. Gen(n)' = t
  BY <1>1, <1>3, <1>10, <1>11 DEF Gen
<1>16. at'.root = s /\ at' # AskQuery
  <2>1. 1 \in 1..Len(Clauses(s)) /\ program' = program
    BY <1>1, <1>2, ClauseOf DEF Typed
  <2>2. sf'[s].exists /\ Grown
    <3>1. Grown
      BY CallNewTyped
    <3>2. frame.exists
      BY DEF frame, NoFrame
    <3> QED
      BY <1>1, <1>11, <3>1, <3>2
  <2> QED
    BY <1>1, <1>2, <2>1, <2>2, EnterOf
<1> QED
  BY <1>1, <1>2, <1>3, <1>4, <1>6, <1>8, <1>10, <1>11, <1>13, <1>14, <1>15, <1>16 DEF s

(* A first call pushes a generator on a stack in shape, *)
LEMMA CallNewShape ==
  ASSUME Typed, Typed', Shape, CallNew
  PROVE  Shape'
<1>0. PICK t, n : t = Top + 1 /\ n = Len(frames) + 1
  OBVIOUS
<1>1. /\ Top' = t /\ breg' = t /\ bfreg' = bfreg
      /\ root_address' = IF root_address = 0 THEN t ELSE root_address
      /\ at'.root = Goal /\ at' # AskQuery
      /\ DOMAIN frames' = 1..n /\ Len(frames') = n /\ frames'[n] = Goal
      /\ \A f \in DOMAIN frames : frames'[f] = frames[f]
      /\ leaders' = leaders \cup {n}
      /\ \A f \in DOMAIN frames : Gen(f)' = Gen(f)
      /\ Gen(n)' = t
      /\ cps'[t].kind = "generator" /\ cps'[t].goal = Goal /\ cps'[t].cont = at
      /\ cps'[t].prev = breg /\ cps'[t].bf = bfreg
      /\ \A i \in 1..Top : cps'[i] = cps[i]
  BY <1>0, CallNewPushes
<1>2. /\ Top \in Nat /\ bfreg \in Nat /\ breg \in Nat /\ bfreg <= Top /\ breg <= Top
      /\ bfreg < t /\ breg < t /\ t \in Nat /\ t # 0
  BY <1>0, TopIs
<1>3. /\ n \in Nat /\ DOMAIN frames = 1..n - 1 /\ leaders \subseteq DOMAIN frames
      /\ frames = <<>> <=> n = 1
      /\ Len(frames) = n - 1
      /\ \A f \in DOMAIN frames : f \in 1..n /\ f < n /\ Gen(f) \in Nat
  BY <1>0, Numbers
<1>4. \A f \in DOMAIN frames : Gen(f) \in 1..Top /\ Gen(f) < t
  BY <1>0, <1>2, <1>3 DEF Shape, Generators
<1>5. /\ frames = <<>> => at = AskQuery /\ Top = 0 /\ breg = 0 /\ bfreg = 0 /\ leaders = {}
      /\ \A l \in leaders : Since(at.root, l)
  BY Callers DEF CallNew
<1>6. \A i \in 1..t : i \in 1..Top \/ i = t
  BY <1>0, <1>2
<1>7. Rooted'
  <2>1. CASE frames = <<>>
    <3>1. t = 1 /\ n = 1 /\ root_address = 0
      BY <1>0, <1>3, <1>5, <2>1 DEF Shape, Rooted
    <3>2. breg = 0
      BY <1>5, <2>1
    <3>3. Gen(1)' = 1
      BY <1>1, <3>1
    <3>4. 1 \in leaders' /\ root_address' = 1 /\ cps'[1].prev = 0 /\ at' # AskQuery
      BY <1>1, <3>1, <3>2
    <3>5. Len(frames') = 1
      BY <1>1, <3>1
    <3> QED
      BY <3>3, <3>4, <3>5 DEF Rooted
  <2>2. CASE frames # <<>>
    <3>1. 1 \in leaders /\ root_address = 1 /\ Gen(1) = 1 /\ cps[1].prev = 0
      BY <2>2 DEF Shape, Rooted
    <3>2. 1 \in DOMAIN frames /\ 1 \in 1..Top
      BY <1>3, <1>4, <3>1
    <3>3. Gen(1)' = 1
      BY <1>1, <3>1, <3>2
    <3>4. 1 \in leaders' /\ root_address' = 1 /\ cps'[1].prev = 0 /\ at' # AskQuery
      BY <1>1, <3>1, <3>2
    <3>5. Len(frames') # 0
      BY <1>1, <1>3
    <3> QED
      BY <3>3, <3>4, <3>5 DEF Rooted
  <2> QED
    BY <2>1, <2>2
<1>8. Generators'
  <2>1. \A f, g \in 1..n : f < g => Gen(f)' < Gen(g)'
    <3>1. \A f \in 1..n : f \in DOMAIN frames \/ f = n
      BY <1>3
    <3> QED
      BY <1>1, <1>3, <1>4, <3>1 DEF Shape, Generators
  <2>2. \A f \in 1..n : Gen(f)' \in 1..t /\ cps'[Gen(f)'].goal = frames'[f]
    <3>1. \A f \in DOMAIN frames : Gen(f) \in 1..t /\ cps'[Gen(f)].goal = frames[f]
      BY <1>0, <1>1, <1>2, <1>4 DEF Shape, Generators
    <3>2. t \in 1..t
      BY <1>2
    <3> QED
      BY <1>1, <1>3, <3>1, <3>2
  <2>3. ASSUME NEW i \in 1..t
        PROVE  /\ cps'[i].kind = "generator" => \E f \in 1..n : i = Gen(f)'
               /\ cps'[i].kind # "consumer" => cps'[i].prev < i
    <3>1. CASE i = t
      <4>1. n \in 1..n /\ i = Gen(n)'
        BY <1>1, <1>3, <3>1
      <4> QED
        BY <1>1, <1>2, <3>1, <4>1
    <3>2. CASE i # t
      <4>1. i \in 1..Top /\ cps'[i] = cps[i]
        BY <1>1, <1>6, <3>2
      <4>2. cps[i].kind = "generator" => \E f \in DOMAIN frames : i = Gen(f)
        BY <4>1 DEF Shape, Generators
      <4>3. cps[i].kind # "consumer" => cps[i].prev < i
        BY <4>1 DEF Shape, Generators
      <4> QED
        BY <1>1, <1>3, <4>1, <4>2, <4>3
    <3> QED
      BY <3>1, <3>2
  <2> QED
    BY <1>1, <2>1, <2>2, <2>3 DEF Generators
<1>9. Components'
  <2> DEFINE Ok(l, g) ==
        /\ cps'[g].kind = "generator"
        /\ g <= breg'
        /\ \A i \in g + 1 .. t : g <= cps'[i].prev /\ \E f \in l..n : cps'[i].cont.root = frames'[f]
        /\ \A i \in 1 .. g : cps'[i].cont.root = NoGoal
                             \/ \E f \in 1..l - 1 : cps'[i].cont.root = frames'[f]
        /\ at' # Failed => \E f \in l..n : at'.root = frames'[f]
  <2>1. ASSUME NEW l \in leaders PROVE Ok(l, Gen(l)')
    <3>1. l \in DOMAIN frames /\ Gen(l)' = Gen(l) /\ Gen(l) \in 1..Top /\ l \in Nat /\ l < n
      BY <1>1, <1>3, <1>4
    <3>2. \A x : Since(x, l) => \E f \in l..n : x = frames'[f]
      BY <1>1, <1>3, <3>1 DEF Since
    <3>3. \A x : Before(x, l) => x = NoGoal \/ \E f \in 1..l - 1 : x = frames'[f]
      BY <1>1, <1>3, <3>1 DEF Before
    <3>4. cps'[Gen(l)].kind = "generator" /\ Gen(l) <= breg'
      BY <1>1, <1>2, <1>4, <3>1 DEF Shape, Components
    <3>5. ASSUME NEW i \in Gen(l) + 1..t
          PROVE  Gen(l) <= cps'[i].prev /\ \E f \in l..n : cps'[i].cont.root = frames'[f]
      <4>1. CASE i = t
        BY <1>1, <1>5, <3>2, <4>1 DEF Shape, Components
      <4>2. CASE i # t
        <5>1. i \in Gen(l) + 1..Top /\ i \in 1..Top
          BY <1>0, <1>2, <3>1, <4>2
        <5> QED
          BY <1>1, <3>2, <5>1 DEF Shape, Components
      <4> QED
        BY <4>1, <4>2
    <3>6. ASSUME NEW i \in 1..Gen(l)
          PROVE  cps'[i].cont.root = NoGoal \/ \E f \in 1..l - 1 : cps'[i].cont.root = frames'[f]
      <4>1. i \in 1..Top
        BY <1>2, <3>1
      <4> QED
        BY <1>1, <3>3, <4>1 DEF Shape, Components
    <3>7. \E f \in l..n : at'.root = frames'[f]
      <4>1. n \in l..n
        BY <1>3, <3>1
      <4> QED
        BY <1>1, <4>1
    <3> QED
      BY <3>1, <3>4, <3>5, <3>6, <3>7
  <2>2. Ok(n, t)
    <3>1. \A x : Before(x, n) => x = NoGoal \/ \E f \in 1..n - 1 : x = frames'[f]
      BY <1>1, <1>3 DEF Before
    <3>2. Before(at.root, n)
      <4>1. CASE frames = <<>>
        BY <1>5, <4>1, AskQueryOf DEF Before
      <4>2. CASE frames # <<>>
        <5>1. 1 \in leaders
          BY <4>2 DEF Shape, Rooted
        <5> QED
          BY <1>3, <1>5, <5>1 DEF Before, Since
      <4> QED
        BY <4>1, <4>2
    <3>3. ASSUME NEW i \in 1..t
          PROVE  cps'[i].cont.root = NoGoal \/ \E f \in 1..n - 1 : cps'[i].cont.root = frames'[f]
      <4>1. CASE i = t
        BY <1>1, <3>1, <3>2, <4>1
      <4>2. CASE i # t
        <5>1. i \in 1..Top
          BY <1>6, <4>2
        <5>2. Before(cps[i].cont.root, n)
          BY <1>0, <5>1, RootsOpen
        <5> QED
          BY <1>1, <3>1, <5>1, <5>2
      <4> QED
        BY <4>1, <4>2
    <3>4. \E f \in n..n : at'.root = frames'[f]
      <4>1. n \in n..n
        BY <1>3
      <4> QED
        BY <1>1, <4>1
    <3>5. t <= breg' /\ \A i \in t + 1..t : FALSE
      BY <1>1, <1>2
    <3> QED
      BY <1>1, <3>3, <3>4, <3>5
  <2> HIDE DEF Ok
  <2>3. \A l \in leaders' : Ok(l, Gen(l)')
    BY <1>1, <2>1, <2>2
  <2> QED
    BY <1>1, <2>3 DEF Components, Since, Before, Ok
<1>10. Frozen'
  <2>1. \A l \in leaders :
          /\ cps'[Gen(l)].bf = cps[Gen(l)].bf /\ Gen(l)' = Gen(l) /\ cps[Gen(l)].bf \in Nat
    BY <1>1, <1>3, <1>4, Numbers
  <2>2. DOMAIN frames' \ leaders' = DOMAIN frames \ leaders
    BY <1>1, <1>3
  <2> DEFINE Ok(l, g) ==
        /\ cps'[g].bf < g /\ cps'[g].bf <= bfreg'
        /\ \A k \in leaders' : k < l => cps'[Gen(k)'].bf <= cps'[g].bf
        /\ \A f \in DOMAIN frames \ leaders : f < l => Gen(f)' <= cps'[g].bf
  <2>3. ASSUME NEW l \in leaders PROVE Ok(l, Gen(l)')
    <3>1. ~ (n < l)
      BY <1>3
    <3> QED
      BY <1>1, <2>1, <3>1 DEF Shape, Frozen
  <2>4. Ok(n, t)
    BY <1>1, <1>2, <2>1 DEF Shape, Frozen
  <2> HIDE DEF Ok
  <2>5. \A l \in leaders' : Ok(l, Gen(l)')
    BY <1>1, <2>3, <2>4
  <2>6. \A f \in DOMAIN frames \ leaders : Gen(f)' <= bfreg'
    BY <1>1 DEF Shape, Frozen
  <2> QED
    BY <2>2, <2>5, <2>6 DEF Frozen, Ok
<1>11. Kept'
  <2> SUFFICES ASSUME NEW i \in 1..t, cps'[i].kind = "consumer"
               PROVE  \E f \in DOMAIN frames' : Consumes(i, f)'
    BY <1>1 DEF Kept
  <2>1. i \in 1..Top /\ cps'[i] = cps[i] /\ i # t
    BY <1>1, <1>6
  <2>2. PICK f \in DOMAIN frames : Consumes(i, f)
    BY <2>1 DEF Shape, Kept
  <2>3. \A b, m : m \in 0..n - 1 /\ Safe(cps[i].prev, b, m) => SafeNext(cps[i].prev, b, m)
    BY <1>1, <1>3 DEF Safe, SafeNext
  <2>4. SafeNext(cps[i].prev, bfreg, n) /\ SafeNext(cps[i].prev, bfreg, n - 1)
    BY <1>3, <2>2, <2>3 DEF Consumes, SafeNext
  <2>5. ASSUME NEW l \in leaders', f < l
        PROVE  i <= cps'[Gen(l)'].bf /\ SafeNext(cps[i].prev, cps'[Gen(l)'].bf, l - 1)
    <3>1. CASE l = n
      BY <1>1, <2>2, <2>4, <3>1 DEF Consumes
    <3>2. CASE l # n
      <4>1. l \in leaders /\ l - 1 \in 0..n - 1 /\ Gen(l)' = Gen(l) /\ cps'[Gen(l)] = cps[Gen(l)]
        BY <1>1, <1>3, <1>4, <3>2
      <4> QED
        BY <2>2, <2>3, <2>5, <4>1 DEF Consumes
    <3> QED
      BY <3>1, <3>2
  <2>6. frames'[f] = frames[f] /\ Gen(f)' = Gen(f) /\ f \in DOMAIN frames'
    BY <1>1, <1>3
  <2>7. Consumes(i, f)' <=>
          /\ cps'[i].goal = frames'[f] /\ Gen(f)' <= i
          /\ i <= bfreg' /\ SafeNext(cps'[i].prev, bfreg', Len(frames'))
          /\ \A l \in leaders' :
               f < l => i <= cps'[Gen(l)'].bf /\ SafeNext(cps'[i].prev, cps'[Gen(l)'].bf, l - 1)
    BY DEF Consumes, Safe, SafeNext
  <2>8. cps[i].goal = frames[f] /\ Gen(f) <= i /\ i <= bfreg
    BY <2>2 DEF Consumes
  <2>9. Consumes(i, f)'
    BY <1>1, <2>1, <2>4, <2>5, <2>6, <2>7, <2>8
  <2> QED
    BY <2>6, <2>9
<1> QED
  BY <1>7, <1>8, <1>9, <1>10, <1>11 DEF Shape

(* and is in no list. *)
LEMMA CallNewLinked ==
  ASSUME Typed, Typed', Shape, Linked, CallNew
  PROVE  Linked'
<1>0. PICK t, n : t = Top + 1 /\ n = Len(frames) + 1
  OBVIOUS
<1>1. /\ Top' = t
      /\ DOMAIN frames' = 1..n /\ Len(frames') = n /\ frames'[n] = Goal
      /\ \A f \in DOMAIN frames : frames'[f] = frames[f]
      /\ \A f \in DOMAIN frames : sf'[frames[f]].pos_cons = sf[frames[f]].pos_cons
      /\ sf'[Goal].pos_cons = 0
      /\ cps'[t].kind = "generator"
      /\ \A i \in 1..Top : cps'[i] = cps[i]
  BY <1>0, CallNewPushes
<1>2. Top \in Nat /\ \A i \in 1..t : i \in 1..Top \/ i = t
  BY <1>0, TopIs
<1>3. \A i \in Waiting : i \in 1..Top /\ i \in 1..t
  BY <1>0, <1>2 DEF Waiting
<1>4. Waiting' = Waiting
  BY <1>1, <1>2, <1>3 DEF Waiting
<1>5. PICK E \in SUBSET (Waiting \X Waiting) : LinkedBy(E)
  BY DEF Linked
<1>6. \A i \in Waiting : cps[i].look # 0 => cps[i].look \in Waiting
  BY <1>5, Looks
<1>7. LinkedBy(E)'
  BY <1>1, <1>3, <1>4, <1>5, <1>6 DEF LinkedBy
<1>8. Heads'
  <2>1. \A f \in 1..n : f \in DOMAIN frames \/ f = n
    BY <1>0, Numbers
  <2>2. SUFFICES ASSUME NEW f \in 1..n, sf'[frames'[f]].pos_cons # 0
                 PROVE  LET head == sf'[frames'[f]].pos_cons
                        IN  head \in Waiting' /\ cps'[head].goal = frames'[f]
    BY <1>1 DEF Heads
  <2>3. f \in DOMAIN frames
    BY <1>1, <2>1, <2>2
  <2> QED
    BY <1>1, <1>3, <1>4, <2>2, <2>3 DEF Heads, Linked
<1> QED
  BY <1>4, <1>7, <1>8 DEF Linked

(* The call of an open subgoal, seen from the stacks. *)
LEMMA CallIncompletePushes ==
  ASSUME Typed, Typed', Shape, CallIncomplete, NEW t, t = Top + 1, NEW g, g = FrameOf(Goal)
  PROVE  /\ Top' = t /\ breg' \in {breg, t} /\ bfreg' = t
         /\ g \in DOMAIN frames /\ frames[g] = Goal
         /\ UNCHANGED <<frames, root_address>>
         /\ leaders' = {l \in leaders : l <= g}
         /\ at' # AskQuery /\ (at' # Failed => at'.root = at.root)
         /\ \A s \in Subgoals : /\ sf'[s].cp_ptr = sf[s].cp_ptr
                                /\ sf'[s].pos_cons = IF s = Goal THEN t ELSE sf[s].pos_cons
         /\ cps'[t].kind = "consumer" /\ cps'[t].goal = Goal /\ cps'[t].cont = at
         /\ cps'[t].prev = breg /\ cps'[t].look = sf[Goal].pos_cons
         /\ \A i \in 1..Top : cps'[i] = cps[i]
<1> DEFINE s == Goal
           answered == sf[s].answers # <<>>
           one == IF answered THEN 1 ELSE 0
           cp == [Consumer(s) EXCEPT !.ret = one]
<1>1. s \in Subgoals /\ at \in Places /\ WaitsFor(at, s) /\ sf[s].exists /\ ~ sf[s].is_complete
  BY CalledGoal DEF CallIncomplete, is_completed
<1>2. /\ leaders' = {l \in leaders : l <= g}
      /\ cps' = Put(cps, t, cp)
      /\ sf' = [sf EXCEPT ![s].pos_cons = t]
      /\ bfreg' = t
      /\ breg' = IF answered THEN t ELSE breg
      /\ at' = IF answered THEN Return(at, Head(sf[s].answers)) ELSE Failed
      /\ UNCHANGED <<program, root_address, frames>>
  BY DEF CallIncomplete, Top, adjust_level_ptrs
<1>3. one \in Nat
  OBVIOUS
<1>4. cp = [kind |-> "consumer", goal |-> s, pc |-> 0, cont |-> at, prev |-> breg,
            bf |-> 0, look |-> sf[s].pos_cons, ret |-> one, left |-> {}]
  <2> HIDE DEF one
  <2> QED
    BY DEF Consumer
<1> HIDE DEF s, cp, one
<1>5. Top \in Nat /\ bfreg \in Nat /\ breg \in Nat /\ Len(cps) \in Nat /\ bfreg <= Top /\ breg <= Top
      /\ Top <= Len(cps)
  BY TopIs
<1>6. Top' = t
  <2>1. breg' <= t /\ bfreg' = t
    BY <1>2, <1>5
  <2> QED
    BY <1>5, <2>1, TopNext
<1>7. cp \in Slot(Len(cps))
  <2>1. at \in Place /\ sf[s].pos_cons \in 0..Len(cps)
    BY <1>1 DEF Places, Typed, Frame
  <2> QED
    BY <1>1, <1>3, <1>4, <1>5, <2>1 DEF Slot
<1>8. cps'[t] = cp /\ \A i \in 1..Top : cps'[i] = cps[i]
  BY <1>2, <1>7, PushOf
<1>9. g \in DOMAIN frames /\ frames[g] = s
  <2>1. s \in Range(frames)
    BY <1>1 DEF Typed, Opened
  <2> QED
    BY <2>1, FrameOfOf DEF s
<1>10. \A u \in Subgoals : /\ sf'[u].cp_ptr = sf[u].cp_ptr
                           /\ sf'[u].pos_cons = IF u = s THEN t ELSE sf[u].pos_cons
  BY <1>1, <1>2 DEF Typed, Frame
<1>11. at' # AskQuery /\ (at' # Failed => at'.root = at.root)
  <2>1. CASE answered
    <3>1. sf[s].answers \in Seq(Values) /\ sf[s].answers # <<>>
      BY <1>1, <2>1 DEF Typed, Frame
    <3>2. 1 \in DOMAIN sf[s].answers /\ Head(sf[s].answers) = sf[s].answers[1]
      BY <3>1
    <3>3. Head(sf[s].answers) \in Answers(s)
      BY <3>2 DEF Answers, Range
    <3>0. PICK place, u, y : place = at /\ u = s /\ y = Head(sf[s].answers)
      OBVIOUS
    <3>4. place \in Places /\ u \in Subgoals /\ WaitsFor(place, u) /\ y \in Answers(u)
      BY <1>1, <3>0, <3>3
    <3>5. Return(place, y) # AskQuery
          /\ (Return(place, y) # Failed => Return(place, y).root = place.root)
      BY <3>4, Returned
    <3> QED
      BY <1>2, <2>1, <3>0, <3>5
  <2>2. CASE ~ answered
    BY <1>2, <2>2, FailedIsNot
  <2> QED
    BY <2>1, <2>2
<1>12. /\ cps'[t].kind = "consumer" /\ cps'[t].goal = s /\ cps'[t].cont = at
       /\ cps'[t].prev = breg /\ cps'[t].look = sf[s].pos_cons
  BY <1>4, <1>8
<1>13. breg' \in {breg, t} /\ bfreg' = t /\ UNCHANGED <<frames, root_address>>
       /\ leaders' = {l \in leaders : l <= g}
  BY <1>2
<1> QED
  BY <1>6, <1>8, <1>9, <1>10, <1>11, <1>12, <1>13 DEF s

(* A call that pushes a choice point and opens no subgoal. *)
PushedTo(t) ==
  /\ Top' = t /\ breg' \in {breg, t}
  /\ UNCHANGED <<frames, root_address>>
  /\ leaders' \subseteq leaders /\ (1 \in leaders => 1 \in leaders')
  /\ at' # AskQuery /\ (at' # Failed => at'.root = at.root)
  /\ \A s \in Subgoals : sf'[s].cp_ptr = sf[s].cp_ptr
  /\ cps'[t].kind \in {"consumer", "trie"} /\ cps'[t].cont = at /\ cps'[t].prev = breg
  /\ \A i \in 1..Top : cps'[i] = cps[i]
  /\ frames = <<>> => bfreg' = 0 /\ cps'[t].kind = "trie"

(* What holds after any choice point was pushed. *)
LEMMA PushedShape ==
  ASSUME Typed, Typed', Shape, Calling, NEW t, t = Top + 1, PushedTo(t)
  PROVE  /\ Rooted' /\ Generators' /\ Components'
         /\ \A f \in DOMAIN frames : Gen(f)' = Gen(f) /\ Gen(f) \in 1..Top
<1>1. /\ Top \in Nat /\ bfreg \in Nat /\ breg \in Nat /\ bfreg <= Top /\ breg <= Top
      /\ bfreg < t /\ breg < t /\ t \in Nat /\ t # 0
  BY TopIs
<1>2. /\ Len(frames) \in Nat /\ DOMAIN frames = 1..Len(frames) /\ leaders \subseteq DOMAIN frames
      /\ frames = <<>> <=> Len(frames) = 0
      /\ \A f \in DOMAIN frames : frames[f] \in Subgoals /\ Gen(f) \in Nat
  BY Numbers
<1>3. \A f \in DOMAIN frames : Gen(f)' = Gen(f) /\ Gen(f) \in 1..Top
  BY <1>2 DEF Gen, PushedTo, Shape, Generators
<1>4. /\ frames = <<>> => at = AskQuery /\ Top = 0 /\ breg = 0 /\ bfreg = 0 /\ leaders = {}
      /\ \A l \in leaders : Since(at.root, l)
      /\ at # Failed
  BY Callers DEF Calling
<1>5. \A i \in 1..t : i \in 1..Top \/ i = t
  BY <1>1
<1>6. Rooted'
  <2>1. CASE frames = <<>>
    <3>1. t = 1 /\ at = AskQuery /\ breg = 0 /\ root_address = 0
      BY <1>4, <2>1 DEF Shape, Rooted
    <3>2. /\ frames' = <<>> /\ bfreg' = 0 /\ root_address' = 0 /\ at' # AskQuery
          /\ at' # Failed => at'.root = NoGoal
          /\ breg' \in {0, 1}
          /\ cps'[1].kind = "trie" /\ cps'[1].prev = 0 /\ cps'[1].cont = AskQuery
      BY <2>1, <3>1, AskQueryOf DEF PushedTo
    <3> QED
      BY <3>2 DEF Rooted
  <2>2. CASE frames # <<>>
    <3>1. 1 \in leaders /\ root_address = 1 /\ Gen(1) = 1 /\ cps[1].prev = 0
      BY <2>2 DEF Shape, Rooted
    <3>2. 1 \in DOMAIN frames /\ 1 \in 1..Top
      BY <1>2, <1>3, <3>1
    <3>3. Gen(1)' = 1 /\ cps'[1] = cps[1]
      BY <1>3, <3>1, <3>2 DEF PushedTo
    <3>4. frames' # <<>> /\ 1 \in leaders' /\ root_address' = 1 /\ at' # AskQuery
      BY <2>2, <3>1 DEF PushedTo
    <3> QED
      BY <3>1, <3>3, <3>4 DEF Rooted
  <2> QED
    BY <2>1, <2>2
<1>7. Generators'
  <2>1. \A f, g \in DOMAIN frames : f < g => Gen(f)' < Gen(g)'
    BY <1>3 DEF Shape, Generators
  <2>2. \A f \in DOMAIN frames : Gen(f)' \in 1..t /\ cps'[Gen(f)'].goal = frames[f]
    BY <1>1, <1>3 DEF Shape, Generators, PushedTo
  <2>3. ASSUME NEW i \in 1..t
        PROVE  /\ cps'[i].kind = "generator" => \E f \in DOMAIN frames : i = Gen(f)'
               /\ cps'[i].kind # "consumer" => cps'[i].prev < i
    <3>1. CASE i = t
      BY <1>1, <3>1 DEF PushedTo
    <3>2. CASE i # t
      <4>1. i \in 1..Top /\ cps'[i] = cps[i]
        BY <1>5, <3>2 DEF PushedTo
      <4> QED
        BY <1>3, <4>1 DEF Shape, Generators
    <3> QED
      BY <3>1, <3>2
  <2>4. frames' = frames /\ Top' = t
    BY DEF PushedTo
  <2> QED
    BY <2>1, <2>2, <2>3, <2>4 DEF Generators
<1>8. Components'
  <2>1. frames' = frames /\ Top' = t /\ leaders' \subseteq leaders
    BY DEF PushedTo
  <2> SUFFICES ASSUME NEW l \in leaders
               PROVE  /\ cps'[Gen(l)].kind = "generator"
                      /\ Gen(l) <= breg'
                      /\ \A i \in Gen(l) + 1 .. t :
                           Gen(l) <= cps'[i].prev /\ Since(cps'[i].cont.root, l)
                      /\ \A i \in 1 .. Gen(l) : Before(cps'[i].cont.root, l)
                      /\ at' # Failed => Since(at'.root, l)
    BY <1>2, <1>3, <2>1 DEF Components, Since, Before
  <2>2. l \in DOMAIN frames /\ Gen(l) \in 1..Top /\ cps'[Gen(l)] = cps[Gen(l)] /\ Gen(l) <= breg
    BY <1>2, <1>3 DEF PushedTo, Shape, Components
  <2>3. ASSUME NEW i \in Gen(l) + 1 .. t
        PROVE  Gen(l) <= cps'[i].prev /\ Since(cps'[i].cont.root, l)
    <3>1. CASE i = t
      BY <1>4, <2>2, <3>1 DEF PushedTo
    <3>2. CASE i # t
      <4>1. i \in Gen(l) + 1 .. Top /\ i \in 1..Top
        BY <1>1, <2>2, <3>2
      <4> QED
        BY <4>1 DEF PushedTo, Shape, Components
    <3> QED
      BY <3>1, <3>2
  <2>4. ASSUME NEW i \in 1 .. Gen(l) PROVE Before(cps'[i].cont.root, l)
    <3>1. i \in 1..Top
      BY <1>1, <2>2
    <3> QED
      BY <3>1 DEF PushedTo, Shape, Components
  <2>5. Gen(l) <= breg' /\ (at' # Failed => Since(at'.root, l))
    BY <1>1, <1>4, <2>2 DEF PushedTo
  <2> QED
    BY <2>2, <2>3, <2>4, <2>5 DEF Shape, Components
<1> QED
  BY <1>3, <1>6, <1>7, <1>8

(* A call of an open subgoal pushes a consumer that is kept, *)
LEMMA CallIncompleteShape ==
  ASSUME Typed, Typed', Shape, CallIncomplete
  PROVE  Shape'
<1>0. PICK t, g : t = Top + 1 /\ g = FrameOf(Goal)
  OBVIOUS
<1>1. /\ Top' = t /\ breg' \in {breg, t} /\ bfreg' = t
      /\ g \in DOMAIN frames /\ frames[g] = Goal
      /\ UNCHANGED <<frames, root_address>>
      /\ leaders' = {l \in leaders : l <= g}
      /\ at' # AskQuery /\ (at' # Failed => at'.root = at.root)
      /\ \A s \in Subgoals : sf'[s].cp_ptr = sf[s].cp_ptr
      /\ cps'[t].kind = "consumer" /\ cps'[t].goal = Goal /\ cps'[t].cont = at
      /\ cps'[t].prev = breg
      /\ \A i \in 1..Top : cps'[i] = cps[i]
  BY <1>0, CallIncompletePushes
<1>2. /\ Len(frames) \in Nat /\ DOMAIN frames = 1..Len(frames) /\ leaders \subseteq DOMAIN frames
      /\ \A f \in DOMAIN frames : Gen(f) \in Nat
  BY Numbers
<1>3. /\ Top \in Nat /\ bfreg \in Nat /\ breg \in Nat /\ bfreg <= t /\ breg <= t /\ t \in Nat
      /\ \A i \in 1..t : i \in 1..Top \/ i = t
  BY <1>0, TopIs
<1>4. PushedTo(t)
  <2>1. g >= 1 /\ frames # <<>>
    BY <1>1, <1>2
  <2> QED
    BY <1>1, <1>2, <2>1 DEF PushedTo
<1>5. /\ Rooted' /\ Generators' /\ Components'
      /\ \A f \in DOMAIN frames : Gen(f)' = Gen(f) /\ Gen(f) \in 1..Top
  BY <1>0, <1>4, PushedShape DEF CallIncomplete
<1>6. \A l \in leaders' : /\ l \in leaders /\ l <= g /\ l \in Nat /\ l - 1 \in 0..Len(frames)
                          /\ Gen(l)' = Gen(l) /\ cps'[Gen(l)].bf = cps[Gen(l)].bf
                          /\ cps[Gen(l)].bf \in Nat
  BY <1>1, <1>2, <1>5, Numbers
<1>7. Frozen'
  <2>1. \A f \in DOMAIN frames : Gen(f)' <= bfreg'
    BY <1>0, <1>1, <1>3, <1>5
  <2>2. ASSUME NEW l \in leaders'
        PROVE  /\ cps'[Gen(l)].bf < Gen(l) /\ cps'[Gen(l)].bf <= bfreg'
               /\ \A k \in leaders' : k < l => cps'[Gen(k)].bf <= cps'[Gen(l)].bf
               /\ \A f \in DOMAIN frames \ leaders' : f < l => Gen(f) <= cps'[Gen(l)].bf
    <3>1. cps[Gen(l)].bf <= bfreg'
      BY <1>1, <1>3, <1>6 DEF Shape, Frozen
    <3>2. ASSUME NEW f \in DOMAIN frames \ leaders', f < l PROVE f \notin leaders
      BY <1>1, <1>2, <1>6, <3>2
    <3> QED
      BY <1>6, <3>1, <3>2 DEF Shape, Frozen
  <2>3. frames' = frames /\ leaders' \subseteq DOMAIN frames
    BY <1>1, <1>2
  <2> QED
    BY <1>5, <1>6, <2>1, <2>2, <2>3 DEF Frozen
<1>8. Kept'
  <2> SUFFICES ASSUME NEW i \in 1..t, cps'[i].kind = "consumer"
               PROVE  \E f \in DOMAIN frames : Consumes(i, f)'
    BY <1>1 DEF Kept
  <2>1. \A f \in DOMAIN frames :
          Consumes(i, f)' <=>
            /\ cps'[i].goal = frames[f] /\ Gen(f) <= i
            /\ i <= t /\ SafeNext(cps'[i].prev, t, Len(frames))
            /\ \A l \in leaders' :
                 f < l => i <= cps[Gen(l)].bf /\ SafeNext(cps'[i].prev, cps[Gen(l)].bf, l - 1)
    <3> TAKE f \in DOMAIN frames
    <3>1. Consumes(i, f)' <=>
            /\ cps'[i].goal = frames'[f] /\ Gen(f)' <= i
            /\ i <= bfreg' /\ SafeNext(cps'[i].prev, bfreg', Len(frames'))
            /\ \A l \in leaders' :
                 f < l => i <= cps'[Gen(l)'].bf /\ SafeNext(cps'[i].prev, cps'[Gen(l)'].bf, l - 1)
      BY DEF Consumes, Safe, SafeNext
    <3> QED
      BY <1>1, <1>5, <1>6, <3>1
  <2>2. \A j, b, m : m \in 0..Len(frames) /\ Safe(j, b, m) => SafeNext(j, b, m)
    BY <1>2, <1>5 DEF Safe, SafeNext
  <2>3. CASE i = t
    <3>1. SafeNext(breg, t, Len(frames))
      BY <1>3 DEF SafeNext
    <3>2. \A l \in leaders' : ~ (g < l)
      BY <1>1, <1>2, <1>6
    <3>3. Gen(g) <= t
      BY <1>0, <1>1, <1>3, <1>5
    <3> QED
      BY <1>1, <1>3, <2>1, <2>3, <3>1, <3>2, <3>3
  <2>4. CASE i # t
    <3>1. i \in 1..Top /\ cps'[i] = cps[i]
      BY <1>1, <1>3, <2>4
    <3>2. PICK f \in DOMAIN frames : Consumes(i, f)
      BY <2>4, <3>1 DEF Shape, Kept
    <3>3. SafeNext(cps'[i].prev, t, Len(frames))
      <4>1. Safe(cps[i].prev, bfreg, Len(frames)) /\ cps[i].prev \in Nat
        BY <3>1, <3>2, Numbers DEF Consumes
      <4>2. Safe(cps[i].prev, t, Len(frames))
        BY <1>3, <4>1 DEF Safe
      <4> QED
        BY <1>2, <2>2, <3>1, <4>2
    <3>4. cps'[i].goal = frames[f] /\ Gen(f) <= i /\ i <= t
      BY <3>1, <3>2 DEF Consumes
    <3>5. \A l \in leaders' :
            f < l => i <= cps[Gen(l)].bf /\ SafeNext(cps'[i].prev, cps[Gen(l)].bf, l - 1)
      BY <1>6, <2>2, <3>1, <3>2 DEF Consumes
    <3> QED
      BY <2>1, <3>3, <3>4, <3>5
  <2> QED
    BY <2>3, <2>4
<1> QED
  BY <1>5, <1>7, <1>8 DEF Shape

(* and is the new head of the list of its subgoal. *)
LEMMA CallIncompleteLinked ==
  ASSUME Typed, Typed', Shape, Linked, CallIncomplete
  PROVE  Linked'
<1>0. PICK t, g : t = Top + 1 /\ g = FrameOf(Goal)
  OBVIOUS
<1>1. /\ Top' = t
      /\ g \in DOMAIN frames /\ frames[g] = Goal
      /\ frames' = frames
      /\ \A s \in Subgoals : sf'[s].pos_cons = IF s = Goal THEN t ELSE sf[s].pos_cons
      /\ cps'[t].kind = "consumer" /\ cps'[t].goal = Goal /\ cps'[t].look = sf[Goal].pos_cons
      /\ \A i \in 1..Top : cps'[i] = cps[i]
  BY <1>0, CallIncompletePushes
<1>2. Top \in Nat /\ t \in Nat /\ \A i \in 1..t : i \in 1..Top \/ i = t
  BY <1>0, TopIs
<1>3. \A i \in Waiting : i \in 1..Top /\ i \in 1..t /\ i # t /\ cps[i].kind = "consumer"
  BY <1>0, <1>2 DEF Waiting
<1>4. Waiting' = Waiting \cup {t}
  <2>1. Waiting' = {i \in 1..t : cps'[i].kind = "consumer"}
    BY <1>1 DEF Waiting
  <2>2. \A i \in 1..t : cps'[i].kind = "consumer" <=> i \in Waiting \/ i = t
    BY <1>1, <1>2, <1>3 DEF Waiting
  <2>3. t \in 1..t
    BY <1>0, <1>2
  <2> QED
    BY <1>3, <2>1, <2>2, <2>3
<1>5. PICK E \in SUBSET (Waiting \X Waiting) : LinkedBy(E)
  BY DEF Linked
<1>6. PICK D : D = E \cup ({t} \X Waiting)
  OBVIOUS
<1>7. D \in SUBSET (Waiting' \X Waiting')
  BY <1>4, <1>6
<1>8. \A i \in Waiting : cps[i].look # 0 => cps[i].look \in Waiting
  BY <1>5, Looks
<1>9. cps'[t].look # 0 => cps'[t].look \in Waiting /\ cps[cps'[t].look].goal = cps'[t].goal
  BY <1>1 DEF Linked, Heads
<1>10. \A i \in Waiting' :
         cps'[i].look # 0 => <<i, cps'[i].look>> \in D /\ cps'[cps'[i].look].goal = cps'[i].goal
  <2> SUFFICES ASSUME NEW i \in Waiting \cup {t}, cps'[i].look # 0
               PROVE  <<i, cps'[i].look>> \in D /\ cps'[cps'[i].look].goal = cps'[i].goal
    BY <1>4
  <2>1. CASE i = t
    BY <1>1, <1>3, <1>6, <1>9, <2>1
  <2>2. CASE i \in Waiting
    <3>1. cps'[i] = cps[i] /\ cps[i].look \in Waiting
      BY <1>1, <1>3, <1>8, <2>2
    <3>2. <<i, cps[i].look>> \in E /\ cps[cps[i].look].goal = cps[i].goal
      BY <1>5, <2>2, <3>1 DEF LinkedBy
    <3> QED
      BY <1>1, <1>3, <1>6, <3>1, <3>2
  <2> QED
    BY <2>1, <2>2
<1>11. \A a, b, c \in Waiting' : <<a, b>> \in D /\ <<b, c>> \in D => <<a, c>> \in D
  <2>1. \A a, b, c \in Waiting : <<a, b>> \in E /\ <<b, c>> \in E => <<a, c>> \in E
    BY <1>5 DEF LinkedBy
  <2> QED
    BY <1>3, <1>4, <1>6, <2>1
<1>12. \A a, b \in Waiting' : <<a, b>> \in D => a # b
  <2>1. \A a, b \in Waiting : <<a, b>> \in E => a # b
    BY <1>5 DEF LinkedBy
  <2> QED
    BY <1>3, <1>4, <1>6, <2>1
<1>13. LinkedBy(D)'
  BY <1>10, <1>11, <1>12 DEF LinkedBy
<1>14. Heads'
  <2>1. \A f \in DOMAIN frames : frames[f] \in Subgoals
    BY Numbers
  <2>2. SUFFICES ASSUME NEW f \in DOMAIN frames, sf'[frames[f]].pos_cons # 0
                 PROVE  LET head == sf'[frames[f]].pos_cons
                        IN  head \in Waiting' /\ cps'[head].goal = frames[f]
    BY <1>1 DEF Heads
  <2>3. CASE frames[f] = Goal
    <3>1. sf'[frames[f]].pos_cons = t
      BY <1>1, <2>1, <2>3
    <3> QED
      BY <1>1, <1>4, <2>3, <3>1
  <2>4. CASE frames[f] # Goal
    <3>1. sf'[frames[f]].pos_cons = sf[frames[f]].pos_cons
      BY <1>1, <2>1, <2>4
    <3>2. sf[frames[f]].pos_cons \in Waiting /\ cps[sf[frames[f]].pos_cons].goal = frames[f]
      BY <2>2, <3>1 DEF Linked, Heads
    <3> QED
      BY <1>1, <1>3, <1>4, <3>1, <3>2
  <2> QED
    BY <2>3, <2>4
<1> QED
  BY <1>7, <1>13, <1>14 DEF Linked

(* The answers of a completed table: none, the only one, or the first of   *)
(* several with a choice point for the others. *)
LEMMA TrieIsPushed ==
  ASSUME Typed, NEW s \in Subgoals, sf[s].exists, NEW place \in Places, WaitsFor(place, s),
         NEW prev \in 0..Len(cps), NEW t, t <= Len(cps) + 1, t \in Nat, t # 0,
         AnswerFromTrie(s, place, prev, t)
  PROVE  /\ at' # AskQuery /\ (at' # Failed => at'.root = place.root)
         /\ \/ breg' = prev /\ UNCHANGED cps
            \/ /\ breg' = t
               /\ cps'[t].kind = "trie" /\ cps'[t].goal = s
               /\ cps'[t].cont = place /\ cps'[t].prev = prev
               /\ \A i \in 1..t - 1 : cps'[i] = cps[i]
<1> DEFINE all == Range(sf[s].answers)
<1>1. PICK y \in all :
        /\ at' = Return(place, y)
        /\ IF all = {y}
             THEN breg' = prev /\ UNCHANGED cps
             ELSE /\ breg' = t
                  /\ cps' = Put(cps, t, TrieReturn(s, place, prev, all \ {y}))
  BY DEF AnswerFromTrie
<1>2. all = Answers(s) /\ Len(cps) \in Nat /\ cps \in Seq(Slot(Len(cps)))
  BY StackTyped, StackIsSeq DEF Answers
<1>3. at' # AskQuery /\ (at' # Failed => at'.root = place.root)
  BY <1>1, <1>2, Returned
<1>4. CASE all = {y}
  BY <1>1, <1>3, <1>4
<1>5. CASE all # {y}
  <2> DEFINE cp == TrieReturn(s, place, prev, all \ {y})
  <2>1. breg' = t /\ cps' = Put(cps, t, cp)
    BY <1>1, <1>5
  <2>2. cp = [kind |-> "trie", goal |-> s, pc |-> 0, cont |-> place, prev |-> prev,
              bf |-> 0, look |-> 0, ret |-> 0, left |-> all \ {y}]
    BY DEF TrieReturn
  <2>3. all \subseteq Values /\ place \in Place
    BY <1>2, AnswersAreValues DEF Typed, Places
  <2> HIDE DEF cp, all
  <2>4. cp \in Slot(Len(cps))
    BY <1>2, <2>2, <2>3 DEF Slot
  <2>0. PICK a, S, c : a = cps /\ S = Slot(Len(cps)) /\ c = cp
    OBVIOUS
  <2>5. a \in Seq(S) /\ t \in 1..Len(a) + 1 /\ c \in S /\ Len(a) \in Nat
    BY <1>2, <2>0, <2>4
  <2>6. Put(a, t, c)[t] = c /\ \A i \in 1..Len(a) : i # t => Put(a, t, c)[i] = a[i]
    BY <2>5, PutOf
  <2>7. cps'[t] = cp /\ \A i \in 1..Len(cps) : i # t => cps'[i] = cps[i]
    BY <2>0, <2>1, <2>6
  <2>8. \A i \in 1..t - 1 : i \in 1..Len(cps) /\ i # t
    BY <1>2
  <2>9. cps'[t].kind = "trie" /\ cps'[t].goal = s /\ cps'[t].cont = place /\ cps'[t].prev = prev
    BY <2>2, <2>7
  <2> QED
    BY <1>3, <2>1, <2>7, <2>8, <2>9
<1> QED
  BY <1>4, <1>5

(* A call of a completed subgoal keeps stack and lists. *)
LEMMA CallCompletedShape ==
  ASSUME Typed, Typed', Shape, Linked, CallCompleted
  PROVE  Shape' /\ Linked'
<1>0. PICK t : t = Top + 1
  OBVIOUS
<1>1. /\ Calling /\ is_completed(Goal)
      /\ IF sf[Goal].answers = <<>>
           THEN at' = Failed /\ UNCHANGED <<breg, cps>>
           ELSE AnswerFromTrie(Goal, at, breg, t)
      /\ UNCHANGED <<program, sf, bfreg, root_address, frames, leaders>>
  BY <1>0 DEF CallCompleted, Top
<1>2. /\ Top \in Nat /\ bfreg \in Nat /\ breg \in Nat /\ bfreg <= Top /\ breg <= Top
      /\ Len(cps) \in Nat /\ Top <= Len(cps)
  BY TopIs
<1>3. /\ frames = <<>> => at = AskQuery /\ Top = 0 /\ breg = 0 /\ bfreg = 0 /\ leaders = {}
      /\ \A l \in leaders : Since(at.root, l)
      /\ \A l \in leaders : Gen(l) <= breg
  BY <1>1, Callers DEF Shape, Components
<1>4. Goal \in Subgoals /\ at \in Places /\ WaitsFor(at, Goal) /\ sf[Goal].exists
  BY <1>1, CalledGoal DEF is_completed
<1>5. /\ at' # AskQuery /\ (at' # Failed => at'.root = at.root)
      /\ \/ breg' = breg /\ UNCHANGED cps
         \/ /\ breg' = t
            /\ cps'[t].kind = "trie" /\ cps'[t].cont = at /\ cps'[t].prev = breg
            /\ \A i \in 1..Top : cps'[i] = cps[i]
  <2>1. CASE sf[Goal].answers = <<>>
    BY <1>1, <2>1, FailedIsNot
  <2>2. CASE sf[Goal].answers # <<>>
    <3>0. PICK s, place, prev : s = Goal /\ place = at /\ prev = breg
      OBVIOUS
    <3>1. /\ s \in Subgoals /\ sf[s].exists /\ place \in Places /\ WaitsFor(place, s)
          /\ prev \in 0..Len(cps) /\ t <= Len(cps) + 1 /\ t \in Nat /\ t # 0
          /\ AnswerFromTrie(s, place, prev, t)
      BY <1>0, <1>1, <1>2, <1>4, <2>2, <3>0
    <3>2. /\ at' # AskQuery /\ (at' # Failed => at'.root = place.root)
          /\ \/ breg' = prev /\ UNCHANGED cps
             \/ /\ breg' = t
                /\ cps'[t].kind = "trie" /\ cps'[t].goal = s
                /\ cps'[t].cont = place /\ cps'[t].prev = prev
                /\ \A i \in 1..t - 1 : cps'[i] = cps[i]
      BY <3>1, TrieIsPushed
    <3>3. t - 1 = Top
      BY <1>0, <1>2
    <3> QED
      BY <3>0, <3>2, <3>3
  <2> QED
    BY <2>1, <2>2
<1>6. CASE breg' = breg /\ UNCHANGED cps
  <2>1. Quiet
    BY <1>1, <1>6, SameStackQuiet
  <2>2. frames = <<>> => breg' \in {0, breg} /\ (at' # Failed => at'.root = NoGoal)
    BY <1>3, <1>5, <1>6, AskQueryOf
  <2>3. Moved
    BY <1>2, <1>3, <1>5, <1>6, <2>1, <2>2, QuietMoved
  <2> QED
    BY <2>1, <2>3, MovedShape, QuietLinked
<1>7. CASE /\ breg' = t
           /\ cps'[t].kind = "trie" /\ cps'[t].cont = at /\ cps'[t].prev = breg
           /\ \A i \in 1..Top : cps'[i] = cps[i]
  <2>1. Top' = t
    BY <1>0, <1>1, <1>2, <1>7, TopNext
  <2>2. PushedTo(t)
    BY <1>1, <1>3, <1>5, <1>7, <2>1 DEF PushedTo
  <2>3. /\ Rooted' /\ Generators' /\ Components'
        /\ \A f \in DOMAIN frames : Gen(f)' = Gen(f) /\ Gen(f) \in 1..Top
    BY <1>0, <1>1, <2>2, PushedShape
  <2>4. leaders \subseteq DOMAIN frames /\ DOMAIN frames = 1..Len(frames) /\ Len(frames) \in Nat
    BY Numbers
  <2>5. \A l \in leaders : /\ l \in 1..Len(frames) /\ l - 1 \in 0..Len(frames)
                           /\ Gen(l)' = Gen(l) /\ cps'[Gen(l)] = cps[Gen(l)]
    BY <1>7, <2>3, <2>4
  <2>6. Frozen'
    BY <1>1, <2>3, <2>4, <2>5 DEF Frozen, Shape
  <2>7. \A i \in 1..t : i \in 1..Top \/ i = t
    BY <1>0, <1>2
  <2>8. Kept'
    <3> SUFFICES ASSUME NEW i \in 1..t, cps'[i].kind = "consumer"
                 PROVE  \E f \in DOMAIN frames : Consumes(i, f)'
      BY <1>1, <2>1 DEF Kept
    <3>1. i \in 1..Top /\ cps'[i] = cps[i]
      BY <1>7, <2>7
    <3>2. PICK f \in DOMAIN frames : Consumes(i, f)
      BY <3>1 DEF Shape, Kept
    <3>3. \A j, b, m : m \in 0..Len(frames) => (SafeNext(j, b, m) <=> Safe(j, b, m))
      BY <2>3, <2>4 DEF Safe, SafeNext
    <3>4. Consumes(i, f)' <=>
            /\ cps'[i].goal = frames'[f] /\ Gen(f)' <= i
            /\ i <= bfreg' /\ SafeNext(cps'[i].prev, bfreg', Len(frames'))
            /\ \A l \in leaders' :
                 f < l => i <= cps'[Gen(l)'].bf /\ SafeNext(cps'[i].prev, cps'[Gen(l)'].bf, l - 1)
      BY DEF Consumes, Safe, SafeNext
    <3>5. \A l \in leaders :
            f < l => i <= cps[Gen(l)].bf /\ SafeNext(cps[i].prev, cps[Gen(l)].bf, l - 1)
      BY <2>5, <3>2, <3>3 DEF Consumes
    <3>6. SafeNext(cps[i].prev, bfreg, Len(frames))
      BY <2>4, <3>2, <3>3 DEF Consumes
    <3>7. cps[i].goal = frames[f] /\ Gen(f) <= i /\ i <= bfreg
      BY <3>2 DEF Consumes
    <3> QED
      BY <1>1, <2>3, <2>5, <3>1, <3>4, <3>5, <3>6, <3>7
  <2>9. Linked'
    <3>1. \A i \in Waiting : i \in 1..Top /\ i \in 1..t
      BY <1>0, <1>2 DEF Waiting
    <3>2. Waiting' = Waiting
      BY <1>7, <2>1, <2>7, <3>1 DEF Waiting
    <3>3. PICK E \in SUBSET (Waiting \X Waiting) : LinkedBy(E)
      BY DEF Linked
    <3>4. \A i \in Waiting : cps[i].look # 0 => cps[i].look \in Waiting
      BY <3>3, Looks
    <3>5. LinkedBy(E)'
      BY <1>7, <3>1, <3>2, <3>3, <3>4 DEF LinkedBy
    <3>6. Heads'
      BY <1>1, <1>7, <3>1, <3>2 DEF Heads, Linked
    <3> QED
      BY <3>2, <3>5, <3>6 DEF Linked
  <2> QED
    BY <2>3, <2>6, <2>8, <2>9 DEF Shape
<1> QED
  BY <1>5, <1>6, <1>7

(* The completion of an SCC, seen from the stacks: what is left is the     *)
(* first m choice points, and one for the answers of the leader. *)
Popped(L, g, m) ==
  /\ DOMAIN frames' = 1..L - 1 /\ Len(frames') = L - 1
  /\ \A f \in 1..L - 1 : /\ frames'[f] = frames[f] /\ Gen(f)' = Gen(f)
                         /\ sf'[frames[f]].pos_cons = sf[frames[f]].pos_cons
  /\ leaders' = {l \in leaders : l < L}
  /\ IF L = 1 THEN bfreg' = 0 /\ root_address' = 0
              ELSE bfreg' = cps[g].bf /\ root_address' = root_address
  /\ at' # AskQuery /\ (at' # Failed => at'.root = cps[g].cont.root)
  /\ \A i \in 1..m : cps'[i] = cps[i]
  /\ \/ breg' = cps[g].prev /\ Top' = m
     \/ /\ breg' = m + 1 /\ Top' = m + 1
        /\ cps'[m + 1].kind = "trie" /\ cps'[m + 1].cont = cps[g].cont
        /\ cps'[m + 1].prev = cps[g].prev

(* The SCC that is completed is the youngest; its leader is at breg. *)
LEMMA Completing ==
  ASSUME Typed, Shape, CompleteScc, NEW L, L = FrameOf(Checked), NEW g, g = breg
  PROVE  /\ at = Failed /\ L \in leaders /\ Gen(L) = g /\ g \in 1..Top /\ frames[L] = cps[g].goal
         /\ \A l \in leaders : l <= L
         /\ cps[g].prev \in Nat /\ cps[g].prev < g /\ cps[g].bf \in Nat /\ cps[g].bf < g
         /\ cps[g].bf <= bfreg
         /\ L = 1 <=> breg = root_address
         /\ L = 1 => cps[g].prev = 0 /\ cps[g].cont = AskQuery
         /\ cps[g].goal \in Subgoals /\ sf[cps[g].goal].exists
         /\ cps[g].cont \in Places /\ WaitsFor(cps[g].cont, cps[g].goal)
<1>1. at = Failed /\ breg # 0 /\ cps[breg].kind = "generator" /\ L \in leaders
  BY DEF CompleteScc, CheckingComplete, Backtracking, IsLeader
<1>2. /\ L \in DOMAIN frames /\ frames[L] = Checked /\ Gen(L) = g /\ g \in 1..Top
      /\ \A l \in leaders : l <= L
  BY <1>1, AtGenerator
<1>3. cps[g].prev \in Nat /\ cps[g].bf \in Nat
  BY <1>2, Numbers
<1>4. cps[g].prev < g /\ cps[g].bf < g /\ cps[g].bf <= bfreg
  BY <1>1, <1>2 DEF Shape, Generators, Frozen
<1>5. /\ cps[g].goal \in Subgoals /\ sf[cps[g].goal].exists
      /\ cps[g].cont \in Places /\ WaitsFor(cps[g].cont, cps[g].goal)
  BY <1>1, Breg
<1>6. frames # <<>> /\ root_address = 1 /\ 1 \in leaders /\ Gen(1) = 1 /\ cps[1].prev = 0
  BY <1>2 DEF Shape, Rooted
<1>7. L = 1 <=> breg = root_address
  <2>1. 1 \in DOMAIN frames
    BY <1>6, Numbers
  <2>2. L = 1 => g = 1
    BY <1>2, <1>6
  <2>3. g = 1 => L = 1
    <3> SUFFICES ASSUME g = 1 PROVE L = 1
      OBVIOUS
    <3>1. L \in Int
      BY <1>2, Numbers
    <3>2. L <= 1 /\ 1 <= L
      BY <1>2, <1>6, <2>1, GenOrder DEF Shape
    <3> QED
      BY <3>1, <3>2
  <2> QED
    BY <1>6, <2>2, <2>3
<1>8. L = 1 => cps[g].prev = 0 /\ cps[g].cont = AskQuery
  <2> SUFFICES ASSUME L = 1 PROVE cps[g].prev = 0 /\ cps[g].cont = AskQuery
    OBVIOUS
  <2>1. g = 1
    BY <1>2, <1>6
  <2>2. Before(cps[1].cont.root, 1)
    <3>1. 1 \in 1..Gen(1)
      BY <1>6
    <3> QED
      BY <1>6, <3>1 DEF Shape, Components
  <2>3. cps[g].cont.root = NoGoal
    BY <2>1, <2>2 DEF Before
  <2>4. cps[g].cont = AskQuery
    BY <1>5, <2>3, ProgramsAssumption DEF WaitsFor
  <2> QED
    BY <1>6, <2>1, <2>4
<1> QED
  BY <1>1, <1>2, <1>3, <1>4, <1>5, <1>7, <1>8 DEF Checked

(* Completion pops the stack down to below the generator of the leader. *)
LEMMA CompleteSccPops ==
  ASSUME Typed, Typed', Shape, CompleteScc, NEW L, L = FrameOf(Checked), NEW g, g = breg
  PROVE  \E m \in 0..g - 1 :
           /\ m = cps[g].prev \/ m = bfreg'
           /\ cps[g].prev <= m /\ bfreg' <= m
           /\ Popped(L, g, m)
<1> DEFINE scc == {frames[f] : f \in L..Len(frames)}
           p == cps[g].prev
<1>1. /\ at = Failed /\ L \in leaders /\ Gen(L) = g /\ g \in 1..Top
      /\ p \in Nat /\ p < g /\ cps[g].bf \in Nat /\ cps[g].bf < g /\ cps[g].bf <= bfreg
      /\ L = 1 <=> breg = root_address
      /\ cps[g].goal \in Subgoals /\ sf[cps[g].goal].exists
      /\ cps[g].cont \in Places /\ WaitsFor(cps[g].cont, cps[g].goal)
  BY Completing
<1>2. /\ sf' = [s \in Subgoals |-> IF s \in scc THEN mark_as_completed(sf[s]) ELSE sf[s]]
      /\ frames' = SubSeq(frames, 1, L - 1)
      /\ leaders' = {l \in leaders : l < L}
      /\ reclaim_stacks
  BY DEF CompleteScc, CompleteSimplifyAndReclaim, Older
<1>3. /\ Len(frames) \in Nat /\ DOMAIN frames = 1..Len(frames) /\ L \in 1..Len(frames)
      /\ \A f \in DOMAIN frames : frames[f] \in Subgoals
  BY <1>1, Numbers
<1>4. Top \in Nat /\ bfreg \in Nat /\ Len(cps) \in Nat /\ Top <= Len(cps)
  BY TopIs
<1> HIDE DEF scc
<1>5. /\ DOMAIN frames' = 1..L - 1 /\ Len(frames') = L - 1
      /\ \A f \in 1..L - 1 : f \in DOMAIN frames /\ frames'[f] = frames[f]
  BY <1>2, <1>3 DEF Typed
<1>6. \A s \in Subgoals :
        /\ sf'[s].cp_ptr = sf[s].cp_ptr
        /\ s \notin scc => sf'[s] = sf[s]
  BY <1>2, MarkAsCompleted DEF Typed
<1>7. \A f \in 1..L - 1 : frames[f] \notin scc
  <2> SUFFICES ASSUME NEW f \in 1..L - 1, NEW h \in L..Len(frames), frames[f] = frames[h] PROVE FALSE
    BY DEF scc
  <2>1. h \in DOMAIN frames /\ f \in DOMAIN frames
    BY <1>3
  <2>2. f = h
    BY <2>1, GenOrder DEF Shape
  <2> QED
    BY <1>3, <2>2
<1>8. \A f \in 1..L - 1 : /\ Gen(f)' = Gen(f)
                          /\ sf'[frames[f]].pos_cons = sf[frames[f]].pos_cons
  BY <1>3, <1>5, <1>6, <1>7 DEF Gen
<1>9. IF L = 1 THEN bfreg' = 0 /\ root_address' = 0
               ELSE bfreg' = cps[g].bf /\ root_address' = root_address
  <2>1. Min({bfreg, cps[g].bf}) = cps[g].bf
    BY <1>1, <1>4, MinOf
  <2> QED
    BY <1>1, <1>2, <2>1 DEF reclaim_stacks
<1>10. bfreg' \in Nat /\ bfreg' < g
  BY <1>1, <1>9
<1>11. PICK m : m = IF p >= bfreg' THEN p ELSE bfreg'
  OBVIOUS
<1>12. m \in 0..g - 1 /\ (m = p \/ m = bfreg') /\ p <= m /\ bfreg' <= m /\ m \in Nat
  BY <1>1, <1>10, <1>11
<1>13. Max({p, bfreg'}) = m
  BY <1>1, <1>10, <1>11, MaxOf
<1>14. /\ at' # AskQuery /\ (at' # Failed => at'.root = cps[g].cont.root)
       /\ \/ breg' = p /\ UNCHANGED cps
          \/ /\ breg' = m + 1
             /\ cps'[m + 1].kind = "trie" /\ cps'[m + 1].cont = cps[g].cont /\ cps'[m + 1].prev = p
             /\ \A i \in 1..m : cps'[i] = cps[i]
  <2>1. CASE sf[Checked].answers = <<>>
    <3>1. breg' = p /\ UNCHANGED <<at, cps>>
      BY <2>1 DEF CompleteScc, SetupReturnFromLeader
    <3> QED
      BY <1>1, <3>1, FailedIsNot
  <2>2. CASE sf[Checked].answers # <<>>
    <3>1. PICK s, place, prev, t : s = cps[g].goal /\ place = cps[g].cont /\ prev = p /\ t = m + 1
      OBVIOUS
    <3>2. AnswerFromTrie(s, place, prev, t)
      BY <1>13, <2>2, <3>1 DEF CompleteScc, SetupReturnFromLeader, AnswerFromTrie, Checked
    <3>3. /\ s \in Subgoals /\ sf[s].exists /\ place \in Places /\ WaitsFor(place, s)
          /\ prev \in 0..Len(cps) /\ t <= Len(cps) + 1 /\ t \in Nat /\ t # 0
      <4>1. s \in Subgoals /\ sf[s].exists /\ place \in Places /\ WaitsFor(place, s)
        BY <1>1, <3>1
      <4>2. prev \in 0..Len(cps) /\ t <= Len(cps) + 1 /\ t \in Nat /\ t # 0
        BY <1>1, <1>4, <1>12, <3>1
      <4> QED
        BY <4>1, <4>2
    <3>4. /\ at' # AskQuery /\ (at' # Failed => at'.root = place.root)
          /\ \/ breg' = prev /\ UNCHANGED cps
             \/ /\ breg' = t
                /\ cps'[t].kind = "trie" /\ cps'[t].goal = s
                /\ cps'[t].cont = place /\ cps'[t].prev = prev
                /\ \A i \in 1..t - 1 : cps'[i] = cps[i]
      BY <3>2, <3>3, TrieIsPushed
    <3>5. t - 1 = m
      BY <1>12, <3>1
    <3> QED
      BY <3>1, <3>4, <3>5
  <2> QED
    BY <2>1, <2>2
<1>15. breg' = p => Top' = m
  BY <1>1, <1>10, <1>11, <1>12, TopNext
<1>16. breg' = m + 1 => Top' = m + 1
  BY <1>10, <1>12, TopNext
<1>17. Popped(L, g, m)
  BY <1>2, <1>5, <1>8, <1>9, <1>14, <1>15, <1>16 DEF Popped
<1> QED
  BY <1>12, <1>17

(* What an older frame needs is on the part of the stack that is left. *)
LEMMA OlderKept ==
  ASSUME Typed, Shape, CompleteScc, NEW L, L = FrameOf(Checked), NEW g, g = breg,
         NEW m \in 0..g - 1, cps[g].prev <= m, bfreg' <= m, Popped(L, g, m)
  PROVE  /\ bfreg' \in Nat
         /\ \A f \in 1..L - 1 : f \in DOMAIN frames /\ Gen(f) \in 1..m
         /\ \A f \in 1..L - 1 : f \notin leaders => Gen(f) <= bfreg'
         /\ \A l \in leaders : l < L => Gen(l) <= cps[g].prev
         /\ \A i \in Waiting : \A f \in 1..L - 1 : cps[i].goal = frames[f] => i <= bfreg'
         /\ \A i \in Waiting : i <= m => \E f \in 1..L - 1 : Consumes(i, f)
<1>1. /\ L \in leaders /\ Gen(L) = g /\ g \in 1..Top
      /\ \A l \in leaders : l <= L
      /\ cps[g].prev \in Nat /\ cps[g].prev < g /\ cps[g].bf \in Nat /\ cps[g].bf < g
  BY Completing
<1>2. /\ Len(frames) \in Nat /\ DOMAIN frames = 1..Len(frames) /\ L \in 1..Len(frames)
      /\ leaders \subseteq DOMAIN frames
      /\ \A f \in DOMAIN frames : Gen(f) \in Nat
  BY <1>1, Numbers
<1>3. bfreg' \in Nat /\ (L # 1 => bfreg' = cps[g].bf)
  BY <1>1 DEF Popped
<1>4. \A f \in 1..L - 1 : f \in DOMAIN frames /\ f < L /\ L # 1
  BY <1>2
<1>5. \A f \in 1..L - 1 : f \notin leaders => Gen(f) <= bfreg'
  BY <1>1, <1>3, <1>4 DEF Shape, Frozen
<1>6. ASSUME NEW l \in leaders, l < L PROVE Gen(l) <= cps[g].prev
  <2>1. Gen(l) < g /\ Gen(l) \in Nat
    BY <1>1, <1>2, <1>6 DEF Shape, Generators
  <2>2. g \in Gen(l) + 1..Top
    BY <1>1, <2>1, TopIs
  <2> QED
    BY <2>2 DEF Shape, Components
<1>7. \A f \in 1..L - 1 : Gen(f) \in 1..m
  <2> TAKE f \in 1..L - 1
  <2>1. Gen(f) \in 1..Top /\ Gen(f) \in Nat
    BY <1>2, <1>4 DEF Shape, Generators
  <2>2. CASE f \in leaders
    BY <1>1, <1>4, <1>6, <2>1, <2>2
  <2>3. CASE f \notin leaders
    BY <1>3, <1>5, <2>1, <2>3
  <2> QED
    BY <2>2, <2>3
<1>8. \A i \in Waiting : i \in 1..Top /\ \E f \in DOMAIN frames : Consumes(i, f)
  BY DEF Waiting, Shape, Kept
<1>9. ASSUME NEW i \in Waiting, NEW f \in 1..L - 1, cps[i].goal = frames[f] PROVE i <= bfreg'
  <2>1. PICK h \in DOMAIN frames : Consumes(i, h)
    BY <1>8
  <2>2. h = f
    BY <1>4, <1>9, <2>1, GenOrder DEF Shape, Consumes
  <2> QED
    BY <1>1, <1>3, <1>4, <2>1, <2>2 DEF Consumes
<1>10. ASSUME NEW i \in Waiting, i <= m PROVE \E f \in 1..L - 1 : Consumes(i, f)
  <2>1. PICK h \in DOMAIN frames : Consumes(i, h)
    BY <1>8
  <2>2. Gen(h) < Gen(L) /\ Gen(h) \in Nat
    BY <1>1, <1>2, <1>8, <1>10, <2>1 DEF Consumes
  <2>3. ~ (L <= h)
    BY <1>1, <1>2, <2>2, GenOrder DEF Shape
  <2>4. h \in 1..L - 1
    BY <1>2, <2>3
  <2> QED
    BY <2>1, <2>4
<1> QED
  BY <1>3, <1>4, <1>5, <1>6, <1>7, <1>9, <1>10

(* What is left of the stack is in shape: nothing that older subgoals need *)
(* was above. *)
LEMMA CompleteSccShape ==
  ASSUME Typed, Typed', Shape, CompleteScc
  PROVE  Shape'
<1>0. PICK L, g : L = FrameOf(Checked) /\ g = breg
  OBVIOUS
<1>1. /\ at = Failed /\ L \in leaders /\ Gen(L) = g /\ g \in 1..Top
      /\ \A l \in leaders : l <= L
      /\ cps[g].prev \in Nat /\ cps[g].prev < g /\ cps[g].bf \in Nat /\ cps[g].bf < g
      /\ L = 1 => cps[g].prev = 0 /\ cps[g].cont = AskQuery
  BY <1>0, Completing
<1>2. PICK m \in 0..g - 1 : /\ m = cps[g].prev \/ m = bfreg'
                            /\ cps[g].prev <= m /\ bfreg' <= m
                            /\ Popped(L, g, m)
  BY <1>0, CompleteSccPops
<1>3. /\ bfreg' \in Nat
      /\ \A f \in 1..L - 1 : f \in DOMAIN frames /\ Gen(f) \in 1..m
      /\ \A f \in 1..L - 1 : f \notin leaders => Gen(f) <= bfreg'
      /\ \A l \in leaders : l < L => Gen(l) <= cps[g].prev
      /\ \A i \in Waiting : i <= m => \E f \in 1..L - 1 : Consumes(i, f)
  BY <1>0, <1>2, OlderKept
<1>4. /\ Len(frames) \in Nat /\ DOMAIN frames = 1..Len(frames) /\ L \in 1..Len(frames)
      /\ leaders \subseteq DOMAIN frames
  BY <1>1, Numbers
<1>5. Top \in Nat /\ g <= Top /\ m \in Nat /\ m < g /\ \A i \in 1..m : i \in 1..Top
  BY <1>1, <1>2, TopIs
<1>6. /\ DOMAIN frames' = 1..L - 1 /\ Len(frames') = L - 1
      /\ \A f \in 1..L - 1 : frames'[f] = frames[f] /\ Gen(f)' = Gen(f)
      /\ leaders' = {l \in leaders : l < L}
      /\ at' # AskQuery /\ (at' # Failed => at'.root = cps[g].cont.root)
      /\ \A i \in 1..m : cps'[i] = cps[i]
      /\ Top' \in {m, m + 1}
      /\ breg' \in {cps[g].prev, m + 1}
      /\ Top' = m + 1 => /\ cps'[m + 1].kind = "trie" /\ cps'[m + 1].cont = cps[g].cont
                         /\ cps'[m + 1].prev = cps[g].prev
      /\ IF L = 1 THEN bfreg' = 0 /\ root_address' = 0
                  ELSE bfreg' = cps[g].bf /\ root_address' = root_address
  BY <1>2, <1>5 DEF Popped
<1>7. \A i \in 1..Top' : i \in 1..m \/ (i = m + 1 /\ Top' = m + 1)
  BY <1>5, <1>6
<1>8. \A l \in leaders' : l \in leaders /\ l \in 1..L - 1 /\ l - 1 \in 0..L - 1 /\ l < L
  BY <1>4, <1>6
<1>9. Rooted'
  <2>1. CASE L = 1
    <3>1. frames' = <<>>
      BY <1>6, <2>1
    <3>2. cps[g].prev = 0 /\ cps[g].cont = AskQuery /\ m = 0 /\ bfreg' = 0 /\ root_address' = 0
      BY <1>1, <1>2, <1>6, <2>1
    <3>3. breg' # 0 => breg' = 1
      BY <1>6, <3>2
    <3>4. breg' # 0 => Top' = m + 1
      BY <1>2, <3>2 DEF Popped
    <3>5. breg' # 0 => cps'[1].kind = "trie" /\ cps'[1].prev = 0 /\ cps'[1].cont = AskQuery
      BY <1>6, <3>2, <3>4
    <3>6. at' # Failed => at'.root = NoGoal
      BY <1>6, <3>2, AskQueryOf
    <3> QED
      BY <1>6, <3>1, <3>2, <3>3, <3>5, <3>6 DEF Rooted
  <2>2. CASE L # 1
    <3>1. frames # <<>>
      BY <1>4
    <3>2. 1 \in leaders /\ root_address = 1 /\ Gen(1) = 1 /\ cps[1].prev = 0
      BY <3>1 DEF Shape, Rooted
    <3>3. 1 \in 1..L - 1 /\ 1 \in leaders'
      BY <1>4, <1>6, <2>2, <3>2
    <3>4. Gen(1)' = 1 /\ cps'[1].prev = 0
      BY <1>3, <1>6, <3>2, <3>3
    <3>5. Len(frames') # 0
      BY <1>4, <1>6, <2>2
    <3> QED
      BY <1>6, <2>2, <3>2, <3>3, <3>4, <3>5 DEF Rooted
  <2> QED
    BY <2>1, <2>2
<1>10. Generators'
  <2>1. \A f, h \in 1..L - 1 : f < h => Gen(f)' < Gen(h)'
    BY <1>3, <1>6 DEF Shape, Generators
  <2>2. \A f \in 1..L - 1 : Gen(f)' \in 1..Top' /\ cps'[Gen(f)'].goal = frames'[f]
    <3> TAKE f \in 1..L - 1
    <3>1. Gen(f) \in 1..m /\ Gen(f)' = Gen(f) /\ frames'[f] = frames[f]
      BY <1>3, <1>6
    <3>2. Gen(f) \in 1..Top' /\ cps'[Gen(f)] = cps[Gen(f)] /\ cps[Gen(f)].goal = frames[f]
      BY <1>3, <1>5, <1>6, <3>1 DEF Shape, Generators
    <3> QED
      BY <3>1, <3>2
  <2>3. ASSUME NEW i \in 1..Top'
        PROVE  /\ cps'[i].kind = "generator" => \E f \in 1..L - 1 : i = Gen(f)'
               /\ cps'[i].kind # "consumer" => cps'[i].prev < i
    <3>1. CASE i \in 1..m
      <4>1. i \in 1..Top /\ cps'[i] = cps[i] /\ i < g
        BY <1>1, <1>5, <1>6, <3>1
      <4>2. \A f \in DOMAIN frames : Gen(f) < g => f \in 1..L - 1
        <5> TAKE f \in DOMAIN frames
        <5>1. Gen(f) < g => ~ (L <= f)
          BY <1>1, <1>4, GenOrder, Numbers DEF Shape
        <5> QED
          BY <1>4, <5>1
      <4> QED
        BY <1>6, <4>1, <4>2 DEF Shape, Generators
    <3>2. CASE i = m + 1 /\ Top' = m + 1
      BY <1>1, <1>2, <1>5, <1>6, <3>2
    <3> QED
      BY <1>7, <3>1, <3>2
  <2> QED
    BY <1>6, <2>1, <2>2, <2>3 DEF Generators
<1>11. \A x, l : l \in 1..L - 1 /\ Since(x, l) /\ Before(x, L) => \E f \in l..L - 1 : x = frames'[f]
  <2> TAKE x, l
  <2> HAVE l \in 1..L - 1 /\ Since(x, l) /\ Before(x, L)
  <2>1. PICK f \in l..Len(frames) : x = frames[f]
    BY DEF Since
  <2>2. f \in DOMAIN frames /\ x \in Subgoals
    BY <1>4, <2>1, Numbers
  <2>3. PICK h \in 1..L - 1 : x = frames[h]
    BY <2>2, ProgramsAssumption DEF Before
  <2>4. f = h
    BY <1>3, <2>1, <2>2, <2>3, GenOrder DEF Shape
  <2>5. h \in l..L - 1 /\ frames'[h] = frames[h]
    BY <1>4, <1>6, <2>1, <2>3, <2>4
  <2> QED
    BY <2>3, <2>5
<1>12. Components'
  <2> DEFINE Ok(l) ==
        /\ cps'[Gen(l)].kind = "generator"
        /\ Gen(l) <= breg'
        /\ \A i \in Gen(l) + 1 .. Top' :
             Gen(l) <= cps'[i].prev /\ \E f \in l..L - 1 : cps'[i].cont.root = frames'[f]
        /\ \A i \in 1 .. Gen(l) : cps'[i].cont.root = NoGoal
                                  \/ \E f \in 1..l - 1 : cps'[i].cont.root = frames'[f]
        /\ at' # Failed => \E f \in l..L - 1 : at'.root = frames'[f]
  <2>1. ASSUME NEW l \in leaders' PROVE Ok(l)
    <3>1. l \in leaders /\ l \in 1..L - 1 /\ l < L /\ Gen(l) <= cps[g].prev /\ Gen(l) \in 1..m
      BY <1>3, <1>8
    <3>2. cps'[Gen(l)].kind = "generator" /\ Gen(l) <= breg'
      BY <1>1, <1>2, <1>5, <1>6, <3>1 DEF Shape, Components
    <3>3. Since(cps[g].cont.root, l) /\ Before(cps[g].cont.root, L)
      <4>1. g \in Gen(l) + 1..Top /\ g \in 1..Gen(L)
        BY <1>1, <1>5, <3>1
      <4> QED
        BY <1>1, <3>1, <4>1 DEF Shape, Components
    <3>4. \E f \in l..L - 1 : cps[g].cont.root = frames'[f]
      BY <1>11, <3>1, <3>3
    <3>5. ASSUME NEW i \in Gen(l) + 1..Top'
          PROVE  Gen(l) <= cps'[i].prev /\ \E f \in l..L - 1 : cps'[i].cont.root = frames'[f]
      <4>1. CASE i \in 1..m
        <5>1. i \in Gen(l) + 1..Top /\ i \in 1..Gen(L) /\ cps'[i] = cps[i]
          BY <1>1, <1>5, <1>6, <3>1, <4>1
        <5>2. Gen(l) <= cps[i].prev /\ Since(cps[i].cont.root, l) /\ Before(cps[i].cont.root, L)
          BY <1>1, <3>1, <5>1 DEF Shape, Components
        <5>3. \E f \in l..L - 1 : cps[i].cont.root = frames'[f]
          BY <1>11, <3>1, <5>2
        <5> QED
          BY <5>1, <5>2, <5>3
      <4>2. CASE i = m + 1 /\ Top' = m + 1
        BY <1>6, <3>1, <3>4, <4>2
      <4>3. i \in 1..Top'
        BY <1>5, <1>6, <3>1
      <4> QED
        BY <1>7, <4>1, <4>2, <4>3
    <3>6. ASSUME NEW i \in 1..Gen(l)
          PROVE  cps'[i].cont.root = NoGoal \/ \E f \in 1..l - 1 : cps'[i].cont.root = frames'[f]
      <4>1. i \in 1..m /\ cps'[i] = cps[i]
        BY <1>5, <1>6, <3>1
      <4>2. Before(cps[i].cont.root, l)
        BY <3>1 DEF Shape, Components
      <4>3. \A f \in 1..l - 1 : f \in 1..L - 1
        BY <1>4, <3>1
      <4> QED
        BY <1>6, <4>1, <4>2, <4>3 DEF Before
    <3>7. at' # Failed => \E f \in l..L - 1 : at'.root = frames'[f]
      BY <1>6, <3>4
    <3> QED
      BY <3>2, <3>5, <3>6, <3>7
  <2> HIDE DEF Ok
  <2>2. \A l \in leaders' : Ok(l) /\ Gen(l)' = Gen(l)
    BY <1>6, <1>8, <2>1
  <2> QED
    BY <1>6, <2>2 DEF Components, Since, Before, Ok
<1>13. \A l \in leaders' : /\ Gen(l)' = Gen(l) /\ cps'[Gen(l)].bf = cps[Gen(l)].bf
  BY <1>3, <1>6, <1>8
<1>14. \A l \in leaders' : cps[Gen(l)].bf <= bfreg'
  BY <1>1, <1>6, <1>8 DEF Shape, Frozen
<1>15. Frozen'
  <2>1. \A f \in 1..L - 1 : f \notin leaders' => Gen(f)' <= bfreg'
    <3> TAKE f \in 1..L - 1
    <3>1. f < L
      BY <1>4
    <3> QED
      BY <1>3, <1>6, <3>1
  <2>2. ASSUME NEW l \in leaders'
        PROVE  /\ cps'[Gen(l)].bf < Gen(l) /\ cps'[Gen(l)].bf <= bfreg'
               /\ \A k \in leaders' : k < l => cps'[Gen(k)].bf <= cps'[Gen(l)].bf
               /\ \A f \in 1..L - 1 : f \notin leaders' /\ f < l => Gen(f) <= cps'[Gen(l)].bf
    <3>1. \A f \in 1..L - 1 : f \notin leaders' => f \in DOMAIN frames \ leaders
      BY <1>3, <1>4, <1>6
    <3> QED
      BY <1>8, <1>13, <1>14, <3>1 DEF Shape, Frozen
  <2> QED
    BY <1>6, <1>13, <2>1, <2>2 DEF Frozen
<1>16. Kept'
  <2> SUFFICES ASSUME NEW i \in 1..Top', cps'[i].kind = "consumer"
               PROVE  \E f \in 1..L - 1 : Consumes(i, f)'
    BY <1>6 DEF Kept
  <2>1. i \in 1..m /\ cps'[i] = cps[i] /\ i \in Waiting
    BY <1>5, <1>6, <1>7 DEF Waiting
  <2>2. PICK f \in 1..L - 1 : Consumes(i, f)
    BY <1>3, <2>1, <1>5
  <2>3. Consumes(i, f)' <=>
          /\ cps'[i].goal = frames'[f] /\ Gen(f)' <= i
          /\ i <= bfreg' /\ SafeNext(cps'[i].prev, bfreg', Len(frames'))
          /\ \A l \in leaders' :
               f < l => i <= cps'[Gen(l)'].bf /\ SafeNext(cps'[i].prev, cps'[Gen(l)'].bf, l - 1)
    BY DEF Consumes, Safe, SafeNext
  <2>4. \A j, b, k : k \in 0..L - 1 /\ Safe(j, b, k) => SafeNext(j, b, k)
    BY <1>4, <1>6 DEF Safe, SafeNext
  <2>5. f < L /\ L # 1 /\ bfreg' = cps[g].bf /\ L - 1 \in 0..L - 1
    BY <1>4, <1>6
  <2>6. i <= bfreg' /\ SafeNext(cps[i].prev, bfreg', L - 1)
    BY <1>1, <2>2, <2>4, <2>5 DEF Consumes
  <2>7. \A l \in leaders' :
          f < l => i <= cps[Gen(l)].bf /\ SafeNext(cps[i].prev, cps[Gen(l)].bf, l - 1)
    BY <1>8, <2>2, <2>4 DEF Consumes
  <2>8. cps[i].goal = frames[f] /\ Gen(f) <= i
    BY <2>2 DEF Consumes
  <2> QED
    BY <1>6, <1>13, <2>1, <2>3, <2>6, <2>7, <2>8
<1> QED
  BY <1>9, <1>10, <1>12, <1>15, <1>16 DEF Shape

(* The lists of older subgoals are left whole. *)
LEMMA CompleteSccLinked ==
  ASSUME Typed, Typed', Shape, Linked, CompleteScc
  PROVE  Linked'
<1>0. PICK L, g : L = FrameOf(Checked) /\ g = breg
  OBVIOUS
<1>1. g \in 1..Top /\ L \in leaders
  BY <1>0, Completing
<1>2. PICK m \in 0..g - 1 : cps[g].prev <= m /\ bfreg' <= m /\ Popped(L, g, m)
  BY <1>0, CompleteSccPops
<1>3. /\ bfreg' \in Nat
      /\ \A f \in 1..L - 1 : f \in DOMAIN frames
      /\ \A i \in Waiting : \A f \in 1..L - 1 : cps[i].goal = frames[f] => i <= bfreg'
      /\ \A i \in Waiting : i <= m => \E f \in 1..L - 1 : Consumes(i, f)
  BY <1>0, <1>2, OlderKept
<1>4. Top \in Nat /\ g <= Top /\ m \in Nat /\ m < g /\ \A i \in 1..m : i \in 1..Top
  BY <1>1, <1>2, TopIs
<1>5. /\ DOMAIN frames' = 1..L - 1
      /\ \A f \in 1..L - 1 : frames'[f] = frames[f] /\ sf'[frames[f]].pos_cons = sf[frames[f]].pos_cons
      /\ \A i \in 1..m : cps'[i] = cps[i]
      /\ Top' \in {m, m + 1}
      /\ Top' = m + 1 => cps'[m + 1].kind = "trie"
  BY <1>2, <1>4 DEF Popped
<1>6. \A i \in Waiting : i \in 1..Top /\ cps[i].kind = "consumer"
  BY DEF Waiting
<1>7. PICK W : W = {i \in Waiting : i <= m}
  OBVIOUS
<1>8. Waiting' = W
  <2>1. Waiting' = {i \in 1..Top' : cps'[i].kind = "consumer"}
    BY DEF Waiting
  <2>2. \A i \in 1..Top' : i \in 1..m \/ (i = m + 1 /\ Top' = m + 1)
    BY <1>4, <1>5
  <2>3. \A i \in 1..Top' : cps'[i].kind = "consumer" => i \in W
    <3> TAKE i \in 1..Top'
    <3> HAVE cps'[i].kind = "consumer"
    <3>1. i \in 1..m
      BY <1>5, <2>2
    <3>2. i \in Waiting /\ i <= m
      BY <1>4, <1>5, <3>1 DEF Waiting
    <3> QED
      BY <1>7, <3>2
  <2>4. \A i \in W : i \in 1..Top' /\ i \in 1..m /\ cps'[i].kind = "consumer"
    BY <1>4, <1>5, <1>6, <1>7
  <2> QED
    BY <2>1, <2>3, <2>4
<1>9. \A i \in W : i \in Waiting /\ i \in 1..m /\ cps'[i] = cps[i]
  BY <1>4, <1>5, <1>6, <1>7
<1>10. PICK E \in SUBSET (Waiting \X Waiting) : LinkedBy(E)
  BY DEF Linked
<1>11. PICK D : D = E \cap (W \X W)
  OBVIOUS
<1>12. ASSUME NEW i \in W, cps[i].look # 0
       PROVE  cps[i].look \in W /\ <<i, cps[i].look>> \in D /\ cps[cps[i].look].goal = cps[i].goal
  <2>1. <<i, cps[i].look>> \in E /\ cps[cps[i].look].goal = cps[i].goal /\ cps[i].look \in Waiting
    BY <1>9, <1>10, <1>12 DEF LinkedBy
  <2>2. PICK f \in 1..L - 1 : cps[i].goal = frames[f]
    BY <1>3, <1>7 DEF Consumes
  <2>3. cps[i].look <= m
    BY <1>2, <1>3, <1>4, <1>6, <2>1, <2>2
  <2>4. cps[i].look \in W
    BY <1>7, <2>1, <2>3
  <2> QED
    BY <1>11, <2>1, <2>4
<1>13. LinkedBy(D)'
  <2>1. \A i \in W : cps'[i].look # 0 =>
          <<i, cps'[i].look>> \in D /\ cps'[cps'[i].look].goal = cps'[i].goal
    BY <1>9, <1>12
  <2>2. \A a, b, c \in W : <<a, b>> \in D /\ <<b, c>> \in D => <<a, c>> \in D
    BY <1>9, <1>10, <1>11 DEF LinkedBy
  <2>3. \A a, b \in W : <<a, b>> \in D => a # b
    BY <1>9, <1>10, <1>11 DEF LinkedBy
  <2> QED
    BY <1>8, <2>1, <2>2, <2>3 DEF LinkedBy
<1>14. Heads'
  <2> SUFFICES ASSUME NEW f \in 1..L - 1, sf'[frames'[f]].pos_cons # 0
               PROVE  LET head == sf'[frames'[f]].pos_cons
                      IN  head \in Waiting' /\ cps'[head].goal = frames'[f]
    BY <1>5 DEF Heads
  <2>1. PICK head : head = sf[frames[f]].pos_cons /\ head = sf'[frames'[f]].pos_cons
    BY <1>5
  <2>2. head \in Waiting /\ cps[head].goal = frames[f]
    BY <1>3, <2>1 DEF Linked, Heads
  <2>3. head \in W
    BY <1>2, <1>3, <1>4, <1>6, <1>7, <2>2
  <2> QED
    BY <1>5, <1>8, <1>9, <2>1, <2>2, <2>3
<1>15. D \in SUBSET (W \X W)
  BY <1>11
<1> QED
  BY <1>8, <1>13, <1>14, <1>15 DEF Linked

(* At the start the stack is empty. *)
LEMMA InitShape == Init => Shape /\ Linked
<1> SUFFICES ASSUME Init PROVE Shape /\ Linked
  OBVIOUS
<1>1. breg = 0 /\ bfreg = 0 /\ root_address = 0 /\ frames = <<>> /\ leaders = {} /\ at = AskQuery
  BY DEF Init
<1>2. Top = 0
  BY <1>1, InitTyped, TopIs
<1>3. Len(frames) = 0 /\ DOMAIN frames = {}
  BY <1>1
<1>4. \A i \in 1..Top : FALSE
  BY <1>2
<1>5. Rooted
  BY <1>1, AskQueryOf DEF Rooted
<1>6. Generators /\ Components /\ Frozen /\ Kept
  BY <1>1, <1>3, <1>4 DEF Generators, Components, Frozen, Kept
<1>7. Waiting = {}
  BY <1>4 DEF Waiting
<1>8. LinkedBy({})
  BY <1>7 DEF LinkedBy
<1>9. Heads
  BY <1>3 DEF Heads
<1> QED
  BY <1>5, <1>6, <1>7, <1>8, <1>9 DEF Shape, Linked

(* Every step keeps the shape of the stack and the lists of consumers. *)
LEMMA StepShape ==
  ASSUME Typed, Typed', Shape, Linked, [Next]_vars
  PROVE  Shape' /\ Linked'
<1>1. CASE CallNew
  BY <1>1, CallNewShape, CallNewLinked
<1>2. CASE CallCompleted
  BY <1>2, CallCompletedShape
<1>3. CASE CallIncomplete
  BY <1>3, CallIncompleteShape, CallIncompleteLinked
<1>4. CASE IgnoreAnswer \/ AnswerQuery
  BY <1>4, IgnoreAnswerQuiet, MovedShape, QuietLinked
<1>5. CASE NewAnswer
  BY <1>5, NewAnswerQuiet, MovedShape, QuietLinked
<1>6. CASE NextClause
  BY <1>6, NextClauseQuiet, MovedShape, QuietLinked
<1>7. CASE AnswerReturn
  BY <1>7, AnswerReturnQuiet, MovedShape, QuietLinked
<1>8. CASE TrieAnswer
  BY <1>8, TrieAnswerQuiet, MovedShape, QuietLinked
<1>9. CASE NextQuery
  BY <1>9, NextQueryQuiet, MovedShape, QuietLinked
<1>10. CASE ScheduleOwnConsumers
  BY <1>10, ScheduleOwnConsumersShape
<1>11. CASE ScheduleScc
  BY <1>11, ScheduleSccShape
<1>12. CASE CompleteScc
  BY <1>12, CompleteSccShape, CompleteSccLinked
<1>13. CASE makeConsumerFromGenerator
  BY <1>13, makeConsumerShape
<1>14. CASE UNCHANGED vars
  <2>1. UNCHANGED <<sf, cps, breg, bfreg, root_address, frames, leaders, at>>
    BY <1>14 DEF vars
  <2>2. Quiet
    BY <2>1, SameStackQuiet
  <2>3. breg' <= Top /\ \A l \in leaders : Gen(l) <= breg'
    BY <2>1, TopIs DEF Shape, Components
  <2>4. at' # Failed => \A l \in leaders : Since(at'.root, l)
    BY <2>1 DEF Shape, Components
  <2>5. frames = <<>> => breg' \in {0, breg} /\ (at' # Failed => at'.root = NoGoal)
    BY <2>1 DEF Shape, Rooted
  <2>6. at' = AskQuery => breg' = 0 /\ frames = <<>>
    BY <2>1 DEF Shape, Rooted
  <2> QED
    BY <2>2, <2>3, <2>4, <2>5, <2>6, QuietMoved, MovedShape, QuietLinked
<1> QED
  BY <1>1, <1>2, <1>3, <1>4, <1>5, <1>6, <1>7, <1>8, <1>9, <1>10, <1>11, <1>12, <1>13, <1>14
     DEF Next, Step, Idle

(* The inductive invariant of the stacks. *)
LEMMA SpecShape == Spec => [](Typed /\ Shape /\ Linked)
<1> DEFINE Inv == Typed /\ Shape /\ Linked
<1>1. Init => Inv
  BY InitTyped, InitShape
<1>2. Inv /\ [Next]_vars => Inv'
  BY StepTyped, StepShape
<1> HIDE DEF Inv
<1>3. Spec => []Inv
  BY <1>1, <1>2, PTL DEF Spec
<1> QED
  BY <1>3 DEF Inv

(* The choice points and lists that the engine has at any time satisfy     *)
(* what sched_answers and find_fixpoint take for granted. *)
LEMMA ListsFrozen ==
  ASSUME Typed, Shape, Linked
  PROVE  ConsumersFrozen
<1> SUFFICES ASSUME NEW s \in Subgoals, sf[s].exists, ~ is_completed(s)
             PROVE  LET list == Consumers(cps, sf[s].pos_cons)
                    IN  /\ IsInjective(list)
                        /\ \A c \in Range(list) :
                             /\ c <= bfreg
                             /\ cps[c].kind = "consumer" /\ cps[c].goal = s
                             /\ cps[c].cont.root # NoGoal
  BY DEF ConsumersFrozen
<1>1. PICK f \in DOMAIN frames : frames[f] = s
  BY DEF Typed, Opened, is_completed, Range
<1>2. PICK C, F : F = {f} /\ C = WaitingFor(F)
  OBVIOUS
<1>3. PICK E \in SUBSET (Waiting \X Waiting) : LinkedBy(E)
  BY DEF Linked
<1>4. PICK n, head, a : n = Len(cps) /\ head = sf[s].pos_cons /\ a = cps
  OBVIOUS
<1>5. /\ C \in SUBSET (1..n) /\ C \subseteq Waiting
      /\ Order(C, Links(E, C)) /\ Chained(a, C, Links(E, C))
      /\ head \in C \cup {0}
  BY <1>1, <1>2, <1>3, <1>4, ListsOf DEF Linked
<1>6. n \in Nat /\ a \in Stack(n)
  BY <1>4, StackTyped
<1>7. ASSUME NEW c \in C, NEW d \in C, <<c, d>> \in Links(E, C) PROVE c # d
  BY <1>3, <1>5, <1>7 DEF Links, LinkedBy
<1>8. IsInjective(Consumers(a, head)) /\ Range(Consumers(a, head)) \subseteq C
  BY <1>5, <1>6, <1>7, ConsumersOf
<1>9. ASSUME NEW c \in C
      PROVE  /\ c <= bfreg
             /\ cps[c].kind = "consumer" /\ cps[c].goal = s /\ cps[c].cont.root # NoGoal
  <2>1. c \in 1..Top /\ cps[c].kind = "consumer" /\ cps[c].goal = s
    BY <1>1, <1>2, <1>5 DEF WaitingFor, Waiting
  <2>2. c <= bfreg
    BY <2>1 DEF Shape, Kept, Consumes
  <2>3. 1 \in leaders /\ Gen(1) = 1
    BY <1>1 DEF Shape, Rooted
  <2>4. c # 1
    BY <2>1, <2>3 DEF Shape, Components
  <2>5. c \in Gen(1) + 1..Top
    BY <2>1, <2>3, <2>4, TopIs
  <2>6. Since(cps[c].cont.root, 1)
    BY <2>3, <2>5 DEF Shape, Components
  <2>7. cps[c].cont.root \in Subgoals
    BY <2>6, Numbers DEF Since
  <2> QED
    BY <2>1, <2>2, <2>7, ProgramsAssumption
<1> QED
  BY <1>4, <1>8, <1>9

(* The list of consumers of an open subgoal never leads to a choice point  *)
(* that was popped, overwritten or made for another subgoal: what          *)
(* scheduling relinks, and what completion frees, is always above or       *)
(* beside what the older subgoals have frozen, however the SCCs are        *)
(* joined. *)
THEOREM ListsOfConsumersFrozen == Spec => []ConsumersFrozen
BY SpecShape, ListsFrozen, PTL

--------------------------------------------------------------------------
(* WHAT THE USER IS GIVEN *)

(* While a query is evaluated nothing is given; its subgoal is the oldest. *)
Asking ==
  /\ at = AskQuery => got = {}
  /\ frames # <<>> => got = {} /\ frames[1] = Head(todo)

(* Once its table is complete each answer of it has been given, is being   *)
(* returned, or is left in the choice point.                               *)
Left == IF breg = 0 THEN {} ELSE cps[1].left
Passing == IF at = Failed THEN {} ELSE {at.val}
Returning ==
  frames = <<>> /\ todo # <<>> /\ at # AskQuery =>
    is_completed(Head(todo)) /\ Answers(Head(todo)) = got \cup Left \cup Passing

Delivers == Asking /\ Returning

(* While the query is open nothing has been given to the user. *)
LEMMA OpenDelivers ==
  ASSUME Shape', Delivers, frames # <<>>, frames' # <<>>, frames'[1] = frames[1],
         UNCHANGED <<todo, got>>
  PROVE  Delivers'
<1>1. at' # AskQuery
  BY DEF Shape, Rooted
<1>2. Asking'
  BY <1>1 DEF Delivers, Asking
<1>3. Returning'
  BY DEF Returning
<1> QED
  BY <1>2, <1>3 DEF Delivers

(* An answer returned to the query is what the user gets. *)
LEMMA UserGets ==
  ASSUME Typed, NEW s \in Subgoals, NEW y \in Answers(s)
  PROVE  /\ Return(AskQuery, y) # Failed /\ Return(AskQuery, y) # AskQuery
         /\ Return(AskQuery, y).val = y
<1>1. AskQuery \in Places
  <2>1. AskQuery \in Place
    BY ProgramsAssumption DEF AskQuery, Place
  <2> QED
    BY <2>1 DEF Places, InQuery
<1>2. WaitsFor(AskQuery, s)
  BY DEF WaitsFor
<1>3. Return(AskQuery, y).lit = 2 /\ Return(AskQuery, y).val = y
  BY <1>1, <1>2, ReturnOf DEF Typed
<1> QED
  BY <1>3, AskQueryOf DEF Failed

(* The answers of the completed table are returned from the bottom of the  *)
(* stack: one at once, the others are left. *)
LEMMA FirstGiven ==
  ASSUME Typed, NEW s \in Subgoals, AnswerFromTrie(s, AskQuery, 0, 1)
  PROVE  at' # AskQuery /\ Answers(s) = Left' \cup Passing'
<1> DEFINE all == Answers(s)
<1>1. PICK y \in all :
        /\ at' = Return(AskQuery, y)
        /\ IF all = {y}
             THEN breg' = 0 /\ UNCHANGED cps
             ELSE /\ breg' = 1
                  /\ cps' = Put(cps, 1, TrieReturn(s, AskQuery, 0, all \ {y}))
  BY DEF AnswerFromTrie, Answers
<1>2. at' # Failed /\ at' # AskQuery /\ at'.val = y
  BY <1>1, UserGets
<1>3. Passing' = {y}
  BY <1>2 DEF Passing, Failed
<1>4. CASE all = {y}
  BY <1>1, <1>2, <1>3, <1>4 DEF Left
<1>5. CASE all # {y}
  <2> DEFINE cp == TrieReturn(s, AskQuery, 0, all \ {y})
  <2>1. cp.left = all \ {y}
    BY DEF TrieReturn
  <2> HIDE DEF cp, all
  <2>2. breg' = 1 /\ cps' = Put(cps, 1, cp)
    BY <1>1, <1>5 DEF cp
  <2>3. cps'[1] = cp
    <3>1. Len(cps) \in Nat
      BY StackTyped
    <3>2. 1 \in 1..Max({Len(cps), 1})
      BY <3>1, MaxOf
    <3> QED
      BY <2>2, <3>2 DEF Put
  <2>4. Left' = all \ {y}
    BY <2>1, <2>2, <2>3 DEF Left
  <2> QED
    BY <1>1, <1>2, <1>3, <2>4 DEF all
<1> QED
  BY <1>4, <1>5

(* With no open subgoal only the query is on the stack. *)
LEMMA IdleBottom ==
  ASSUME Typed, Shape, frames = <<>>
  PROVE  /\ Len(frames) = 0
         /\ breg # 0 => breg = 1 /\ cps[1].kind = "trie" /\ cps[1].prev = 0 /\ cps[1].cont = AskQuery
         /\ at # Failed => at.root = NoGoal
         /\ at # Failed /\ at # AskQuery => at.lit = 2
<1>1. at # Failed => at.root = NoGoal
  BY DEF Shape, Rooted
<1>2. ASSUME at # Failed, at # AskQuery PROVE at.lit = 2
  <2>1. at \in Places /\ at.root \notin Subgoals
    BY <1>1, <1>2, ProgramsAssumption DEF Typed
  <2> QED
    BY <1>2, <2>1, PlaceTypes DEF InQuery
<1> QED
  BY <1>1, <1>2 DEF Shape, Rooted

(* With an open subgoal the query waits below. *)
LEMMA OpenBottom ==
  ASSUME Typed, Shape, frames # <<>>
  PROVE  /\ 1 \in leaders /\ 1 \in DOMAIN frames /\ breg # 0 /\ todo # <<>>
         /\ at # Failed => at.root # NoGoal
<1>1. 1 \in leaders /\ Gen(1) = 1 /\ Gen(1) <= breg
  BY DEF Shape, Rooted, Components
<1>2. breg # 0
  BY <1>1, TopIs
<1>3. at # Failed => Since(at.root, 1)
  BY <1>1 DEF Shape, Components
<1>4. at # Failed => at.root \in Subgoals
  BY <1>3, Numbers DEF Since
<1> QED
  BY <1>1, <1>2, <1>4, Numbers, ProgramsAssumption DEF Typed

(* The first call of the query gives nothing. *)
LEMMA CallNewDelivers ==
  ASSUME Typed, Typed', Shape, Shape', Delivers, CallNew
  PROVE  Delivers'
<1>1. frames' = Append(frames, Goal) /\ UNCHANGED <<todo, got>> /\ Calling
  BY DEF CallNew
<1>2. Goal \in Subgoals /\ frames \in Seq(Subgoals)
  BY <1>1, CalledGoal DEF Typed
<1>3. frames' # <<>> /\ Len(frames') = Len(frames) + 1 /\ frames'[Len(frames) + 1] = Goal
      /\ \A f \in DOMAIN frames : frames'[f] = frames[f]
  BY <1>1, <1>2
<1>4. CASE frames # <<>>
  <2>1. frames'[1] = frames[1]
    BY <1>3, <1>4, OpenBottom
  <2> QED
    BY <1>1, <1>3, <1>4, <2>1, OpenDelivers
<1>5. CASE frames = <<>>
  <2>1. at = AskQuery /\ Len(frames) = 0
    BY <1>1, <1>5, Callers
  <2>2. Goal = Head(todo) /\ got = {}
    BY <2>1, AskQueryOf DEF Goal, Delivers, Asking
  <2>3. frames'[1] = Head(todo)
    BY <1>3, <2>1, <2>2
  <2>4. at' # AskQuery
    BY <1>3 DEF Shape, Rooted
  <2>5. Asking'
    BY <1>1, <2>2, <2>3, <2>4 DEF Asking
  <2>6. Returning'
    BY <1>3 DEF Returning
  <2> QED
    BY <2>5, <2>6 DEF Delivers
<1> QED
  BY <1>4, <1>5

(* A call of a completed table starts to return all of its answers. *)
LEMMA CallCompletedDelivers ==
  ASSUME Typed, Typed', Shape, Shape', Delivers, CallCompleted
  PROVE  Delivers'
<1>1. Calling /\ is_completed(Goal) /\ UNCHANGED <<program, todo, got, sf, frames>>
  BY DEF CallCompleted
<1>2. CASE frames # <<>>
  BY <1>1, <1>2, OpenDelivers
<1>3. CASE frames = <<>>
  <2>1. /\ at = AskQuery /\ Top = 0 /\ breg = 0 /\ Goal \in Subgoals
    BY <1>1, <1>3, Callers, CalledGoal
  <2>2. Goal = Head(todo) /\ got = {}
    BY <2>1, AskQueryOf DEF Goal, Delivers, Asking
  <2>3. at' # AskQuery /\ Answers(Goal) = Left' \cup Passing'
    <3>1. CASE sf[Goal].answers = <<>>
      <4>1. at' = Failed /\ breg' = 0
        BY <2>1, <3>1 DEF CallCompleted
      <4>2. Left' = {} /\ Passing' = {}
        BY <4>1 DEF Left, Passing, Failed
      <4>3. Answers(Goal) = {}
        BY <3>1 DEF Answers, Range
      <4> QED
        BY <4>1, <4>2, <4>3, FailedIsNot
    <3>2. CASE sf[Goal].answers # <<>>
      <4>1. PICK s, place, prev, top :
              s = Goal /\ place = at /\ prev = breg /\ top = top_of_cpstack + 1
        OBVIOUS
      <4>2. AnswerFromTrie(s, place, prev, top)
        BY <3>2, <4>1 DEF CallCompleted
      <4>3. place = AskQuery /\ prev = 0 /\ top = 1
        BY <2>1, <4>1 DEF Top
      <4> QED
        BY <2>1, <4>1, <4>2, <4>3, FirstGiven
    <3> QED
      BY <3>1, <3>2
  <2>4. PICK s : s = Goal
    OBVIOUS
  <2>5. is_completed(s)' /\ Answers(s)' = Answers(s) /\ s = Head(todo')
    BY <1>1, <2>2, <2>4 DEF Answers, is_completed
  <2>6. Answers(s)' = got' \cup Left' \cup Passing'
    BY <1>1, <2>2, <2>3, <2>4, <2>5
  <2>7. Returning'
    BY <2>4, <2>5, <2>6 DEF Returning
  <2>8. Asking'
    BY <1>1, <1>3, <2>3 DEF Asking
  <2> QED
    BY <2>7, <2>8 DEF Delivers
<1> QED
  BY <1>2, <1>3

(* A query that returns has no frame open: none of these actions is it.    *)
LEMMA OnlyOpen ==
  ASSUME Typed, Shape,
         \/ CallIncomplete \/ IgnoreAnswer \/ NewAnswer \/ NextClause \/ AnswerReturn
         \/ ScheduleOwnConsumers \/ ScheduleScc \/ CompleteScc \/ makeConsumerFromGenerator
  PROVE  frames # <<>>
<1> SUFFICES ASSUME frames = <<>> PROVE FALSE
  OBVIOUS
<1>1. /\ at # Failed => at.root = NoGoal
      /\ breg # 0 => breg = 1 /\ cps[1].kind = "trie"
  BY IdleBottom
<1>2. CASE CallIncomplete
  <2>1. /\ Calling /\ sf[Goal].exists /\ ~ is_completed(Goal)
    BY <1>2 DEF CallIncomplete
  <2>2. Goal \in Subgoals
    BY <2>1, CalledGoal
  <2>3. Goal \in Range(frames)
    BY <2>1, <2>2 DEF Typed, Opened, is_completed
  <2> QED
    BY <2>3 DEF Range
<1>3. CASE IgnoreAnswer \/ NewAnswer
  BY <1>1, <1>3 DEF IgnoreAnswer, NewAnswer, Proved
<1>4. CASE \/ NextClause \/ AnswerReturn
           \/ ScheduleOwnConsumers \/ ScheduleScc \/ CompleteScc \/ makeConsumerFromGenerator
  BY <1>1, <1>4
     DEF NextClause, AnswerReturn, ScheduleOwnConsumers, ScheduleScc, CompleteScc,
         makeConsumerFromGenerator, CheckingComplete, Backtracking
<1> QED
  BY <1>2, <1>3, <1>4

(* Steps of open subgoals give nothing. *)
LEMMA OpenStays ==
  ASSUME Typed, Shape, Shape', Delivers,
         \/ CallIncomplete \/ IgnoreAnswer \/ NewAnswer \/ NextClause \/ AnswerReturn
         \/ ScheduleOwnConsumers \/ ScheduleScc \/ makeConsumerFromGenerator
  PROVE  Delivers'
<1>1. frames # <<>>
  BY OnlyOpen
<1>2. UNCHANGED <<todo, got, frames>>
  BY DEF CallIncomplete, IgnoreAnswer, NewAnswer, NextClause, AnswerReturn, stacks,
         ScheduleOwnConsumers, ScheduleScc, makeConsumerFromGenerator
<1> QED
  BY <1>1, <1>2, OpenDelivers

(* The user gets the answer that is on its way. *)
LEMMA AnswerQueryDelivers ==
  ASSUME Typed, Shape, Delivers, AnswerQuery
  PROVE  Delivers'
<1>1. /\ at # Failed /\ at.root = NoGoal /\ at.lit > 1
      /\ got' = got \cup {at.val} /\ at' = Failed
      /\ UNCHANGED <<program, todo, sf, cps, breg, frames>>
  BY DEF AnswerQuery, stacks
<1>2. at # AskQuery
  BY <1>1, AskQueryOf
<1>3. frames = <<>>
  BY <1>1, OpenBottom
<1>4. Passing = {at.val} /\ Passing' = {} /\ Left' = Left
  BY <1>1 DEF Passing, Left, Failed
<1>5. todo # <<>>
  BY <1>1 DEF Typed
<1>6. is_completed(Head(todo)) /\ Answers(Head(todo)) = got \cup Left \cup Passing
  BY <1>2, <1>3, <1>5 DEF Delivers, Returning
<1>7. PICK s : s = Head(todo)
  OBVIOUS
<1>8. is_completed(s)' /\ Answers(s)' = Answers(s)
  BY <1>1, <1>6, <1>7 DEF Answers, is_completed
<1>9. Returning'
  BY <1>1, <1>4, <1>6, <1>7, <1>8 DEF Returning
<1>10. Asking'
  BY <1>1, <1>3, FailedIsNot DEF Asking
<1> QED
  BY <1>9, <1>10 DEF Delivers

(* One answer of the trie is on its way, the others are left. *)
LEMMA TrieAnswerDelivers ==
  ASSUME Typed, Shape, Shape', Delivers, TrieAnswer
  PROVE  Delivers'
<1>1. PICK y \in cps[breg].left :
        /\ at' = Return(cps[breg].cont, y)
        /\ IF cps[breg].left = {y}
             THEN breg' = cps[breg].prev /\ UNCHANGED cps
             ELSE cps' = [cps EXCEPT ![breg].left = @ \ {y}] /\ UNCHANGED breg
  BY DEF TrieAnswer
<1>2. at = Failed /\ breg # 0 /\ UNCHANGED <<todo, got, sf, frames>>
  BY DEF TrieAnswer, Backtracking
<1>3. CASE frames # <<>>
  BY <1>2, <1>3, OpenDelivers
<1>4. CASE frames = <<>>
  <2>1. breg = 1 /\ cps[1].prev = 0 /\ cps[1].cont = AskQuery
    BY <1>2, <1>4, IdleBottom
  <2>2. /\ 1 \in 1..Len(cps) /\ cps[1] \in Slots /\ cps[1] \in Slot(Len(cps))
        /\ cps[1].goal \in Subgoals /\ todo # <<>>
    BY <2>1, Breg
  <2>3. y \in Answers(cps[1].goal)
    BY <1>1, <2>1, <2>2 DEF Slots
  <2>4. at' # Failed /\ at' # AskQuery /\ at'.val = y
    BY <1>1, <2>1, <2>2, <2>3, UserGets
  <2>5. Left = cps[1].left /\ Passing = {} /\ Passing' = {y}
    BY <1>2, <2>1, <2>4 DEF Left, Passing, Failed
  <2>6. Left' = cps[1].left \ {y}
    <3>1. CASE cps[1].left = {y}
      <4>1. breg' = 0
        BY <1>1, <2>1, <3>1
      <4> QED
        BY <3>1, <4>1 DEF Left
    <3>2. CASE cps[1].left # {y}
      <4>1. breg' = 1 /\ cps' = [cps EXCEPT ![1].left = cps[1].left \ {y}]
        BY <1>1, <2>1, <3>2
      <4>2. PICK cp : cp = [cps[1] EXCEPT !.left = cps[1].left \ {y}]
        OBVIOUS
      <4>3. cp.left = cps[1].left \ {y}
        BY <2>2, <4>2 DEF Slot
      <4>4. cps'[1] = cp
        BY <2>2, <4>1, <4>2, StackTyped
      <4> QED
        BY <4>1, <4>3, <4>4 DEF Left
    <3> QED
      BY <3>1, <3>2
  <2>7. y \in cps[1].left
    BY <1>1, <2>1
  <2>8. at # AskQuery
    BY <1>2, FailedIsNot
  <2>9. is_completed(Head(todo)) /\ Answers(Head(todo)) = got \cup Left \cup Passing
    BY <1>4, <2>2, <2>8 DEF Delivers, Returning
  <2>10. PICK s : s = Head(todo)
    OBVIOUS
  <2>11. is_completed(s)' /\ Answers(s)' = Answers(s)
    BY <1>2, <2>9, <2>10 DEF Answers, is_completed
  <2>12. Answers(s)' = got' \cup Left' \cup Passing'
    BY <1>2, <2>5, <2>6, <2>7, <2>9, <2>10, <2>11
  <2>13. Returning'
    BY <1>2, <2>10, <2>11, <2>12 DEF Returning
  <2>14. Asking'
    BY <1>2, <1>4, <2>4 DEF Asking
  <2> QED
    BY <2>13, <2>14 DEF Delivers
<1> QED
  BY <1>3, <1>4

(* The next query begins with nothing given. *)
LEMMA NextQueryDelivers ==
  ASSUME Typed, Shape, NextQuery
  PROVE  Delivers'
<1>1. /\ breg = 0 /\ todo' = Tail(todo) /\ got' = {} /\ UNCHANGED frames
      /\ at' = IF Tail(todo) = <<>> THEN Failed ELSE AskQuery
  BY DEF NextQuery, stacks
<1>2. frames = <<>>
  BY <1>1, OpenBottom
<1> QED
  BY <1>1, <1>2 DEF Delivers, Asking, Returning

(* The completion of the query starts to return all of its answers. *)
LEMMA CompleteSccDelivers ==
  ASSUME Typed, Typed', Shape, Shape', Delivers, CompleteScc
  PROVE  Delivers'
<1>1. PICK L, g : L = FrameOf(Checked) /\ g = breg
  OBVIOUS
<1>2. /\ L \in leaders /\ frames[L] = cps[g].goal
      /\ L = 1 => cps[g].prev = 0 /\ cps[g].cont = AskQuery
      /\ L = 1 <=> breg = root_address
      /\ cps[g].goal \in Subgoals /\ sf[cps[g].goal].exists
  BY <1>1, Completing
<1>3. /\ sf' = [s \in Subgoals |-> IF s \in {frames[f] : f \in L..Len(frames)}
                                     THEN mark_as_completed(sf[s]) ELSE sf[s]]
      /\ frames' = SubSeq(frames, 1, L - 1)
      /\ reclaim_stacks
      /\ UNCHANGED <<todo, got>>
  BY <1>1 DEF CompleteScc, CompleteSimplifyAndReclaim
<1>4. /\ frames # <<>> /\ todo # <<>> /\ 1 \in DOMAIN frames
      /\ L \in 1..Len(frames) /\ Len(frames) \in Nat /\ frames \in Seq(Subgoals)
  BY <1>2, OnlyOpen, OpenBottom, Numbers DEF Typed
<1>5. CASE L # 1
  <2>1. L - 1 \in 1..Len(frames) /\ 1 \in 1..L - 1
    BY <1>4, <1>5
  <2>2. Len(frames') = L - 1 /\ frames'[1] = frames[1]
    BY <1>3, <1>4, <2>1
  <2>3. frames' # <<>>
    BY <2>1, <2>2
  <2> QED
    BY <1>3, <1>4, <2>2, <2>3, OpenDelivers
<1>6. CASE L = 1
  <2>1. PICK s : s = cps[g].goal
    OBVIOUS
  <2>2. frames' = <<>> /\ s = Head(todo) /\ got = {} /\ s \in Subgoals
    <3>1. frames' = <<>>
      BY <1>3, <1>4, <1>6
    <3> QED
      BY <1>2, <1>4, <1>6, <2>1, <3>1 DEF Delivers, Asking
  <2>3. /\ sf'[s].exists /\ sf'[s].is_complete /\ sf'[s].answers = sf[s].answers
    <3>1. s \in {frames[f] : f \in L..Len(frames)}
      BY <1>2, <1>4, <1>6, <2>1
    <3>2. sf'[s] = mark_as_completed(sf[s])
      BY <1>3, <2>2, <3>1
    <3> QED
      BY <1>2, <2>1, <2>2, <3>2, MarkAsCompleted DEF Typed
  <2>4. at' # AskQuery /\ Answers(s) = Left' \cup Passing'
    <3>1. CASE sf[Checked].answers = <<>>
      <4>1. breg' = 0 /\ at' = Failed
        BY <1>1, <1>2, <1>6, <3>1
           DEF CompleteScc, SetupReturnFromLeader, CheckingComplete, Backtracking
      <4>2. Left' = {} /\ Passing' = {}
        BY <4>1 DEF Left, Passing, Failed
      <4>3. Answers(s) = {}
        BY <1>1, <2>1, <3>1 DEF Answers, Range, Checked
      <4> QED
        BY <4>1, <4>2, <4>3, FailedIsNot
    <3>2. CASE sf[Checked].answers # <<>>
      <4>1. PICK place, prev, top :
              place = cps[g].cont /\ prev = cps[g].prev /\ top = Max({prev, bfreg'}) + 1
        OBVIOUS
      <4>2. AnswerFromTrie(s, place, prev, top)
        BY <1>1, <2>1, <3>2, <4>1
           DEF CompleteScc, SetupReturnFromLeader, AnswerFromTrie, Checked
      <4>3. bfreg' = 0
        BY <1>1, <1>2, <1>3, <1>6 DEF reclaim_stacks
      <4>4. place = AskQuery /\ prev = 0 /\ top = Max({0, 0}) + 1
        BY <1>2, <1>6, <4>1, <4>3
      <4>5. top = 1
        BY <4>4, MaxOf
      <4> QED
        BY <2>2, <4>2, <4>4, <4>5, FirstGiven
    <3> QED
      BY <3>1, <3>2
  <2>5. is_completed(s)' /\ Answers(s)' = Answers(s)
    BY <2>3 DEF is_completed, Answers
  <2>6. Answers(s)' = got' \cup Left' \cup Passing'
    BY <1>3, <2>2, <2>4, <2>5
  <2>7. Returning'
    BY <1>3, <2>2, <2>5, <2>6 DEF Returning
  <2>8. Asking'
    BY <2>2, <2>4 DEF Asking
  <2> QED
    BY <2>7, <2>8 DEF Delivers
<1> QED
  BY <1>5, <1>6

(* Every step keeps what the user has and will have. *)
LEMMA StepDelivers ==
  ASSUME Typed, Typed', Shape, Shape', Delivers, [Next]_vars
  PROVE  Delivers'
<1>1. CASE CallNew
  BY <1>1, CallNewDelivers
<1>2. CASE CallCompleted
  BY <1>2, CallCompletedDelivers
<1>3. CASE AnswerQuery
  BY <1>3, AnswerQueryDelivers
<1>4. CASE TrieAnswer
  BY <1>4, TrieAnswerDelivers
<1>5. CASE NextQuery
  BY <1>5, NextQueryDelivers
<1>6. CASE CompleteScc
  BY <1>6, CompleteSccDelivers
<1>7. CASE \/ CallIncomplete \/ IgnoreAnswer \/ NewAnswer \/ NextClause \/ AnswerReturn
           \/ ScheduleOwnConsumers \/ ScheduleScc \/ makeConsumerFromGenerator
  BY <1>7, OpenStays
<1>8. CASE UNCHANGED vars
  <2>1. UNCHANGED <<todo, got, sf, cps, breg, frames, at>>
    BY <1>8 DEF vars
  <2>2. Asking'
    BY <2>1 DEF Delivers, Asking
  <2>3. Returning'
    BY <2>1 DEF Delivers, Returning, Left, Passing, Answers, is_completed
  <2> QED
    BY <2>2, <2>3 DEF Delivers
<1> QED
  BY <1>1, <1>2, <1>3, <1>4, <1>5, <1>6, <1>7, <1>8 DEF Next, Step, Idle

(* The inductive invariant of the way to the user. *)
LEMMA SpecDelivers == Spec => [](Typed /\ Shape /\ Delivers)
<1> DEFINE Inv == Typed /\ Shape /\ Linked /\ Delivers
<1>1. Init => Inv
  <2>1. Init => Delivers
    BY DEF Init, Delivers, Asking, Returning
  <2> QED
    BY <2>1, InitTyped, InitShape
<1>2. Inv /\ [Next]_vars => Inv'
  BY StepTyped, StepShape, StepDelivers
<1>3. Inv => Typed /\ Shape /\ Delivers
  OBVIOUS
<1> HIDE DEF Inv
<1> QED
  BY <1>1, <1>2, <1>3, PTL DEF Spec

(* When a query has failed back to the user its table is complete, and he  *)
(* was given the answers in the table and no others: none is overwritten   *)
(* on the stack or left behind when the leader returns them.               *)
GivenTheTable ==
  at = Failed /\ breg = 0 /\ todo # <<>> =>
    is_completed(Head(todo)) /\ got = Answers(Head(todo))

(* It gives the property of the query that has failed. *)
LEMMA TableGiven == ASSUME Typed, Shape, Delivers PROVE GivenTheTable
<1> SUFFICES ASSUME at = Failed, breg = 0, todo # <<>>
             PROVE  is_completed(Head(todo)) /\ got = Answers(Head(todo))
  BY DEF GivenTheTable
<1>1. frames = <<>> /\ at # AskQuery
  BY OpenBottom, FailedIsNot
<1>2. Left = {} /\ Passing = {}
  BY DEF Left, Passing
<1> QED
  BY <1>1, <1>2 DEF Delivers, Returning

(* When a query has failed back to the user, its table is complete and he  *)
(* has been given the answers that are in it, all of them and no other;    *)
(* answers are not returned before completion and are not lost when the    *)
(* stacks are cut. *)
THEOREM QueryGivesTable == Spec => []GivenTheTable
BY SpecDelivers, TableGiven, PTL

(* The answers that the user is given are those of the least model,        *)
(* whenever the tables that are complete hold theirs: QueryAnswered can be *)
(* broken by the completion of an SCC only, not on the way to the user.    *)
THEOREM QueryAnsweredByTables == Spec => [](CompletedHasAll => QueryAnswered)
<1>1. Typed /\ GivenTheTable => (CompletedHasAll => QueryAnswered)
  <2> SUFFICES ASSUME Typed, GivenTheTable, CompletedHasAll, at = Failed, breg = 0, todo # <<>>
               PROVE  got = ModelOf(Head(todo))
    BY DEF QueryAnswered
  <2>1. Head(todo) \in Subgoals
    BY DEF Typed
  <2> QED
    BY <2>1 DEF GivenTheTable, CompletedHasAll
<1> QED
  BY <1>1, SpecTyped, QueryGivesTable, PTL
=============================================================================
