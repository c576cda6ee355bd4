------------------------- MODULE SharedTablesProofs -------------------------
(***************************************************************************)
(* Proofs about SharedTables for any threads, any programs, any predicates *)
(* and either order of completing_mut, until a deadlock is broken          *)
(* (NoneBroken): the types, that one thread evaluates each subgoal, that a *)
(* thread finds what it consumes on its own stack, that threads do not     *)
(* wait in a circle, and that they implement CompletedTables.  After a     *)
(* leader took subgoals from others there are runs of the code in which a  *)
(* subgoal has two evaluators, a thread consumes from a frame it has not,  *)
(* and, where completing_mut goes out of turn, a table is incomplete.      *)
(*                                                                         *)
(* The hypothesis holds of all programs without recursion, if              *)
(* completing_mut is given in turn: what is proved of them last needs it   *)
(* no more.                                                                *)
(***************************************************************************)
EXTENDS SharedTables, FiniteSetTheorems, SequenceTheorems, WellFoundedInduction, TLAPS

-----------------------------------------------------------------------------
(* THE STACK OF A THREAD *)

(* The frame f is at a call of s. *)
Asks(c, f, s) == f.at <= Len(c[f.sub]) /\ c[f.sub][f.at] = s

(* Nothing but queries is below the first leader, a frame that is left is  *)
(* exhausted, and an open frame is that of the call at which the open      *)
(* frame before it is. *)
WellFormed(c, t, st) ==
    /\ st \in Seq(FrameType) /\ Len(st) > 0
    /\ st[1].sub = t /\ st[1].open
    /\ \A i \in 2 .. Len(st) : st[i].sub \in Subgoals
    /\ \A i, j \in 1 .. Len(st) : st[i].sub = st[j].sub => i = j
    /\ Len(st) > 1 => st[2].lead
    /\ \A i \in 1 .. Len(st) : st[i].at \in 1 .. Len(c[st[i].sub]) + 1
    /\ \A i \in 1 .. Len(st) :
         st[i].open \/ (~ st[i].lead /\ st[i].at = Len(c[st[i].sub]) + 1)
    /\ \A i, j \in 1 .. Len(st) :
         /\ j < i /\ st[i].open /\ st[j].open
         /\ \A k \in j + 1 .. i - 1 : ~ st[k].open
         => Asks(c, st[j], st[i].sub)

(* What frame i has called is completed, or in the SCC of frame i. *)
Settled(st, i, s, done) ==
    \/ s \in done
    \/ \E p \in 2 .. Len(st) :
         st[p].sub = s /\ \A l \in 1 .. i : st[l].lead => l <= p

Covered(c, st, done) ==
    \A i \in 1 .. Len(st) : \A n \in 1 .. st[i].at - 1 :
        Settled(st, i, c[st[i].sub][n], done)

IsTop(st, m) ==
    /\ m \in 1 .. Len(st) /\ st[m].open
    /\ \A k \in m + 1 .. Len(st) : ~ st[k].open

Top(st) == Max({i \in DOMAIN st : st[i].open})

(* A set of numbers with a bound has a greatest. *)
LEMMA Greatest ==
    ASSUME NEW n \in Nat, NEW S \in SUBSET (1 .. n), S # {}
    PROVE  /\ Max(S) \in S
           /\ \A k \in S : k <= Max(S)
<1> DEFINE R == OpToRel(<, Nat)
           D == {n - k : k \in S}
<1>1. IsWellFoundedOn(R, Nat)
  BY NatLessThanWellFounded
<1>2. \A x, y \in Nat : x < y => <<x, y>> \in R
  BY DEF OpToRel
<1> HIDE DEF R
<1>3. D \in SUBSET Nat /\ D # {}
  <2>1. \A k \in S : n - k \in Nat
    OBVIOUS
  <2> QED
    BY <2>1
<1>4. PICK m \in D : \A k \in D : ~ (<<k, m>> \in R)
  <2> HIDE DEF D
  <2> QED
    BY <1>1, <1>3, WFMin
<1>5. PICK x \in S : m = n - x
  BY <1>4
<1>6. \A k \in S : x >= k
  <2> TAKE k \in S
  <2>1. ~ (n - k < n - x)
    BY <1>2, <1>3, <1>4, <1>5
  <2> QED
    BY <2>1
<1>7. Max(S) \in S /\ \A k \in S : Max(S) >= k
  BY <1>6 DEF Max
<1> QED
  BY <1>7

(* A stack is a function on its places. *)
LEMMA StackIs ==
    ASSUME NEW st \in Seq(FrameType)
    PROVE  /\ Len(st) \in Nat /\ DOMAIN st = 1 .. Len(st)
           /\ \A i \in 1 .. Len(st) :
                /\ st[i] \in FrameType /\ st[i].at \in Nat
                /\ st[i].lead \in BOOLEAN /\ st[i].open \in BOOLEAN
                /\ st[i].sub \in Threads \cup Subgoals
<1>1. /\ Len(st) \in Nat /\ DOMAIN st = 1 .. Len(st)
      /\ \A i \in 1 .. Len(st) : st[i] \in FrameType
  BY LenProperties, ElementOfSeq
<1> QED
  BY <1>1 DEF FrameType

(* The newest open frame is the only one with none above it. *)
LEMMA TopOf ==
    ASSUME NEW c, NEW t, NEW st, WellFormed(c, t, st)
    PROVE  /\ IsTop(st, Top(st))
           /\ \A m : IsTop(st, m) => m = Top(st)
<1>1. st \in Seq(FrameType) /\ Len(st) > 0 /\ st[1].open
  BY DEF WellFormed
<1>2. Len(st) \in Nat /\ DOMAIN st = 1 .. Len(st)
  BY <1>1, StackIs
<1> DEFINE S == {i \in DOMAIN st : st[i].open}
<1>3. S \in SUBSET (1 .. Len(st)) /\ 1 \in S
  BY <1>1, <1>2
<1>4. Max(S) \in S /\ \A k \in S : k <= Max(S)
  BY <1>2, <1>3, Greatest
<1>5. Top(st) = Max(S)
  BY DEF Top
<1>6. Top(st) \in 1 .. Len(st) /\ st[Top(st)].open /\ \A k \in 1 .. Len(st) : st[k].open => k <= Top(st)
  BY <1>2, <1>4, <1>5
<1>7. IsTop(st, Top(st))
  BY <1>2, <1>6 DEF IsTop
<1>8. ASSUME NEW m, IsTop(st, m) PROVE m = Top(st)
  <2>1. m \in 1 .. Len(st) /\ st[m].open
    BY <1>8 DEF IsTop
  <2>2. m <= Top(st)
    BY <1>6, <2>1
  <2>3. ~ (Top(st) > m)
    BY <1>2, <1>6, <1>8 DEF IsTop
  <2> QED
    BY <1>2, <1>6, <2>1, <2>2, <2>3
<1> QED
  BY <1>7, <1>8

(* The newest frame with another field. *)
LEMMA FrameAt ==
    ASSUME NEW f \in FrameType, NEW n \in Nat
    PROVE  /\ [f EXCEPT !.at = n] \in FrameType
           /\ [f EXCEPT !.at = n].at = n
           /\ [f EXCEPT !.at = n].sub = f.sub
           /\ [f EXCEPT !.at = n].lead = f.lead
           /\ [f EXCEPT !.at = n].open = f.open
BY DEF FrameType

(* The same for the leader's flag. *)
LEMMA FrameLead ==
    ASSUME NEW f \in FrameType, NEW b \in BOOLEAN
    PROVE  /\ [f EXCEPT !.lead = b] \in FrameType
           /\ [f EXCEPT !.lead = b].lead = b
           /\ [f EXCEPT !.lead = b].sub = f.sub
           /\ [f EXCEPT !.lead = b].at = f.at
           /\ [f EXCEPT !.lead = b].open = f.open
BY DEF FrameType

(* A frame whose generator choice point is left. *)
LEMMA FrameOpen ==
    ASSUME NEW f \in FrameType
    PROVE  /\ [f EXCEPT !.open = FALSE] \in FrameType
           /\ [f EXCEPT !.open = FALSE].open = FALSE
           /\ [f EXCEPT !.open = FALSE].sub = f.sub
           /\ [f EXCEPT !.open = FALSE].lead = f.lead
           /\ [f EXCEPT !.open = FALSE].at = f.at
BY DEF FrameType

(* While a query has no frame of its own the stack is bare. *)
LEMMA BareStack ==
    ASSUME NEW c, NEW t, NEW st, WellFormed(c, t, st), IsTop(st, 1)
    PROVE  Len(st) = 1
<1>1. Len(st) \in Nat /\ Len(st) > 0
  BY StackIs DEF WellFormed
<1>2. Len(st) > 1 => st[2].lead /\ st[2].open
  BY <1>1 DEF WellFormed
<1>3. Len(st) > 1 => ~ st[2].open
  BY <1>1 DEF IsTop
<1>4. PICK n \in Nat : n = Len(st)
  BY <1>1
<1>5. n > 0 /\ ~ (n > 1)
  BY <1>1, <1>2, <1>3, <1>4
<1>6. n = 1
  BY <1>5
<1> QED
  BY <1>4, <1>6

(* What a thread's stack is at any time. *)
Whole(c, t, st, done) == WellFormed(c, t, st) /\ Covered(c, st, done)

(* The same subgoals are on st1, in frames that m may have changed. *)
SameSubs(st, st1) ==
    /\ Len(st1) = Len(st)
    /\ \A i \in 1 .. Len(st) : st1[i].sub = st[i].sub

OneMore(st, f, st1) ==
    /\ Len(st1) = Len(st) + 1
    /\ \A i \in 1 .. Len(st) : st1[i] = st[i]
    /\ st1[Len(st) + 1] = f

(* The new frame of a call. *)
LEMMA FrameOf ==
    ASSUME NEW s \in Subgoals
    PROVE  /\ Frame(s) \in FrameType
           /\ Frame(s).sub = s /\ Frame(s).at = 1
           /\ Frame(s).lead = TRUE /\ Frame(s).open = TRUE
BY DEF Frame, FrameType

(* What pushing a frame makes of a stack. *)
LEMMA AppendIs ==
    ASSUME NEW st \in Seq(FrameType), NEW f \in FrameType
    PROVE  Append(st, f) \in Seq(FrameType) /\ OneMore(st, f, Append(st, f))
BY DEF OneMore

(* The subgoal that the newest open frame calls gets a frame of its own. *)
LEMMA PushWhole ==
    ASSUME NEW c, NEW t, NEW st, NEW done, Whole(c, t, st, done),
           NEW m, IsTop(st, m), NEW s \in Subgoals, Asks(c, st[m], s),
           c[s] \in Seq(Subgoals),
           \A i \in 1 .. Len(st) : st[i].sub # s
    PROVE  /\ Whole(c, t, Append(st, Frame(s)), done)
           /\ OneMore(st, Frame(s), Append(st, Frame(s)))
<1> DEFINE st1 == Append(st, Frame(s))
           f == Frame(s)
<1>1. st \in Seq(FrameType) /\ Len(st) > 0
  BY DEF Whole, WellFormed
<1>2. /\ Len(st) \in Nat /\ DOMAIN st = 1 .. Len(st)
      /\ \A i \in 1 .. Len(st) :
           /\ st[i] \in FrameType /\ st[i].at \in Nat
           /\ st[i].lead \in BOOLEAN /\ st[i].open \in BOOLEAN
           /\ st[i].sub \in Threads \cup Subgoals
  BY <1>1, StackIs
<1>3. f \in FrameType /\ f.sub = s /\ f.at = 1 /\ f.lead /\ f.open
  BY FrameOf
<1>4. st1 \in Seq(FrameType) /\ OneMore(st, f, st1)
  BY <1>1, <1>3, AppendIs
<1> HIDE DEF st1, f
<1>5. /\ Len(st1) = Len(st) + 1
      /\ \A i \in 1 .. Len(st) : st1[i] = st[i]
      /\ st1[Len(st) + 1] = f
  BY <1>4 DEF OneMore
<1>6. WellFormed(c, t, st1)
  <2>1. st1[1].sub = t /\ st1[1].open
    BY <1>1, <1>2, <1>5 DEF Whole, WellFormed
  <2>2. \A i \in 2 .. Len(st1) : st1[i].sub \in Subgoals
    <3> TAKE i \in 2 .. Len(st1)
    <3>1. CASE i = Len(st) + 1
      BY <1>3, <1>5, <3>1
    <3>2. CASE i # Len(st) + 1
      BY <1>1, <1>2, <1>5, <3>2 DEF Whole, WellFormed
    <3> QED
      BY <3>1, <3>2
  <2>3. ASSUME NEW i \in 1 .. Len(st1), NEW j \in 1 .. Len(st1), st1[i].sub = st1[j].sub
        PROVE  i = j
    <3>1. \A k \in 1 .. Len(st) : st1[k].sub # s
      BY <1>5
    <3>2. CASE i = Len(st) + 1 \/ j = Len(st) + 1
      BY <1>2, <1>3, <1>5, <2>3, <3>1, <3>2
    <3>3. CASE i # Len(st) + 1 /\ j # Len(st) + 1
      <4>1. i \in 1 .. Len(st) /\ j \in 1 .. Len(st)
        BY <1>2, <1>5, <3>3
      <4> QED
        BY <1>5, <2>3, <4>1 DEF Whole, WellFormed
    <3> QED
      BY <3>2, <3>3
  <2>4. st1[2].lead
    <3>1. CASE Len(st) = 1
      BY <1>3, <1>5, <3>1
    <3>2. CASE Len(st) > 1
      BY <1>2, <1>5, <3>2 DEF Whole, WellFormed
    <3> QED
      BY <1>1, <1>2, <3>1, <3>2
  <2>5. ASSUME NEW i \in 1 .. Len(st1)
        PROVE  /\ st1[i].at \in 1 .. Len(c[st1[i].sub]) + 1
               /\ st1[i].open \/ (~ st1[i].lead /\ st1[i].at = Len(c[st1[i].sub]) + 1)
    <3>1. CASE i = Len(st) + 1
      <4>1. Len(c[s]) \in Nat
        BY LenProperties
      <4> QED
        BY <1>3, <1>5, <3>1, <4>1
    <3>2. CASE i # Len(st) + 1
      <4>1. i \in 1 .. Len(st)
        BY <1>2, <1>5, <3>2
      <4> QED
        BY <1>5, <4>1 DEF Whole, WellFormed
    <3> QED
      BY <3>1, <3>2
  <2>6. ASSUME NEW i \in 1 .. Len(st1), NEW j \in 1 .. Len(st1),
               j < i, st1[i].open, st1[j].open, \A k \in j + 1 .. i - 1 : ~ st1[k].open
        PROVE  Asks(c, st1[j], st1[i].sub)
    <3>1. j \in 1 .. Len(st)
      BY <1>2, <1>5, <2>6
    <3>2. CASE i = Len(st) + 1
      <4>1. j = m
        <5>1. m \in 1 .. Len(st) /\ st[m].open
          BY DEF IsTop
        <5>2. ~ (m \in j + 1 .. i - 1)
          BY <1>5, <2>6, <5>1
        <5>3. ~ (j \in m + 1 .. Len(st))
          BY <1>5, <2>6, <3>1 DEF IsTop
        <5> QED
          BY <1>2, <3>1, <3>2, <5>1, <5>2, <5>3
      <4> QED
        BY <1>3, <1>5, <3>1, <3>2, <4>1
    <3>3. CASE i # Len(st) + 1
      <4>1. i \in 1 .. Len(st)
        BY <1>2, <1>5, <3>3
      <4>2. \A k \in j + 1 .. i - 1 : ~ st[k].open
        BY <1>2, <1>5, <2>6, <3>1, <4>1
      <4> QED
        BY <1>5, <2>6, <3>1, <4>1, <4>2 DEF Whole, WellFormed
    <3> QED
      BY <3>2, <3>3
  <2> QED
    BY <1>2, <1>4, <1>5, <2>1, <2>2, <2>3, <2>4, <2>5, <2>6 DEF WellFormed
<1>7. Covered(c, st1, done)
  <2> SUFFICES ASSUME NEW i \in 1 .. Len(st1), NEW n \in 1 .. st1[i].at - 1
               PROVE  Settled(st1, i, c[st1[i].sub][n], done)
    BY DEF Covered
  <2>1. i # Len(st) + 1
    BY <1>3, <1>5
  <2>2. i \in 1 .. Len(st) /\ st1[i] = st[i]
    BY <1>2, <1>5, <2>1
  <2>3. Settled(st, i, c[st[i].sub][n], done)
    BY <2>2 DEF Whole, Covered
  <2> QED
    BY <1>2, <1>5, <2>2, <2>3 DEF Settled
<1> QED
  BY <1>4, <1>6, <1>7 DEF Whole, st1, f

(* Frame m is at n, or its generator is left; nothing else changes. *)
Changed(st, m, f, st1) ==
    /\ Len(st1) = Len(st)
    /\ \A i \in 1 .. Len(st) : st1[i] = IF i = m THEN f ELSE st[i]

(* What changing one frame makes of a stack. *)
LEMMA ExceptIs ==
    ASSUME NEW st \in Seq(FrameType), NEW m \in 1 .. Len(st), NEW f \in FrameType
    PROVE  [st EXCEPT ![m] = f] \in Seq(FrameType) /\ Changed(st, m, f, [st EXCEPT ![m] = f])
<1>1. Len(st) \in Nat /\ DOMAIN st = 1 .. Len(st)
  BY StackIs
<1>2. /\ [st EXCEPT ![m] = f] \in Seq(FrameType)
      /\ Len([st EXCEPT ![m] = f]) = Len(st)
  BY ExceptSeq
<1>3. \A i \in 1 .. Len(st) : [st EXCEPT ![m] = f][i] = IF i = m THEN f ELSE st[i]
  BY <1>1
<1> QED
  BY <1>2, <1>3 DEF Changed

(* What the newest open frame m calls is settled: the frame goes on to its *)
(* next clause, in st1. *)
Retries(c, t, st, done, m, st1) ==
    /\ Whole(c, t, st1, done) /\ SameSubs(st, st1)
    /\ \A i \in 1 .. Len(st) : i # m => st1[i] = st[i]
    /\ st1[m].at = st[m].at + 1

(* A frame whose call is settled goes on: all that it called so far is    *)
(* settled. *)
LEMMA RetryWhole ==
    ASSUME NEW c, NEW t, NEW st, NEW done, Whole(c, t, st, done),
           NEW m, IsTop(st, m), NEW s, Asks(c, st[m], s), Settled(st, m, s, done),
           Len(c[st[m].sub]) \in Nat
    PROVE  Retries(c, t, st, done, m, Retried(st))
<1>1. st \in Seq(FrameType) /\ Len(st) > 0 /\ m \in 1 .. Len(st) /\ st[m].open
  BY DEF Whole, WellFormed, IsTop
<1>2. /\ Len(st) \in Nat /\ DOMAIN st = 1 .. Len(st)
      /\ \A i \in 1 .. Len(st) :
           /\ st[i] \in FrameType /\ st[i].at \in Nat
           /\ st[i].lead \in BOOLEAN /\ st[i].open \in BOOLEAN
           /\ st[i].sub \in Threads \cup Subgoals
  BY <1>1, StackIs
<1> DEFINE f == [st[m] EXCEPT !.at = st[m].at + 1]
           st1 == Retried(st)
<1>3. /\ f \in FrameType /\ f.at = st[m].at + 1 /\ f.sub = st[m].sub
      /\ f.lead = st[m].lead /\ f.open = st[m].open
  <2>1. st[m] \in FrameType /\ st[m].at + 1 \in Nat
    BY <1>1, <1>2
  <2> QED
    BY <2>1, FrameAt
<1>4. st1 = [st EXCEPT ![m] = f]
  <2>1. m = Top(st)
    BY TopOf DEF Whole
  <2> QED
    BY <2>1 DEF Retried, Top
<1> HIDE DEF f, st1
<1>5. st1 \in Seq(FrameType) /\ Changed(st, m, f, st1)
  BY <1>1, <1>3, <1>4, ExceptIs
<1>6. /\ Len(st1) = Len(st)
      /\ \A i \in 1 .. Len(st) :
           /\ i # m => st1[i] = st[i]
           /\ st1[i].sub = st[i].sub /\ st1[i].lead = st[i].lead /\ st1[i].open = st[i].open
      /\ st1[m].at = st[m].at + 1
  BY <1>1, <1>3, <1>5 DEF Changed
<1>7. WellFormed(c, t, st1)
  <2>a. st[1].sub = t /\ st[1].open /\ (Len(st) > 1 => st[2].lead)
    BY DEF Whole, WellFormed
  <2>b. \A i \in 2 .. Len(st) : st[i].sub \in Subgoals
    BY DEF Whole, WellFormed
  <2>c. \A i, j \in 1 .. Len(st) : st[i].sub = st[j].sub => i = j
    BY DEF Whole, WellFormed
  <2>1. /\ st1[1].sub = t /\ st1[1].open
        /\ \A i \in 2 .. Len(st1) : st1[i].sub \in Subgoals
        /\ \A i, j \in 1 .. Len(st1) : st1[i].sub = st1[j].sub => i = j
        /\ Len(st1) > 1 => st1[2].lead
    BY <1>1, <1>2, <1>6, <2>a, <2>b, <2>c
  <2>2. ASSUME NEW i \in 1 .. Len(st1)
        PROVE  /\ st1[i].at \in 1 .. Len(c[st1[i].sub]) + 1
               /\ st1[i].open \/ (~ st1[i].lead /\ st1[i].at = Len(c[st1[i].sub]) + 1)
    <3>1. CASE i = m
      BY <1>1, <1>2, <1>6, <3>1 DEF Whole, WellFormed, Asks
    <3>2. CASE i # m
      BY <1>6, <3>2 DEF Whole, WellFormed
    <3> QED
      BY <3>1, <3>2
  <2>3. ASSUME NEW i \in 1 .. Len(st1), NEW j \in 1 .. Len(st1),
               j < i, st1[i].open, st1[j].open, \A k \in j + 1 .. i - 1 : ~ st1[k].open
        PROVE  Asks(c, st1[j], st1[i].sub)
    <3>1. i \in 1 .. Len(st) /\ j \in 1 .. Len(st) /\ st[i].open /\ st[j].open
      BY <1>6, <2>3
    <3>2. \A k \in j + 1 .. i - 1 : ~ st[k].open
      BY <1>2, <1>6, <2>3, <3>1
    <3>3. Asks(c, st[j], st[i].sub)
      BY <2>3, <3>1, <3>2 DEF Whole, WellFormed
    <3>4. j # m
      BY <1>2, <2>3, <3>1 DEF IsTop
    <3> QED
      BY <1>6, <3>1, <3>3, <3>4
  <2> QED
    BY <1>1, <1>2, <1>5, <1>6, <2>1, <2>2, <2>3 DEF WellFormed
<1>8. Covered(c, st1, done)
  <2>1. ASSUME NEW i \in 1 .. Len(st), NEW x, Settled(st, i, x, done)
        PROVE  Settled(st1, i, x, done)
    BY <1>2, <1>6, <2>1 DEF Settled
  <2> SUFFICES ASSUME NEW i \in 1 .. Len(st1), NEW n \in 1 .. st1[i].at - 1
               PROVE  Settled(st1, i, c[st1[i].sub][n], done)
    BY DEF Covered
  <2>2. i \in 1 .. Len(st)
    BY <1>6
  <2>3. CASE i = m /\ n = st[m].at
    BY <1>6, <2>1, <2>2, <2>3 DEF Asks
  <2>4. CASE ~ (i = m /\ n = st[m].at)
    <3>1. n \in 1 .. st[i].at - 1
      BY <1>2, <1>6, <2>2, <2>4
    <3> QED
      BY <1>6, <2>1, <2>2, <3>1 DEF Whole, Covered
  <2> QED
    BY <2>3, <2>4
<1> QED
  BY <1>6, <1>7, <1>8 DEF Whole, SameSubs, Retries, st1

(* More subgoals are completed. *)
LEMMA MoreDone ==
    ASSUME NEW c, NEW t, NEW st, NEW done, NEW more, Whole(c, t, st, done), done \subseteq more
    PROVE  Whole(c, t, st, more)
BY DEF Whole, Covered, Settled

(* The frames above p join its SCC. *)
JoinedAt(st, p) == [i \in DOMAIN st |-> [st[i] EXCEPT !.lead = @ /\ i <= p]]

(* adjust_level: the frames above p join its SCC, and what they called    *)
(* stays in theirs. *)
LEMMA JoinWhole ==
    ASSUME NEW c, NEW t, NEW st, NEW done, Whole(c, t, st, done), NEW p \in 2 .. Len(st)
    PROVE  /\ Whole(c, t, JoinedAt(st, p), done) /\ SameSubs(st, JoinedAt(st, p))
           /\ \A m : IsTop(st, m) => IsTop(JoinedAt(st, p), m)
           /\ \A i \in 1 .. Len(st) :
                /\ JoinedAt(st, p)[i].at = st[i].at
                /\ JoinedAt(st, p)[i].lead <=> st[i].lead /\ i <= p
<1> DEFINE st1 == JoinedAt(st, p)
<1>1. st \in Seq(FrameType) /\ Len(st) > 0
  BY DEF Whole, WellFormed
<1>2. /\ Len(st) \in Nat /\ DOMAIN st = 1 .. Len(st)
      /\ \A i \in 1 .. Len(st) :
           /\ st[i] \in FrameType /\ st[i].at \in Nat
           /\ st[i].lead \in BOOLEAN /\ st[i].open \in BOOLEAN
           /\ st[i].sub \in Threads \cup Subgoals
  BY <1>1, StackIs
<1>3. /\ DOMAIN st1 = 1 .. Len(st) /\ st1 = [i \in 1 .. Len(st) |-> st1[i]]
      /\ \A i \in 1 .. Len(st) : st1[i] = [st[i] EXCEPT !.lead = (st[i].lead /\ i <= p)]
  BY <1>2 DEF JoinedAt
<1> HIDE DEF st1
<1>4. \A i \in 1 .. Len(st) :
        /\ st1[i] \in FrameType
        /\ st1[i].at = st[i].at /\ st1[i].sub = st[i].sub /\ st1[i].open = st[i].open
        /\ st1[i].lead <=> st[i].lead /\ i <= p
  <2> TAKE i \in 1 .. Len(st)
  <2> DEFINE b == st[i].lead /\ i <= p
  <2>1. b \in BOOLEAN /\ st[i] \in FrameType /\ st1[i] = [st[i] EXCEPT !.lead = b]
    BY <1>2, <1>3
  <2> HIDE DEF b
  <2>2. /\ st1[i] \in FrameType
        /\ st1[i].at = st[i].at /\ st1[i].sub = st[i].sub /\ st1[i].open = st[i].open
        /\ st1[i].lead = b
    BY <2>1, FrameLead
  <2> QED
    BY <2>2 DEF b
<1>5. st1 \in Seq(FrameType) /\ Len(st1) = Len(st)
  <2>2. st1 \in [1 .. Len(st) -> FrameType]
    BY <1>3, <1>4
  <2> QED
    BY <1>2, <2>2, LenProperties, SeqDef
<1>6. \A m : IsTop(st, m) => IsTop(st1, m)
  BY <1>2, <1>4, <1>5 DEF IsTop
<1>7. WellFormed(c, t, st1)
  <2>a. st1[1].sub = t /\ st1[1].open
    BY <1>1, <1>2, <1>4 DEF Whole, WellFormed
  <2>b. \A i \in 2 .. Len(st) : i \in 1 .. Len(st) /\ st[i].sub \in Subgoals
    BY <1>2 DEF Whole, WellFormed
  <2>c. \A i, j \in 1 .. Len(st) : st[i].sub = st[j].sub => i = j
    BY DEF Whole, WellFormed
  <2>1. /\ st1[1].sub = t /\ st1[1].open
        /\ \A i \in 2 .. Len(st1) : st1[i].sub \in Subgoals
        /\ \A i, j \in 1 .. Len(st1) : st1[i].sub = st1[j].sub => i = j
    BY <1>4, <1>5, <2>a, <2>b, <2>c
  <2>2. st1[2].lead
    BY <1>2, <1>4 DEF Whole, WellFormed
  <2>3. ASSUME NEW i \in 1 .. Len(st1)
        PROVE  /\ st1[i].at \in 1 .. Len(c[st1[i].sub]) + 1
               /\ st1[i].open \/ (~ st1[i].lead /\ st1[i].at = Len(c[st1[i].sub]) + 1)
    BY <1>4, <1>5 DEF Whole, WellFormed
  <2>4. ASSUME NEW i \in 1 .. Len(st1), NEW j \in 1 .. Len(st1),
               j < i, st1[i].open, st1[j].open, \A k \in j + 1 .. i - 1 : ~ st1[k].open
        PROVE  Asks(c, st1[j], st1[i].sub)
    <3>1. i \in 1 .. Len(st) /\ j \in 1 .. Len(st) /\ st[i].open /\ st[j].open
      BY <1>4, <1>5, <2>4
    <3>2. \A k \in j + 1 .. i - 1 : ~ st[k].open
      BY <1>2, <1>4, <2>4, <3>1
    <3>3. Asks(c, st[j], st[i].sub)
      BY <2>4, <3>1, <3>2 DEF Whole, WellFormed
    <3> QED
      BY <1>4, <3>1, <3>3 DEF Asks
  <2> QED
    BY <1>1, <1>2, <1>5, <2>1, <2>2, <2>3, <2>4 DEF WellFormed
<1>8. Covered(c, st1, done)
  <2> SUFFICES ASSUME NEW i \in 1 .. Len(st1), NEW n \in 1 .. st1[i].at - 1
               PROVE  Settled(st1, i, c[st1[i].sub][n], done)
    BY DEF Covered
  <2>1. i \in 1 .. Len(st) /\ n \in 1 .. st[i].at - 1
    BY <1>4, <1>5
  <2>2. Settled(st, i, c[st[i].sub][n], done)
    BY <2>1 DEF Whole, Covered
  <2> QED
    BY <1>2, <1>4, <1>5, <2>1, <2>2 DEF Settled
<1> QED
  BY <1>4, <1>5, <1>6, <1>7, <1>8 DEF Whole, SameSubs, st1

(* The open frame below the newest one is at the call of its subgoal. *)
Before(st, m, k) ==
    /\ k \in 1 .. m - 1 /\ st[k].open
    /\ \A i \in k + 1 .. m - 1 : ~ st[i].open

(* Below an open frame there is one that is at the call of its subgoal. *)
LEMMA OpenBefore ==
    ASSUME NEW c, NEW t, NEW st, WellFormed(c, t, st), NEW m, IsTop(st, m), m # 1
    PROVE  \E k : Before(st, m, k) /\ Asks(c, st[k], st[m].sub)
<1>1. st \in Seq(FrameType) /\ Len(st) > 0 /\ st[1].open
  BY DEF WellFormed
<1>2. Len(st) \in Nat /\ m \in 1 .. Len(st) /\ st[m].open
  BY <1>1, StackIs DEF IsTop
<1> DEFINE S == {i \in 1 .. m - 1 : st[i].open}
<1>3. m - 1 \in Nat /\ S \in SUBSET (1 .. m - 1) /\ 1 \in S
  BY <1>1, <1>2
<1>4. Max(S) \in S /\ \A k \in S : k <= Max(S)
  <2> HIDE DEF S
  <2> QED
    BY <1>3, Greatest
<1>5. PICK k : k = Max(S)
  OBVIOUS
<1>6. k \in 1 .. m - 1 /\ st[k].open
  BY <1>4, <1>5
<1>7. \A i \in k + 1 .. m - 1 : ~ st[i].open
  <2> SUFFICES ASSUME NEW i \in k + 1 .. m - 1, st[i].open PROVE FALSE
    OBVIOUS
  <2>1. i \in 1 .. m - 1
    BY <1>2, <1>6
  <2>2. i \in S
    BY <2>1
  <2>3. i <= k
    BY <1>4, <1>5, <2>2
  <2> QED
    BY <1>2, <1>6, <2>3
<1>8. Before(st, m, k)
  BY <1>6, <1>7 DEF Before
<1>9. Asks(c, st[k], st[m].sub)
  <2>1. k \in 1 .. Len(st) /\ k < m
    BY <1>2, <1>6
  <2> QED
    BY <1>2, <1>6, <1>7, <2>1 DEF WellFormed
<1> QED
  BY <1>8, <1>9

(* What the frames from the leader of an exhausted SCC on have called is   *)
(* completed or in the SCC. *)
LEMMA SccClosed ==
    ASSUME NEW c, NEW t, NEW st, NEW done, Whole(c, t, st, done),
           NEW m, IsTop(st, m), st[m].lead, st[m].at = Len(c[st[m].sub]) + 1,
           NEW i \in m .. Len(st), Len(c[st[i].sub]) \in Nat,
           NEW n \in 1 .. Len(c[st[i].sub])
    PROVE  \/ c[st[i].sub][n] \in done
           \/ \E p \in m .. Len(st) : st[p].sub = c[st[i].sub][n]
<1>1. st \in Seq(FrameType)
  BY DEF Whole, WellFormed
<1>2. Len(st) \in Nat /\ m \in 1 .. Len(st) /\ i \in 1 .. Len(st)
  BY <1>1, StackIs DEF IsTop
<1>3. st[i].at = Len(c[st[i].sub]) + 1
  <2>1. CASE i = m
    BY <2>1
  <2>2. CASE i # m
    <3>1. ~ st[i].open
      BY <1>2, <2>2 DEF IsTop
    <3> QED
      BY <1>2, <3>1 DEF Whole, WellFormed
  <2> QED
    BY <2>1, <2>2
<1>5. n \in 1 .. st[i].at - 1
  BY <1>3
<1>6. Settled(st, i, c[st[i].sub][n], done)
  BY <1>2, <1>5 DEF Whole, Covered
<1>7. m \in 1 .. i
  BY <1>2
<1> QED
  BY <1>2, <1>6, <1>7 DEF Settled

(* A frame whose clauses are exhausted inside an SCC is left, and the call *)
(* of its subgoal is settled for the frame before it. *)
Left(st, m) == [st EXCEPT ![m].open = FALSE]

(* A generator becomes a consumer: the frame that called it goes on, as   *)
(* its SCC goes down at least as far. *)
LEMMA LeftWhole ==
    ASSUME NEW c, NEW t, NEW st, NEW done, Whole(c, t, st, done),
           NEW m, IsTop(st, m), m # 1, ~ st[m].lead, st[m].at = Len(c[st[m].sub]) + 1
    PROVE  /\ Whole(c, t, Left(st, m), done) /\ SameSubs(st, Left(st, m))
           /\ Left(st, m)[1] = st[1]
           /\ \E k : /\ k # 1 /\ IsTop(Left(st, m), k) /\ Asks(c, Left(st, m)[k], st[m].sub)
                     /\ Settled(Left(st, m), k, st[m].sub, done)
<1>1. st \in Seq(FrameType) /\ Len(st) > 0 /\ m \in 1 .. Len(st) /\ st[m].open
  BY DEF Whole, WellFormed, IsTop
<1>2. /\ Len(st) \in Nat /\ DOMAIN st = 1 .. Len(st)
      /\ \A i \in 1 .. Len(st) :
           /\ st[i] \in FrameType /\ st[i].at \in Nat
           /\ st[i].lead \in BOOLEAN /\ st[i].open \in BOOLEAN
           /\ st[i].sub \in Threads \cup Subgoals
  BY <1>1, StackIs
<1> DEFINE f == [st[m] EXCEPT !.open = FALSE]
           st1 == Left(st, m)
<1>3. /\ f \in FrameType /\ f.at = st[m].at /\ f.sub = st[m].sub
      /\ f.lead = st[m].lead /\ f.open = FALSE
  BY <1>1, <1>2, FrameOpen
<1>4. st1 = [st EXCEPT ![m] = f]
  BY DEF Left
<1> HIDE DEF f, st1
<1>5. st1 \in Seq(FrameType) /\ Changed(st, m, f, st1)
  BY <1>1, <1>3, <1>4, ExceptIs
<1>6. /\ Len(st1) = Len(st)
      /\ \A i \in 1 .. Len(st) :
           /\ i # m => st1[i] = st[i]
           /\ st1[i].sub = st[i].sub /\ st1[i].lead = st[i].lead /\ st1[i].at = st[i].at
           /\ st1[i].open <=> st[i].open /\ i # m
  BY <1>1, <1>2, <1>3, <1>5 DEF Changed
<1>7. m > 2
  <2>1. m = 2 => st[m].lead
    BY <1>1, <1>2 DEF Whole, WellFormed
  <2> QED
    BY <1>1, <1>2, <2>1
<1>8. WellFormed(c, t, st1)
  <2>a. st[1].sub = t /\ st[1].open /\ (Len(st) > 1 => st[2].lead)
    BY DEF Whole, WellFormed
  <2>b. \A i \in 2 .. Len(st) : st[i].sub \in Subgoals
    BY DEF Whole, WellFormed
  <2>c. \A i, j \in 1 .. Len(st) : st[i].sub = st[j].sub => i = j
    BY DEF Whole, WellFormed
  <2>1. /\ st1[1].sub = t /\ st1[1].open
        /\ \A i \in 2 .. Len(st1) : st1[i].sub \in Subgoals
        /\ \A i, j \in 1 .. Len(st1) : st1[i].sub = st1[j].sub => i = j
        /\ Len(st1) > 1 => st1[2].lead
    BY <1>1, <1>2, <1>6, <2>a, <2>b, <2>c
  <2>2. ASSUME NEW i \in 1 .. Len(st1)
        PROVE  /\ st1[i].at \in 1 .. Len(c[st1[i].sub]) + 1
               /\ st1[i].open \/ (~ st1[i].lead /\ st1[i].at = Len(c[st1[i].sub]) + 1)
    <3>1. /\ st[i].at \in 1 .. Len(c[st[i].sub]) + 1
          /\ st[i].open \/ (~ st[i].lead /\ st[i].at = Len(c[st[i].sub]) + 1)
      BY <1>6 DEF Whole, WellFormed
    <3> QED
      BY <1>6, <3>1
  <2>3. ASSUME NEW i \in 1 .. Len(st1), NEW j \in 1 .. Len(st1),
               j < i, st1[i].open, st1[j].open, \A k \in j + 1 .. i - 1 : ~ st1[k].open
        PROVE  Asks(c, st1[j], st1[i].sub)
    <3>1. i \in 1 .. Len(st) /\ j \in 1 .. Len(st) /\ st[i].open /\ st[j].open /\ i # m
      BY <1>6, <2>3
    <3>2. \A k \in j + 1 .. i - 1 : ~ st[k].open
      <4> SUFFICES ASSUME NEW k \in j + 1 .. i - 1, st[k].open PROVE FALSE
        OBVIOUS
      <4>1. k = m
        BY <1>2, <1>6, <2>3, <3>1
      <4>2. i \in m + 1 .. Len(st)
        BY <1>1, <1>2, <3>1, <4>1
      <4> QED
        BY <3>1, <4>2 DEF IsTop
    <3>3. Asks(c, st[j], st[i].sub)
      BY <2>3, <3>1, <3>2 DEF Whole, WellFormed
    <3> QED
      BY <1>6, <3>1, <3>3 DEF Asks
  <2> QED
    BY <1>1, <1>2, <1>5, <1>6, <2>1, <2>2, <2>3 DEF WellFormed
<1>9. ASSUME NEW i \in 1 .. Len(st), NEW x, Settled(st, i, x, done)
      PROVE  Settled(st1, i, x, done)
  BY <1>2, <1>6, <1>9 DEF Settled
<1>10. Covered(c, st1, done)
  <2> SUFFICES ASSUME NEW i \in 1 .. Len(st1), NEW n \in 1 .. st1[i].at - 1
               PROVE  Settled(st1, i, c[st1[i].sub][n], done)
    BY DEF Covered
  <2>1. i \in 1 .. Len(st) /\ n \in 1 .. st[i].at - 1
    BY <1>6
  <2>2. Settled(st, i, c[st[i].sub][n], done)
    BY <2>1 DEF Whole, Covered
  <2> QED
    BY <1>6, <1>9, <2>1, <2>2
<1>11. PICK k : Before(st, m, k) /\ Asks(c, st[k], st[m].sub)
  BY OpenBefore DEF Whole
<1>12. k \in 1 .. m - 1 /\ st[k].open /\ k \in 1 .. Len(st)
  BY <1>1, <1>2, <1>11 DEF Before
<1>13. IsTop(st1, k)
  <2>1. \A i \in k + 1 .. Len(st1) : ~ st1[i].open
    <3> TAKE i \in k + 1 .. Len(st1)
    <3>1. CASE i < m
      BY <1>1, <1>2, <1>6, <1>11, <1>12, <3>1 DEF Before
    <3>2. CASE i >= m
      BY <1>1, <1>2, <1>6, <1>12, <3>2 DEF IsTop
    <3> QED
      BY <1>1, <1>2, <1>12, <3>1, <3>2
  <2> QED
    BY <1>6, <1>12, <2>1 DEF IsTop
<1>14. Asks(c, st1[k], st[m].sub)
  BY <1>6, <1>11, <1>12 DEF Asks
<1>15. Settled(st1, k, st[m].sub, done)
  <2>1. m \in 2 .. Len(st1) /\ st1[m].sub = st[m].sub
    BY <1>1, <1>2, <1>6, <1>7
  <2>2. \A l \in 1 .. k : l <= m
    BY <1>1, <1>2, <1>12
  <2> QED
    BY <2>1, <2>2 DEF Settled
<1>16. k # 1
  <2>1. st[2].open
    BY <1>1, <1>2, <1>7 DEF Whole, WellFormed
  <2>2. 2 \in 1 .. m - 1
    BY <1>1, <1>2, <1>7
  <2> QED
    BY <1>11, <2>1, <2>2 DEF Before
<1>17. st1[1] = st[1]
  BY <1>1, <1>6, <1>7
<1> QED
  BY <1>6, <1>8, <1>10, <1>13, <1>14, <1>15, <1>16, <1>17 DEF Whole, SameSubs, st1

(* The frames of a completed SCC are popped, down to the one that called   *)
(* its leader. *)
Cut(st, m) == SubSeq(st, 1, m - 1)

(* The frames below m. *)
LEMMA CutIs ==
    ASSUME NEW st \in Seq(FrameType), NEW m \in 1 .. Len(st)
    PROVE  /\ Cut(st, m) \in Seq(FrameType) /\ Len(Cut(st, m)) = m - 1
           /\ \A i \in 1 .. m - 1 : Cut(st, m)[i] = st[i]
<1>1. Len(st) \in Nat /\ m - 1 \in Nat
  BY StackIs
<1> DEFINE n == m - 1
<1>2. n \in Int /\ \A i \in 1 .. n : st[i] \in FrameType
  BY <1>1, StackIs
<1>3. /\ SubSeq(st, 1, n) \in Seq(FrameType)
      /\ Len(SubSeq(st, 1, n)) = IF 1 <= n THEN n - 1 + 1 ELSE 0
      /\ \A i \in 1 .. n - 1 + 1 : SubSeq(st, 1, n)[i] = st[1 + i - 1]
  <2> HIDE DEF n
  <2> QED
    BY <1>2, SubSeqProperties
<1>4. \A i \in 1 .. n : i \in 1 .. n - 1 + 1 /\ 1 + i - 1 = i
  BY <1>1
<1>5. n - 1 + 1 = n /\ (1 <= n \/ n = 0)
  BY <1>1
<1> QED
  BY <1>1, <1>3, <1>4, <1>5 DEF Cut

Pops(c, t, st, done, m, st1) ==
    /\ Whole(c, t, st1, done) /\ Len(st1) = m - 1
    /\ \A i \in 1 .. m - 1 : st1[i] = st[i]
    /\ \E k : /\ IsTop(st1, k) /\ Asks(c, st1[k], st[m].sub)
              /\ Settled(st1, k, st[m].sub, done)

(* A completed SCC leaves nothing but completed subgoals to the frames    *)
(* below it. *)
LEMMA CutWhole ==
    ASSUME NEW c, NEW t, NEW st, NEW done, Whole(c, t, st, done),
           NEW m, IsTop(st, m), m # 1,
           \A i \in m .. Len(st) : st[i].sub \in done
    PROVE  Pops(c, t, st, done, m, Cut(st, m))
<1>1. st \in Seq(FrameType) /\ Len(st) > 0 /\ m \in 1 .. Len(st) /\ st[m].open
  BY DEF Whole, WellFormed, IsTop
<1>2. /\ Len(st) \in Nat /\ DOMAIN st = 1 .. Len(st)
      /\ \A i \in 1 .. Len(st) :
           /\ st[i] \in FrameType /\ st[i].at \in Nat
           /\ st[i].lead \in BOOLEAN /\ st[i].open \in BOOLEAN
           /\ st[i].sub \in Threads \cup Subgoals
  BY <1>1, StackIs
<1> DEFINE st1 == Cut(st, m)
<1>a. /\ st1 \in Seq(FrameType) /\ Len(st1) = m - 1
      /\ \A i \in 1 .. m - 1 : st1[i] = st[i]
  BY <1>1, CutIs
<1>b. m \in Int /\ m > 1 /\ \A i \in 1 .. m - 1 : i \in 1 .. Len(st)
  BY <1>1, <1>2
<1>3. /\ st1 \in Seq(FrameType) /\ Len(st1) = m - 1
      /\ \A i \in 1 .. m - 1 : st1[i] = st[i] /\ i \in 1 .. Len(st)
      /\ m \in Int /\ m > 1
  BY <1>a, <1>b
<1> HIDE DEF st1
<1>4. WellFormed(c, t, st1)
  <2>a. st[1].sub = t /\ st[1].open /\ (Len(st) > 1 => st[2].lead)
    BY DEF Whole, WellFormed
  <2>b. \A i \in 2 .. Len(st) : st[i].sub \in Subgoals
    BY DEF Whole, WellFormed
  <2>c. \A i, j \in 1 .. Len(st) : st[i].sub = st[j].sub => i = j
    BY DEF Whole, WellFormed
  <2>1. /\ st1[1].sub = t /\ st1[1].open
        /\ \A i \in 2 .. Len(st1) : st1[i].sub \in Subgoals
        /\ \A i, j \in 1 .. Len(st1) : st1[i].sub = st1[j].sub => i = j
        /\ Len(st1) > 1 => st1[2].lead
    BY <1>1, <1>2, <1>3, <2>a, <2>b, <2>c
  <2>2. ASSUME NEW i \in 1 .. Len(st1)
        PROVE  /\ st1[i].at \in 1 .. Len(c[st1[i].sub]) + 1
               /\ st1[i].open \/ (~ st1[i].lead /\ st1[i].at = Len(c[st1[i].sub]) + 1)
    BY <1>3 DEF Whole, WellFormed
  <2>3. ASSUME NEW i \in 1 .. Len(st1), NEW j \in 1 .. Len(st1),
               j < i, st1[i].open, st1[j].open, \A k \in j + 1 .. i - 1 : ~ st1[k].open
        PROVE  Asks(c, st1[j], st1[i].sub)
    <3>1. st[i].open /\ st[j].open /\ \A k \in j + 1 .. i - 1 : ~ st[k].open
      BY <1>3, <2>3
    <3>2. i \in 1 .. Len(st) /\ j \in 1 .. Len(st)
      BY <1>3
    <3>3. Asks(c, st[j], st[i].sub)
      BY <2>3, <3>1, <3>2 DEF Whole, WellFormed
    <3> QED
      BY <1>3, <3>3
  <2> QED
    BY <1>3, <2>1, <2>2, <2>3 DEF WellFormed
<1>5. Covered(c, st1, done)
  <2> SUFFICES ASSUME NEW i \in 1 .. Len(st1), NEW n \in 1 .. st1[i].at - 1
               PROVE  Settled(st1, i, c[st1[i].sub][n], done)
    BY DEF Covered
  <2>1. i \in 1 .. Len(st) /\ n \in 1 .. st[i].at - 1 /\ st1[i] = st[i]
    BY <1>3
  <2>2. Settled(st, i, c[st[i].sub][n], done)
    BY <2>1 DEF Whole, Covered
  <2>3. CASE c[st[i].sub][n] \in done
    BY <2>1, <2>3 DEF Settled
  <2>4. CASE c[st[i].sub][n] \notin done
    <3>1. PICK p \in 2 .. Len(st) : /\ st[p].sub = c[st[i].sub][n]
                                    /\ \A l \in 1 .. i : st[l].lead => l <= p
      BY <2>2, <2>4 DEF Settled
    <3>2. p \in 2 .. Len(st1)
      BY <1>2, <1>3, <2>4, <3>1
    <3>3. st1[p].sub = c[st1[i].sub][n] /\ \A l \in 1 .. i : st1[l].lead => l <= p
      BY <1>3, <2>1, <3>1, <3>2
    <3> QED
      BY <3>2, <3>3 DEF Settled
  <2> QED
    BY <2>3, <2>4
<1>6. PICK k : Before(st, m, k) /\ Asks(c, st[k], st[m].sub)
  BY OpenBefore DEF Whole
<1>7. IsTop(st1, k)
  BY <1>3, <1>6 DEF Before, IsTop
<1>8. Asks(c, st1[k], st[m].sub)
  BY <1>3, <1>6 DEF Before
<1>9. Settled(st1, k, st[m].sub, done)
  <2>1. m \in m .. Len(st)
    BY <1>1, <1>2
  <2> QED
    BY <2>1 DEF Settled
<1> QED
  BY <1>3, <1>4, <1>5, <1>7, <1>8, <1>9 DEF Whole, Pops, st1

-----------------------------------------------------------------------------
(* THE STATE OF THE THREADS *)

On(st, s) == \E i \in 1 .. Len(st) : st[i].sub = s

(* The newest open frame is that of an exhausted leader, whose SCC alone   *)
(* is being marked. *)
Leads(c, st, m) ==
    m # 1 /\ IsTop(st, m) /\ st[m].lead /\ st[m].at = Len(c[st[m].sub]) + 1
Marked(c, st, done) ==
    \E m : Leads(c, st, m) /\ \A i \in 1 .. m - 1 : st[i].sub \notin done

AtCall(c, st, s) == \E m : IsTop(st, m) /\ Asks(c, st[m], s)

Sleeping == {"lock", "wait", "woken"}

(* A thread t with stack st, at p, waiting for the producer r, whose       *)
(* waiting_for_tid is w; the subgoals done are completed, and the owner of *)
(* each is in e.                                                           *)
ThreadIs(c, t, st, done, p, r, w, e) ==
    /\ Whole(c, t, st, done)
    /\ p = "mark" => Marked(c, st, done)
    /\ p # "mark" => \A i \in 1 .. Len(st) : st[i].sub \notin done
    /\ p \in Sleeping => /\ r \in Subgoals /\ e[r] \in Threads \ {t}
                         /\ AtCall(c, st, r)
    /\ w = IF p \in {"wait", "woken"} THEN e[r] ELSE NoThread

ThreadInv(t) ==
    ThreadIs(calls, t, stack[t], completed, pc[t], producer[t], waitTid[t], tid)

(* No deadlock has been broken: nothing was grabbed, nobody was reset. *)
Calm ==
    /\ grabbed = {}
    /\ \A t \in Threads : pc[t] # "reset" /\ ~ isLeader[t] /\ ~ reset[t]

(* The frame of a subgoal is on the stack of its thread until it is        *)
(* completed, and on no other. *)
Evaluated ==
    \A s \in Subgoals :
        /\ s \in completed => tid[s] # NoThread
        /\ \A t \in Threads : /\ On(stack[t], s) => tid[s] = t
                              /\ s \notin completed /\ tid[s] = t => On(stack[t], s)

(* Who still waits for a completed subgoal is woken soon, and its owner    *)
(* does not wait. *)
Heard ==
    \A t \in Threads : producer[t] \in completed =>
        /\ pc[t] = "wait" => /\ pc[tid[producer[t]]] = "mark"
                             /\ On(stack[tid[producer[t]]], producer[t])
        /\ FifoMutex /\ pc[t] = "woken" => pc[tid[producer[t]]] \in {"run", "lock", "mark"}

(* The threads do not wait for each other in a circle. *)
NoRing == \A W \in (SUBSET Threads) \ {{}} : \E t \in W : waitTid[t] \notin W

Inv ==
    /\ TypeOK /\ Calm /\ Evaluated /\ Heard /\ NoRing
    /\ \A t \in Threads : ThreadInv(t)

(* The invariant of a thread in the next state, from its values there. *)
LEMMA NextThread ==
    ASSUME NEW t \in Threads, NEW c, NEW st, NEW done, NEW p, NEW r, NEW w, NEW e,
           ThreadIs(c, t, st, done, p, r, w, e),
           c = calls', st = stack'[t], done = completed', p = pc'[t], r = producer'[t],
           w = waitTid'[t], e = tid'
    PROVE  ThreadInv(t)'
<1>1. WellFormed(c, t, st) => WellFormed(calls, t, stack[t])'
  BY DEF WellFormed, Asks
<1>2. Covered(c, st, done) => Covered(calls, stack[t], completed)'
  BY DEF Covered, Settled
<1>3. Marked(c, st, done) => Marked(calls, stack[t], completed)'
  BY DEF Marked, Leads, IsTop
<1>4. AtCall(c, st, r) => AtCall(calls, stack[t], producer[t])'
  BY DEF AtCall, Asks, IsTop
<1> QED
  BY <1>1, <1>2, <1>3, <1>4 DEF ThreadInv, ThreadIs, Whole

(* A program: a sequence of calls for each thread and subgoal. *)
LEMMA CallsAre ==
    ASSUME calls \in Programs, NEW x \in Threads \cup Subgoals
    PROVE  calls[x] \in Seq(Subgoals) /\ Len(calls[x]) \in Nat
<1>1. calls[x] \in Seq(Subgoals)
  BY ProgramsOK
<1> QED
  BY <1>1, LenProperties

-----------------------------------------------------------------------------
(* WHAT A STEP DOES TO THE THREAD THAT TAKES IT *)

(* Others complete what is not on u's stack, or wake u. *)
LEMMA KeptThread ==
    ASSUME NEW c, NEW u, NEW st, NEW done, NEW p, NEW r, NEW w, NEW e,
           ThreadIs(c, u, st, done, p, r, w, e),
           NEW more, done \subseteq more,
           \A i \in 1 .. Len(st) : st[i].sub \in more => st[i].sub \in done,
           NEW q, q = p \/ (p = "wait" /\ q = "woken"),
           NEW f, \A s \in Subgoals : e[s] \in Threads => f[s] = e[s]
    PROVE  ThreadIs(c, u, st, more, q, r, w, f)
<1>1. Whole(c, u, st, done)
  BY DEF ThreadIs
<1>2. Whole(c, u, st, more)
  BY <1>1, MoreDone
<1>3. q \in Sleeping <=> p \in Sleeping
  BY DEF Sleeping
<1>4. q \in {"wait", "woken"} <=> p \in {"wait", "woken"}
  OBVIOUS
<1>5. q = "mark" <=> p = "mark"
  OBVIOUS
<1>6. p \in Sleeping => r \in Subgoals /\ e[r] \in Threads \ {u} /\ f[r] = e[r] /\ AtCall(c, st, r)
  BY DEF ThreadIs
<1>7. p \in {"wait", "woken"} => p \in Sleeping
  BY DEF Sleeping
<1>8. p = "mark" => Marked(c, st, more)
  <2> SUFFICES ASSUME p = "mark" PROVE Marked(c, st, more)
    OBVIOUS
  <2>1. PICK m : Leads(c, st, m) /\ \A i \in 1 .. m - 1 : st[i].sub \notin done
    BY DEF ThreadIs, Marked
  <2>2. \A i \in 1 .. m - 1 : i \in 1 .. Len(st)
    <3>1. st \in Seq(FrameType)
      BY <1>1 DEF Whole, WellFormed
    <3>2. Len(st) \in Nat /\ m \in 1 .. Len(st)
      BY <2>1, <3>1, StackIs DEF Leads, IsTop
    <3> QED
      BY <3>2
  <2> QED
    BY <2>1, <2>2 DEF Marked
<1> QED
  BY <1>2, <1>3, <1>4, <1>5, <1>6, <1>7, <1>8 DEF ThreadIs

(* A thread that runs has no completed subgoal on its stack. *)
LEMMA RunsOn ==
    ASSUME NEW c, NEW t, NEW st, NEW done, NEW r, NEW e, Whole(c, t, st, done),
           \A i \in 1 .. Len(st) : st[i].sub \notin done
    PROVE  ThreadIs(c, t, st, done, "run", r, NoThread, e)
BY DEF ThreadIs, Sleeping

(* A step of t that changes only its stack, or its pc, and no table. *)
Quiet(t) ==
    /\ UNCHANGED <<calls, completed, grabbed, tid>>
    /\ \A u \in Threads \ {t} :
         /\ stack'[u] = stack[u] /\ pc'[u] = pc[u] /\ producer'[u] = producer[u]
         /\ waitTid'[u] = waitTid[u]
    /\ SameSubs(stack[t], stack'[t])
    /\ pc[t] # "mark"
    /\ \/ pc'[t] \in {"run", "lock"}
       \/ /\ pc'[t] = "wait" /\ producer'[t] \notin completed
          /\ FifoMutex => pc[t] = "woken" \/ \A u \in Threads : pc[u] # "woken"

(* A quiet step leaves the other threads as they are. *)
LEMMA QuietOthers ==
    ASSUME NEW t \in Threads, Quiet(t), NEW u \in Threads \ {t}, ThreadInv(u)
    PROVE  ThreadInv(u)'
<1>1. PICK c, st, done, p, r, w, e :
        /\ c = calls /\ st = stack[u] /\ done = completed /\ p = pc[u] /\ r = producer[u]
        /\ w = waitTid[u] /\ e = tid
  OBVIOUS
<1>2. ThreadIs(c, u, st, done, p, r, w, e)
  BY <1>1 DEF ThreadInv
<1>3. /\ c = calls' /\ st = stack'[u] /\ done = completed' /\ p = pc'[u] /\ r = producer'[u]
      /\ w = waitTid'[u] /\ e = tid'
  BY <1>1 DEF Quiet
<1> QED
  BY <1>2, <1>3, NextThread

(* It moves no frame to another thread. *)
LEMMA QuietEvaluated ==
    ASSUME Evaluated, NEW t \in Threads, Quiet(t)
    PROVE  Evaluated'
<1>1. ASSUME NEW u \in Threads
      PROVE  /\ Len(stack'[u]) = Len(stack[u])
             /\ \A i \in 1 .. Len(stack[u]) : stack'[u][i].sub = stack[u][i].sub
  BY DEF Quiet, SameSubs
<1>2. UNCHANGED <<completed, tid>>
  BY DEF Quiet
<1> QED
  BY <1>1, <1>2 DEF Evaluated, On

(* The subgoal that has a frame belongs to a thread. *)
LEMMA OwnerOf ==
    ASSUME TypeOK, Evaluated, NEW s \in completed
    PROVE  s \in Subgoals /\ tid[s] \in Threads
BY DEF TypeOK, Evaluated

(* And it puts none to sleep on what is completed. *)
LEMMA QuietHeard ==
    ASSUME TypeOK, Evaluated, Heard, NEW t \in Threads, Quiet(t)
    PROVE  Heard'
<1>1. ASSUME NEW u \in Threads, NEW s
      PROVE  On(stack[u], s) => \E i \in 1 .. Len(stack'[u]) : stack'[u][i].sub = s
  BY DEF Quiet, SameSubs, On
<1>2. UNCHANGED <<completed, tid>>
  BY DEF Quiet
<1> SUFFICES ASSUME NEW u \in Threads, producer'[u] \in completed'
             PROVE  /\ pc'[u] = "wait" => /\ pc'[tid'[producer'[u]]] = "mark"
                                          /\ On(stack'[tid'[producer'[u]]], producer'[u])
                    /\ FifoMutex /\ pc'[u] = "woken" => pc'[tid'[producer'[u]]] \in {"run", "lock", "mark"}
  BY DEF Heard, On
<1>3. CASE u = t
  BY <1>2, <1>3 DEF Quiet
<1>4. CASE u # t
  <2>1. producer'[u] = producer[u] /\ pc'[u] = pc[u] /\ producer[u] \in completed
    BY <1>2, <1>4 DEF Quiet
  <2> DEFINE o == tid[producer[u]]
  <2>2. o \in Threads
    BY <2>1, OwnerOf
  <2>3. tid'[producer'[u]] = o
    BY <1>2, <2>1
  <2> HIDE DEF o
  <2>4. ASSUME pc[u] = "wait"
        PROVE  pc'[o] = "mark" /\ On(stack'[o], producer'[u])
    <3>1. pc[o] = "mark" /\ On(stack[o], producer[u])
      BY <2>1, <2>4 DEF Heard, o
    <3>2. pc'[o] = "mark"
      BY <2>2, <3>1 DEF Quiet
    <3> QED
      BY <1>1, <2>1, <2>2, <3>1, <3>2 DEF On
  <2>5. ASSUME FifoMutex, pc[u] = "woken"
        PROVE  pc'[o] \in {"run", "lock", "mark"}
    <3>1. pc[o] \in {"run", "lock", "mark"}
      BY <2>1, <2>5 DEF Heard, o
    <3>2. CASE o # t
      BY <2>2, <3>1, <3>2 DEF Quiet
    <3>3. CASE o = t
      BY <2>5, <3>1, <3>3 DEF Quiet
    <3> QED
      BY <3>2, <3>3
  <2> QED
    BY <2>1, <2>3, <2>4, <2>5
<1> QED
  BY <1>3, <1>4

(* The newest open frame m of a thread, where its program is. *)
TopAt(t, c, st, done, m) ==
    /\ c = calls /\ st = stack[t] /\ done = completed
    /\ Whole(c, t, st, done) /\ IsTop(st, m) /\ m \in 1 .. Len(st)
    /\ m = Newest(t) /\ Breg(t) = st[m]
    /\ \A k : IsTop(st, k) => k = m
    /\ Len(c[st[m].sub]) \in Nat
    /\ st[m].at \in 1 .. Len(c[st[m].sub]) + 1
    /\ \A n \in 1 .. Len(c[st[m].sub]) : c[st[m].sub][n] \in Subgoals

(* Every thread has a newest open frame, which is the one the model calls *)
(* Breg. *)
LEMMA AtTop ==
    ASSUME TypeOK, NEW t \in Threads, ThreadInv(t)
    PROVE  \E c, st, done, m : TopAt(t, c, st, done, m)
<1>1. PICK c, st, done : c = calls /\ st = stack[t] /\ done = completed
  OBVIOUS
<1>2. Whole(c, t, st, done)
  BY <1>1 DEF ThreadInv, ThreadIs
<1>3. WellFormed(c, t, st)
  BY <1>2 DEF Whole
<1>a. PICK m : m = Top(st)
  OBVIOUS
<1>4. IsTop(st, m) /\ m = Newest(t) /\ Breg(t) = st[m] /\ \A k : IsTop(st, k) => k = m
  <2>1. m = Newest(t)
    BY <1>1, <1>a DEF Newest, Top
  <2> QED
    BY <1>1, <1>3, <1>a, <2>1, TopOf DEF Breg
<1>5. m \in 1 .. Len(st) /\ st \in Seq(FrameType)
  BY <1>3, <1>4 DEF IsTop, WellFormed
<1>6. st[m].sub \in Threads \cup Subgoals
  BY <1>5, StackIs
<1>7. c[st[m].sub] \in Seq(Subgoals) /\ Len(c[st[m].sub]) \in Nat
  BY <1>1, <1>6, CallsAre DEF TypeOK
<1>8. \A n \in 1 .. Len(c[st[m].sub]) : c[st[m].sub][n] \in Subgoals
  BY <1>7, ElementOfSeq
<1>9. st[m].at \in 1 .. Len(c[st[m].sub]) + 1
  BY <1>3, <1>5 DEF WellFormed
<1>10. TopAt(t, c, st, done, m)
  BY <1>1, <1>2, <1>4, <1>5, <1>7, <1>8, <1>9 DEF TopAt
<1> QED
  BY <1>10

(* tabletry: the subgoal that the newest open frame calls. *)
LEMMA TriedIs ==
    ASSUME NEW t \in Threads, NEW c, NEW st, NEW done, NEW m, TopAt(t, c, st, done, m),
           NEW s, Tabletry(t, s)
    PROVE  pc[t] = "run" /\ Asks(c, st[m], s) /\ s \in Subgoals
BY DEF TopAt, Tabletry, Calls, Callee, Asks

(* A thread that runs has completed nothing that is on its stack, and is   *)
(* not waiting. *)
LEMMA RunsIs ==
    ASSUME NEW t \in Threads, ThreadInv(t), pc[t] = "run"
    PROVE  /\ waitTid[t] = NoThread
           /\ \A i \in 1 .. Len(stack[t]) : stack[t][i].sub \notin completed
BY DEF ThreadInv, ThreadIs

(* What a step of a running thread leaves. *)
LEMMA RunsNext ==
    ASSUME NEW t \in Threads, NEW c, NEW st, NEW done, Whole(c, t, st, done),
           c = calls', st = stack'[t], done = completed', pc'[t] = "run",
           \A i \in 1 .. Len(st) : st[i].sub \notin done, waitTid'[t] = NoThread
    PROVE  ThreadInv(t)'
<1>1. PICK p, r, w, e : p = pc'[t] /\ r = producer'[t] /\ w = waitTid'[t] /\ e = tid'
  OBVIOUS
<1>2. ThreadIs(c, t, st, done, p, r, w, e)
  BY <1>1, RunsOn
<1> QED
  BY <1>1, <1>2, NextThread

(* The step of a running thread that goes on to the next clause of its     *)
(* newest open frame, on a stack st1 with the subgoals of its own. *)
StackStep(t, st1) ==
    /\ DOMAIN stack = Threads /\ stack' = [stack EXCEPT ![t] = Retried(st1)]
    /\ UNCHANGED <<calls, completed, grabbed, tid>>
    /\ \A u \in Threads \ {t} :
         pc'[u] = pc[u] /\ producer'[u] = producer[u] /\ waitTid'[u] = waitTid[u]
    /\ pc[t] # "mark" /\ pc'[t] = "run" /\ waitTid'[t] = NoThread

(* A step to the next clause, on a stack st1 on which the call is         *)
(* settled, keeps the invariant of the thread. *)
LEMMA RetriedNext ==
    ASSUME NEW t \in Threads, NEW c, NEW st, NEW done, NEW m, TopAt(t, c, st, done, m),
           NEW st1, Whole(c, t, st1, done), SameSubs(st, st1),
           NEW k, IsTop(st1, k), NEW s, Asks(c, st1[k], s), Settled(st1, k, s, done),
           Len(c[st1[k].sub]) \in Nat,
           \A i \in 1 .. Len(st) : st[i].sub \notin done, StackStep(t, st1)
    PROVE  /\ ThreadInv(t)' /\ Quiet(t)
           /\ stack'[t][1].at = IF k = 1 THEN st1[1].at + 1 ELSE st1[1].at
<1>2. PICK st2 : st2 = Retried(st1)
  OBVIOUS
<1>a. Retries(c, t, st1, done, k, Retried(st1))
  BY RetryWhole
<1>1. /\ Whole(c, t, st2, done) /\ SameSubs(st1, st2)
      /\ \A i \in 1 .. Len(st1) : i # k => st2[i] = st1[i]
      /\ st2[k].at = st1[k].at + 1
  BY <1>2, <1>a DEF Retries
<1>3. /\ stack'[t] = st2 /\ \A u \in Threads \ {t} : stack'[u] = stack[u]
      /\ c = calls' /\ st = stack[t] /\ done = completed'
  BY <1>2 DEF TopAt, StackStep
<1>4. SameSubs(st, st2)
  BY <1>1, <1>2 DEF SameSubs
<1>5. \A i \in 1 .. Len(st2) : st2[i].sub \notin done
  BY <1>4 DEF SameSubs
<1>6. ThreadInv(t)'
  BY <1>1, <1>2, <1>3, <1>5, RunsNext DEF StackStep
<1>7. Quiet(t)
  BY <1>3, <1>4 DEF Quiet, StackStep
<1>8. 1 \in 1 .. Len(st1)
  <2>1. st1 \in Seq(FrameType) /\ Len(st1) > 0
    BY DEF Whole, WellFormed
  <2> QED
    BY <2>1, StackIs
<1> QED
  BY <1>1, <1>2, <1>3, <1>6, <1>7, <1>8

(* The queries of t are answered from completed tables. *)
Served(t) ==
    \/ stack'[t][1].at = stack[t][1].at
    \/ /\ stack'[t][1].at = stack[t][1].at + 1
       /\ stack[t][1].at <= Len(calls[t])
       /\ calls[t][stack[t][1].at] \in completed

(* A stack has the subgoals it has. *)
LEMMA SameSubsSelf == ASSUME NEW st PROVE SameSubs(st, st)
BY DEF SameSubs

(* A thread that gets the answers of a completed subgoal. *)
LEMMA AnswersNext ==
    ASSUME NEW t \in Threads, NEW c, NEW st, NEW done, NEW m, TopAt(t, c, st, done, m),
           NEW s, Asks(c, st[m], s), s \in done, StackStep(t, st),
           \A i \in 1 .. Len(st) : st[i].sub \notin done
    PROVE  ThreadInv(t)' /\ Quiet(t) /\ Served(t)
<1>1. /\ c = calls /\ st = stack[t] /\ done = completed /\ Whole(c, t, st, done) /\ IsTop(st, m)
      /\ Len(c[st[m].sub]) \in Nat
  BY DEF TopAt
<1>2. Settled(st, m, s, done)
  BY DEF Settled
<1>3. /\ ThreadInv(t)' /\ Quiet(t)
      /\ stack'[t][1].at = IF m = 1 THEN st[1].at + 1 ELSE st[1].at
  BY <1>1, <1>2, SameSubsSelf, RetriedNext
<1>4. st[1].sub = t
  BY <1>1 DEF Whole, WellFormed
<1>5. Served(t)
  BY <1>1, <1>3, <1>4 DEF Served, Asks
<1> QED
  BY <1>3, <1>5

(* Each step of a thread, and its part of the invariant: the answers of a *)
(* completed subgoal; *)
LEMMA Return_answersThread ==
    ASSUME TypeOK, NEW t \in Threads, ThreadInv(t), NEW s \in Subgoals, Return_answers(t, s)
    PROVE  ThreadInv(t)' /\ Quiet(t) /\ Served(t)
<1>1. PICK c, st, done, m : TopAt(t, c, st, done, m)
  BY AtTop
<1>2. pc[t] = "run" /\ Asks(c, st[m], s)
  BY <1>1, TriedIs DEF Return_answers
<1>3. c = calls /\ st = stack[t] /\ done = completed
  BY <1>1 DEF TopAt
<1>4. waitTid[t] = NoThread /\ \A i \in 1 .. Len(st) : st[i].sub \notin done
  BY <1>2, <1>3, RunsIs
<1>5. /\ DOMAIN stack = Threads /\ stack' = [stack EXCEPT ![t] = Retried(st)] /\ s \in done
      /\ UNCHANGED <<calls, completed, grabbed, tid, pc, producer, waitTid>>
  BY <1>3 DEF Return_answers, TypeOK, tables, waits
<1>6. StackStep(t, st)
  BY <1>2, <1>4, <1>5 DEF StackStep
<1> QED
  BY <1>1, <1>2, <1>4, <1>5, <1>6, AnswersNext

(* a subgoal of the thread's own, whose frame the stack has; *)
LEMMA ConsumeThread ==
    ASSUME TypeOK, NEW t \in Threads, ThreadInv(t), NEW s \in Subgoals, Consume(t, s)
    PROVE  /\ ThreadInv(t)' /\ Quiet(t)
           /\ stack'[t][1].at = stack[t][1].at
<1>1. PICK c, st, done, m : TopAt(t, c, st, done, m)
  BY AtTop
<1>2. pc[t] = "run" /\ Asks(c, st[m], s)
  BY <1>1, TriedIs DEF Consume, Own_incomplete
<1>3. /\ c = calls /\ st = stack[t] /\ done = completed /\ Whole(c, t, st, done) /\ IsTop(st, m)
      /\ Len(c[st[m].sub]) \in Nat
  BY <1>1 DEF TopAt
<1>4. st \in Seq(FrameType) /\ Len(st) \in Nat /\ DOMAIN st = 1 .. Len(st) /\ Len(st) > 0 /\ st[1].sub = t
  BY <1>3, StackIs DEF Whole, WellFormed
<1> DEFINE F == {i \in 1 .. Len(st) : st[i].sub = s}
<1>5. Frames(t, s) = F /\ F # {}
  BY <1>3, <1>4 DEF Consume, Frames
<1>6. PICK p : p = Max(F)
  OBVIOUS
<1>7. p \in F
  BY <1>4, <1>5, <1>6, Greatest
<1>8. p \in 2 .. Len(st) /\ st[p].sub = s
  <2>1. t # s
    BY ProgramsOK
  <2> QED
    BY <1>4, <1>7, <2>1
<1> HIDE DEF F
<1>9. Joined(t, s) = JoinedAt(st, p)
  BY <1>3, <1>5, <1>6 DEF Joined, JoinedAt
<1>10. PICK st1 : st1 = JoinedAt(st, p)
  OBVIOUS
<1>11. /\ Whole(c, t, st1, done) /\ SameSubs(st, st1) /\ IsTop(st1, m)
       /\ \A i \in 1 .. Len(st) : st1[i].at = st[i].at /\ (st1[i].lead <=> st[i].lead /\ i <= p)
  BY <1>3, <1>8, <1>10, JoinWhole
<1>12. m \in 1 .. Len(st) /\ st1[m].sub = st[m].sub /\ st1[p].sub = s /\ Len(st1) = Len(st)
  BY <1>3, <1>4, <1>8, <1>11 DEF IsTop, SameSubs
<1>13. Asks(c, st1[m], s)
  BY <1>2, <1>11, <1>12 DEF Asks
<1>14. Settled(st1, m, s, done)
  <2>1. \A l \in 1 .. m : st1[l].lead => l <= p
    BY <1>4, <1>11, <1>12
  <2> QED
    BY <1>8, <1>12, <2>1 DEF Settled
<1>15. m # 1
  <2>1. m = 1 => Len(st) = 1
    BY <1>3, BareStack DEF Whole
  <2>2. ~ (Len(st) = 1)
    BY <1>4, <1>8
  <2> QED
    BY <2>1, <2>2
<1>16. /\ stack' = [stack EXCEPT ![t] = Retried(st1)] /\ DOMAIN stack = Threads
       /\ UNCHANGED <<calls, completed, grabbed, tid, pc, producer, waitTid>>
  BY <1>9, <1>10 DEF Consume, TypeOK, tables, waits
<1>17. waitTid[t] = NoThread /\ \A i \in 1 .. Len(st) : st[i].sub \notin done
  BY <1>2, <1>3, RunsIs
<1>18. /\ ThreadInv(t)' /\ Quiet(t)
       /\ stack'[t][1].at = IF m = 1 THEN st1[1].at + 1 ELSE st1[1].at
  <2>1. Len(c[st1[m].sub]) \in Nat
    BY <1>3, <1>12
  <2>2. StackStep(t, st1)
    BY <1>2, <1>16, <1>17 DEF StackStep
  <2> QED
    BY <1>1, <1>11, <1>13, <1>14, <1>17, <2>1, <2>2, RetriedNext
<1> QED
  BY <1>3, <1>4, <1>11, <1>15, <1>18

(* a generator inside a larger SCC; *)
LEMMA Become_consumerThread ==
    ASSUME TypeOK, NEW t \in Threads, ThreadInv(t), Become_consumer(t)
    PROVE  /\ ThreadInv(t)' /\ Quiet(t)
           /\ stack'[t][1].at = stack[t][1].at
<1>1. PICK c, st, done, m : TopAt(t, c, st, done, m)
  BY AtTop
<1>2. /\ c = calls /\ st = stack[t] /\ done = completed /\ Whole(c, t, st, done) /\ IsTop(st, m)
      /\ m = Newest(t) /\ Len(c[st[m].sub]) \in Nat
      /\ st[m].at \in 1 .. Len(c[st[m].sub]) + 1
  BY <1>1 DEF TopAt
<1>3. /\ pc[t] = "run" /\ m # 1 /\ ~ st[m].lead
      /\ ~ (st[m].at <= Len(c[st[m].sub]))
  BY <1>1, <1>2 DEF Become_consumer, Exhausted, Calls, TopAt
<1>4. st[m].at = Len(c[st[m].sub]) + 1
  BY <1>2, <1>3
<1>5. PICK st1 : st1 = Left(st, m)
  OBVIOUS
<1>6. Whole(c, t, st1, done) /\ SameSubs(st, st1) /\ st1[1] = st[1]
  BY <1>2, <1>3, <1>4, <1>5, LeftWhole
<1>7. PICK k : /\ k # 1 /\ IsTop(st1, k) /\ Asks(c, st1[k], st[m].sub)
               /\ Settled(st1, k, st[m].sub, done)
  BY <1>2, <1>3, <1>4, <1>5, LeftWhole
<1>8. /\ stack' = [stack EXCEPT ![t] = Retried(st1)] /\ DOMAIN stack = Threads
      /\ UNCHANGED <<calls, completed, grabbed, tid, pc, producer, waitTid>>
  BY <1>2, <1>5 DEF Become_consumer, Left, TypeOK, tables, waits
<1>9. waitTid[t] = NoThread /\ \A i \in 1 .. Len(st) : st[i].sub \notin done
  BY <1>2, <1>3, RunsIs
<1>10. Len(c[st1[k].sub]) \in Nat
  <2>1. st1 \in Seq(FrameType) /\ k \in 1 .. Len(st1)
    BY <1>6, <1>7 DEF Whole, WellFormed, IsTop
  <2>2. st1[k].sub \in Threads \cup Subgoals
    BY <2>1, StackIs
  <2> QED
    BY <1>2, <2>2, CallsAre DEF TypeOK
<1>11. /\ ThreadInv(t)' /\ Quiet(t)
       /\ stack'[t][1].at = IF k = 1 THEN st1[1].at + 1 ELSE st1[1].at
  <2>1. StackStep(t, st1)
    BY <1>3, <1>8, <1>9 DEF StackStep
  <2> QED
    BY <1>1, <1>6, <1>7, <1>9, <1>10, <2>1, RetriedNext
<1> QED
  BY <1>2, <1>6, <1>7, <1>11

(* A thread that goes to sleep, or sleeps, is at the call of its producer. *)
LEMMA SleepsAt ==
    ASSUME NEW t \in Threads, NEW c, NEW st, NEW done, NEW m, TopAt(t, c, st, done, m),
           ThreadInv(t), pc[t] \in Sleeping
    PROVE  /\ Asks(c, st[m], producer[t])
           /\ producer[t] \in Subgoals /\ tid[producer[t]] \in Threads \ {t}
           /\ \A i \in 1 .. Len(st) : st[i].sub \notin done
<1>1. c = calls /\ st = stack[t] /\ done = completed /\ \A k : IsTop(st, k) => k = m
  BY DEF TopAt
<1>2. AtCall(c, st, producer[t])
  BY <1>1 DEF ThreadInv, ThreadIs
<1> QED
  BY <1>1, <1>2 DEF AtCall, ThreadInv, ThreadIs, Sleeping

(* the end of a wait; *)
LEMMA Leave_waitThread ==
    ASSUME TypeOK, Calm, NEW t \in Threads, ThreadInv(t), Leave_wait(t)
    PROVE  ThreadInv(t)' /\ Quiet(t) /\ Served(t)
<1>1. PICK c, st, done, m : TopAt(t, c, st, done, m)
  BY AtTop
<1>2. pc[t] \in {"lock", "woken"} /\ pc[t] \in Sleeping
  BY DEF Leave_wait, Locked, Sleeping
<1>3. Asks(c, st[m], producer[t]) /\ \A i \in 1 .. Len(st) : st[i].sub \notin done
  BY <1>1, <1>2, SleepsAt
<1>4. c = calls /\ st = stack[t] /\ done = completed
  BY <1>1 DEF TopAt
<1>5. /\ DOMAIN stack = Threads /\ stack' = [stack EXCEPT ![t] = Retried(st)]
      /\ producer[t] \in done
      /\ UNCHANGED <<calls, completed, grabbed, tid>>
      /\ pc' = [pc EXCEPT ![t] = "run"] /\ producer' = [producer EXCEPT ![t] = NoSubgoal]
      /\ waitTid' = [waitTid EXCEPT ![t] = NoThread]
  BY <1>4 DEF Leave_wait, Waits_no_more, Calm, TypeOK, tables
<1>6. StackStep(t, st)
  BY <1>2, <1>5 DEF StackStep, TypeOK
<1> QED
  BY <1>1, <1>3, <1>5, <1>6, AnswersNext

(* A thread that is to wait for s, or waits for it. *)
LEMMA SleepsNext ==
    ASSUME NEW t \in Threads, NEW c, NEW st, NEW done, NEW m, TopAt(t, c, st, done, m),
           NEW s \in Subgoals, Asks(c, st[m], s), tid[s] \in Threads \ {t},
           \A i \in 1 .. Len(st) : st[i].sub \notin done,
           UNCHANGED <<calls, stack, completed, tid>>,
           pc'[t] \in Sleeping, producer'[t] = s,
           waitTid'[t] = IF pc'[t] \in {"wait", "woken"} THEN tid[s] ELSE NoThread
    PROVE  ThreadInv(t)'
<1>1. PICK p, r, w, e : p = pc'[t] /\ r = producer'[t] /\ w = waitTid'[t] /\ e = tid'
  OBVIOUS
<1>2. /\ c = calls' /\ st = stack'[t] /\ done = completed' /\ e = tid
      /\ Whole(c, t, st, done) /\ IsTop(st, m)
  BY <1>1 DEF TopAt
<1>3. AtCall(c, st, r)
  BY <1>1, <1>2 DEF AtCall
<1>4. p # "mark"
  BY <1>1 DEF Sleeping
<1>5. ThreadIs(c, t, st, done, p, r, w, e)
  BY <1>1, <1>2, <1>3, <1>4 DEF ThreadIs
<1> QED
  BY <1>1, <1>2, <1>5, NextThread

(* a subgoal that another thread evaluates; *)
LEMMA AskThread ==
    ASSUME TypeOK, NEW t \in Threads, ThreadInv(t), NEW s \in Subgoals, Ask(t, s)
    PROVE  ThreadInv(t)' /\ Quiet(t)
<1>1. PICK c, st, done, m : TopAt(t, c, st, done, m)
  BY AtTop
<1>2. pc[t] = "run" /\ Asks(c, st[m], s)
  BY <1>1, TriedIs DEF Ask
<1>3. c = calls /\ st = stack[t] /\ done = completed
  BY <1>1 DEF TopAt
<1>4. waitTid[t] = NoThread /\ \A i \in 1 .. Len(st) : st[i].sub \notin done
  BY <1>2, <1>3, RunsIs
<1>5. /\ UNCHANGED <<calls, completed, grabbed, tid, stack, waitTid>>
      /\ pc' = [pc EXCEPT ![t] = "lock"] /\ producer' = [producer EXCEPT ![t] = s]
      /\ tid[s] \in Threads \ {t}
  BY DEF Ask, TypeOK, tables
<1>6. /\ pc'[t] = "lock" /\ producer'[t] = s /\ waitTid'[t] = NoThread
      /\ \A u \in Threads \ {t} : pc'[u] = pc[u] /\ producer'[u] = producer[u]
  BY <1>4, <1>5 DEF TypeOK
<1>7. ThreadInv(t)'
  BY <1>1, <1>2, <1>4, <1>5, <1>6, SleepsNext DEF Sleeping
<1>8. Quiet(t)
  BY <1>2, <1>5, <1>6, SameSubsSelf DEF Quiet
<1> QED
  BY <1>7, <1>8

(* the wait for it; *)
LEMMA WaitThread ==
    ASSUME TypeOK, NEW t \in Threads, ThreadInv(t), Wait(t)
    PROVE  ThreadInv(t)' /\ Quiet(t)
<1>1. PICK c, st, done, m : TopAt(t, c, st, done, m)
  BY AtTop
<1>2. /\ pc[t] \in {"lock", "woken"} /\ pc[t] \in Sleeping
      /\ FifoMutex => pc[t] = "woken" \/ \A u \in Threads : pc[u] # "woken"
  BY DEF Wait, Locked, Sleeping
<1>3. PICK s : s = producer[t]
  OBVIOUS
<1>4. /\ Asks(c, st[m], s) /\ s \in Subgoals /\ tid[s] \in Threads \ {t}
      /\ \A i \in 1 .. Len(st) : st[i].sub \notin done
  BY <1>1, <1>2, <1>3, SleepsAt
<1>5. /\ UNCHANGED <<calls, completed, grabbed, tid, stack, producer>>
      /\ pc' = [pc EXCEPT ![t] = "wait"] /\ waitTid' = [waitTid EXCEPT ![t] = tid[s]]
      /\ s \notin completed
  BY <1>3 DEF Wait, tables
<1>6. /\ pc'[t] = "wait" /\ producer'[t] = s /\ waitTid'[t] = tid[s]
      /\ \A u \in Threads \ {t} : pc'[u] = pc[u] /\ waitTid'[u] = waitTid[u]
  BY <1>3, <1>5 DEF TypeOK
<1>7. ThreadInv(t)'
  BY <1>1, <1>4, <1>5, <1>6, SleepsNext DEF Sleeping
<1>8. Quiet(t)
  BY <1>2, <1>5, <1>6, SameSubsSelf DEF Quiet
<1> QED
  BY <1>7, <1>8

-----------------------------------------------------------------------------
(* A NEW FRAME, AND THE COMPLETION OF AN SCC *)

(* A subgoal without a frame is on no stack. *)
LEMMA NoFrame ==
    ASSUME Evaluated, NEW s \in Subgoals, tid[s] = NoThread, NEW u \in Threads
    PROVE  s \notin completed /\ \A i \in 1 .. Len(stack[u]) : stack[u][i].sub # s
<1>1. ~ On(stack[u], s)
  BY ProgramsOK DEF Evaluated
<1> QED
  BY <1>1 DEF On, Evaluated

(* A new subgoal: its frame is on one stack, and its owner is that of the *)
(* stack. *)
LEMMA New_producerNext ==
    ASSUME TypeOK, Evaluated, Heard, NEW t \in Threads, NEW s \in Subgoals, New_producer(t, s),
           \A u \in Threads : ThreadInv(u)
    PROVE  /\ Evaluated' /\ Heard' /\ \A u \in Threads : ThreadInv(u)'
           /\ stack'[t][1].at = stack[t][1].at
<1>1. PICK c, st, done, m : TopAt(t, c, st, done, m)
  BY AtTop
<1>2. pc[t] = "run" /\ Asks(c, st[m], s)
  BY <1>1, TriedIs DEF New_producer
<1>3. c = calls /\ st = stack[t] /\ done = completed /\ Whole(c, t, st, done) /\ IsTop(st, m)
  BY <1>1 DEF TopAt
<1>4. /\ waitTid[t] = NoThread /\ s \notin completed
      /\ \A i \in 1 .. Len(st) : st[i].sub \notin done /\ st[i].sub # s
  BY <1>2, <1>3, RunsIs, NoFrame DEF New_producer
<1>5. PICK st1 : st1 = Append(st, Frame(s))
  OBVIOUS
<1>6. Whole(c, t, st1, done) /\ OneMore(st, Frame(s), st1)
  <2>1. c[s] \in Seq(Subgoals)
    BY <1>3, CallsAre DEF TypeOK
  <2> QED
    BY <1>2, <1>3, <1>4, <1>5, <2>1, PushWhole
<1>7. /\ stack'[t] = st1 /\ \A u \in Threads \ {t} : stack'[u] = stack[u]
      /\ tid[s] = NoThread /\ tid' = [tid EXCEPT ![s] = t]
      /\ UNCHANGED <<calls, completed, grabbed, pc, producer, waitTid>>
  BY <1>3, <1>5 DEF New_producer, Pushed, TypeOK, waits
<1>8. /\ Len(st) \in Nat /\ Len(st1) = Len(st) + 1 /\ Len(st) > 0
      /\ \A i \in 1 .. Len(st) : st1[i] = st[i]
      /\ st1[Len(st) + 1].sub = s
  <2>1. st \in Seq(FrameType) /\ Len(st) > 0
    BY <1>3 DEF Whole, WellFormed
  <2> QED
    BY <1>6, <2>1, StackIs, FrameOf DEF OneMore
<1>9. ThreadInv(t)'
  <2>1. \A i \in 1 .. Len(st1) : st1[i].sub \notin done
    <3> TAKE i \in 1 .. Len(st1)
    <3>1. CASE i = Len(st) + 1
      BY <1>3, <1>4, <1>8, <3>1
    <3>2. CASE i # Len(st) + 1
      BY <1>4, <1>8, <3>2
    <3> QED
      BY <3>1, <3>2
  <2> QED
    BY <1>2, <1>3, <1>4, <1>6, <1>7, <2>1, RunsNext
<1>10. ASSUME NEW u \in Threads \ {t} PROVE ThreadInv(u)'
  <2>1. PICK b, p, r, w, e, f : /\ b = stack[u] /\ p = pc[u] /\ r = producer[u] /\ w = waitTid[u]
                                /\ e = tid /\ f = tid'
    OBVIOUS
  <2>2. ThreadIs(c, u, b, done, p, r, w, e)
    BY <1>3, <2>1 DEF ThreadInv
  <2>3. \A x \in Subgoals : e[x] \in Threads => f[x] = e[x]
    BY <1>7, <2>1, ProgramsOK DEF TypeOK
  <2>4. ThreadIs(c, u, b, done, p, r, w, f)
    BY <2>2, <2>3, KeptThread
  <2> QED
    BY <1>3, <1>7, <2>1, <2>4, NextThread
<1>11. \A u \in Threads : ThreadInv(u)'
  BY <1>9, <1>10
<1>12. Evaluated'
  <2>1. ASSUME NEW x \in Subgoals, NEW u \in Threads
        PROVE  (\E i \in 1 .. Len(stack'[u]) : stack'[u][i].sub = x)
                 <=> On(stack[u], x) \/ (x = s /\ u = t)
    <3>1. CASE u = t
      <4>1. ASSUME NEW i \in 1 .. Len(st1), st1[i].sub = x PROVE On(st, x) \/ x = s
        BY <1>8, <4>1 DEF On
      <4>2. ASSUME On(st, x) PROVE \E i \in 1 .. Len(st1) : st1[i].sub = x
        BY <1>8, <4>2 DEF On
      <4>3. Len(st) + 1 \in 1 .. Len(st1)
        BY <1>8
      <4> QED
        BY <1>3, <1>7, <1>8, <3>1, <4>1, <4>2, <4>3
    <3>2. CASE u # t
      BY <1>7, <3>2 DEF On
    <3> QED
      BY <3>1, <3>2
  <2>2. ASSUME NEW x \in Subgoals
        PROVE  tid'[x] = IF x = s THEN t ELSE tid[x]
    BY <1>7 DEF TypeOK
  <2>3. \A u \in Threads : ~ On(stack[u], s)
    BY <1>7, NoFrame DEF On
  <2> QED
    BY <1>4, <1>7, <2>1, <2>2, <2>3, ProgramsOK DEF Evaluated, On
<1>13. Heard'
  <2> SUFFICES ASSUME NEW u \in Threads, producer'[u] \in completed'
               PROVE  /\ pc'[u] = "wait" => /\ pc'[tid'[producer'[u]]] = "mark"
                                            /\ On(stack'[tid'[producer'[u]]], producer'[u])
                      /\ FifoMutex /\ pc'[u] = "woken" => pc'[tid'[producer'[u]]] \in {"run", "lock", "mark"}
    BY DEF Heard, On
  <2>1. producer[u] \in completed /\ producer[u] # s
    BY <1>4, <1>7
  <2> DEFINE o == tid[producer[u]]
  <2>2. o \in Threads /\ tid'[producer'[u]] = o
    BY <1>7, <2>1, OwnerOf DEF TypeOK
  <2>3. On(stack[o], producer[u]) => On(stack'[o], producer[u])
    BY <1>3, <1>7, <1>8, <2>2 DEF On
  <2> HIDE DEF o
  <2> QED
    BY <1>7, <2>1, <2>2, <2>3 DEF Heard, o
<1>14. stack'[t][1].at = stack[t][1].at
  BY <1>3, <1>7, <1>8
<1> QED
  BY <1>11, <1>12, <1>13, <1>14

(* The SCC of a thread that completes it: its leader is m. *)
LEMMA CompletingIs ==
    ASSUME TypeOK, NEW t \in Threads, ThreadInv(t),
           (Exhausted(t) /\ Breg(t).lead) \/ pc[t] = "mark",
           NEW c, NEW st, NEW done, NEW m, TopAt(t, c, st, done, m)
    PROVE  Leads(c, st, m) /\ \A i \in 1 .. m - 1 : st[i].sub \notin done
<1>1. /\ c = calls /\ st = stack[t] /\ done = completed /\ Whole(c, t, st, done) /\ IsTop(st, m)
      /\ m \in 1 .. Len(st) /\ m = Newest(t) /\ Breg(t) = st[m]
      /\ Len(c[st[m].sub]) \in Nat /\ st[m].at \in 1 .. Len(c[st[m].sub]) + 1
      /\ \A k : IsTop(st, k) => k = m
  BY DEF TopAt
<1>2. Len(st) \in Nat
  BY <1>1, StackIs DEF Whole, WellFormed
<1>3. CASE pc[t] = "mark"
  <2>1. PICK k : Leads(c, st, k) /\ \A i \in 1 .. k - 1 : st[i].sub \notin done
    BY <1>1, <1>3 DEF ThreadInv, ThreadIs, Marked
  <2>2. k = m
    BY <1>1, <2>1 DEF Leads
  <2> QED
    BY <2>1, <2>2
<1>4. CASE pc[t] # "mark"
  <2>1. Exhausted(t) /\ Breg(t).lead
    BY <1>4
  <2>2. m > 1 /\ st[m].lead /\ ~ (st[m].at <= Len(c[st[m].sub]))
    BY <1>1, <2>1 DEF Exhausted, Calls
  <2>3. Leads(c, st, m)
    BY <1>1, <2>2 DEF Leads
  <2>4. \A i \in 1 .. Len(st) : st[i].sub \notin done
    BY <1>1, <2>1 DEF ThreadInv, ThreadIs, Exhausted
  <2> QED
    BY <1>1, <1>2, <2>3, <2>4
<1> QED
  BY <1>3, <1>4

(* A completed subgoal is on the stack that marks it; those who wait for  *)
(* it do so until the broadcast. *)
LEMMA Mark_as_completedNext ==
    ASSUME TypeOK, Evaluated, Heard, NEW t \in Threads, Mark_as_completed(t),
           \A u \in Threads : ThreadInv(u)
    PROVE  /\ Evaluated' /\ Heard' /\ \A u \in Threads : ThreadInv(u)'
<1>1. PICK c, st, done, m : TopAt(t, c, st, done, m)
  BY AtTop
<1>2. Leads(c, st, m) /\ \A i \in 1 .. m - 1 : st[i].sub \notin done
  BY <1>1, CompletingIs DEF Mark_as_completed
<1>3. /\ c = calls /\ st = stack[t] /\ done = completed /\ Whole(c, t, st, done)
      /\ m \in 1 .. Len(st) /\ m = Newest(t)
  BY <1>1 DEF TopAt
<1>4. PICK i \in m .. Len(st) : completed' = completed \cup {st[i].sub}
  BY <1>3 DEF Mark_as_completed
<1>5. PICK x, more : x = st[i].sub /\ more = done \cup {x}
  OBVIOUS
<1>6. /\ UNCHANGED <<calls, tid, grabbed, stack, producer, waitTid>>
      /\ pc' = [pc EXCEPT ![t] = "mark"] /\ completed' = more
  BY <1>3, <1>4, <1>5 DEF Mark_as_completed, waits
<1>7. pc[t] \in {"run", "mark"} /\ waitTid[t] = NoThread
  BY DEF Mark_as_completed, Exhausted, ThreadInv, ThreadIs
<1>8. Len(st) \in Nat /\ i \in 1 .. Len(st) /\ m # 1 /\ x \in Subgoals
  <2>1. st \in Seq(FrameType)
    BY <1>3 DEF Whole, WellFormed
  <2>2. Len(st) \in Nat /\ m # 1
    BY <1>2, <2>1, StackIs DEF Leads
  <2> QED
    BY <1>3, <1>5, <2>2 DEF Whole, WellFormed
<1>9. On(stack[t], x) /\ tid[x] = t
  BY <1>3, <1>5, <1>8 DEF On, Evaluated
<1>10. pc'[t] = "mark" /\ \A u \in Threads \ {t} : pc'[u] = pc[u]
  BY <1>6 DEF TypeOK
<1>11. ThreadInv(t)'
  <2>1. Whole(c, t, st, more)
    BY <1>3, <1>5, MoreDone
  <2>2. \A j \in 1 .. m - 1 : st[j].sub \notin more
    <3> TAKE j \in 1 .. m - 1
    <3>1. j \in 1 .. Len(st) /\ j # i
      BY <1>3, <1>8
    <3>2. st[j].sub # x
      BY <1>3, <1>5, <1>8, <3>1 DEF Whole, WellFormed
    <3> QED
      BY <1>2, <1>5, <3>2
  <2>3. Marked(c, st, more)
    BY <1>2, <2>2 DEF Marked
  <2>4. PICK p, r, w, e : p = pc'[t] /\ r = producer'[t] /\ w = waitTid'[t] /\ e = tid'
    OBVIOUS
  <2>5. ThreadIs(c, t, st, more, p, r, w, e)
    BY <1>6, <1>7, <1>10, <2>1, <2>3, <2>4 DEF ThreadIs, Sleeping
  <2> QED
    BY <1>3, <1>6, <2>4, <2>5, NextThread
<1>12. ASSUME NEW u \in Threads \ {t} PROVE ThreadInv(u)'
  <2>1. PICK b, p, r, w, e : /\ b = stack[u] /\ p = pc[u] /\ r = producer[u] /\ w = waitTid[u]
                             /\ e = tid
    OBVIOUS
  <2>2. ThreadIs(c, u, b, done, p, r, w, e)
    BY <1>3, <2>1 DEF ThreadInv
  <2>3. \A j \in 1 .. Len(b) : b[j].sub \in more => b[j].sub \in done
    BY <1>5, <1>8, <1>9, <2>1 DEF Evaluated, On
  <2>4. ThreadIs(c, u, b, more, p, r, w, e)
    BY <1>5, <2>2, <2>3, KeptThread
  <2> QED
    BY <1>3, <1>6, <1>10, <2>1, <2>4, NextThread
<1>13. Evaluated'
  <2>1. tid[x] # NoThread
    BY <1>9, ProgramsOK
  <2> QED
    BY <1>3, <1>5, <1>6, <2>1 DEF Evaluated, On
<1>14. Heard'
  <2> SUFFICES ASSUME NEW u \in Threads, producer'[u] \in completed'
               PROVE  /\ pc'[u] = "wait" => /\ pc'[tid'[producer'[u]]] = "mark"
                                            /\ On(stack'[tid'[producer'[u]]], producer'[u])
                      /\ FifoMutex /\ pc'[u] = "woken" => pc'[tid'[producer'[u]]] \in {"run", "lock", "mark"}
    BY DEF Heard, On
  <2>1. CASE producer[u] = x
    BY <1>6, <1>9, <1>10, <2>1
  <2>2. CASE producer[u] # x
    <3>1. producer[u] \in completed
      BY <1>3, <1>5, <1>6, <2>2
    <3> DEFINE o == tid[producer[u]]
    <3>2. o \in Threads /\ tid'[producer'[u]] = o
      BY <1>6, <3>1, OwnerOf
    <3> HIDE DEF o
    <3>3. CASE u = t
      BY <1>10, <3>3
    <3>4. CASE u # t
      <4>1. /\ pc[u] = "wait" => pc[o] = "mark" /\ On(stack[o], producer[u])
            /\ FifoMutex /\ pc[u] = "woken" => pc[o] \in {"run", "lock", "mark"}
        BY <3>1 DEF Heard, o
      <4>2. pc'[u] = pc[u] /\ (pc'[o] = pc[o] \/ pc'[o] = "mark")
        BY <1>10, <3>2, <3>4
      <4> QED
        BY <1>6, <3>2, <4>1, <4>2
    <3> QED
      BY <3>3, <3>4
  <2> QED
    BY <2>1, <2>2
<1> QED
  BY <1>11, <1>12, <1>13, <1>14

(* The broadcast wakes all who wait for a subgoal of the SCC, whose       *)
(* frames leave the stack. *)
LEMMA BroadcastNext ==
    ASSUME TypeOK, Evaluated, Heard, NEW t \in Threads, Broadcast(t),
           \A u \in Threads : ThreadInv(u)
    PROVE  /\ Evaluated' /\ Heard' /\ \A u \in Threads : ThreadInv(u)'
           /\ Served(t)
<1>1. PICK c, st, done, m : TopAt(t, c, st, done, m)
  BY AtTop
<1>2. Leads(c, st, m) /\ \A i \in 1 .. m - 1 : st[i].sub \notin done
  BY <1>1, CompletingIs DEF Broadcast
<1>3. /\ c = calls /\ st = stack[t] /\ done = completed /\ Whole(c, t, st, done) /\ IsTop(st, m)
      /\ m \in 1 .. Len(st) /\ m = Newest(t)
  BY <1>1 DEF TopAt
<1>4. /\ st \in Seq(FrameType) /\ Len(st) \in Nat /\ Len(st) > 0 /\ m # 1
      /\ st[1].sub = t
  <2>1. st \in Seq(FrameType) /\ Len(st) > 0 /\ st[1].sub = t
    BY <1>3 DEF Whole, WellFormed
  <2> QED
    BY <1>2, <2>1, StackIs DEF Leads
<1>5. \A i \in m .. Len(st) : st[i].sub \in done /\ st[i].sub \in Scc(t)
  BY <1>3 DEF Broadcast, Scc
<1>6. PICK st1 : st1 = Cut(st, m)
  OBVIOUS
<1>a. Pops(c, t, st, done, m, st1)
  BY <1>3, <1>4, <1>5, <1>6, CutWhole
<1>7. /\ Whole(c, t, st1, done) /\ Len(st1) = m - 1
      /\ \A i \in 1 .. m - 1 : st1[i] = st[i]
  BY <1>a DEF Pops
<1>8. PICK k : /\ IsTop(st1, k) /\ Asks(c, st1[k], st[m].sub)
               /\ Settled(st1, k, st[m].sub, done)
  BY <1>a DEF Pops
<1>9. PICK st2 : st2 = Retried(st1)
  OBVIOUS
<1>10. Retries(c, t, st1, done, k, st2)
  <2>1. st1 \in Seq(FrameType) /\ k \in 1 .. Len(st1)
    BY <1>7, <1>8 DEF Whole, WellFormed, IsTop
  <2>2. st1[k].sub \in Threads \cup Subgoals
    BY <2>1, StackIs
  <2>3. Len(c[st1[k].sub]) \in Nat
    BY <1>3, <2>2, CallsAre DEF TypeOK
  <2> QED
    BY <1>7, <1>8, <1>9, <2>3, RetryWhole
<1>11. /\ Whole(c, t, st2, done) /\ Len(st2) = m - 1
       /\ \A i \in 1 .. m - 1 : st2[i].sub = st[i].sub /\ (i # k => st2[i] = st[i])
       /\ st2[k].at = st1[k].at + 1
  BY <1>7, <1>10 DEF Retries, SameSubs
<1>12. /\ stack'[t] = st2 /\ \A u \in Threads \ {t} : stack'[u] = stack[u]
       /\ UNCHANGED <<calls, completed, grabbed, tid, producer, waitTid>>
  BY <1>3, <1>6, <1>9 DEF Broadcast, Cut, TypeOK, tables, waits
<1>13. /\ pc[t] = "mark" /\ waitTid[t] = NoThread /\ pc'[t] = "run"
       /\ \A u \in Threads \ {t} : \/ pc'[u] = pc[u] /\ u \notin Woken(t)
                                   \/ pc[u] = "wait" /\ pc'[u] = "woken"
  BY DEF Broadcast, ThreadInv, ThreadIs, Woken
<1>14. ThreadInv(t)'
  <2>1. \A i \in 1 .. Len(st2) : st2[i].sub \notin done
    BY <1>2, <1>11
  <2> QED
    BY <1>3, <1>11, <1>12, <1>13, <2>1, RunsNext
<1>15. ASSUME NEW u \in Threads \ {t} PROVE ThreadInv(u)'
  <2>1. PICK b, p, q, r, w, e : /\ b = stack[u] /\ p = pc[u] /\ r = producer[u] /\ w = waitTid[u]
                                /\ e = tid /\ q = pc'[u]
    OBVIOUS
  <2>2. ThreadIs(c, u, b, done, p, r, w, e)
    BY <1>3, <2>1 DEF ThreadInv
  <2>3. ThreadIs(c, u, b, done, q, r, w, e)
    BY <1>13, <2>1, <2>2, KeptThread
  <2> QED
    BY <1>3, <1>12, <2>1, <2>3, NextThread
<1>16. Evaluated'
  <2>1. ASSUME NEW x, NEW i \in 1 .. Len(st2), st2[i].sub = x PROVE On(st, x)
    BY <1>3, <1>4, <1>11, <2>1 DEF On
  <2>2. ASSUME NEW x, x \notin done, On(st, x) PROVE \E i \in 1 .. Len(st2) : st2[i].sub = x
    <3>1. PICK i \in 1 .. Len(st) : st[i].sub = x
      BY <2>2 DEF On
    <3>2. i \in 1 .. m - 1
      BY <1>3, <1>4, <1>5, <2>2, <3>1
    <3> QED
      BY <1>11, <3>1, <3>2
  <2>3. ASSUME NEW x \in Subgoals, NEW u \in Threads
        PROVE  /\ (\E i \in 1 .. Len(stack'[u]) : stack'[u][i].sub = x) => On(stack[u], x)
               /\ x \notin done /\ On(stack[u], x) =>
                    \E i \in 1 .. Len(stack'[u]) : stack'[u][i].sub = x
    <3>1. CASE u = t
      BY <1>3, <1>12, <2>1, <2>2, <3>1
    <3>2. CASE u # t
      BY <1>12, <3>2 DEF On
    <3> QED
      BY <3>1, <3>2
  <2> QED
    BY <1>3, <1>12, <2>3 DEF Evaluated, On
<1>17. Heard'
  <2> SUFFICES ASSUME NEW u \in Threads, producer'[u] \in completed'
               PROVE  /\ pc'[u] = "wait" => /\ pc'[tid'[producer'[u]]] = "mark"
                                            /\ On(stack'[tid'[producer'[u]]], producer'[u])
                      /\ FifoMutex /\ pc'[u] = "woken" => pc'[tid'[producer'[u]]] \in {"run", "lock", "mark"}
    BY DEF Heard, On
  <2>1. producer[u] \in completed
    BY <1>12
  <2> DEFINE o == tid[producer[u]]
  <2>2. o \in Threads /\ tid'[producer'[u]] = o
    BY <1>12, <2>1, OwnerOf
  <2>3. pc[u] = "wait" => pc[o] = "mark" /\ On(stack[o], producer[u])
    BY <2>1 DEF Heard
  <2> HIDE DEF o
  <2>4. ASSUME pc'[u] = "wait" PROVE pc'[o] = "mark" /\ On(stack'[o], producer[u])
    <3>1. u # t /\ pc[u] = "wait" /\ u \notin Woken(t)
      BY <1>13, <2>4
    <3>2. o # t
      <4> SUFFICES ASSUME o = t PROVE FALSE
        OBVIOUS
      <4>1. PICK i \in 1 .. Len(st) : st[i].sub = producer[u]
        BY <1>3, <2>3, <3>1 DEF On
      <4>2. i \in m .. Len(st)
        BY <1>2, <1>3, <1>4, <2>1, <4>1
      <4>3. producer[u] \in Scc(t)
        BY <1>5, <4>1, <4>2
      <4> QED
        BY <3>1, <4>3 DEF Woken
    <3>3. pc'[o] = "mark"
      BY <1>13, <2>2, <2>3, <3>1, <3>2
    <3> QED
      BY <1>12, <2>2, <2>3, <3>1, <3>2, <3>3
  <2>5. ASSUME FifoMutex, pc'[u] = "woken" PROVE pc'[o] \in {"run", "lock", "mark"}
    <3>1. pc[u] # "woken"
      BY <2>5 DEF Broadcast
    <3>2. pc[u] = "wait"
      BY <1>13, <2>5, <3>1
    <3> QED
      BY <1>13, <2>2, <2>3, <3>2
  <2> QED
    BY <1>12, <2>2, <2>4, <2>5 DEF On
<1>18. Served(t)
  <2>1. k \in 1 .. m - 1 /\ 1 \in 1 .. m - 1 /\ m \in m .. Len(st)
    BY <1>3, <1>4, <1>7, <1>8 DEF IsTop
  <2>2. CASE k = 1
    <3>1. stack'[t][1].at = stack[t][1].at + 1
      BY <1>3, <1>7, <1>11, <1>12, <2>1, <2>2
    <3>2. Asks(c, st[1], st[m].sub) /\ st[m].sub \in done
      BY <1>5, <1>7, <1>8, <2>1, <2>2
    <3> QED
      BY <1>3, <1>4, <3>1, <3>2 DEF Served, Asks
  <2>3. CASE k # 1
    BY <1>3, <1>11, <1>12, <2>1, <2>3 DEF Served
  <2> QED
    BY <2>2, <2>3
<1> QED
  BY <1>14, <1>15, <1>16, <1>17, <1>18

-----------------------------------------------------------------------------
(* CIRCLES OF WAITING THREADS *)

(* Induction up to n, for a set. *)
LEMMA Induct ==
  ASSUME NEW n \in Nat, NEW S, 0 \in S, \A i \in 1..n : i - 1 \in S => i \in S
  PROVE  0..n \subseteq S
<1> DEFINE R == OpToRel(<, Nat)
           D == 0..n \ S
<1>1. IsWellFoundedOn(R, Nat)
  BY NatLessThanWellFounded
<1>2. \A x, y \in Nat : x < y => <<x, y>> \in R
  BY DEF OpToRel
<1> HIDE DEF R
<1>3. D \in SUBSET Nat
  OBVIOUS
<1> SUFFICES ASSUME D # {} PROVE FALSE
  OBVIOUS
<1>4. PICK i \in D : \A j \in D : ~ (<<j, i>> \in R)
  <2> HIDE DEF D
  <2> QED
    BY <1>1, <1>3, WFMin
<1>5. i \in 1..n /\ i - 1 \in 0..n
  BY <1>4
<1>6. i - 1 \notin D
  <2>1. <<i - 1, i>> \in R
    BY <1>2, <1>5
  <2> HIDE DEF D
  <2> QED
    BY <1>4, <2>1
<1> QED
  BY <1>4, <1>5, <1>6

Steps(X, n) == [X \X (1..n) -> X]

Iterates(X, b, n, F) ==
  \E g \in [0..n -> X] : g[0] = b /\ \A i \in 1..n : g[i] = F[<<g[i - 1], i>>]

(* A function defined by recursion over 0..n stays in the set that its     *)
(* step does not leave. *)
LEMMA Recursion ==
  ASSUME NEW X, NEW b \in X, NEW n \in Nat, NEW F \in Steps(X, n)
  PROVE  Iterates(X, b, n, F)
<1> USE DEF Steps
<1> DEFINE Ok(m, g) == g[0] = b /\ \A i \in 1..m : g[i] = F[<<g[i - 1], i>>]
           S == {m \in 0..n : \E g \in [0..m -> X] : Ok(m, g)}
<1>1. 0 \in S
  <2>1. [i \in 0..0 |-> b] \in [0..0 -> X] /\ Ok(0, [i \in 0..0 |-> b])
    OBVIOUS
  <2>2. \E g \in [0..0 -> X] : Ok(0, g)
    <3> HIDE DEF Ok
    <3> QED
      BY <2>1
  <2> QED
    BY <2>2
<1>2. ASSUME NEW m \in 1..n, m - 1 \in S PROVE m \in S
  <2>1. PICK g \in [0..m - 1 -> X] : Ok(m - 1, g)
    BY <1>2
  <2> DEFINE h == [i \in 0..m |-> IF i = m THEN F[<<g[m - 1], m>>] ELSE g[i]]
  <2>2. F[<<g[m - 1], m>>] \in X
    BY <2>1
  <2>3. h \in [0..m -> X]
    BY <2>1, <2>2
  <2>4. Ok(m, h)
    <3>1. h[0] = b
      BY <2>1
    <3>2. ASSUME NEW i \in 1..m PROVE h[i] = F[<<h[i - 1], i>>]
      <4>1. h[i - 1] = g[i - 1]
        OBVIOUS
      <4>2. CASE i = m
        <5>1. h[i] = F[<<g[i - 1], i>>]
          BY <4>2
        <5> HIDE DEF h
        <5> QED
          BY <4>1, <5>1
      <4>3. CASE i # m
        <5>1. h[i] = g[i] /\ g[i] = F[<<g[i - 1], i>>]
          BY <2>1, <4>3
        <5> QED
          BY <4>1, <5>1
      <4> QED
        BY <4>2, <4>3
    <3> QED
      BY <3>1, <3>2
  <2>5. \E f \in [0..m -> X] : Ok(m, f)
    <3> HIDE DEF Ok, h
    <3> QED
      BY <2>3, <2>4
  <2> QED
    BY <2>5
<1>3. n \in S
  <2> HIDE DEF S
  <2> QED
    BY <1>1, <1>2, Induct
<1> QED
  BY <1>3 DEF Iterates

(* The walk of would_deadlock from thread o on. *)
LEMMA WalkIs ==
    ASSUME TypeOK, NEW o \in Threads
    PROVE  /\ Cardinality(Threads) \in Nat
           /\ Walk(o) \in [0 .. Cardinality(Threads) -> Threads \cup {NoThread}]
           /\ Walk(o)[0] = o
           /\ \A n \in 1 .. Cardinality(Threads) :
                Walk(o)[n] = IF Walk(o)[n - 1] = NoThread THEN NoThread ELSE waitTid[Walk(o)[n - 1]]
<1>1. PICK N, w : N = Cardinality(Threads) /\ w = waitTid
  OBVIOUS
<1>2. N \in Nat
  BY <1>1, ProgramsOK, FS_CardinalityType
<1> DEFINE X == Threads \cup {NoThread}
           Next_(x) == IF x = NoThread THEN NoThread ELSE w[x]
           F == [xk \in X \X (1 .. N) |-> Next_(xk[1])]
           walk == Walk(o)
<1>3. \A x \in X : Next_(x) \in X
  BY <1>1 DEF TypeOK
<1>4. F \in Steps(X, N)
  <2> HIDE DEF X, Next_
  <2> QED
    BY <1>3 DEF Steps
<1> HIDE DEF F
<1>5. PICK g \in [0 .. N -> X] : g[0] = o /\ \A i \in 1 .. N : g[i] = F[<<g[i - 1], i>>]
  <2>1. o \in X
    OBVIOUS
  <2>2. Iterates(X, o, N, F)
    <3> HIDE DEF X
    <3> QED
      BY <1>2, <1>4, <2>1, Recursion
  <2> QED
    BY <2>2 DEF Iterates
<1> HIDE DEF X
<1>6. \A i \in 1 .. N : g[i] = Next_(g[i - 1])
  <2> TAKE i \in 1 .. N
  <2>1. g[i - 1] \in X
    BY <1>2, <1>5
  <2> HIDE DEF Next_
  <2>2. F[<<g[i - 1], i>>] = Next_(g[i - 1])
    BY <2>1 DEF F
  <2> QED
    BY <1>5, <2>2
<1>7. g = [k \in 0 .. N |-> IF k = 0 THEN o ELSE IF g[k - 1] = NoThread THEN NoThread ELSE w[g[k - 1]]]
  BY <1>2, <1>5, <1>6
<1>8. walk = CHOOSE f : f = [k \in 0 .. N |-> IF k = 0 THEN o
                               ELSE IF f[k - 1] = NoThread THEN NoThread ELSE w[f[k - 1]]]
  BY <1>1 DEF Walk
<1> HIDE DEF walk
<1>9. walk = [k \in 0 .. N |-> IF k = 0 THEN o
                               ELSE IF walk[k - 1] = NoThread THEN NoThread ELSE w[walk[k - 1]]]
  BY <1>7, <1>8
<1>10. \A i \in 1 .. N : walk[i] = Next_(walk[i - 1])
  BY <1>2, <1>9
<1>11. walk[0] = o
  BY <1>2, <1>9
<1>12. \A i \in 0 .. N : walk[i] \in X
  <2> DEFINE S == {i \in 0 .. N : walk[i] \in X}
  <2>1. 0 \in S
    BY <1>2, <1>11 DEF X
  <2>2. \A i \in 1 .. N : i - 1 \in S => i \in S
    BY <1>2, <1>3, <1>10
  <2>3. 0 .. N \subseteq S
    <3> HIDE DEF S
    <3> QED
      BY <1>2, <2>1, <2>2, Induct
  <2> QED
    BY <2>3
<1>13. walk \in [0 .. N -> X]
  BY <1>9, <1>12
<1> QED
  BY <1>1, <1>2, <1>10, <1>11, <1>13 DEF walk, X

(* A step that takes t off those who wait, or nobody, closes no circle. *)
LEMMA RingKept ==
    ASSUME NoRing, NEW t \in Threads, \A u \in Threads \ {t} : waitTid'[u] = waitTid[u],
           waitTid'[t] \in {waitTid[t], NoThread}
    PROVE  NoRing'
<1> SUFFICES ASSUME NEW W \in (SUBSET Threads) \ {{}}, \A u \in W : waitTid'[u] \in W
             PROVE  FALSE
  BY DEF NoRing
<1>1. PICK u \in W : waitTid[u] \notin W
  BY DEF NoRing
<1> QED
  BY <1>1, ProgramsOK

(* Nor does a thread that waits after would_deadlock found no circle. *)
LEMMA RingOfWait ==
    ASSUME TypeOK, NoRing, NEW t \in Threads, tid[producer[t]] \in Threads, Wait(t)
    PROVE  NoRing'
<1> DEFINE o == tid[producer[t]]
           N == Cardinality(Threads)
           walk == Walk(o)
<1>1. /\ N \in Nat /\ walk \in [0 .. N -> Threads \cup {NoThread}] /\ walk[0] = o
      /\ \A n \in 1 .. N :
           walk[n] = IF walk[n - 1] = NoThread THEN NoThread ELSE waitTid[walk[n - 1]]
  BY WalkIs
<1>2. \A n \in 0 .. N : walk[n] # t
  BY <1>1 DEF Wait, Would_deadlock
<1>3. walk[N] = NoThread
  BY DEF Wait, Endless
<1>4. waitTid'[t] = o /\ \A u \in Threads \ {t} : waitTid'[u] = waitTid[u]
  BY DEF Wait, TypeOK
<1> SUFFICES ASSUME NEW W \in (SUBSET Threads) \ {{}}, \A u \in W : waitTid'[u] \in W
             PROVE  FALSE
  BY DEF NoRing
<1> HIDE DEF o, N, walk
<1>5. CASE t \notin W
  BY <1>4, <1>5 DEF NoRing
<1>6. CASE t \in W
  <2> DEFINE S == {n \in 0 .. N : walk[n] \in W}
  <2>1. 0 \in S
    BY <1>1, <1>4, <1>6
  <2>2. ASSUME NEW n \in 1 .. N, n - 1 \in S PROVE n \in S
    <3>1. n - 1 \in 0 .. N /\ walk[n - 1] \in W /\ walk[n - 1] # t
      BY <1>2, <2>2
    <3>2. walk[n - 1] # NoThread
      BY <3>1, ProgramsOK
    <3>3. walk[n] = waitTid[walk[n - 1]]
      BY <1>1, <3>2
    <3>4. waitTid[walk[n - 1]] \in W
      BY <1>4, <3>1
    <3> QED
      BY <3>3, <3>4
  <2>3. 0 .. N \subseteq S
    <3> HIDE DEF S
    <3> QED
      BY <1>1, <2>1, <2>2, Induct
  <2>4. walk[N] \in W
    BY <1>1, <2>3
  <2> QED
    BY <1>3, <2>4, ProgramsOK
<1> QED
  BY <1>5, <1>6

-----------------------------------------------------------------------------
(* THE INVARIANT *)

(* The stacks of the next state have their type when the threads have      *)
(* theirs. *)
LEMMA StacksTyped ==
    ASSUME \A u \in Threads : ThreadInv(u)', NEW u \in Threads
    PROVE  /\ stack'[u] # <<>> /\ stack'[u][1].sub = u
           /\ \A i \in DOMAIN stack'[u] : stack'[u][i] \in FrameType
<1>1. PICK st : st = stack'[u]
  OBVIOUS
<1>2. st \in Seq(FrameType) /\ Len(st) > 0 /\ st[1].sub = u
  BY <1>1 DEF ThreadInv, ThreadIs, Whole, WellFormed
<1>3. st # <<>> /\ \A i \in DOMAIN st : st[i] \in FrameType
  BY <1>2, StackIs
<1> QED
  BY <1>1, <1>2, <1>3

(* What a step changes besides the stacks of the threads has its type. *)
Rest ==
    /\ calls \in Programs
    /\ tid \in [Subgoals -> Threads \cup {NoThread}]
    /\ completed \subseteq Subgoals
    /\ grabbed \subseteq Subgoals
    /\ DOMAIN stack = Threads
    /\ pc \in [Threads -> {"run", "lock", "wait", "woken", "reset", "mark"}]
    /\ producer \in [Threads -> Subgoals \cup {NoSubgoal}]
    /\ waitTid \in [Threads -> Threads \cup {NoThread}]
    /\ waitSub \in [Threads -> Subgoals \cup {NoSubgoal}]
    /\ isLeader \in [Threads -> BOOLEAN]
    /\ reset \in [Threads -> BOOLEAN]
    /\ tmpNext \in [Threads -> Threads \cup {NoThread}]
    /\ tmp \in [Threads -> Threads \cup {NoThread}]
    /\ sgf \in [Threads -> Subgoals \cup {NoSubgoal}]

(* The types of the next state, from those of the stacks and of the rest. *)
LEMMA RestTyped ==
    ASSUME Rest', \A u \in Threads : ThreadInv(u)'
    PROVE  TypeOK'
<1>1. ASSUME NEW u \in Threads
      PROVE  /\ stack'[u] # <<>> /\ stack'[u][1].sub = u
             /\ \A i \in DOMAIN stack'[u] : stack'[u][i] \in FrameType
  BY StacksTyped
<1> QED
  BY <1>1 DEF Rest, TypeOK

(* Quiet steps keep the whole invariant, if no circle is closed. *)
LEMMA QuietInv ==
    ASSUME Inv, NEW t \in Threads, Quiet(t), ThreadInv(t)', Rest', Calm', NoRing'
    PROVE  Inv'
<1>1. \A u \in Threads : ThreadInv(u)'
  <2> TAKE u \in Threads
  <2>1. CASE u = t
    BY <2>1
  <2>2. CASE u # t
    BY <2>2, QuietOthers DEF Inv
  <2> QED
    BY <2>1, <2>2
<1>2. Evaluated'
  BY QuietEvaluated DEF Inv
<1>3. Heard'
  BY QuietHeard DEF Inv
<1>4. TypeOK'
  BY <1>1, RestTyped
<1> QED
  BY <1>1, <1>2, <1>3, <1>4 DEF Inv

(* The invariant, step by step: a subgoal that another thread evaluates; *)
LEMMA AskInv ==
    ASSUME Inv, NEW t \in Threads, NEW s \in Subgoals, Ask(t, s)
    PROVE  Inv'
<1>1. ThreadInv(t)' /\ Quiet(t)
  BY AskThread DEF Inv
<1>2. Rest'
  BY DEF Inv, TypeOK, Rest, Ask, tables, resets
<1>3. Calm'
  BY DEF Inv, TypeOK, Calm, Ask, tables
<1>4. NoRing'
  BY RingKept DEF Inv, Ask
<1> QED
  BY <1>1, <1>2, <1>3, <1>4, QuietInv

(* the answers of a completed one; *)
LEMMA Return_answersInv ==
    ASSUME Inv, NEW t \in Threads, NEW s \in Subgoals, Return_answers(t, s)
    PROVE  Inv'
<1>1. ThreadInv(t)' /\ Quiet(t)
  BY Return_answersThread DEF Inv
<1>2. Rest'
  BY DEF Inv, TypeOK, Rest, Return_answers, tables, resets, waits
<1>3. Calm'
  BY DEF Inv, Calm, Return_answers, tables, waits
<1>4. NoRing'
  BY RingKept DEF Inv, Return_answers, waits
<1> QED
  BY <1>1, <1>2, <1>3, <1>4, QuietInv

(* a subgoal of the thread's own; *)
LEMMA ConsumeInv ==
    ASSUME Inv, NEW t \in Threads, NEW s \in Subgoals, Consume(t, s)
    PROVE  Inv'
<1>1. ThreadInv(t)' /\ Quiet(t)
  BY ConsumeThread DEF Inv
<1>2. Rest'
  BY DEF Inv, TypeOK, Rest, Consume, tables, resets, waits
<1>3. Calm'
  BY DEF Inv, Calm, Consume, tables, waits
<1>4. NoRing'
  BY RingKept DEF Inv, Consume, waits
<1> QED
  BY <1>1, <1>2, <1>3, <1>4, QuietInv

(* a generator inside a larger SCC; *)
LEMMA Become_consumerInv ==
    ASSUME Inv, NEW t \in Threads, Become_consumer(t)
    PROVE  Inv'
<1>1. ThreadInv(t)' /\ Quiet(t)
  BY Become_consumerThread DEF Inv
<1>2. Rest'
  BY DEF Inv, TypeOK, Rest, Become_consumer, tables, resets, waits
<1>3. Calm'
  BY DEF Inv, Calm, Become_consumer, tables, waits
<1>4. NoRing'
  BY RingKept DEF Inv, Become_consumer, waits
<1> QED
  BY <1>1, <1>2, <1>3, <1>4, QuietInv

(* the end of a wait; *)
LEMMA Leave_waitInv ==
    ASSUME Inv, NEW t \in Threads, Leave_wait(t)
    PROVE  Inv'
<1>1. ThreadInv(t)' /\ Quiet(t)
  BY Leave_waitThread DEF Inv
<1>2. Rest'
  BY DEF Inv, TypeOK, Rest, Leave_wait, Waits_no_more, tables, resets
<1>3. Calm'
  BY DEF Inv, TypeOK, Calm, Leave_wait, tables
<1>4. NoRing'
  <2>1. waitTid' = [waitTid EXCEPT ![t] = NoThread]
    BY DEF Leave_wait, Waits_no_more
  <2>2. waitTid \in [Threads -> Threads \cup {NoThread}] /\ NoRing
    BY DEF Inv, TypeOK
  <2> QED
    BY <2>1, <2>2, RingKept
<1> QED
  BY <1>1, <1>2, <1>3, <1>4, QuietInv

(* a wait, which would_deadlock allowed; *)
LEMMA WaitInv ==
    ASSUME Inv, NEW t \in Threads, Wait(t)
    PROVE  Inv'
<1>1. ThreadInv(t)' /\ Quiet(t)
  BY WaitThread DEF Inv
<1>2. tid[producer[t]] \in Threads /\ producer[t] \in Subgoals
  BY DEF Inv, ThreadInv, ThreadIs, Sleeping, Wait, Locked
<1>3. Rest'
  BY <1>2 DEF Inv, TypeOK, Rest, Wait, tables, resets
<1>4. Calm'
  BY DEF Inv, TypeOK, Calm, Wait, tables
<1>5. NoRing'
  BY <1>2, RingOfWait DEF Inv
<1> QED
  BY <1>1, <1>3, <1>4, <1>5, QuietInv

(* a new subgoal; *)
LEMMA New_producerInv ==
    ASSUME Inv, NEW t \in Threads, NEW s \in Subgoals, New_producer(t, s)
    PROVE  Inv'
<1>1. Evaluated' /\ Heard' /\ \A u \in Threads : ThreadInv(u)'
  BY New_producerNext DEF Inv
<1>2. Rest'
  BY DEF Inv, TypeOK, Rest, New_producer, waits, resets
<1>3. Calm'
  BY DEF Inv, Calm, New_producer, waits
<1>4. NoRing'
  BY RingKept DEF Inv, New_producer, waits
<1> QED
  BY <1>1, <1>2, <1>3, <1>4, RestTyped DEF Inv

(* the completion of a subgoal; *)
LEMMA Mark_as_completedInv ==
    ASSUME Inv, NEW t \in Threads, Mark_as_completed(t)
    PROVE  Inv'
<1>1. Evaluated' /\ Heard' /\ \A u \in Threads : ThreadInv(u)'
  BY Mark_as_completedNext DEF Inv
<1>2. completed' \subseteq Subgoals
  <2>1. PICK c, st, done, m : TopAt(t, c, st, done, m)
    BY AtTop DEF Inv
  <2>2. Leads(c, st, m)
    BY <2>1, CompletingIs DEF Mark_as_completed, Inv
  <2>3. /\ st = stack[t] /\ m = Newest(t) /\ m \in 1 .. Len(st) /\ m # 1
        /\ st \in Seq(FrameType) /\ \A i \in 2 .. Len(st) : st[i].sub \in Subgoals
    BY <2>1, <2>2 DEF TopAt, Leads, Whole, WellFormed
  <2>4. \A i \in m .. Len(st) : st[i].sub \in Subgoals
    BY <2>3, StackIs
  <2>5. completed \subseteq Subgoals
    BY DEF Inv, TypeOK
  <2> QED
    BY <2>3, <2>4, <2>5 DEF Mark_as_completed
<1>3. Rest'
  BY <1>2 DEF Inv, TypeOK, Rest, Mark_as_completed, waits, resets
<1>4. Calm'
  BY DEF Inv, TypeOK, Calm, Mark_as_completed, waits
<1>5. NoRing'
  BY RingKept DEF Inv, Mark_as_completed, waits
<1> QED
  BY <1>1, <1>3, <1>4, <1>5, RestTyped DEF Inv

(* and the broadcast. *)
LEMMA BroadcastInv ==
    ASSUME Inv, NEW t \in Threads, Broadcast(t)
    PROVE  Inv'
<1>1. Evaluated' /\ Heard' /\ \A u \in Threads : ThreadInv(u)'
  BY BroadcastNext DEF Inv
<1>2. Rest'
  BY DEF Inv, TypeOK, Rest, Broadcast, tables, waits, resets
<1>3. Calm'
  BY DEF Inv, TypeOK, Calm, Broadcast, tables, waits
<1>4. NoRing'
  BY RingKept DEF Inv, Broadcast, waits
<1> QED
  BY <1>1, <1>2, <1>3, <1>4, RestTyped DEF Inv

(* Nothing is evaluated at first. *)
LEMMA InitInv == Init => Inv
<1> SUFFICES ASSUME Init PROVE Inv
  OBVIOUS
<1>1. /\ calls \in Programs /\ stack = [t \in Threads |-> <<Frame(t)>>]
      /\ completed = {} /\ pc = [t \in Threads |-> "run"] /\ waitTid = [t \in Threads |-> NoThread]
      /\ tid = [s \in Subgoals |-> NoThread]
  BY DEF Init
<1>2. ASSUME NEW t \in Threads, NEW c, NEW st, c = calls, st = stack[t]
      PROVE  /\ WellFormed(c, t, st) /\ Covered(c, st, {})
             /\ Len(st) = 1 /\ st[1].sub = t /\ st[1] \in FrameType /\ DOMAIN st = {1}
  <2>1. c[t] \in Seq(Subgoals) /\ Len(c[t]) \in Nat
    BY <1>1, <1>2, CallsAre
  <2>2. /\ Frame(t) \in FrameType /\ Frame(t).sub = t /\ Frame(t).at = 1
        /\ Frame(t).lead = TRUE /\ Frame(t).open = TRUE
    BY DEF Frame, FrameType
  <2>3. st = <<Frame(t)>>
    BY <1>1, <1>2
  <2>4. st \in Seq(FrameType) /\ Len(st) = 1 /\ st[1] = Frame(t) /\ DOMAIN st = {1}
    BY <2>2, <2>3
  <2>5. WellFormed(c, t, st)
    <3>1. \A i, j \in 1 .. Len(st) : i = 1 /\ j = 1
      BY <2>4
    <3> QED
      BY <2>1, <2>2, <2>4, <3>1 DEF WellFormed
  <2>6. Covered(c, st, {})
    BY <2>2, <2>4 DEF Covered
  <2> QED
    BY <2>2, <2>4, <2>5, <2>6
<1>3. \A t \in Threads : ThreadInv(t)
  <2> TAKE t \in Threads
  <2>1. PICK c, st, r, e : c = calls /\ st = stack[t] /\ r = producer[t] /\ e = tid
    OBVIOUS
  <2>2. Whole(c, t, st, {})
    BY <1>2, <2>1 DEF Whole
  <2>3. ThreadIs(c, t, st, {}, "run", r, NoThread, e)
    BY <2>2, RunsOn
  <2> QED
    BY <1>1, <2>1, <2>3 DEF ThreadInv
<1>4. Evaluated
  <2>1. ASSUME NEW s \in Subgoals, NEW t \in Threads PROVE ~ On(stack[t], s)
    <3>1. Len(stack[t]) = 1 /\ stack[t][1].sub = t
      <4>1. PICK c, st : c = calls /\ st = stack[t]
        OBVIOUS
      <4> QED
        BY <1>2, <4>1
    <3> QED
      BY <3>1, ProgramsOK DEF On
  <2> QED
    BY <1>1, <2>1, ProgramsOK DEF Evaluated
<1>5. Heard
  BY <1>1 DEF Heard
<1>6. NoRing
  <2> SUFFICES ASSUME NEW W \in (SUBSET Threads) \ {{}}, \A t \in W : waitTid[t] \in W
               PROVE  FALSE
    BY DEF NoRing
  <2>1. PICK t \in W : TRUE
    OBVIOUS
  <2> QED
    BY <1>1, <2>1, ProgramsOK
<1>7. Calm
  BY DEF Init, Calm
<1>8. TypeOK
  <2>1. ASSUME NEW t \in Threads
        PROVE  /\ stack[t] # <<>> /\ stack[t][1].sub = t
               /\ \A i \in DOMAIN stack[t] : stack[t][i] \in FrameType
    <3>1. PICK c, st : c = calls /\ st = stack[t]
      OBVIOUS
    <3>2. st[1].sub = t /\ st[1] \in FrameType /\ DOMAIN st = {1} /\ Len(st) = 1
      BY <1>2, <3>1
    <3>3. st # <<>>
      BY <3>2
    <3> QED
      BY <3>1, <3>2, <3>3
  <2> QED
    BY <2>1 DEF Init, TypeOK
<1> QED
  BY <1>3, <1>4, <1>5, <1>6, <1>7, <1>8 DEF Inv

(* As long as no deadlock is broken. *)
NoBreak == \A t \in Threads : ~ Break_deadlock(t)
NoneBroken == [][NoBreak]_vars

(* What leaders do is not done. *)
LEMMA NoLeader ==
    ASSUME Inv, NEW t \in Threads, NEW s \in Subgoals, NEW v \in Threads
    PROVE  ~ Take_grabbed(t, s) /\ ~ Reset_nothing(t, v) /\ ~ Reset_thread(t, v) /\ ~ Usurp(t)
BY DEF Inv, Calm, Take_grabbed, Reset_nothing, Reset_thread, Resetting, Usurp

(* Every step but Break_deadlock keeps the invariant. *)
LEMMA InvStep ==
    ASSUME Inv, [Next]_vars, [NoBreak]_vars
    PROVE  Inv'
<1>1. CASE UNCHANGED vars
  <2>1. ASSUME NEW u \in Threads PROVE ThreadInv(u)'
    <3>1. PICK c, st, done, p, r, w, e :
            /\ c = calls /\ st = stack[u] /\ done = completed /\ p = pc[u] /\ r = producer[u]
            /\ w = waitTid[u] /\ e = tid
      OBVIOUS
    <3>2. ThreadIs(c, u, st, done, p, r, w, e)
      BY <3>1 DEF Inv, ThreadInv
    <3> QED
      BY <1>1, <3>1, <3>2, NextThread DEF vars
  <2>2. TypeOK' /\ Calm' /\ NoRing'
    BY <1>1 DEF Inv, TypeOK, Calm, NoRing, vars
  <2>3. Evaluated' /\ Heard'
    BY <1>1 DEF Inv, Evaluated, Heard, On, vars
  <2> QED
    BY <2>1, <2>2, <2>3 DEF Inv
<1>2. CASE ~ UNCHANGED vars
  <2>1. PICK t \in Threads : Step(t) \/ Idle(t)
    BY <1>2 DEF Next
  <2>2. Step(t) /\ ~ Break_deadlock(t)
    BY <1>2, <2>1 DEF Idle, NoBreak
  <2>3. CASE \E s \in Subgoals : New_producer(t, s) \/ Take_grabbed(t, s) \/ Ask(t, s)
                                 \/ Return_answers(t, s) \/ Consume(t, s)
    BY <2>3, New_producerInv, NoLeader, AskInv, Return_answersInv, ConsumeInv
  <2>4. CASE Leave_wait(t) \/ Wait(t) \/ Become_consumer(t) \/ Mark_as_completed(t) \/ Broadcast(t)
    BY <2>4, Leave_waitInv, WaitInv, Become_consumerInv, Mark_as_completedInv, BroadcastInv
  <2>5. CASE Usurp(t) \/ \E v \in Threads : Reset_nothing(t, v) \/ Reset_thread(t, v)
    BY <2>5 DEF Inv, Calm, Reset_nothing, Reset_thread, Resetting, Usurp
  <2> QED
    BY <2>2, <2>3, <2>4, <2>5 DEF Step
<1> QED
  BY <1>1, <1>2

(* So it holds until a deadlock is broken. *)
LEMMA SpecInv == Spec /\ NoneBroken => []Inv
<1>1. Init => Inv
  BY InitInv
<1>2. Inv /\ [Next]_vars /\ [NoBreak]_vars => Inv'
  BY InvStep
<1> QED
  BY <1>1, <1>2, PTL DEF Spec, NoneBroken

-----------------------------------------------------------------------------
(* WHAT HOLDS UNTIL A DEADLOCK IS BROKEN *)

(* All variables keep their types. *)
THEOREM TypeCorrect == Spec /\ NoneBroken => []TypeOK
<1>1. Inv => TypeOK
  BY DEF Inv
<1> QED
  BY <1>1, SpecInv, PTL

(* The subgoals on a stack, by the definition of the model. *)
LEMMA FramesOn ==
    ASSUME Inv, NEW t \in Threads, NEW s
    PROVE  Frames(t, s) # {} <=> On(stack[t], s)
<1>1. PICK st : st = stack[t]
  OBVIOUS
<1>2. st \in Seq(FrameType)
  BY <1>1 DEF Inv, ThreadInv, ThreadIs, Whole, WellFormed
<1>3. DOMAIN st = 1 .. Len(st)
  BY <1>2, StackIs
<1> QED
  BY <1>1, <1>3 DEF Frames, On

(* The owner of a subgoal, by the definition of the model. *)
LEMMA InvOneEvaluator == ASSUME Inv PROVE OneEvaluator
<1> SUFFICES ASSUME NEW s \in Subgoals \ completed, NEW t \in Threads
             PROVE  Frames(t, s) # {} <=> t = tid[s]
  BY DEF OneEvaluator
<1>1. Frames(t, s) # {} <=> On(stack[t], s)
  BY FramesOn
<1> QED
  BY <1>1 DEF Inv, Evaluated

(* One thread evaluates each incomplete subgoal: the frame of the subgoal  *)
(* is on its stack and on no other, however the threads' calls, waits and  *)
(* completions interleave. *)
THEOREM EvaluatedByOne == Spec /\ NoneBroken => []OneEvaluator
BY SpecInv, InvOneEvaluator, PTL

(* A thread has the frame of each incomplete subgoal it owns. *)
LEMMA InvConsumesOwn == ASSUME Inv PROVE ConsumesOwn
<1> SUFFICES ASSUME NEW t \in Threads, NEW s \in Subgoals, Own_incomplete(t, s)
             PROVE  Frames(t, s) # {}
  BY DEF ConsumesOwn
<1>1. On(stack[t], s)
  BY DEF Inv, Evaluated, Own_incomplete
<1> QED
  BY <1>1, FramesOn

(* A thread that comes to a subgoal of its own finds its frame on its      *)
(* stack, where adjust_level looks for it. *)
THEOREM OwnIsConsumed == Spec /\ NoneBroken => []ConsumesOwn
BY SpecInv, InvConsumesOwn, PTL

(* Waiting threads have their waiting_for_tid set, so a circle of theirs  *)
(* is one of it. *)
LEMMA InvNoCircle == ASSUME Inv PROVE NoCircle
<1> SUFFICES ASSUME NEW W \in (SUBSET Threads) \ {{}},
                    \A t \in W : /\ pc[t] = "wait" /\ producer[t] \notin completed
                                 /\ tid[producer[t]] \in W
             PROVE  FALSE
  BY DEF NoCircle
<1>1. PICK t \in W : waitTid[t] \notin W
  BY DEF Inv, NoRing
<1>2. waitTid[t] = tid[producer[t]]
  BY DEF Inv, ThreadInv, ThreadIs
<1> QED
  BY <1>1, <1>2

(* No threads wait for each other in a circle: what would_deadlock finds   *)
(* in waiting_for_tid is enough to keep every thread from closing one.     *)
THEOREM CirclesAreNotClosed == Spec /\ NoneBroken => []NoCircle
BY SpecInv, InvNoCircle, PTL

-----------------------------------------------------------------------------
(* COMPLETE TABLES *)

(* What is complete for those who call it, as the refinement has it. *)
Complete_ == completed \cup UNION {Scc(u) : u \in Marking}
Answered_ == [u \in Threads |-> stack[u][1].at - 1]

(* The SCC of a thread is that of its stack. *)
LEMMA SccKept ==
    ASSUME NEW u \in Threads, stack'[u] = stack[u]
    PROVE  Scc(u)' = Scc(u)
<1>1. Newest(u)' = Newest(u)
  BY DEF Newest
<1> QED
  BY <1>1 DEF Scc

(* Complete_ does not change with a step of t on its stack alone, or when  *)
(* its SCC is completed. *)
LEMMA CompleteKept ==
    ASSUME NEW t \in Threads, completed' = completed,
           \A u \in Threads \ {t} : stack'[u] = stack[u] /\ (pc'[u] = "mark" <=> pc[u] = "mark"),
           pc'[t] # "mark", pc[t] = "mark" => Scc(t) \subseteq completed
    PROVE  Complete_' = Complete_
<1>1. \A u \in Threads \ {t} : Scc(u)' = Scc(u)
  BY SccKept
<1>2. \A x : (\E u \in Threads : pc'[u] = "mark" /\ x \in Scc(u)') => x \in Complete_
  BY <1>1 DEF Complete_, Marking
<1>3. \A x : (\E u \in Threads : pc[u] = "mark" /\ x \in Scc(u)) =>
               x \in completed \/ \E u \in Threads : pc'[u] = "mark" /\ x \in Scc(u)'
  BY <1>1
<1>4. \A x : x \in Complete_' <=> x \in completed' \/ \E u \in Threads : pc'[u] = "mark" /\ x \in Scc(u)'
  BY DEF Complete_, Marking
<1>5. \A x : x \in Complete_ <=> x \in completed \/ \E u \in Threads : pc[u] = "mark" /\ x \in Scc(u)
  BY DEF Complete_, Marking
<1> QED
  BY <1>2, <1>3, <1>4, <1>5

(* A step of CompletedTables, or none. *)
TablesStep == T!Next \/ UNCHANGED <<calls, Complete_, Answered_>>

(* A step that completes nothing is the answer to a query, or none. *)
LEMMA ServedStep ==
    ASSUME Inv, NEW t \in Threads, Served(t), calls' = calls, Complete_' = Complete_,
           \A u \in Threads \ {t} : stack'[u] = stack[u]
    PROVE  TablesStep
<1>1. stack[t][1].at \in Nat
  <2>1. PICK st : st = stack[t]
    OBVIOUS
  <2>2. st \in Seq(FrameType) /\ Len(st) > 0
    BY <2>1 DEF Inv, ThreadInv, ThreadIs, Whole, WellFormed
  <2>3. Len(st) \in Nat
    BY <2>2, StackIs
  <2>4. 1 \in 1 .. Len(st)
    BY <2>2, <2>3
  <2> QED
    BY <2>1, <2>2, <2>4, StackIs
<1>2. CASE stack'[t][1].at = stack[t][1].at
  <2>1. Answered_' = Answered_
    BY <1>2 DEF Answered_
  <2> QED
    BY <2>1 DEF TablesStep
<1>3. CASE stack'[t][1].at # stack[t][1].at
  <2> DEFINE n == stack[t][1].at
  <2>1. stack'[t][1].at = n + 1 /\ n <= Len(calls[t]) /\ calls[t][n] \in completed
    BY <1>3 DEF Served
  <2>2. Answered_[t] = n - 1 /\ n - 1 + 1 = n
    BY <1>1 DEF Answered_
  <2>3. Answered_' = [Answered_ EXCEPT ![t] = @ + 1]
    <3>1. n + 1 - 1 = n - 1 + 1
      BY <1>1
    <3>2. \A u \in Threads : stack'[u][1].at - 1 = IF u = t THEN n - 1 + 1 ELSE stack[u][1].at - 1
      <4> TAKE u \in Threads
      <4>1. CASE u = t
        <5>1. stack'[u][1].at = stack'[t][1].at
          BY <4>1
        <5>2. stack'[t][1].at = n + 1
          BY <2>1
        <5>3. PICK a \in Nat : a = n
          BY <1>1
        <5>4. PICK b \in Nat : b = stack'[u][1].at
          BY <5>1, <5>2, <5>3
        <5>5. b = a + 1
          BY <5>1, <5>2, <5>3, <5>4
        <5>6. b - 1 = a - 1 + 1
          BY <5>5
        <5> HIDE DEF n
        <5>7. stack'[u][1].at - 1 = n - 1 + 1
          BY <5>3, <5>4, <5>6
        <5> QED
          BY <4>1, <5>7
      <4>2. CASE u # t
        BY <4>2
      <4> QED
        BY <4>1, <4>2
    <3> HIDE DEF n
    <3> QED
      BY <2>2, <3>2 DEF Answered_
  <2>4. Answered_[t] < Len(calls[t])
    <3>1. Len(calls[t]) \in Nat
      BY CallsAre DEF Inv, TypeOK
    <3> QED
      BY <1>1, <2>1, <2>2, <3>1
  <2>5. calls[t][Answered_[t] + 1] \in Complete_
    BY <2>1, <2>2 DEF Complete_
  <2>6. T!Answer(t)
    BY <2>3, <2>4, <2>5 DEF T!Answer, Complete_, Answered_
  <2> QED
    BY <2>6 DEF TablesStep, T!Next
<1> QED
  BY <1>2, <1>3

(* The SCC that is completed is closed under calls. *)
LEMMA SccCalls ==
    ASSUME Inv, NEW t \in Threads, NEW c, NEW st, NEW done, NEW m, TopAt(t, c, st, done, m),
           Leads(c, st, m), NEW s \in Scc(t)
    PROVE  s \in Subgoals /\ \A n \in DOMAIN calls[s] : calls[s][n] \in completed \cup Scc(t)
<1>1. /\ c = calls /\ st = stack[t] /\ done = completed /\ Whole(c, t, st, done) /\ IsTop(st, m)
      /\ m \in 1 .. Len(st) /\ m = Newest(t)
  BY DEF TopAt
<1>2. /\ st \in Seq(FrameType) /\ m # 1 /\ \A i \in 2 .. Len(st) : st[i].sub \in Subgoals
  BY <1>1 DEF Whole, WellFormed, Leads
<1>3. Len(st) \in Nat
  BY <1>2, StackIs
<1>4. Scc(t) = {st[i].sub : i \in m .. Len(st)}
  BY <1>1 DEF Scc
<1>5. PICK i \in m .. Len(st) : s = st[i].sub
  BY <1>4
<1>6. s \in Subgoals
  BY <1>1, <1>2, <1>3, <1>5
<1>7. c[s] \in Seq(Subgoals) /\ Len(c[s]) \in Nat
  BY <1>1, <1>6, CallsAre DEF Inv, TypeOK
<1>8. DOMAIN c[s] = 1 .. Len(c[s])
  BY <1>7, LenProperties
<1>9. ASSUME NEW n \in 1 .. Len(c[s]) PROVE c[s][n] \in done \cup Scc(t)
  <2>1. /\ Whole(c, t, st, done) /\ IsTop(st, m) /\ st[m].lead /\ st[m].at = Len(c[st[m].sub]) + 1
        /\ i \in m .. Len(st) /\ Len(c[st[i].sub]) \in Nat /\ n \in 1 .. Len(c[st[i].sub])
    BY <1>1, <1>5, <1>7, <1>9 DEF Leads
  <2>2. \/ c[st[i].sub][n] \in done
        \/ \E p \in m .. Len(st) : st[p].sub = c[st[i].sub][n]
    BY <2>1, SccClosed
  <2> QED
    BY <1>4, <1>5, <2>2
<1> QED
  BY <1>1, <1>6, <1>8, <1>9

(* The first mark completes the SCC for all, the others are no steps. *)
LEMMA MarkStep ==
    ASSUME Inv, NEW t \in Threads, Mark_as_completed(t)
    PROVE  TablesStep
<1>1. PICK c, st, done, m : TopAt(t, c, st, done, m)
  BY AtTop DEF Inv
<1>2. Leads(c, st, m)
  BY <1>1, CompletingIs DEF Mark_as_completed, Inv
<1>3. PICK x \in Scc(t) : completed' = completed \cup {x}
  BY DEF Mark_as_completed, Scc
<1>4. /\ UNCHANGED <<calls, stack>> /\ pc'[t] = "mark"
      /\ \A u \in Threads \ {t} : pc'[u] = pc[u]
  BY DEF Mark_as_completed, Inv, TypeOK
<1>5. \A u \in Threads : Scc(u)' = Scc(u)
  BY <1>4, SccKept
<1>6. Complete_' = Complete_ \cup Scc(t)
  <2>1. \A y : y \in Complete_' <=> y \in completed' \/ \E u \in Threads : pc'[u] = "mark" /\ y \in Scc(u)'
    BY DEF Complete_, Marking
  <2>2. \A y : y \in Complete_ <=> y \in completed \/ \E u \in Threads : pc[u] = "mark" /\ y \in Scc(u)
    BY DEF Complete_, Marking
  <2> QED
    BY <1>3, <1>4, <1>5, <2>1, <2>2
<1>7. Answered_' = Answered_
  BY <1>4 DEF Answered_
<1> DEFINE scc == Scc(t) \ Complete_
<1>8. Complete_' = Complete_ \cup scc
  BY <1>6
<1>9. CASE scc = {}
  BY <1>4, <1>7, <1>8, <1>9 DEF TablesStep
<1>10. CASE scc # {}
  <2>1. scc \in (SUBSET (Subgoals \ Complete_)) \ {{}}
    BY <1>1, <1>2, <1>10, SccCalls
  <2>2. \A s \in scc : T!ToSet(calls[s]) \subseteq Complete_ \cup scc
    <3> SUFFICES ASSUME NEW s \in scc, NEW n \in DOMAIN calls[s]
                 PROVE  calls[s][n] \in Complete_ \cup Scc(t)
      BY DEF T!ToSet
    <3>1. calls[s][n] \in completed \cup Scc(t)
      BY <1>1, <1>2, SccCalls
    <3> QED
      BY <3>1 DEF Complete_
  <2> HIDE DEF scc
  <2>3. T!Complete
    BY <1>4, <1>7, <1>8, <2>1, <2>2 DEF T!Complete, Complete_, Answered_
  <2> QED
    BY <2>3 DEF TablesStep, T!Next
<1> QED
  BY <1>9, <1>10

(* Every step until a deadlock is broken is a step of complete tables, or *)
(* none. *)
LEMMA StepTables ==
    ASSUME Inv, [Next]_vars, [NoBreak]_vars
    PROVE  TablesStep
<1>1. CASE UNCHANGED vars
  <2>1. ASSUME NEW u \in Threads PROVE Scc(u)' = Scc(u)
    BY <1>1, SccKept DEF vars
  <2>2. UNCHANGED <<calls, stack, completed, pc>>
    BY <1>1 DEF vars
  <2>3. Complete_' = Complete_
    BY <2>1, <2>2 DEF Complete_, Marking
  <2>4. Answered_' = Answered_
    BY <2>2 DEF Answered_
  <2> QED
    BY <2>2, <2>3, <2>4 DEF TablesStep
<1>2. CASE ~ UNCHANGED vars
  <2>1. PICK t \in Threads : Step(t)
    BY <1>2 DEF Next, Idle
  <2>2. ~ Break_deadlock(t)
    BY <1>2 DEF NoBreak
  <2>3. TypeOK /\ Calm /\ Evaluated /\ Heard /\ \A u \in Threads : ThreadInv(u)
    BY DEF Inv
  <2>4. ASSUME Quiet(t), Served(t) PROVE TablesStep
    <3>1. Complete_' = Complete_
      BY <2>4, CompleteKept DEF Quiet
    <3> QED
      BY <2>4, <3>1, ServedStep DEF Quiet
  <2>5. ASSUME NEW s \in Subgoals, New_producer(t, s) PROVE TablesStep
    <3>1. Served(t)
      BY <2>3, <2>5, New_producerNext DEF Served
    <3>2. /\ UNCHANGED <<calls, completed, pc>> /\ pc[t] = "run"
          /\ \A u \in Threads \ {t} : stack'[u] = stack[u]
      BY <2>3, <2>5 DEF New_producer, Tabletry, TypeOK
    <3>3. Complete_' = Complete_
      BY <3>2, CompleteKept
    <3> QED
      BY <3>1, <3>2, <3>3, ServedStep
  <2>6. ASSUME NEW s \in Subgoals, Ask(t, s) PROVE TablesStep
    BY <2>3, <2>4, <2>6, AskThread DEF Served, Ask
  <2>7. ASSUME NEW s \in Subgoals, Return_answers(t, s) PROVE TablesStep
    BY <2>3, <2>4, <2>7, Return_answersThread
  <2>8. ASSUME NEW s \in Subgoals, Consume(t, s) PROVE TablesStep
    BY <2>3, <2>4, <2>8, ConsumeThread DEF Served
  <2>9. CASE Leave_wait(t)
    BY <2>3, <2>4, <2>9, Leave_waitThread
  <2>10. CASE Wait(t)
    BY <2>3, <2>4, <2>10, WaitThread DEF Served, Wait
  <2>11. CASE Become_consumer(t)
    BY <2>3, <2>4, <2>11, Become_consumerThread DEF Served
  <2>12. CASE Mark_as_completed(t)
    BY <2>12, MarkStep
  <2>13. CASE Broadcast(t)
    <3>1. Served(t)
      BY <2>3, <2>13, BroadcastNext
    <3>2. /\ UNCHANGED <<calls, completed>> /\ Scc(t) \subseteq completed /\ pc'[t] = "run"
          /\ \A u \in Threads \ {t} : stack'[u] = stack[u] /\ (pc'[u] = "mark" <=> pc[u] = "mark")
      BY <2>3, <2>13 DEF Broadcast, Woken, TypeOK, tables
    <3>3. Complete_' = Complete_
      BY <3>2, CompleteKept
    <3> QED
      BY <3>1, <3>2, <3>3, ServedStep
  <2>14. ~ Usurp(t)
    BY <2>3 DEF Calm, Usurp
  <2>15. \A v \in Threads : ~ Reset_nothing(t, v) /\ ~ Reset_thread(t, v)
    BY <2>3 DEF Calm, Reset_nothing, Reset_thread, Resetting
  <2>16. \A s \in Subgoals : ~ Take_grabbed(t, s)
    BY <2>3 DEF Calm, Take_grabbed
  <2> QED
    BY <2>1, <2>2, <2>5, <2>6, <2>7, <2>8, <2>9, <2>10, <2>11, <2>12, <2>13, <2>14, <2>15, <2>16 DEF Step
<1> QED
  BY <1>1, <1>2

(* No table is complete at first. *)
LEMMA InitTables == Init => T!Init
<1> SUFFICES ASSUME Init PROVE T!Init
  OBVIOUS
<1>1. Marking = {} /\ completed = {}
  BY DEF Init, Marking
<1>2. completed \cup UNION {Scc(u) : u \in Marking} = {}
  BY <1>1
<1>3. \A u \in Threads : stack[u][1].at - 1 = 0
  BY DEF Init, Frame
<1> QED
  BY <1>2, <1>3 DEF T!Init

(* The threads implement complete tables: an SCC is marked only when all   *)
(* that its subgoals call is complete or in it, it becomes complete as a   *)
(* whole, and the answers a query gets come from a complete table.         *)
THEOREM TablesComplete == Spec /\ NoneBroken => IsTables
<1>1. Inv /\ [Next]_vars /\ [NoBreak]_vars =>
        [T!Next]_<<calls, completed \cup UNION {Scc(t) : t \in Marking},
                   [t \in Threads |-> stack[t][1].at - 1]>>
  BY StepTables DEF TablesStep, Complete_, Answered_
<1> QED
  BY <1>1, InitTables, SpecInv, PTL DEF Spec, NoneBroken, IsTables, T!Spec

-----------------------------------------------------------------------------
(* PROGRAMS WITHOUT RECURSION *)

(* Every subgoal calls only subgoals of a lower rank. *)
Layered(rank) ==
    /\ rank \in [Threads \cup Subgoals -> Int]
    /\ \A c \in Programs : \A x \in Threads \cup Subgoals : \A n \in 1 .. Len(c[x]) :
         rank[c[x][n]] < rank[x]

(* Then every SCC is a single subgoal: its frame is its leader's. *)
Single == \A u \in Threads : \A i \in 1 .. Len(stack[u]) : stack[u][i].lead

(* The subgoals on a stack, as deep as they are called. *)
LEMMA Deeper ==
    ASSUME TypeOK, Single, NEW rank, Layered(rank), NEW u \in Threads, NEW c, NEW st, NEW done, NEW m,
           TopAt(u, c, st, done, m), NEW i \in 1 .. Len(st)
    PROVE  rank[st[m].sub] <= rank[st[i].sub]
<1>1. /\ c = calls /\ st = stack[u] /\ WellFormed(c, u, st) /\ m \in 1 .. Len(st) /\ IsTop(st, m)
  BY DEF TopAt, Whole
<1>2. st \in Seq(FrameType) /\ \A k \in 1 .. Len(st) : st[k].lead /\ st[k].open
  BY <1>1 DEF Single, WellFormed
<1>3. Len(st) \in Nat /\ \A k \in 1 .. Len(st) : st[k].sub \in Threads \cup Subgoals /\ st[k].at \in Nat
  BY <1>2, StackIs
<1>4. m = Len(st)
  BY <1>1, <1>2, <1>3 DEF IsTop
<1>5. ASSUME NEW k \in 1 .. Len(st) - 1 PROVE rank[st[k + 1].sub] < rank[st[k].sub]
  <2>1. k \in 1 .. Len(st) /\ k + 1 \in 1 .. Len(st)
    BY <1>3
  <2>2. Asks(c, st[k], st[k + 1].sub)
    BY <1>1, <1>2, <1>3, <2>1 DEF WellFormed
  <2>3. st[k].at \in 1 .. Len(c[st[k].sub]) /\ c[st[k].sub][st[k].at] = st[k + 1].sub
    BY <1>1, <1>3, <2>1, <2>2, CallsAre DEF Asks, WellFormed, TypeOK
  <2> QED
    BY <1>1, <1>3, <2>1, <2>3 DEF Layered, TypeOK
<1>6. \A k \in 1 .. Len(st) : rank[st[k].sub] \in Int
  BY <1>3 DEF Layered
<1> DEFINE S == {k \in 0 .. Len(st) - i : rank[st[i + k].sub] <= rank[st[i].sub]}
<1>7. 0 \in S
  BY <1>3, <1>6
<1>8. ASSUME NEW k \in 1 .. Len(st) - i, k - 1 \in S PROVE k \in S
  <2>1. i + (k - 1) \in 1 .. Len(st) - 1 /\ i + (k - 1) + 1 = i + k /\ i + k \in 1 .. Len(st)
    BY <1>3
  <2>2. rank[st[i + k].sub] < rank[st[i + (k - 1)].sub]
    BY <1>5, <2>1
  <2>3. rank[st[i + (k - 1)].sub] <= rank[st[i].sub]
    BY <1>8
  <2>4. rank[st[i + k].sub] <= rank[st[i].sub]
    BY <1>6, <2>1, <2>2, <2>3
  <2> QED
    BY <2>4
<1>9. Len(st) - i \in Nat /\ i + (Len(st) - i) = Len(st)
  BY <1>3
<1>10. 0 .. Len(st) - i \subseteq S
  <2> HIDE DEF S
  <2> QED
    BY <1>7, <1>8, <1>9, Induct
<1>11. Len(st) - i \in 0 .. Len(st) - i
  BY <1>9
<1> QED
  BY <1>4, <1>9, <1>10, <1>11

(* A thread calls subgoals of a lower rank than those on its stack. *)
LEMMA Lower ==
    ASSUME TypeOK, Single, NEW rank, Layered(rank), NEW u \in Threads, NEW c, NEW st, NEW done, NEW m,
           TopAt(u, c, st, done, m), NEW s, Asks(c, st[m], s)
    PROVE  /\ s \in Subgoals /\ rank[s] < rank[st[m].sub]
           /\ \A i \in 1 .. Len(st) : st[i].sub # s
<1>1. /\ c = calls /\ st \in Seq(FrameType) /\ m \in 1 .. Len(st) /\ Len(c[st[m].sub]) \in Nat
      /\ st[m].at \in 1 .. Len(c[st[m].sub]) + 1
      /\ \A n \in 1 .. Len(c[st[m].sub]) : c[st[m].sub][n] \in Subgoals
  BY DEF TopAt, Whole, WellFormed
<1>2. st[m].at \in 1 .. Len(c[st[m].sub]) /\ c[st[m].sub][st[m].at] = s
  BY <1>1 DEF Asks
<1>3. \A i \in 1 .. Len(st) : st[i].sub \in Threads \cup Subgoals
  BY <1>1, StackIs
<1>4. s \in Subgoals /\ rank[s] < rank[st[m].sub]
  BY <1>1, <1>2, <1>3 DEF Layered, TypeOK
<1>5. ASSUME NEW i \in 1 .. Len(st), st[i].sub = s PROVE FALSE
  <2>1. rank[st[m].sub] <= rank[s]
    BY <1>5, Deeper
  <2>2. rank[s] \in Int /\ rank[st[m].sub] \in Int
    BY <1>1, <1>3, <1>4 DEF Layered
  <2> QED
    BY <1>4, <2>1, <2>2
<1> QED
  BY <1>4, <1>5

(* The owner of an incomplete subgoal is at a subgoal of its rank or lower. *)
LEMMA OwnerDeeper ==
    ASSUME Inv, Single, NEW rank, Layered(rank), NEW s \in Subgoals \ completed, NEW u \in Threads, tid[s] = u
    PROVE  rank[Breg(u).sub] <= rank[s]
<1>1. PICK c, st, done, m : TopAt(u, c, st, done, m)
  BY AtTop DEF Inv
<1>2. PICK i \in 1 .. Len(st) : st[i].sub = s
  BY <1>1 DEF Inv, Evaluated, On, TopAt
<1>3. rank[st[m].sub] <= rank[st[i].sub]
  BY <1>1, Deeper DEF Inv
<1> QED
  BY <1>1, <1>2, <1>3 DEF TopAt

(* A thread that is to wait, or waits, is at a higher rank than the        *)
(* subgoal it waits for. *)
LEMMA SleeperHigher ==
    ASSUME Inv, Single, NEW rank, Layered(rank), NEW u \in Threads, pc[u] \in Sleeping
    PROVE  /\ producer[u] \in Subgoals /\ tid[producer[u]] \in Threads \ {u}
           /\ rank[producer[u]] < rank[Breg(u).sub]
           /\ rank[producer[u]] \in Int /\ rank[Breg(u).sub] \in Int
<1>1. PICK c, st, done, m : TopAt(u, c, st, done, m)
  BY AtTop DEF Inv
<1>2. Asks(c, st[m], producer[u]) /\ producer[u] \in Subgoals /\ tid[producer[u]] \in Threads \ {u}
  BY <1>1, SleepsAt DEF Inv
<1>3. rank[producer[u]] < rank[st[m].sub]
  BY <1>1, <1>2, Lower DEF Inv
<1>4. st \in Seq(FrameType) /\ m \in 1 .. Len(st) /\ Breg(u) = st[m]
  BY <1>1 DEF TopAt, Whole, WellFormed
<1>5. st[m].sub \in Threads \cup Subgoals
  BY <1>4, StackIs
<1> QED
  BY <1>2, <1>3, <1>4, <1>5 DEF Layered

(* Where would_deadlock gets to from t's producer: threads at subgoals of  *)
(* a rank below R, and threads that do not wait. *)
Low(rank, R, t, x) ==
    x \in Threads => x # t /\ (rank[Breg(x).sub] < R \/ waitTid[x] = NoThread)

(* The owner of what a thread waits for. *)
LEMMA LowNext ==
    ASSUME Inv, Single, FifoMutex, NEW rank, Layered(rank), NEW t \in Threads, Locked(t),
           NEW u \in Threads, waitTid[u] # NoThread,
           rank[Breg(u).sub] < rank[Breg(t).sub]
    PROVE  Low(rank, rank[Breg(t).sub], t, waitTid[u])
<1> DEFINE v == waitTid[u]
<1>1. pc[u] \in {"wait", "woken"} /\ v = tid[producer[u]]
  BY DEF Inv, ThreadInv, ThreadIs
<1>2. pc[u] \in Sleeping /\ pc[t] \in Sleeping
  BY <1>1 DEF Locked, Sleeping
<1>3. /\ producer[u] \in Subgoals /\ v \in Threads \ {u}
      /\ rank[producer[u]] < rank[Breg(u).sub]
      /\ rank[producer[u]] \in Int /\ rank[Breg(u).sub] \in Int /\ rank[Breg(t).sub] \in Int
  BY <1>1, <1>2, SleeperHigher
<1> HIDE DEF v
<1>4. CASE producer[u] \notin completed
  <2>1. rank[Breg(v).sub] <= rank[producer[u]]
    BY <1>1, <1>3, <1>4, OwnerDeeper
  <2>2. rank[Breg(v).sub] \in Int
    <3>1. PICK c, st, done, m : TopAt(v, c, st, done, m)
      BY <1>3, AtTop DEF Inv
    <3>2. st \in Seq(FrameType) /\ m \in 1 .. Len(st) /\ Breg(v) = st[m]
      BY <3>1 DEF TopAt, Whole, WellFormed
    <3>3. st[m].sub \in Threads \cup Subgoals
      BY <3>2, StackIs
    <3> QED
      BY <3>2, <3>3 DEF Layered
  <2>3. rank[Breg(v).sub] < rank[Breg(t).sub]
    BY <1>3, <2>1, <2>2
  <2>4. v # t
    BY <1>3, <2>2, <2>3
  <2> QED
    BY <2>3, <2>4 DEF Low, v
<1>5. CASE producer[u] \in completed
  <2>1. CASE pc[u] = "wait"
    <3>1. pc[v] = "mark"
      BY <1>1, <1>5, <2>1 DEF Inv, Heard
    <3>2. waitTid[v] = NoThread /\ v # t
      BY <1>2, <1>3, <3>1 DEF Inv, ThreadInv, ThreadIs, Sleeping
    <3> QED
      BY <3>2 DEF Low, v
  <2>2. CASE pc[u] = "woken"
    <3>1. pc[v] \in {"run", "lock", "mark"}
      BY <1>1, <1>5, <2>2 DEF Inv, Heard
    <3>2. waitTid[v] = NoThread
      BY <1>3, <3>1 DEF Inv, ThreadInv, ThreadIs
    <3>3. pc[t] = "woken"
      BY <2>2 DEF Locked
    <3> QED
      BY <3>1, <3>2, <3>3 DEF Low, v
  <2> QED
    BY <1>1, <2>1, <2>2
<1> QED
  BY <1>4, <1>5

(* A deadlock is never found. *)
LEMMA NothingToBreak ==
    ASSUME Inv, Single, FifoMutex, NEW rank, Layered(rank), NEW t \in Threads
    PROVE  ~ Break_deadlock(t)
<1> SUFFICES ASSUME Locked(t), producer[t] \notin completed, Would_deadlock(tid[producer[t]], t)
             PROVE  FALSE
  BY DEF Break_deadlock
<1> DEFINE o == tid[producer[t]]
           N == Cardinality(Threads)
           walk == Walk(o)
           R == rank[Breg(t).sub]
<1>1. pc[t] \in Sleeping
  BY DEF Locked, Sleeping
<1>2. /\ producer[t] \in Subgoals /\ o \in Threads \ {t} /\ rank[producer[t]] < R
      /\ rank[producer[t]] \in Int /\ R \in Int
  BY <1>1, SleeperHigher
<1>3. /\ N \in Nat /\ walk \in [0 .. N -> Threads \cup {NoThread}] /\ walk[0] = o
      /\ \A n \in 1 .. N :
           walk[n] = IF walk[n - 1] = NoThread THEN NoThread ELSE waitTid[walk[n - 1]]
  BY <1>2, WalkIs DEF Inv
<1>4. Low(rank, R, t, o)
  <2>1. rank[Breg(o).sub] <= rank[producer[t]]
    BY <1>2, OwnerDeeper
  <2>2. rank[Breg(o).sub] \in Int
    <3>1. PICK c, st, done, m : TopAt(o, c, st, done, m)
      BY <1>2, AtTop DEF Inv
    <3>2. st \in Seq(FrameType) /\ m \in 1 .. Len(st) /\ Breg(o) = st[m]
      BY <3>1 DEF TopAt, Whole, WellFormed
    <3>3. st[m].sub \in Threads \cup Subgoals
      BY <3>2, StackIs
    <3> QED
      BY <3>2, <3>3 DEF Layered
  <2>3. rank[Breg(o).sub] < R
    BY <1>2, <2>1, <2>2
  <2> QED
    BY <1>2, <2>3 DEF Low
<1> HIDE DEF o, N, walk
<1> DEFINE S == {n \in 0 .. N : Low(rank, R, t, walk[n])}
<1>5. 0 \in S
  BY <1>3, <1>4
<1>6. ASSUME NEW n \in 1 .. N, n - 1 \in S PROVE n \in S
  <2>1. n - 1 \in 0 .. N /\ Low(rank, R, t, walk[n - 1])
    BY <1>6
  <2>2. walk[n - 1] \in Threads \cup {NoThread}
    BY <1>3, <2>1
  <2>3. Low(rank, R, t, NoThread)
    BY ProgramsOK DEF Low
  <2>4. PICK u : u = walk[n - 1]
    OBVIOUS
  <2>5. CASE u = NoThread \/ waitTid[u] = NoThread
    BY <1>3, <2>3, <2>4, <2>5
  <2>6. CASE u # NoThread /\ waitTid[u] # NoThread
    <3>1. u \in Threads /\ walk[n] = waitTid[u]
      BY <1>3, <2>2, <2>4, <2>6
    <3>2. rank[Breg(u).sub] < R
      BY <2>1, <2>4, <2>6, <3>1 DEF Low
    <3> QED
      BY <2>6, <3>1, <3>2, LowNext
  <2> QED
    BY <2>5, <2>6
<1>7. 0 .. N \subseteq S
  <2> HIDE DEF S
  <2> QED
    BY <1>3, <1>5, <1>6, Induct
<1>8. \A n \in 0 .. N : walk[n] # t
  BY <1>7 DEF Low
<1>9. PICK n \in DOMAIN walk : walk[n] = t
  BY DEF Would_deadlock, o, walk
<1> QED
  BY <1>3, <1>8, <1>9

(* The next clause of a frame. *)
LEMMA RetriedLeads ==
    ASSUME NEW c, NEW t, NEW st, WellFormed(c, t, st), \A i \in 1 .. Len(st) : st[i].lead
    PROVE  \A i \in 1 .. Len(Retried(st)) : Retried(st)[i].lead
<1>1. IsTop(st, Top(st)) /\ st \in Seq(FrameType)
  BY TopOf DEF WellFormed
<1>2. PICK m : m = Top(st)
  OBVIOUS
<1>3. m \in 1 .. Len(st)
  BY <1>1, <1>2 DEF IsTop
<1>4. /\ Len(st) \in Nat /\ DOMAIN st = 1 .. Len(st) /\ st[m] \in FrameType /\ st[m].at + 1 \in Nat
  BY <1>1, <1>3, StackIs
<1>5. PICK f : f = [st[m] EXCEPT !.at = st[m].at + 1]
  OBVIOUS
<1>6. f \in FrameType /\ f.lead
  BY <1>3, <1>4, <1>5, FrameAt
<1>7. Retried(st) = [st EXCEPT ![m] = f]
  BY <1>2, <1>5 DEF Retried, Top
<1>8. Changed(st, m, f, Retried(st))
  BY <1>1, <1>3, <1>6, <1>7, ExceptIs
<1> QED
  BY <1>3, <1>4, <1>6, <1>8 DEF Changed

(* SCCs stay single subgoals, as nobody calls what is on his stack, and   *)
(* no deadlock is found. *)
LEMMA SingleStep ==
    ASSUME Inv, Single, FifoMutex, NEW rank, Layered(rank), [Next]_vars
    PROVE  Single' /\ [NoBreak]_vars
<1>1. [NoBreak]_vars
  BY NothingToBreak DEF NoBreak
<1>2. CASE UNCHANGED vars
  BY <1>1, <1>2 DEF Single, vars
<1>3. CASE ~ UNCHANGED vars
  <2>1. PICK t \in Threads : Step(t)
    BY <1>3 DEF Next, Idle
  <2>2. PICK c, st, done, m : TopAt(t, c, st, done, m)
    BY AtTop DEF Inv
  <2>3. /\ c = calls /\ st = stack[t] /\ WellFormed(c, t, st) /\ st \in Seq(FrameType)
        /\ m \in 1 .. Len(st) /\ m = Newest(t) /\ Breg(t) = st[m]
        /\ \A i \in 1 .. Len(st) : st[i].lead
    BY <2>2 DEF Single, TopAt, Whole, WellFormed
  <2>4. DOMAIN stack = Threads
    BY DEF Inv, TypeOK
  <2>5. ASSUME NEW st1, stack' = [stack EXCEPT ![t] = st1], \A i \in 1 .. Len(st1) : st1[i].lead
        PROVE  Single'
    <3> SUFFICES ASSUME NEW u \in Threads, NEW i \in 1 .. Len(stack'[u])
                 PROVE  stack'[u][i].lead
      BY DEF Single
    <3>1. CASE u = t
      BY <2>4, <2>5, <3>1
    <3>2. CASE u # t
      BY <2>4, <2>5, <3>2 DEF Single
    <3> QED
      BY <3>1, <3>2
  <2>6. ASSUME UNCHANGED stack PROVE Single'
    BY <2>6 DEF Single
  <2>7. ASSUME stack' = [stack EXCEPT ![t] = Retried(st)] PROVE Single'
    BY <2>3, <2>5, <2>7, RetriedLeads
  <2>8. ASSUME NEW s \in Subgoals, New_producer(t, s) PROVE Single'
    <3>1. stack' = [stack EXCEPT ![t] = Append(st, Frame(s))]
      BY <2>3, <2>8 DEF New_producer, Pushed
    <3>2. OneMore(st, Frame(s), Append(st, Frame(s))) /\ Frame(s).lead /\ Len(st) \in Nat
      BY <2>3, AppendIs, FrameOf, StackIs
    <3>3. \A i \in 1 .. Len(Append(st, Frame(s))) : Append(st, Frame(s))[i].lead
      BY <2>3, <3>2 DEF OneMore
    <3> QED
      BY <2>5, <3>1, <3>3
  <2>9. ASSUME NEW s \in Subgoals PROVE ~ Consume(t, s)
    <3> SUFFICES ASSUME Consume(t, s) PROVE FALSE
      OBVIOUS
    <3>1. Asks(c, st[m], s)
      BY <2>2, TriedIs DEF Consume, Own_incomplete
    <3>2. \A i \in 1 .. Len(st) : st[i].sub # s
      BY <2>2, <3>1, Lower DEF Inv
    <3>3. Frames(t, s) # {}
      BY DEF Consume
    <3> QED
      BY <2>3, <3>2, <3>3, FramesOn DEF On
  <2>10. ASSUME Broadcast(t) PROVE Single'
    <3>1. stack' = [stack EXCEPT ![t] = Retried(Cut(st, m))]
      BY <2>3, <2>10 DEF Broadcast, Cut
    <3>2. Leads(c, st, m) /\ pc[t] = "mark"
      BY <2>2, <2>10, CompletingIs DEF Broadcast, Inv
    <3>3. \A i \in m .. Len(st) : st[i].sub \in done
      BY <2>2, <2>10 DEF Broadcast, Scc, TopAt
    <3>4. Pops(c, t, st, done, m, Cut(st, m))
      BY <2>2, <3>2, <3>3, CutWhole DEF TopAt, Leads
    <3>5. WellFormed(c, t, Cut(st, m)) /\ \A i \in 1 .. Len(Cut(st, m)) : Cut(st, m)[i].lead
      <4>1. Len(st) \in Nat /\ m - 1 \in Nat /\ \A i \in 1 .. m - 1 : i \in 1 .. Len(st)
        BY <2>3, StackIs
      <4>2. /\ WellFormed(c, t, Cut(st, m)) /\ Len(Cut(st, m)) = m - 1
            /\ \A i \in 1 .. m - 1 : Cut(st, m)[i] = st[i]
        BY <3>4 DEF Pops, Whole
      <4> QED
        BY <2>3, <4>1, <4>2
    <3>6. PICK st1 : st1 = Cut(st, m)
      OBVIOUS
    <3>7. \A i \in 1 .. Len(Retried(st1)) : Retried(st1)[i].lead
      BY <3>5, <3>6, RetriedLeads
    <3> QED
      BY <2>5, <3>1, <3>6, <3>7
  <2>11. ~ Become_consumer(t)
    BY <2>3 DEF Become_consumer
  <2>12. ASSUME NEW s \in Subgoals, Return_answers(t, s) PROVE Single'
    BY <2>3, <2>7, <2>12 DEF Return_answers
  <2>13. ASSUME Leave_wait(t) PROVE Single'
    <3>1. ~ reset[t]
      BY DEF Inv, Calm
    <3>2. stack' = IF reset[t] THEN stack ELSE [stack EXCEPT ![t] = Retried(st)]
      BY <2>3, <2>13 DEF Leave_wait
    <3> QED
      BY <2>7, <3>1, <3>2
  <2>14. ASSUME NEW s \in Subgoals, Ask(t, s) PROVE Single'
    BY <2>6, <2>14 DEF Ask
  <2>17. ASSUME Wait(t) PROVE Single'
    BY <2>6, <2>17 DEF Wait
  <2>18. ASSUME Mark_as_completed(t) PROVE Single'
    BY <2>6, <2>18 DEF Mark_as_completed
  <2>15. ~ Break_deadlock(t)
    BY NothingToBreak
  <2>16. /\ \A s \in Subgoals : ~ Take_grabbed(t, s)
         /\ ~ Usurp(t) /\ \A v \in Threads : ~ Reset_nothing(t, v) /\ ~ Reset_thread(t, v)
    BY DEF Inv, Calm, Take_grabbed, Reset_nothing, Reset_thread, Resetting, Usurp
  <2>19. Single'
    BY <2>1, <2>8, <2>9, <2>10, <2>11, <2>12, <2>13, <2>14, <2>15, <2>16, <2>17, <2>18 DEF Step
  <2> QED
    BY <1>1, <2>19
<1> QED
  BY <1>1, <1>2, <1>3

(* The hypothesis of these theorems holds of every program without         *)
(* recursion, where completing_mut is given in turn: nothing that          *)
(* would_deadlock finds is a deadlock that is none.  (Given out of turn it *)
(* is not so: MCSharedTables, Diamond.)                                    *)
THEOREM NoFalseDeadlock ==
    ASSUME FifoMutex, NEW rank, Layered(rank)
    PROVE  Spec => NoneBroken
<1>1. Init => Inv /\ Single
  <2> SUFFICES ASSUME Init PROVE Inv /\ Single
    OBVIOUS
  <2>1. ASSUME NEW u \in Threads, NEW i \in 1 .. Len(stack[u]) PROVE stack[u][i].lead
    <3>1. stack[u] = <<Frame(u)>>
      BY DEF Init
    <3> QED
      BY <3>1 DEF Frame
  <2> QED
    BY <2>1, InitInv DEF Single
<1>2. Inv /\ Single /\ [Next]_vars => Inv' /\ Single' /\ [NoBreak]_vars
  BY SingleStep, InvStep
<1> QED
  BY <1>1, <1>2, PTL DEF Spec, NoneBroken

(* So their threads implement complete tables. *)
COROLLARY LayeredTablesComplete ==
    ASSUME FifoMutex, NEW rank, Layered(rank)
    PROVE  Spec => IsTables
<1>1. Spec => NoneBroken
  BY NoFalseDeadlock
<1> QED
  BY <1>1, TablesComplete, PTL
=============================================================================
