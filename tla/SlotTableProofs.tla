--------------------------- MODULE SlotTableProofs ---------------------------
(* Proofs about SlotTable for any number of entries: as long as the table  *)
(* does not become full, its pointers are two lists, and a pool of slots.  *)
EXTENDS SlotTable, FiniteSetTheorems, SequenceTheorems, WellFoundedInduction, TLAPS

-----------------------------------------------------------------------------
(* The two lists *)

(* s lists n entries, each once, from pointer h along the fields nx.       *)
Lists(nx, h, n, s) ==
    /\ s \in [1 .. n -> Slots]
    /\ \A i, j \in 1 .. n : s[i] = s[j] => i = j
    /\ h = IF n = 0 THEN Null ELSE s[1]
    /\ \A i \in 1 .. n : nx[s[i]] = IF i = n THEN Null ELSE s[i + 1]

(* f is the free list, and not empty; u is the list of entries in use;     *)
(* prev_entry leads back in u, and every entry is in one of them.          *)
TwoLists(n, f, m, u) ==
    /\ n + m = Entries
    /\ Lists(next, firstFree, n, f) /\ lastFree = f[n]
    /\ Lists(next, first, m, u)
    /\ \A i \in 1 .. m : prev[u[i]] = IF i = 1 THEN Null ELSE u[i - 1]
    /\ used = {u[i] : i \in 1 .. m} /\ Cardinality(used) = m
    /\ \A i \in 1 .. n : f[i] \notin used

PoolInv ==
    /\ TypeOK
    /\ Cardinality(used) <= MaxUsed
    /\ \E n \in 1 .. Entries, m \in 0 .. Entries :
          \E f \in [1 .. n -> Slots], u \in [1 .. m -> Slots] : TwoLists(n, f, m, u)

-----------------------------------------------------------------------------
(* Chain, a recursive function, yields the list *)

(* A set of numbers that is not empty has a least one. *)
LEMMA Least ==
    ASSUME NEW S \in SUBSET Nat, S # {}
    PROVE  \E m \in S : \A k \in S : m <= k
<1> DEFINE R == OpToRel(<, Nat)
<1>1. IsWellFoundedOn(R, Nat)
  BY NatLessThanWellFounded
<1>2. \A x, y \in Nat : x < y => <<x, y>> \in R
  BY DEF OpToRel
<1> HIDE DEF R
<1>3. PICK m \in S : \A k \in S : ~ (<<k, m>> \in R)
  BY <1>1, WFMin
<1>4. \A k \in S : ~ (k < m)
  BY <1>2, <1>3
<1>5. \A k \in S : m <= k
  BY <1>4
<1> QED BY <1>5

(* What Chain appends to s, and the equation of its recursive function.    *)
Longer(nx, h, s) ==
    LET q == IF s = <<>> THEN h ELSE nx[Last(s)]
    IN  IF q = Null THEN s ELSE Append(s, q)
Walks(nx, h, g) ==
    g = [n \in 0 .. Entries |-> IF n = 0 THEN <<>> ELSE Longer(nx, h, g[n - 1])]

(* Chain is the function of that equation, at the number of all entries.   *)
LEMMA ChainWalks ==
    ASSUME NEW h
    PROVE  Chain(h) = (CHOOSE g : Walks(next, h, g))[Entries]
BY DEF Chain, Walks, Longer

(* The first k entries of a list of n.                                     *)
Part(n, s, k) == [i \in 1 .. (IF k < n THEN k ELSE n) |-> s[i]]

(* Each round of Chain adds the next entry, until the list ends. *)
LEMMA Round ==
    ASSUME NEW nx, NEW h, NEW n \in Nat, NEW s, Lists(nx, h, n, s), NEW k \in Nat
    PROVE  Longer(nx, h, Part(n, s, k)) = Part(n, s, k + 1)
<1> DEFINE p == Part(n, s, k)
<1>a. Null \notin Slots
  BY EntriesOK DEF Null, Slots
<1>1. CASE k < n
  <2>1. /\ p \in Seq(Slots) /\ Len(p) = k /\ \A i \in 1 .. k : p[i] = s[i]
    <3>1. p = [i \in 1 .. k |-> s[i]]
      BY <1>1 DEF Part
    <3>2. \A i \in 1 .. k : s[i] \in Slots
      BY <1>1 DEF Lists
    <3> HIDE DEF p
    <3> QED BY <3>1, <3>2
  <2>2. k + 1 \in 1 .. n /\ s[k + 1] \in Slots
    BY <1>1 DEF Lists
  <2>3. (IF p = <<>> THEN h ELSE nx[Last(p)]) = s[k + 1]
    <3>1. CASE k = 0
      <4>1. p = <<>>
        BY <2>1, <3>1, EmptySeq
      <4> QED BY <1>1, <3>1, <4>1 DEF Lists
    <3>2. CASE k # 0
      <4>1. p # <<>> /\ Last(p) = p[k]
        BY <2>1, <3>2, EmptySeq DEF Last
      <4>2. p[k] = s[k] /\ nx[s[k]] = s[k + 1]
        BY <1>1, <2>1, <3>2 DEF Lists
      <4> QED BY <4>1, <4>2
    <3> QED BY <3>1, <3>2
  <2>4. Longer(nx, h, p) = Append(p, s[k + 1])
    BY <1>a, <2>2, <2>3 DEF Longer
  <2>5. Append(p, s[k + 1]) = [i \in 1 .. (k + 1) |-> s[i]]
    <3> DEFINE a == Append(p, s[k + 1])
               b == [i \in 1 .. (k + 1) |-> s[i]]
    <3>1. a \in Seq(Slots) /\ Len(a) = k + 1
      BY <2>1, <2>2, AppendProperties
    <3>2. \A i \in 1 .. (k + 1) : a[i] = s[i]
      BY <2>1, <2>2, AppendProperties
    <3>3. b \in Seq(Slots) /\ Len(b) = k + 1 /\ \A i \in 1 .. (k + 1) : b[i] = s[i]
      <4>1. \A i \in 1 .. (k + 1) : s[i] \in Slots
        BY <1>1 DEF Lists
      <4> QED BY <4>1
    <3> HIDE DEF a, b
    <3>4. a = b
      BY <3>1, <3>2, <3>3, SeqEqual
    <3> QED BY <3>4 DEF a, b
  <2>6. Part(n, s, k + 1) = [i \in 1 .. (k + 1) |-> s[i]]
    BY <1>1 DEF Part
  <2> QED BY <2>4, <2>5, <2>6
<1>2. CASE k >= n
  <2>1. p = s /\ Part(n, s, k + 1) = s
    BY <1>2 DEF Part, Lists
  <2>2. s \in Seq(Slots) /\ Len(s) = n
    BY DEF Lists
  <2>3. (IF s = <<>> THEN h ELSE nx[Last(s)]) = Null
    <3>1. CASE n = 0
      BY <2>2, <3>1, EmptySeq DEF Lists
    <3>2. CASE n # 0
      <4>1. s # <<>> /\ Last(s) = s[n]
        BY <2>2, <3>2, EmptySeq DEF Last
      <4>2. nx[s[n]] = Null
        BY <3>2 DEF Lists
      <4> QED BY <4>1, <4>2
    <3> QED BY <3>1, <3>2
  <2>4. Longer(nx, h, s) = s
    BY <2>3 DEF Longer
  <2> QED BY <2>1, <2>4
<1> QED BY <1>1, <1>2

(* Chain yields the list: the recursion has a solution and only one. *)
LEMMA WalkIsList ==
    ASSUME NEW nx, NEW h, NEW n \in 0 .. Entries, NEW s, Lists(nx, h, n, s)
    PROVE  (CHOOSE g : Walks(nx, h, g))[Entries] = s
<1>0. Part(n, s, 0) = <<>>
  <2>1. Part(n, s, 0) = [i \in 1 .. 0 |-> s[i]]
    BY DEF Part
  <2> QED BY <2>1
<1>e. Entries \in Nat
  BY EntriesOK
<1>r. \A k \in Nat : Longer(nx, h, Part(n, s, k)) = Part(n, s, k + 1)
  BY Round
<1>1. \E g : Walks(nx, h, g)
  <2> DEFINE g == [k \in 0 .. Entries |-> Part(n, s, k)]
  <2>1. \A k \in 0 .. Entries :
           g[k] = IF k = 0 THEN <<>> ELSE Longer(nx, h, g[k - 1])
    <3> TAKE k \in 0 .. Entries
    <3>1. CASE k = 0
      BY <1>0, <1>e, <3>1
    <3>2. CASE k # 0
      <4>1. k - 1 \in 0 .. Entries /\ k - 1 \in Nat /\ (k - 1) + 1 = k
        BY <1>e, <3>2
      <4>2. Longer(nx, h, Part(n, s, k - 1)) = Part(n, s, k)
        BY <1>r, <4>1
      <4> QED BY <3>2, <4>1, <4>2
    <3> QED BY <3>1, <3>2
  <2>2. g = [k \in 0 .. Entries |-> IF k = 0 THEN <<>> ELSE Longer(nx, h, g[k - 1])]
    BY <2>1
  <2> QED BY <2>2 DEF Walks
<1>2. ASSUME NEW g, Walks(nx, h, g) PROVE g[Entries] = s
  <2> DEFINE wrong == {k \in 0 .. Entries : g[k] # Part(n, s, k)}
  <2>1. /\ g[0] = <<>>
        /\ \A k \in 0 .. Entries : k # 0 => g[k] = Longer(nx, h, g[k - 1])
    BY <1>2, <1>e DEF Walks
  <2>2. wrong = {}
    <3> SUFFICES ASSUME wrong # {} PROVE FALSE
      OBVIOUS
    <3>1. PICK k \in wrong : \A j \in wrong : k <= j
      <4>1. wrong \in SUBSET Nat
        BY <1>e
      <4> HIDE DEF wrong
      <4> QED BY <4>1, Least
    <3>2. k # 0
      BY <1>0, <2>1, <3>1
    <3>3. k - 1 \in 0 .. Entries /\ k - 1 \in Nat /\ (k - 1) + 1 = k /\ k \in 0 .. Entries
      BY <1>e, <3>1, <3>2
    <3>4. g[k - 1] = Part(n, s, k - 1)
      BY <3>1, <3>3
    <3>5. g[k] = Part(n, s, k)
      BY <1>r, <2>1, <3>2, <3>3, <3>4
    <3> QED BY <3>1, <3>5
  <2>3. g[Entries] = Part(n, s, Entries)
    BY <1>e, <2>2
  <2>4. Part(n, s, Entries) = s
    BY <1>e DEF Part, Lists
  <2> QED BY <2>3, <2>4
<1> QED BY <1>1, <1>2

-----------------------------------------------------------------------------
(* The steps, in terms of the lists *)

(* What Slots and pointers are. *)
LEMMA Pointers ==
    /\ Slots \subseteq Int /\ Null \in Int /\ Null \notin Slots
    /\ \A p \in Slots : Null < p
    /\ Ptr = Slots \cup {Null}
    /\ Entries \in Nat \ {0} /\ MaxUsed \in Nat /\ MaxUsed <= Entries
BY EntriesOK DEF Slots, Null, Ptr

(* u with pos behind its first k entries, and without its k-th entry.      *)
Inserted(m, u, k, pos) ==
    [i \in 1 .. m + 1 |-> IF i <= k THEN u[i] ELSE IF i = k + 1 THEN pos ELSE u[i - 1]]
Removed(m, u, k) == [i \in 1 .. m - 1 |-> IF i < k THEN u[i] ELSE u[i + 1]]
Rest(n, f) == [i \in 1 .. n - 1 |-> f[i + 1]]
Added(n, f, p) == [i \in 1 .. n + 1 |-> IF i = n + 1 THEN p ELSE f[i]]

(* The head of the free list enters the list of entries in use behind the  *)
(* first k of them: AtHead is the case k = 0.                              *)
LEMMA InsertLists ==
    ASSUME TypeOK, NEW n \in 1 .. Entries, NEW m \in 0 .. Entries,
           NEW f \in [1 .. n -> Slots], NEW u \in [1 .. m -> Slots],
           TwoLists(n, f, m, u), n # 1, NEW pos \in Slots, pos = firstFree, NEW k \in 0 .. m,
           firstFree' = next[pos], lastFree' = lastFree,
           used' = used \cup {pos},
           first' = IF k = 0 THEN pos ELSE first,
           next' = [q \in Slots |->
                      IF q = pos THEN (IF k = 0 THEN first ELSE next[u[k]])
                      ELSE IF k # 0 /\ q = u[k] THEN pos ELSE next[q]],
           \A q \in Slots : q \in used \cup {pos} =>
              prev'[q] = IF q = pos THEN (IF k = 0 THEN Null ELSE u[k])
                         ELSE IF q = (IF k = 0 THEN first ELSE next[u[k]]) THEN pos
                         ELSE prev[q]
    PROVE  TwoLists(n - 1, Rest(n, f), m + 1, Inserted(m, u, k, pos))'
<1> USE Pointers
<1> DEFINE uu == Inserted(m, u, k, pos)
           ff == Rest(n, f)
<1>1. /\ n + m = Entries /\ n \in Nat /\ m \in Nat /\ 2 <= n
      /\ pos = f[1] /\ pos \in Slots /\ lastFree = f[n]
      /\ \A i, j \in 1 .. n : f[i] = f[j] => i = j
      /\ \A i \in 1 .. n : next[f[i]] = IF i = n THEN Null ELSE f[i + 1]
      /\ \A i \in 1 .. n, j \in 1 .. m : f[i] # u[j]
  BY DEF TwoLists, Lists
<1>2. /\ \A i, j \in 1 .. m : u[i] = u[j] => i = j
      /\ first = IF m = 0 THEN Null ELSE u[1]
      /\ \A i \in 1 .. m : next[u[i]] = IF i = m THEN Null ELSE u[i + 1]
      /\ \A i \in 1 .. m : prev[u[i]] = IF i = 1 THEN Null ELSE u[i - 1]
      /\ used = {u[i] : i \in 1 .. m} /\ Cardinality(used) = m
  BY DEF TwoLists, Lists
<1>3. pos \notin used
  BY <1>1, <1>2
<1>4. Lists(next', firstFree', n - 1, ff)
  <2>1. ff \in [1 .. n - 1 -> Slots] /\ \A i \in 1 .. n - 1 : ff[i] = f[i + 1]
    BY <1>1 DEF Rest
  <2>2. firstFree' = ff[1]
    BY <1>1, <2>1
  <2>3. \A i, j \in 1 .. n - 1 : ff[i] = ff[j] => i = j
    BY <1>1, <2>1
  <2>4. \A i \in 1 .. n - 1 : next'[ff[i]] = next[ff[i]]
    BY <1>1, <2>1
  <2>5. \A i \in 1 .. n - 1 : next[ff[i]] = IF i = n - 1 THEN Null ELSE ff[i + 1]
    BY <1>1, <2>1
  <2> HIDE DEF ff
  <2> QED BY <1>1, <2>1, <2>2, <2>3, <2>4, <2>5 DEF Lists
<1>b. \A i \in 1 .. n - 1 : ff[i] = f[i + 1]
  BY <1>1 DEF Rest
<1>5. /\ uu \in [1 .. m + 1 -> Slots]
      /\ \A i \in 1 .. m + 1 : uu[i] = IF i <= k THEN u[i] ELSE IF i = k + 1 THEN pos ELSE u[i - 1]
  BY <1>1 DEF Inserted
<1> HIDE DEF uu, ff
<1>6. \A i, j \in 1 .. m + 1 : uu[i] = uu[j] => i = j
  <2> SUFFICES ASSUME NEW i \in 1 .. m + 1, NEW j \in 1 .. m + 1, uu[i] = uu[j], i < j PROVE FALSE
    BY <1>1
  <2>1. j # k + 1 => uu[j] = u[IF j <= k THEN j ELSE j - 1]
    BY <1>5
  <2>2. i # k + 1 => uu[i] = u[IF i <= k THEN i ELSE i - 1]
    BY <1>5
  <2>3. CASE i = k + 1
    <3>1. uu[i] = f[1] /\ uu[j] = u[j - 1] /\ j - 1 \in 1 .. m
      BY <1>1, <1>5, <2>3
    <3>2. f[1] # u[j - 1]
      BY <1>1, <3>1
    <3> QED BY <3>1, <3>2
  <2>4. CASE j = k + 1
    <3>1. uu[j] = f[1]
      BY <1>1, <1>5, <2>4
    <3>2. i <= k /\ i \in 1 .. m
      BY <1>1, <2>4
    <3>3. uu[i] = u[i]
      BY <1>5, <3>2
    <3>4. f[1] # u[i]
      BY <1>1, <3>2
    <3> QED BY <3>1, <3>3, <3>4
  <2>5. CASE i # k + 1 /\ j # k + 1
    BY <1>1, <1>2, <2>1, <2>2, <2>5
  <2> QED BY <2>3, <2>4, <2>5
<1>7. first' = uu[1]
  BY <1>1, <1>2, <1>5
<1>8. ASSUME NEW i \in 1 .. m + 1
      PROVE  next'[uu[i]] = IF i = m + 1 THEN Null ELSE uu[i + 1]
  <2>1. CASE i = k + 1
    <3>1. next'[uu[i]] = IF k = 0 THEN first ELSE next[u[k]]
      BY <1>1, <1>5, <2>1
    <3>2. CASE k = 0
      BY <1>1, <1>2, <1>5, <2>1, <3>1, <3>2
    <3>3. CASE k # 0
      <4>1. next[u[k]] = IF k = m THEN Null ELSE u[k + 1]
        BY <1>1, <1>2, <3>3
      <4> QED BY <1>1, <1>5, <2>1, <3>1, <3>3, <4>1
    <3> QED BY <3>2, <3>3
  <2>2. CASE i = k
    <3>1. uu[i] = u[k] /\ k # 0 /\ u[k] # pos /\ u[k] \in Slots
      BY <1>1, <1>5, <2>2
    <3>2. next'[uu[i]] = pos
      BY <3>1
    <3> QED BY <1>1, <1>5, <2>2, <3>2
  <2>3. CASE i # k /\ i # k + 1
    <3> DEFINE j == IF i <= k THEN i ELSE i - 1
    <3>1. uu[i] = u[j] /\ j \in 1 .. m /\ u[j] # pos /\ u[j] \in Slots
      BY <1>1, <1>5, <2>3
    <3>2. ~ (k # 0 /\ u[j] = u[k])
      BY <1>2, <2>3, <3>1
    <3>3. next'[uu[i]] = next[u[j]]
      BY <3>1, <3>2
    <3>4. next[u[j]] = IF j = m THEN Null ELSE u[j + 1]
      BY <1>2, <3>1
    <3>5. i = m + 1 <=> j = m
      BY <1>1, <2>3
    <3>6. i # m + 1 => uu[i + 1] = u[j + 1]
      BY <1>1, <1>5, <2>3
    <3> QED BY <3>3, <3>4, <3>5, <3>6
  <2> QED BY <2>1, <2>2, <2>3
<1>9. ASSUME NEW i \in 1 .. m + 1
      PROVE  prev'[uu[i]] = IF i = 1 THEN Null ELSE uu[i - 1]
  <2>1. CASE i = k + 1
    BY <1>1, <1>5, <2>1
  <2>2. CASE i # k + 1
    <3> DEFINE j == IF i <= k THEN i ELSE i - 1
               after == IF k = 0 THEN first ELSE next[u[k]]
    <3>1. uu[i] = u[j] /\ j \in 1 .. m /\ u[j] # pos /\ u[j] \in Slots /\ u[j] \in used
      BY <1>1, <1>2, <1>5, <2>2
    <3>2. after = IF k = m THEN Null ELSE u[k + 1]
      BY <1>1, <1>2
    <3>3. u[j] = after <=> j = k + 1
      BY <1>1, <1>2, <3>1, <3>2
    <3>4. prev'[uu[i]] = IF u[j] = after THEN pos ELSE prev[u[j]]
      BY <3>1
    <3>5. prev[u[j]] = IF j = 1 THEN Null ELSE u[j - 1]
      BY <1>2, <3>1
    <3> HIDE DEF after
    <3>6. CASE j = k + 1
      <4>1. i = k + 2 /\ uu[i - 1] = pos
        BY <1>1, <1>5, <2>2, <3>6
      <4> QED BY <3>3, <3>4, <3>6, <4>1
    <3>7. CASE j # k + 1
      <4>1. i = 1 <=> j = 1
        BY <1>1, <2>2, <3>1, <3>7
      <4>2. i # 1 => uu[i - 1] = u[j - 1]
        BY <1>1, <1>5, <2>2, <3>1, <3>7
      <4> QED BY <3>3, <3>4, <3>5, <3>7, <4>1, <4>2
    <3> QED BY <3>6, <3>7
  <2> QED BY <2>1, <2>2
<1>10. used' = {uu[i] : i \in 1 .. m + 1}
  <2>1. ASSUME NEW j \in 1 .. m PROVE \E i \in 1 .. m + 1 : uu[i] = u[j]
    <3>1. CASE j <= k
      BY <1>1, <1>5, <3>1
    <3>2. CASE j > k
      <4>1. j + 1 \in 1 .. m + 1 /\ uu[j + 1] = u[j]
        BY <1>1, <1>5, <3>2
      <4> QED BY <4>1
    <3> QED BY <1>1, <3>1, <3>2
  <2>2. k + 1 \in 1 .. m + 1 /\ uu[k + 1] = pos
    BY <1>1, <1>5
  <2>3. ASSUME NEW i \in 1 .. m + 1 PROVE uu[i] \in used \cup {pos}
    <3>1. CASE i = k + 1
      BY <2>2, <3>1
    <3>2. CASE i # k + 1
      <4> DEFINE j == IF i <= k THEN i ELSE i - 1
      <4>1. uu[i] = u[j] /\ j \in 1 .. m
        BY <1>1, <1>5, <3>2
      <4> QED BY <1>2, <4>1
    <3> QED BY <3>1, <3>2
  <2>4. \A x \in used \cup {pos} : \E i \in 1 .. m + 1 : uu[i] = x
    <3>1. \A x \in used : \E j \in 1 .. m : x = u[j]
      BY <1>2
    <3> QED BY <2>1, <2>2, <3>1
  <2>5. used \cup {pos} = {uu[i] : i \in 1 .. m + 1}
    BY <2>3, <2>4
  <2> QED BY <2>5
<1>11. Cardinality(used') = m + 1
  <2>1. IsFiniteSet(used)
    <3>1. IsFiniteSet(Slots)
      <4>1. 0 \in Int /\ Entries - 1 \in Int
        OBVIOUS
      <4> QED BY <4>1, FS_Interval DEF Slots
    <3>2. used \subseteq Slots
      BY DEF TypeOK
    <3> QED BY <3>1, <3>2, FS_Subset
  <2>2. Cardinality(used \cup {pos}) = Cardinality(used) + 1
    BY <1>3, <2>1, FS_AddElement
  <2> QED BY <1>2, <2>2
<1>12. lastFree' = ff[n - 1] /\ \A i \in 1 .. n - 1 : ff[i] \notin used'
  <2>1. ff[n - 1] = f[n]
    BY <1>1, <1>b
  <2>2. \A i \in 1 .. n - 1 : f[i + 1] \notin used /\ f[i + 1] # pos
    BY <1>1, <1>2
  <2> QED BY <1>1, <1>b, <2>1, <2>2
<1>13. Lists(next', first', m + 1, uu)
  <2>1. m + 1 # 0
    BY <1>1
  <2> QED BY <1>5, <1>6, <1>7, <1>8, <2>1 DEF Lists
<1>14. (n - 1) + (m + 1) = Entries
  BY <1>1
<1>15. TwoLists(n - 1, ff, m + 1, uu)'
  <2>1. Lists(next, firstFree, n - 1, ff)' /\ Lists(next, first, m + 1, uu)'
    BY <1>4, <1>13 DEF Lists
  <2> QED BY <1>9, <1>10, <1>11, <1>12, <1>14, <2>1 DEF TwoLists
<1> QED BY <1>15 DEF ff, uu

(* An entry in use, the k-th of them, goes behind the free list. *)
LEMMA RemoveLists ==
    ASSUME TypeOK, NEW n \in 1 .. Entries, NEW m \in 0 .. Entries,
           NEW f \in [1 .. n -> Slots], NEW u \in [1 .. m -> Slots],
           TwoLists(n, f, m, u), NEW k \in 1 .. m, NEW p \in Slots, p = u[k],
           next' = Appended(p), Unlinked(p),
           firstFree' = firstFree, lastFree' = p, used' = used \ {p}
    PROVE  TwoLists(n + 1, Added(n, f, p), m - 1, Removed(m, u, k))'
<1> USE Pointers
<1> DEFINE uu == Removed(m, u, k)
           ff == Added(n, f, p)
<1>1. /\ n + m = Entries /\ n \in Nat /\ m \in Nat /\ 1 <= n /\ 1 <= m
      /\ firstFree = f[1] /\ firstFree # Null /\ lastFree = f[n]
      /\ \A i, j \in 1 .. n : f[i] = f[j] => i = j
      /\ \A i \in 1 .. n : next[f[i]] = IF i = n THEN Null ELSE f[i + 1]
      /\ \A i \in 1 .. n, j \in 1 .. m : f[i] # u[j]
  BY DEF TwoLists, Lists
<1>2. /\ \A i, j \in 1 .. m : u[i] = u[j] => i = j
      /\ first = IF m = 0 THEN Null ELSE u[1]
      /\ \A i \in 1 .. m : next[u[i]] = IF i = m THEN Null ELSE u[i + 1]
      /\ \A i \in 1 .. m : prev[u[i]] = IF i = 1 THEN Null ELSE u[i - 1]
      /\ used = {u[i] : i \in 1 .. m} /\ Cardinality(used) = m
  BY DEF TwoLists, Lists
<1>3. /\ \A q \in Slots : next'[q] = IF q = p THEN Null ELSE IF q = lastFree THEN p
                                     ELSE IF q = prev[p] THEN next[p] ELSE next[q]
      /\ \A q \in Slots : prev'[q] = IF q = next[p] THEN prev[p] ELSE prev[q]
      /\ first' = IF first = p THEN next[p] ELSE first
  <2>1. lastFree \in Slots
    BY <1>1
  <2> QED BY <1>1, <2>1 DEF Appended, Unlinked
<1>4. /\ prev[p] = IF k = 1 THEN Null ELSE u[k - 1]
      /\ next[p] = IF k = m THEN Null ELSE u[k + 1]
  BY <1>2
<1>5. /\ ff \in [1 .. n + 1 -> Slots]
      /\ \A i \in 1 .. n + 1 : ff[i] = IF i = n + 1 THEN p ELSE f[i]
  BY <1>1 DEF Added
<1>6. /\ uu \in [1 .. m - 1 -> Slots]
      /\ \A i \in 1 .. m - 1 : uu[i] = u[IF i < k THEN i ELSE i + 1]
  <2>1. \A i \in 1 .. m - 1 : (IF i < k THEN i ELSE i + 1) \in 1 .. m
    BY <1>1
  <2>2. uu = [i \in 1 .. m - 1 |-> u[IF i < k THEN i ELSE i + 1]]
    BY DEF Removed
  <2> HIDE DEF uu
  <2> QED BY <2>1, <2>2
<1> HIDE DEF uu, ff
<1>7. Lists(next', firstFree', n + 1, ff)
  <2>1. \A i, j \in 1 .. n + 1 : ff[i] = ff[j] => i = j
    <3>1. \A i \in 1 .. n : f[i] # p
      BY <1>1
    <3> QED BY <1>1, <1>5, <3>1
  <2>2. firstFree' = ff[1]
    BY <1>1, <1>5
  <2>3. ASSUME NEW i \in 1 .. n + 1
        PROVE  next'[ff[i]] = IF i = n + 1 THEN Null ELSE ff[i + 1]
    <3>1. CASE i = n + 1
      BY <1>3, <1>5, <3>1
    <3>2. CASE i = n
      <4>1. ff[i] = lastFree /\ lastFree # p /\ lastFree \in Slots /\ ff[i + 1] = p
        BY <1>1, <1>5, <3>2
      <4> QED BY <1>1, <1>3, <3>2, <4>1
    <3>3. CASE i # n /\ i # n + 1
      <4>1. /\ ff[i] = f[i] /\ ff[i + 1] = f[i + 1] /\ f[i] \in Slots
            /\ f[i] # p /\ f[i] # lastFree /\ f[i] # prev[p]
        BY <1>1, <1>4, <1>5, <3>3
      <4>2. next'[f[i]] = next[f[i]]
        BY <1>3, <4>1
      <4> QED BY <1>1, <3>3, <4>1, <4>2
    <3> QED BY <3>1, <3>2, <3>3
  <2>4. n + 1 # 0
    BY <1>1
  <2> QED BY <1>5, <2>1, <2>2, <2>3, <2>4 DEF Lists
<1>8. Lists(next', first', m - 1, uu)
  <2>1. \A i, j \in 1 .. m - 1 : uu[i] = uu[j] => i = j
    <3> TAKE i \in 1 .. m - 1, j \in 1 .. m - 1
    <3> DEFINE a == IF i < k THEN i ELSE i + 1
               b == IF j < k THEN j ELSE j + 1
    <3>1. a \in 1 .. m /\ b \in 1 .. m /\ uu[i] = u[a] /\ uu[j] = u[b]
      BY <1>1, <1>6
    <3>2. a = b => i = j
      BY <1>1
    <3> QED BY <1>2, <3>1, <3>2
  <2>2. first' = IF m - 1 = 0 THEN Null ELSE uu[1]
    <3>1. first = u[1] /\ (first = p <=> k = 1)
      BY <1>1, <1>2
    <3>2. CASE k = 1
      <4>1. first' = next[p]
        BY <1>3, <3>1, <3>2
      <4> QED BY <1>1, <1>4, <1>6, <3>2, <4>1
    <3>3. CASE k # 1
      <4>1. m - 1 # 0 /\ first' = u[1] /\ uu[1] = u[1]
        BY <1>1, <1>3, <1>6, <3>1, <3>3
      <4> QED BY <4>1
    <3> QED BY <3>2, <3>3
  <2>3. ASSUME NEW i \in 1 .. m - 1
        PROVE  next'[uu[i]] = IF i = m - 1 THEN Null ELSE uu[i + 1]
    <3> DEFINE a == IF i < k THEN i ELSE i + 1
    <3>1. a \in 1 .. m /\ a # k /\ uu[i] = u[a] /\ u[a] \in Slots /\ u[a] # p
      <4>1. a \in 1 .. m /\ a # k /\ uu[i] = u[a]
        BY <1>1, <1>6
      <4> HIDE DEF a
      <4> QED BY <1>1, <1>2, <4>1
    <3>2. u[a] # lastFree
      BY <1>1, <3>1
    <3>3. CASE i = k - 1
      <4>1. a = k - 1 /\ k # 1 /\ u[a] = prev[p]
        BY <1>1, <1>4, <3>3
      <4>2. next'[uu[i]] = next[p]
        BY <1>3, <3>1, <3>2, <4>1
      <4>3. i = m - 1 <=> k = m
        BY <1>1, <3>3
      <4>4. i # m - 1 => uu[i + 1] = u[k + 1]
        BY <1>1, <1>6, <3>3
      <4> QED BY <1>4, <4>2, <4>3, <4>4
    <3>4. CASE i # k - 1
      <4>1. u[a] # prev[p]
        <5>1. k # 1 => a # k - 1 /\ k - 1 \in 1 .. m
          BY <1>1, <3>4
        <5> QED BY <1>2, <1>4, <3>1, <5>1
      <4>2. next'[uu[i]] = next[u[a]]
        BY <1>3, <3>1, <3>2, <4>1
      <4>3. next[u[a]] = IF a = m THEN Null ELSE u[a + 1]
        BY <1>2, <3>1
      <4>4. a = m <=> i = m - 1
        BY <1>1, <3>4
      <4>5. i # m - 1 => uu[i + 1] = u[a + 1]
        BY <1>1, <1>6, <3>4
      <4> QED BY <4>2, <4>3, <4>4, <4>5
    <3> QED BY <3>3, <3>4
  <2> QED BY <1>6, <2>1, <2>2, <2>3 DEF Lists
<1>9. ASSUME NEW i \in 1 .. m - 1
      PROVE  prev'[uu[i]] = IF i = 1 THEN Null ELSE uu[i - 1]
  <2> DEFINE a == IF i < k THEN i ELSE i + 1
  <2>1. a \in 1 .. m /\ a # k /\ uu[i] = u[a]
    BY <1>1, <1>6
  <2>s. u[a] \in Slots /\ a = (IF i < k THEN i ELSE i + 1)
    BY <1>1, <2>1
  <2> HIDE DEF a
  <2>2. prev'[uu[i]] = IF u[a] = next[p] THEN prev[p] ELSE prev[u[a]]
    <3>1. prev'[u[a]] = IF u[a] = next[p] THEN prev[p] ELSE prev[u[a]]
      BY <1>3, <2>s
    <3> QED BY <2>1, <3>1
  <2>3. u[a] = next[p] <=> i = k
    <3>1. k # m => k + 1 \in 1 .. m
      BY <1>1
    <3>2. a = k + 1 <=> i = k
      BY <1>1, <2>s
    <3>3. i = k => k # m
      BY <1>1
    <3>4. next[p] = IF k = m THEN Null ELSE u[k + 1]
      BY <1>4
    <3>5. k # m => (u[a] = u[k + 1] <=> a = k + 1)
      BY <1>2, <2>1, <3>1
    <3> QED BY <2>s, <3>2, <3>3, <3>4, <3>5
  <2>4. CASE i = k
    <3>1. i # 1 => uu[i - 1] = u[k - 1]
      BY <1>1, <1>6, <2>4
    <3> QED BY <1>4, <2>2, <2>3, <2>4, <3>1
  <2>5. CASE i # k
    <3>1. prev[u[a]] = IF a = 1 THEN Null ELSE u[a - 1]
      BY <1>2, <2>1
    <3>2. a = 1 <=> i = 1
      BY <1>1, <2>5, <2>s
    <3>3. i # 1 => uu[i - 1] = u[a - 1]
      BY <1>1, <1>6, <2>5, <2>s
    <3> QED BY <2>2, <2>3, <2>5, <3>1, <3>2, <3>3
  <2> QED BY <2>4, <2>5
<1>10. used \ {p} = {uu[i] : i \in 1 .. m - 1}
  <2>1. ASSUME NEW j \in 1 .. m, j # k PROVE \E i \in 1 .. m - 1 : uu[i] = u[j]
    <3>1. CASE j < k
      BY <1>1, <1>6, <3>1
    <3>2. CASE j > k
      <4>1. j - 1 \in 1 .. m - 1 /\ uu[j - 1] = u[j]
        BY <1>1, <1>6, <3>2
      <4> QED BY <4>1
    <3> QED BY <1>1, <2>1, <3>1, <3>2
  <2>2. ASSUME NEW i \in 1 .. m - 1 PROVE uu[i] \in used \ {p}
    <3> DEFINE a == IF i < k THEN i ELSE i + 1
    <3>1. a \in 1 .. m /\ a # k /\ uu[i] = u[a]
      BY <1>1, <1>6
    <3> QED BY <1>2, <3>1
  <2>3. \A x \in used \ {p} : \E i \in 1 .. m - 1 : uu[i] = x
    <3>1. \A x \in used \ {p} : \E j \in 1 .. m : x = u[j] /\ j # k
      BY <1>2
    <3> QED BY <2>1, <3>1
  <2> QED BY <2>2, <2>3
<1>11. Cardinality(used') = m - 1
  <2>1. IsFiniteSet(used)
    <3>1. IsFiniteSet(Slots)
      <4>1. 0 \in Int /\ Entries - 1 \in Int
        OBVIOUS
      <4> QED BY <4>1, FS_Interval DEF Slots
    <3>2. used \subseteq Slots
      BY DEF TypeOK
    <3> QED BY <3>1, <3>2, FS_Subset
  <2>2. p \in used
    BY <1>2
  <2>3. Cardinality(used \ {p}) = Cardinality(used) - 1
    BY <2>1, <2>2, FS_RemoveElement
  <2> QED BY <1>2, <2>3
<1>12. lastFree' = ff[n + 1] /\ \A i \in 1 .. n + 1 : ff[i] \notin used'
  <2>1. \A i \in 1 .. n : f[i] \notin used
    BY <1>1, <1>2
  <2> QED BY <1>1, <1>5, <2>1
<1>13. (n + 1) + (m - 1) = Entries
  BY <1>1
<1>14. TwoLists(n + 1, ff, m - 1, uu)'
  <2>1. Lists(next, firstFree, n + 1, ff)' /\ Lists(next, first, m - 1, uu)'
    BY <1>7, <1>8 DEF Lists
  <2> QED BY <1>9, <1>10, <1>11, <1>12, <1>13, <2>1 DEF TwoLists
<1> QED BY <1>14 DEF ff, uu

(* The list that the pointer leads to, as Chain yields it. *)
LEMMA ChainOf ==
    ASSUME NEW h, NEW n \in 0 .. Entries, NEW s, Lists(next, h, n, s)
    PROVE  Chain(h) = s
BY ChainWalks, WalkIsList

(* The loop of th_new ends at an entry of the list, if that is not empty.  *)
LEMMA LoopEnds ==
    ASSUME TypeOK, NEW m \in 1 .. Entries, NEW u, Lists(next, first, m, u), NEW pos \in Slots
    PROVE  \E k \in 1 .. m : LoopEnd(pos) = u[k]
<1> USE Pointers
<1> DEFINE ends == {j \in 1 .. m : ~ pos < next[u[j]]}
           Found(j) == /\ ~ pos < next[u[j]]
                       /\ \A k \in 1 .. j - 1 : pos < next[u[k]]
<1>1. DOMAIN u = 1 .. m /\ m \in Nat
  BY DEF Lists
<1>2. Chain(first) = u
  BY ChainOf
<1>3. m \in ends
  <2>1. m \in 1 .. m /\ next[u[m]] = Null
    BY DEF Lists
  <2> QED BY <2>1
<1>4. PICK j \in ends : \A k \in ends : j <= k
  <2>1. ends \in SUBSET Nat /\ ends # {}
    BY <1>3
  <2> HIDE DEF ends
  <2> QED BY <2>1, Least
<1>5. Found(j)
  <2>1. j \in 1 .. m /\ ~ pos < next[u[j]]
    BY <1>4
  <2>2. \A k \in 1 .. j - 1 : k \in 1 .. m /\ ~ (j <= k)
    BY <1>1, <2>1
  <2>3. \A k \in 1 .. j - 1 : k \notin ends
    BY <1>4, <2>2
  <2>4. \A k \in 1 .. j - 1 : pos < next[u[k]]
    BY <2>2, <2>3
  <2> QED BY <2>1, <2>4
<1>6. (CHOOSE i \in 1 .. m : Found(i)) \in 1 .. m
  <2>1. \E i \in 1 .. m : Found(i)
    BY <1>4, <1>5
  <2> HIDE DEF Found
  <2> QED BY <2>1
<1>7. LoopEnd(pos) = u[CHOOSE i \in 1 .. m : Found(i)]
  BY <1>1, <1>2 DEF LoopEnd
<1> HIDE DEF Found
<1> QED BY <1>6, <1>7

(* Take moves the head of the free list into the list of entries in use. *)
LEMMA TakeLists ==
    ASSUME TypeOK, NEW n \in 1 .. Entries, NEW m \in 0 .. Entries,
           NEW f \in [1 .. n -> Slots], NEW u \in [1 .. m -> Slots],
           TwoLists(n, f, m, u), MaxUsed < Entries, Take
    PROVE  /\ n # 1 /\ firstFree = f[1] /\ used' = used \cup {f[1]}
           /\ \E v \in [1 .. m + 1 -> Slots] : TwoLists(n - 1, Rest(n, f), m + 1, v)'
<1> USE Pointers
<1>1. n # 1
  <2>1. Cardinality(used) = m /\ n + m = Entries
    BY DEF TwoLists
  <2>2. m < MaxUsed
    BY <2>1 DEF Take
  <2> QED BY <2>1, <2>2
<1>2. firstFree = f[1] /\ f[1] \in Slots
  <2>1. 1 \in 1 .. n /\ n # 0
    OBVIOUS
  <2> QED BY <2>1 DEF TwoLists, Lists
<1>3. PICK pos \in Slots : pos = firstFree
  BY <1>2
<1>4. /\ firstFree' = next[pos] /\ lastFree' = lastFree /\ used' = used \cup {pos}
      /\ pos \notin used
  <2>1. f[1] \notin used
    <3>1. 1 \in 1 .. n
      OBVIOUS
    <3> QED BY <3>1 DEF TwoLists
  <2> QED BY <1>2, <1>3, <2>1 DEF Take
<1>5. \A k \in 0 .. m : Inserted(m, u, k, pos) \in [1 .. m + 1 -> Slots]
  <2> TAKE k \in 0 .. m
  <2>1. \A i \in 1 .. m + 1 : (IF i <= k THEN u[i] ELSE IF i = k + 1 THEN pos ELSE u[i - 1]) \in Slots
    <3> TAKE i \in 1 .. m + 1
    <3>1. i <= k => i \in 1 .. m
      OBVIOUS
    <3>2. i > k /\ i # k + 1 => i - 1 \in 1 .. m
      OBVIOUS
    <3> QED BY <3>1, <3>2
  <2> QED BY <2>1 DEF Inserted
<1>6. CASE AtHead(pos)
  <2>1. /\ first' = pos
        /\ next' = [q \in Slots |-> IF q = pos THEN first ELSE next[q]]
        /\ \A q \in Slots : prev'[q] = IF q = pos THEN Null ELSE IF q = first THEN pos ELSE prev[q]
    BY <1>6 DEF AtHead, TypeOK
  <2>2. TwoLists(n - 1, Rest(n, f), m + 1, Inserted(m, u, 0, pos))'
    <3>1. 0 \in 0 .. m
      OBVIOUS
    <3>2. PICK k \in 0 .. m : k = 0
      BY <3>1
    <3>3. TwoLists(n - 1, Rest(n, f), m + 1, Inserted(m, u, k, pos))'
      BY <1>1, <1>3, <1>4, <2>1, <3>2, InsertLists
    <3> QED BY <3>2, <3>3
  <2>3. 0 \in 0 .. m
    OBVIOUS
  <2> QED BY <1>1, <1>2, <1>3, <1>4, <1>5, <2>2, <2>3
<1>7. CASE first # Null /\ Behind(LoopEnd(pos), pos)
  <2>1. m # 0 /\ Lists(next, first, m, u)
    BY <1>7 DEF TwoLists, Lists
  <2>2. PICK k \in 1 .. m : LoopEnd(pos) = u[k]
    BY <2>1, LoopEnds
  <2>3. u[k] \in Slots /\ u[k] \in used
    BY <2>2 DEF TwoLists
  <2>4. pos # next[u[k]]
    <3>1. next[u[k]] = IF k = m THEN Null ELSE u[k + 1]
      BY <2>1, <2>2 DEF Lists
    <3>2. k # m => u[k + 1] \in used
      BY <2>2 DEF TwoLists
    <3> QED BY <1>3, <1>4, <3>1, <3>2
  <2>5. /\ first' = first
        /\ next' = [next EXCEPT ![pos] = next[u[k]], ![u[k]] = pos]
        /\ \A q \in Slots : prev'[q] = IF q = next[u[k]] THEN pos ELSE IF q = pos THEN u[k] ELSE prev[q]
    BY <1>7, <2>2 DEF Behind
  <2>6. next' = [q \in Slots |-> IF q = pos THEN next[u[k]] ELSE IF q = u[k] THEN pos ELSE next[q]]
    BY <1>4, <2>3, <2>5 DEF TypeOK
  <2>7. k \in 0 .. m /\ k # 0
    BY <2>2
  <2>8. TwoLists(n - 1, Rest(n, f), m + 1, Inserted(m, u, k, pos))'
    <3>1. first' = IF k = 0 THEN pos ELSE first
      BY <2>5, <2>7
    <3>2. next' = [q \in Slots |->
                     IF q = pos THEN (IF k = 0 THEN first ELSE next[u[k]])
                     ELSE IF k # 0 /\ q = u[k] THEN pos ELSE next[q]]
      BY <2>6, <2>7
    <3>3. \A q \in Slots : q \in used \cup {pos} =>
             prev'[q] = IF q = pos THEN (IF k = 0 THEN Null ELSE u[k])
                        ELSE IF q = (IF k = 0 THEN first ELSE next[u[k]]) THEN pos
                        ELSE prev[q]
      BY <2>4, <2>5, <2>7
    <3> QED BY <1>1, <1>3, <1>4, <2>7, <3>1, <3>2, <3>3, InsertLists
  <2> QED BY <1>1, <1>2, <1>3, <1>4, <1>5, <2>7, <2>8
<1>8. AtHead(pos) \/ (first # Null /\ Behind(LoopEnd(pos), pos))
  BY <1>3 DEF Take
<1> QED BY <1>6, <1>7, <1>8

(* GiveBack moves an entry in use behind the free list. *)
LEMMA GiveBackLists ==
    ASSUME TypeOK, NEW n \in 1 .. Entries, NEW m \in 0 .. Entries,
           NEW f \in [1 .. n -> Slots], NEW u \in [1 .. m -> Slots],
           TwoLists(n, f, m, u), NEW p \in Slots, GiveBack(p)
    PROVE  /\ 1 <= m /\ n + 1 <= Entries
           /\ \E v \in [1 .. m - 1 -> Slots] : TwoLists(n + 1, Added(n, f, p), m - 1, v)'
<1> USE Pointers
<1>1. PICK k \in 1 .. m : p = u[k]
  <2>1. p \in used
    BY DEF GiveBack
  <2> QED BY <2>1 DEF TwoLists
<1>2. firstFree # Null
  <2>1. 1 \in 1 .. n /\ n # 0
    OBVIOUS
  <2> QED BY <2>1 DEF TwoLists, Lists
<1>3. /\ next' = Appended(p) /\ Unlinked(p) /\ firstFree' = firstFree
      /\ lastFree' = p /\ used' = used \ {p}
  BY <1>2 DEF GiveBack
<1>4. TwoLists(n + 1, Added(n, f, p), m - 1, Removed(m, u, k))'
  BY <1>1, <1>3, RemoveLists
<1>5. 1 <= m /\ n + 1 <= Entries
  BY <1>1 DEF TwoLists
<1>6. Removed(m, u, k) \in [1 .. m - 1 -> Slots]
  <2>1. \A i \in 1 .. m - 1 : (IF i < k THEN u[i] ELSE u[i + 1]) \in Slots
    <3> TAKE i \in 1 .. m - 1
    <3>1. i \in 1 .. m /\ i + 1 \in 1 .. m
      OBVIOUS
    <3> QED BY <3>1
  <2> QED BY <2>1 DEF Removed
<1> QED BY <1>4, <1>5, <1>6

-----------------------------------------------------------------------------
(* The invariant *)

(* Every step keeps the types. *)
LEMMA StepType ==
    ASSUME PoolInv, MaxUsed < Entries, [Next]_vars
    PROVE  TypeOK'
<1> USE Pointers
<1>1. TypeOK
  BY DEF PoolInv
<1>2. PICK n \in 1 .. Entries, m \in 0 .. Entries :
         \E f \in [1 .. n -> Slots], u \in [1 .. m -> Slots] : TwoLists(n, f, m, u)
  BY DEF PoolInv
<1>3. PICK f \in [1 .. n -> Slots], u \in [1 .. m -> Slots] : TwoLists(n, f, m, u)
  BY <1>2
<1>4. CASE UNCHANGED vars
  BY <1>1, <1>4 DEF vars, TypeOK
<1>5. CASE Take
  <2>1. firstFree = f[1] /\ f[1] \in Slots
    <3>1. n # 0 /\ firstFree = f[1]
      BY <1>3 DEF TwoLists, Lists
    <3>2. 1 \in 1 .. n
      BY <3>1
    <3> QED BY <3>1, <3>2
  <2>2. next[firstFree] \in Ptr /\ used' \subseteq Slots /\ lastFree' \in Ptr /\ firstFree' \in Ptr
    BY <1>1, <1>5, <2>1 DEF Take, TypeOK
  <2>3. CASE AtHead(firstFree)
    BY <1>1, <2>1, <2>2, <2>3 DEF AtHead, TypeOK
  <2>4. CASE first # Null /\ Behind(LoopEnd(firstFree), firstFree)
    <3>1. m # 0 /\ Lists(next, first, m, u)
      BY <1>3, <2>4 DEF TwoLists, Lists
    <3>2. LoopEnd(firstFree) \in Slots
      <4>1. \E k \in 1 .. m : LoopEnd(firstFree) = u[k]
        BY <1>1, <2>1, <3>1, LoopEnds
      <4> QED BY <4>1
    <3> HIDE DEF LoopEnd
    <3> QED BY <1>1, <2>1, <2>2, <2>4, <3>2 DEF Behind, TypeOK
  <2> QED BY <1>5, <2>3, <2>4 DEF Take
<1>6. ASSUME NEW p \in Slots, GiveBack(p) PROVE TypeOK'
  <2>1. next' \in [Slots -> Ptr]
    <3>1. \A q \in Slots : (IF q = prev[p] THEN next[p] ELSE next[q]) \in Ptr
      BY <1>1 DEF TypeOK
    <3> QED BY <1>6, <3>1 DEF GiveBack, Appended
  <2>2. prev' \in [Slots -> Ptr] /\ first' \in Ptr
    BY <1>1, <1>6 DEF GiveBack, Unlinked, TypeOK
  <2> QED BY <1>1, <1>6, <2>1, <2>2 DEF GiveBack, TypeOK
<1> QED BY <1>4, <1>5, <1>6 DEF Next

(* Every step keeps the two lists. *)
LEMMA StepInv ==
    ASSUME PoolInv, MaxUsed < Entries, [Next]_vars
    PROVE  PoolInv'
<1> USE Pointers
<1>0. TypeOK'
  BY StepType
<1>1. PICK n \in 1 .. Entries, m \in 0 .. Entries :
         \E f \in [1 .. n -> Slots], u \in [1 .. m -> Slots] : TwoLists(n, f, m, u)
  BY DEF PoolInv
<1>2. PICK f \in [1 .. n -> Slots], u \in [1 .. m -> Slots] : TwoLists(n, f, m, u)
  BY <1>1
<1>3. TypeOK /\ Cardinality(used) = m /\ n + m = Entries /\ Cardinality(used) <= MaxUsed
  <2>1. TypeOK /\ Cardinality(used) <= MaxUsed
    BY DEF PoolInv
  <2>2. Cardinality(used) = m /\ n + m = Entries
    BY <1>2 DEF TwoLists
  <2> QED BY <2>1, <2>2
<1>4. CASE UNCHANGED vars
  <2>1. TwoLists(n, f, m, u)' /\ Cardinality(used') <= MaxUsed
    BY <1>2, <1>3, <1>4 DEF vars, TwoLists
  <2> QED BY <1>0, <2>1 DEF PoolInv
<1>5. CASE Take
  <2>1. PICK v \in [1 .. m + 1 -> Slots] : TwoLists(n - 1, Rest(n, f), m + 1, v)'
    BY <1>2, <1>3, <1>5, TakeLists
  <2>2. n - 1 \in 1 .. Entries /\ m + 1 \in 0 .. Entries
    <3>1. n # 1
      BY <1>2, <1>3, <1>5, TakeLists
    <3> QED BY <1>3, <3>1
  <2>3. Rest(n, f) \in [1 .. n - 1 -> Slots]
    <3>1. \A i \in 1 .. n - 1 : f[i + 1] \in Slots
      OBVIOUS
    <3> QED BY <3>1 DEF Rest
  <2>4. Cardinality(used') <= MaxUsed
    <3>1. m < MaxUsed
      BY <1>3, <1>5 DEF Take
    <3>2. Cardinality(used') = m + 1
      BY <2>1 DEF TwoLists
    <3> QED BY <3>1, <3>2
  <2> QED BY <1>0, <2>1, <2>2, <2>3, <2>4 DEF PoolInv
<1>6. ASSUME NEW p \in Slots, GiveBack(p) PROVE PoolInv'
  <2>1. 1 <= m /\ n + 1 <= Entries
    BY <1>2, <1>3, <1>6, GiveBackLists
  <2>2. PICK v \in [1 .. m - 1 -> Slots] : TwoLists(n + 1, Added(n, f, p), m - 1, v)'
    BY <1>2, <1>3, <1>6, GiveBackLists
  <2>3. n + 1 \in 1 .. Entries /\ m - 1 \in 0 .. Entries
    BY <2>1
  <2>4. Added(n, f, p) \in [1 .. n + 1 -> Slots]
    <3>1. \A i \in 1 .. n + 1 : i # n + 1 => i \in 1 .. n
      OBVIOUS
    <3> QED BY <3>1 DEF Added
  <2>5. Cardinality(used') <= MaxUsed
    <3>1. Cardinality(used') = m - 1
      BY <2>2 DEF TwoLists
    <3> QED BY <1>3, <3>1
  <2> QED BY <1>0, <2>2, <2>3, <2>4, <2>5 DEF PoolInv
<1> QED BY <1>4, <1>5, <1>6 DEF Next

(* The table is set up as the free list of all entries, in their order.    *)
Whole == [i \in 1 .. Entries |-> i - 1]

(* Init, as f and u lists: Whole is the free list of all entries. *)
LEMMA InitLists ==
    ASSUME Init
    PROVE  Lists(next, firstFree, Entries, Whole) /\ PoolInv
<1> USE Pointers
<1>1. /\ Whole \in [1 .. Entries -> Slots] /\ \A i \in 1 .. Entries : Whole[i] = i - 1
      /\ 1 \in 1 .. Entries /\ Entries \in 1 .. Entries
  BY DEF Whole, Slots
<1>2. Lists(next, firstFree, Entries, Whole)
  <2>1. \A i \in 1 .. Entries : next[Whole[i]] = IF i = Entries THEN Null ELSE Whole[i + 1]
    BY <1>1 DEF Init
  <2>2. firstFree = Whole[1] /\ Entries # 0
    BY <1>1 DEF Init
  <2>3. \A i, j \in 1 .. Entries : Whole[i] = Whole[j] => i = j
    BY <1>1
  <2> HIDE DEF Whole
  <2> QED BY <1>1, <2>1, <2>2, <2>3 DEF Lists
<1> DEFINE none == [i \in 1 .. 0 |-> 0]
<1>3. none \in [1 .. 0 -> Slots] /\ \A i \in 1 .. 0 : FALSE
  OBVIOUS
<1> HIDE DEF none, Whole
<1>4. TypeOK
  BY DEF Init, TypeOK, Slots
<1>5. used = {} /\ Cardinality(used) = 0
  BY FS_EmptySet DEF Init
<1>6. TwoLists(Entries, Whole, 0, none)
  <2>1. Lists(next, first, 0, none)
    BY <1>3 DEF Init, Lists
  <2>2. lastFree = Whole[Entries]
    BY <1>1 DEF Init
  <2>3. used = {none[i] : i \in 1 .. 0}
    BY <1>3, <1>5
  <2> QED BY <1>2, <1>3, <1>5, <2>1, <2>2, <2>3 DEF TwoLists
<1>7. Cardinality(used) <= MaxUsed /\ 0 \in 0 .. Entries
  BY <1>5
<1> QED BY <1>1, <1>2, <1>3, <1>4, <1>6, <1>7 DEF PoolInv

(* PoolInv holds of a table that is never full. *)
THEOREM PoolInvariant ==
    ASSUME MaxUsed < Entries
    PROVE  Spec => []PoolInv
<1>1. Init => PoolInv
  BY InitLists
<1>2. PoolInv /\ [Next]_vars => PoolInv'
  BY StepInv
<1> QED BY <1>1, <1>2, PTL DEF Spec

(* As long as the table is not full, the list that thread_property/2 walks *)
(* holds each entry in use once, in either order of insertion, and         *)
(* prev_entry leads back, so that th_delete can unlink any of them.        *)
THEOREM ListOfUsed ==
    ASSUME MaxUsed < Entries
    PROVE  Spec => []ListHoldsUsed
<1>1. ASSUME PoolInv PROVE ListHoldsUsed
  <2>1. PICK n \in 1 .. Entries, m \in 0 .. Entries :
           \E f \in [1 .. n -> Slots], u \in [1 .. m -> Slots] : TwoLists(n, f, m, u)
    BY <1>1 DEF PoolInv
  <2>2. PICK f \in [1 .. n -> Slots], u \in [1 .. m -> Slots] : TwoLists(n, f, m, u)
    BY <2>1
  <2>3. Chain(first) = u /\ DOMAIN u = 1 .. m
    BY <2>2, ChainOf DEF TwoLists
  <2>4. IsInjective(u) /\ ToSet(u) = used
    BY <2>2, <2>3 DEF TwoLists, Lists, IsInjective, ToSet
  <2>5. \A i \in DOMAIN u : prev[u[i]] = IF i = 1 THEN Null ELSE u[i - 1]
    BY <2>2, <2>3 DEF TwoLists
  <2> QED BY <1>1, <2>3, <2>4, <2>5 DEF PoolInv, ListHoldsUsed
<1> QED BY <1>1, PoolInvariant, PTL

(* As long as the table is not full, no entry of the free list is in use.  *)
(* (Of a full table the code makes it false: FreeIsUnused, slots_thfull.)  *)
THEOREM FreeUnused ==
    ASSUME MaxUsed < Entries
    PROVE  Spec => []FreeIsUnused
<1>1. ASSUME PoolInv PROVE FreeIsUnused
  <2>1. PICK n \in 1 .. Entries, m \in 0 .. Entries :
           \E f \in [1 .. n -> Slots], u \in [1 .. m -> Slots] : TwoLists(n, f, m, u)
    BY <1>1 DEF PoolInv
  <2>2. PICK f \in [1 .. n -> Slots], u \in [1 .. m -> Slots] : TwoLists(n, f, m, u)
    BY <2>1
  <2>3. Chain(firstFree) = f /\ DOMAIN f = 1 .. n
    <3>1. n \in 0 .. Entries
      OBVIOUS
    <3> QED BY <2>2, <3>1, ChainOf DEF TwoLists
  <2> QED BY <2>2, <2>3 DEF TwoLists, FreeIsUnused, ToSet
<1> QED BY <1>1, PoolInvariant, PTL

-----------------------------------------------------------------------------
(* The pool of slots *)

(* A free list that Chain yields is a sequence. *)
LEMMA ListIsSeq ==
    ASSUME NEW n \in 1 .. Entries, NEW f \in [1 .. n -> Slots]
    PROVE  /\ f \in Seq(Slots) /\ Len(f) = n /\ f # <<>> /\ Head(f) = f[1]
           /\ n # 1 => Tail(f) = Rest(n, f)
           /\ \A p \in Slots : Append(f, p) = Added(n, f, p)
<1> USE Pointers
<1>1. f \in Seq(Slots) /\ Len(f) = n /\ n \in Nat /\ 1 <= n
  OBVIOUS
<1>2. f # <<>> /\ Head(f) = f[1]
  BY <1>1, EmptySeq
<1>3. ASSUME n # 1 PROVE Tail(f) = Rest(n, f)
  <2> DEFINE r == Rest(n, f)
  <2>1. /\ Tail(f) \in Seq(Slots) /\ Len(Tail(f)) = n - 1
        /\ \A i \in 1 .. n - 1 : Tail(f)[i] = f[i + 1]
    BY <1>1, <1>2, HeadTailProperties
  <2>2. r = [i \in 1 .. n - 1 |-> f[i + 1]]
    BY DEF Rest
  <2> HIDE DEF r
  <2>3. r \in Seq(Slots) /\ Len(r) = n - 1 /\ \A i \in 1 .. n - 1 : r[i] = f[i + 1]
    <3>1. n - 1 \in Nat /\ \A i \in 1 .. n - 1 : f[i + 1] \in Slots
      BY <1>1
    <3> QED BY <2>2, <3>1
  <2>4. Tail(f) = r
    BY <2>1, <2>3, SeqEqual
  <2> QED BY <2>4 DEF r
<1>4. ASSUME NEW p \in Slots PROVE Append(f, p) = Added(n, f, p)
  <2> DEFINE a == Added(n, f, p)
  <2>1. /\ Append(f, p) \in Seq(Slots) /\ Len(Append(f, p)) = n + 1
        /\ \A i \in 1 .. n : Append(f, p)[i] = f[i]
        /\ Append(f, p)[n + 1] = p
    BY <1>1, AppendProperties
  <2>2. a = [i \in 1 .. n + 1 |-> IF i = n + 1 THEN p ELSE f[i]]
    BY DEF Added
  <2> HIDE DEF a
  <2>3. a \in Seq(Slots) /\ Len(a) = n + 1 /\ \A i \in 1 .. n : a[i] = f[i]
    <3>1. n + 1 \in Nat /\ \A i \in 1 .. n + 1 : (IF i = n + 1 THEN p ELSE f[i]) \in Slots
      <4>1. \A i \in 1 .. n + 1 : i # n + 1 => i \in 1 .. n
        BY <1>1
      <4> QED BY <1>1, <4>1
    <3> QED BY <2>2, <3>1
  <2>4. a[n + 1] = p
    BY <1>1, <2>2
  <2>5. Append(f, p) = a
    <3>1. \A i \in 1 .. n + 1 : i \in 1 .. n \/ i = n + 1
      BY <1>1
    <3>2. \A i \in 1 .. n + 1 : Append(f, p)[i] = a[i]
      BY <2>1, <2>3, <2>4, <3>1
    <3> QED BY <2>1, <2>3, <3>2, SeqEqual
  <2> QED BY <2>5 DEF a
<1> QED BY <1>1, <1>2, <1>3, <1>4

(* The free list after a step, as Chain yields it. *)
LEMMA NextChain ==
    ASSUME NEW n \in 0 .. Entries, NEW s, Lists(next', firstFree', n, s)
    PROVE  Chain(firstFree)' = s
<1>1. Chain(firstFree)' = (CHOOSE g : Walks(next', firstFree', g))[Entries]
  BY DEF Chain, Walks, Longer
<1> QED BY <1>1, WalkIsList

(* A table that is never full is a pool of slots: it hands out an entry    *)
(* that nobody has, in the order in which they were given back.            *)
THEOREM TableIsPool ==
    ASSUME MaxUsed < Entries
    PROVE  Spec => IsPool
<1> USE Pointers
<1>1. ASSUME Init PROVE P!PoolInit
  <2>1. Entries \in 0 .. Entries
    OBVIOUS
  <2>2. Chain(firstFree) = Whole
    BY <1>1, <2>1, InitLists, ChainOf
  <2> QED BY <1>1, <2>2 DEF P!PoolInit, Whole, Init
<1>2. ASSUME PoolInv, [Next]_vars PROVE [P!PoolNext]_(P!poolVars)
  <2>1. PICK n \in 1 .. Entries, m \in 0 .. Entries :
           \E f \in [1 .. n -> Slots], u \in [1 .. m -> Slots] : TwoLists(n, f, m, u)
    BY <1>2 DEF PoolInv
  <2>2. PICK f \in [1 .. n -> Slots], u \in [1 .. m -> Slots] : TwoLists(n, f, m, u)
    BY <2>1
  <2>3. TypeOK /\ Chain(firstFree) = f
    <3>1. n \in 0 .. Entries
      OBVIOUS
    <3> QED BY <1>2, <2>2, <3>1, ChainOf DEF PoolInv, TwoLists
  <2>4. CASE UNCHANGED vars
    <3>1. Chain(firstFree)' = f
      <4>1. n \in 0 .. Entries /\ Lists(next', firstFree', n, f)
        BY <2>2, <2>4 DEF vars, TwoLists
      <4> QED BY <4>1, NextChain
    <3> QED BY <2>3, <2>4, <3>1 DEF vars, P!poolVars
  <2>5. CASE Take
    <3>1. /\ n # 1 /\ used' = used \cup {f[1]}
          /\ \E v \in [1 .. m + 1 -> Slots] : TwoLists(n - 1, Rest(n, f), m + 1, v)'
      BY <2>2, <2>3, <2>5, TakeLists
    <3>2. Chain(firstFree)' = Rest(n, f)
      <4>1. n - 1 \in 0 .. Entries /\ Lists(next', firstFree', n - 1, Rest(n, f))
        BY <3>1 DEF TwoLists
      <4> QED BY <4>1, NextChain
    <3>3. P!Take
      BY <2>3, <3>1, <3>2, ListIsSeq DEF P!Take
    <3> QED BY <3>3 DEF P!PoolNext
  <2>6. ASSUME NEW p \in Slots, GiveBack(p) PROVE P!PoolNext
    <3>1. /\ n + 1 <= Entries /\ used' = used \ {p} /\ p \in used
          /\ \E v \in [1 .. m - 1 -> Slots] : TwoLists(n + 1, Added(n, f, p), m - 1, v)'
      BY <2>2, <2>3, <2>6, GiveBackLists DEF GiveBack
    <3>2. Chain(firstFree)' = Added(n, f, p)
      <4>1. n + 1 \in 0 .. Entries /\ Lists(next', firstFree', n + 1, Added(n, f, p))
        BY <3>1 DEF TwoLists
      <4> QED BY <4>1, NextChain
    <3>3. P!GiveBack(p)
      BY <2>3, <3>1, <3>2, ListIsSeq DEF P!GiveBack
    <3> QED BY <3>3 DEF P!PoolNext
  <2> QED BY <1>2, <2>4, <2>5, <2>6 DEF Next
<1> QED BY <1>1, <1>2, PoolInvariant, PTL DEF Spec, IsPool, P!Pool

=============================================================================
