-------------------------- MODULE ToolCalls_proofs --------------------------
(***************************************************************************)
(* Proofs about the calls of a round.  ToolBatches: types; that no file is *)
(* patched which an earlier sub-round has not read; that writes run alone; *)
(* that the transcript has every answer, the gate agrees with it and no    *)
(* turn hangs.  PatchText: that a patch is read as it is written.          *)
(***************************************************************************)
EXTENDS ToolBatches, PatchText, FiniteSetTheorems, SequenceTheorems, WellFoundedInduction, TLAPS

(***************************************************************************)
(* PatchText.  A line changes what the parser knows in one of six ways.    *)
(* Each keeps that the changes so far are those of the lines so far, that  *)
(* as many lines are counted as have a sign, and that the names are apart. *)
(***************************************************************************)

\* A set of numbers has its least, and a bounded one its last.
LEMMA Least ==
  ASSUME NEW D \in SUBSET Nat, D # {}
  PROVE  \E n \in D : \A m \in D : n <= m
<1> DEFINE LessThan == {p \in Nat \X Nat : p[1] < p[2]}
<1>1. IsWellFoundedOn(LessThan, Nat)
  BY ZenonT(20), NatLessThanWellFounded DEF OpToRel
<1>2. PICK n \in D : \A m \in D : ~ (<<m, n>> \in LessThan)
  <2> HIDE DEF LessThan
  <2> QED
    BY <1>1, WFMin
<1>3. ASSUME NEW m \in D PROVE n <= m
  <2>1. ~ (<<m, n>> \in LessThan)
    BY <1>2
  <2>2. ~ (m < n)
    BY <2>1
  <2> QED
    BY <2>2
<1> QED
  BY <1>3

LEMMA Lasts ==
  ASSUME NEW n \in Nat, NEW T, T \subseteq 1..n, T # {}
  PROVE  \E m \in T : \A k \in T : k <= m
<1> DEFINE LessThan == {p \in Nat \X Nat : p[1] < p[2]}
           D == {n - k : k \in T}
<1>1. IsWellFoundedOn(LessThan, Nat)
  BY ZenonT(20), NatLessThanWellFounded DEF OpToRel
<1>2. D \subseteq Nat /\ D # {}
  <2>1. \A k \in T : n - k \in Nat /\ n - k \in D
    OBVIOUS
  <2> QED
    BY <2>1
<1>3. PICK x \in D : \A y \in D : ~ (<<y, x>> \in LessThan)
  <2> HIDE DEF D, LessThan
  <2> QED
    BY <1>1, <1>2, WFMin
<1>4. PICK m \in T : x = n - m
  OBVIOUS
<1>5. ASSUME NEW k \in T PROVE k <= m
  <2>1. n - k \in D /\ n - k \in Nat /\ n - m \in Nat
    OBVIOUS
  <2>2. ~ (<<n - k, n - m>> \in LessThan)
    BY <1>3, <1>4, <2>1
  <2>3. ~ (n - k < n - m)
    BY <2>1, <2>2
  <2> QED
    BY <2>3
<1> QED
  BY <1>5

LEMMA MaxIn ==
  ASSUME NEW n \in Nat, NEW T, T \subseteq 1..n, T # {}
  PROVE  Max(T) \in T /\ \A k \in T : k <= Max(T)
<1>1. PICK m \in T : \A k \in T : k <= m
  BY Lasts
<1>2. \A k \in T : m >= k
  BY <1>1
<1> QED
  BY <1>2 DEF Max

LEMMA MinIn ==
  ASSUME NEW T, T \subseteq Nat, T # {}
  PROVE  Min(T) \in T /\ \A k \in T : Min(T) <= k
<1>1. PICK m \in T : \A k \in T : m <= k
  BY Least
<1> QED
  BY <1>1 DEF Min

\* Sequences joined one after the other, from a beginning on.
Joins(f, s, n) == f[0] = <<>> /\ \A i \in 1..n : f[i] = f[i - 1] \o s[i]
\* A sum and its partial sums.
Adding(f, s, n) == f[0] = 0 /\ \A i \in 1..n : f[i] = f[i - 1] + s[i]

LEMMA AddingOnce ==
  ASSUME NEW s, NEW n \in Nat, NEW f \in [0..n -> Int], NEW g \in [0..n -> Int], Adding(f, s, n), Adding(g, s, n)
  PROVE  f = g
<1> DEFINE D == {i \in 0..n : f[i] # g[i]}
<1>1. CASE D # {}
  <2>0. D \in SUBSET Nat
    OBVIOUS
  <2>1. PICK i \in D : \A m \in D : i <= m
    <3> HIDE DEF D
    <3> QED
      BY <1>1, <2>0, Least
  <2>2. i # 0
    BY DEF Adding
  <2>3. i - 1 \in 0..n /\ i - 1 \notin D /\ i \in 1..n
    BY <2>1, <2>2
  <2>4. f[i - 1] = g[i - 1]
    BY <2>3
  <2>5. f[i] = f[i - 1] + s[i] /\ g[i] = g[i - 1] + s[i]
    BY <2>3 DEF Adding
  <2> QED
    BY <2>4, <2>5
<1>2. CASE D = {}
  BY <1>2
<1> QED
  BY <1>1, <1>2

LEMMA AddingExists ==
  ASSUME NEW s, NEW n \in Nat, \A i \in 1..n : s[i] \in Nat
  PROVE  \E f \in [0..n -> Nat] : Adding(f, s, n)
<1> DEFINE Has(k) == \E f \in [0..k -> Nat] : Adding(f, s, k)
           D == {k \in 0..n : ~ Has(k)}
<1>1. CASE D # {}
  <2>0. D \in SUBSET Nat
    OBVIOUS
  <2>1. PICK k \in D : \A m \in D : k <= m
    <3> HIDE DEF D
    <3> QED
      BY <1>1, <2>0, Least
  <2>2. k # 0
    <3>1. [i \in 0..0 |-> 0] \in [0..0 -> Nat] /\ Adding([i \in 0..0 |-> 0], s, 0)
      BY DEF Adding
    <3> QED
      BY <3>1
  <2>3. k - 1 \in 0..n /\ Has(k - 1) /\ k \in 1..n /\ ~Has(k)
    <3> HIDE DEF Has
    <3>1. k \in 0..n /\ k \in Int /\ ~Has(k)
      BY <2>1
    <3>2. k - 1 \in 0..n /\ k \in 1..n /\ ~(k <= k - 1)
      BY <2>2, <3>1
    <3>3. k - 1 \notin D
      BY <2>1, <3>2
    <3> QED
      BY <3>1, <3>2, <3>3
  <2>4. PICK f \in [0..(k - 1) -> Nat] : Adding(f, s, k - 1)
    BY <2>3
  <2> DEFINE g == [i \in 0..k |-> IF i = k THEN f[k - 1] + s[k] ELSE f[i]]
  <2>5. g \in [0..k -> Nat]
    BY <2>3
  <2>6. g[0] = 0
    BY <2>2, <2>4 DEF Adding
  <2>7. ASSUME NEW i \in 1..k PROVE g[i] = g[i - 1] + s[i]
    <3>1. CASE i = k
      BY <2>3, <3>1
    <3>2. CASE i # k
      <4>1. i \in 1..(k - 1) /\ i \in 0..k /\ i - 1 \in 0..k /\ i - 1 # k
        BY <3>2
      <4>2. f[i] = f[i - 1] + s[i]
        BY <2>4, <4>1 DEF Adding
      <4> QED
        BY <3>2, <4>1, <4>2
    <3> QED
      BY <3>1, <3>2
  <2> HIDE DEF g
  <2> QED
    BY <2>3, <2>5, <2>6, <2>7 DEF Adding
<1>2. CASE D = {}
  <2>1. n \in 0..n /\ Has(n)
    <3> HIDE DEF Has
    <3> QED
      BY <1>2
  <2> QED
    BY <2>1
<1> QED
  BY <1>1, <1>2

\* The totals of the model are its partial sums.
LEMMA Summed ==
  ASSUME NEW s \in Seq(Nat)
  PROVE  /\ Total(s) \in Nat
         /\ \A f \in [0..Len(s) -> Int] : Adding(f, s, Len(s)) => f[Len(s)] = Total(s)
         /\ TotalsUpTo(s) \in [0..Len(s) -> Nat] /\ Adding(TotalsUpTo(s), s, Len(s))
<1>1. PICK n \in Nat : n = Len(s)
  OBVIOUS
<1>2. \A i \in 1..n : s[i] \in Nat
  BY <1>1
<1>3. PICK f \in [0..n -> Nat] : Adding(f, s, n)
  BY <1>2, AddingExists
<1> DEFINE Fix(h) == h = [i \in 0..n |-> IF i = 0 THEN 0 ELSE h[i - 1] + s[i]]
<1>4. Fix(f)
  <2> DEFINE g == [i \in 0..n |-> IF i = 0 THEN 0 ELSE f[i - 1] + s[i]]
  <2>1. \A i \in 0..n : f[i] = g[i]
    BY <1>3 DEF Adding
  <2> QED
    BY <2>1
<1>5. TotalsUpTo(s) = CHOOSE h : Fix(h)
  BY <1>1 DEF TotalsUpTo
<1>6. Fix(TotalsUpTo(s))
  <2> HIDE DEF Fix
  <2> QED
    BY <1>4, <1>5
<1>7. PICK h : h = TotalsUpTo(s) /\ h = [i \in 0..n |-> IF i = 0 THEN 0 ELSE h[i - 1] + s[i]]
  BY <1>6
<1>8. h[0] = 0 /\ \A i \in 1..n : h[i] = h[i - 1] + s[i]
  <2>1. \A i \in 0..n : h[i] = IF i = 0 THEN 0 ELSE h[i - 1] + s[i]
    BY <1>7
  <2>2. h[0] = 0
    <3>1. 0 \in 0..n
      OBVIOUS
    <3>2. h[0] = IF 0 = 0 THEN 0 ELSE h[0 - 1] + s[0]
      BY Zenon, <2>1, <3>1
    <3> QED
      BY Zenon, <3>2
  <2> QED
    BY <2>1, <2>2
<1>9. h \in [0..n -> Int]
  <2> DEFINE D == {k \in 0..n : h[k] # f[k]}
  <2>1. D \in SUBSET Nat
    OBVIOUS
  <2>2. CASE D # {}
    <3>1. PICK k \in D : \A m \in D : k <= m
      <4> HIDE DEF D
      <4> QED
        BY <2>1, <2>2, Least
    <3>2. k # 0
      BY <1>3, <1>8 DEF Adding
    <3>3. k - 1 \in 0..n /\ k - 1 \notin D /\ k \in 1..n
      BY <3>1, <3>2
    <3>4. h[k - 1] = f[k - 1] /\ h[k] = h[k - 1] + s[k] /\ f[k] = f[k - 1] + s[k]
      BY <1>3, <1>8, <3>3 DEF Adding
    <3> QED
      BY <3>4
  <2>3. CASE D = {}
    <3>1. \A k \in 0..n : h[k] = f[k]
      BY <2>3
    <3>2. \A k \in 0..n : h[k] \in Int
      BY <3>1
    <3>3. h = [k \in 0..n |-> h[k]]
      BY <1>7
    <3> QED
      BY <3>2, <3>3
  <2> QED
    BY <2>2, <2>3
<1>10. Adding(h, s, n)
  BY <1>8 DEF Adding
<1>11. \A g \in [0..n -> Int] : Adding(g, s, n) => g = h
  BY <1>9, <1>10, AddingOnce
<1>12. f \in [0..n -> Int]
  OBVIOUS
<1>13. h = f
  BY <1>3, <1>11, <1>12
<1> QED
  BY <1>1, <1>3, <1>7, <1>10, <1>11, <1>13 DEF Total

LEMMA TotalNone == Total(<<>>) = 0
<1>1. <<>> \in Seq(Nat) /\ Len(<<>>) = 0
  OBVIOUS
<1>2. Adding(TotalsUpTo(<<>>), <<>>, 0)
  BY <1>1, Summed
<1> QED
  BY <1>1, <1>2 DEF Adding, Total

\* One more count, and the sum of two lists.
LEMMA TotalMore ==
  ASSUME NEW s \in Seq(Nat), NEW d \in Nat, NEW t \in Seq(Nat), Len(t) = Len(s) + 1, t[Len(s) + 1] = d,
         \A i \in 1..Len(s) : t[i] = s[i]
  PROVE  Total(t) = Total(s) + d
<1>1. PICK n \in Nat : n = Len(s)
  OBVIOUS
<1>2. PICK f \in [0..n -> Nat] : f = TotalsUpTo(s) /\ Adding(f, s, n) /\ f[n] = Total(s)
  BY <1>1, Summed DEF Total
<1> DEFINE g == [i \in 0..(n + 1) |-> IF i = n + 1 THEN f[n] + d ELSE f[i]]
<1>3. g \in [0..(n + 1) -> Int] /\ g[n + 1] = Total(s) + d
  BY <1>2
<1>4. Adding(g, t, n + 1)
  <2>1. g[0] = 0
    BY <1>2 DEF Adding
  <2>2. ASSUME NEW i \in 1..(n + 1) PROVE g[i] = g[i - 1] + t[i]
    <3>1. CASE i = n + 1
      BY <1>1, <3>1
    <3>2. CASE i # n + 1
      <4>1. i \in 1..n /\ i \in 0..(n + 1) /\ i - 1 \in 0..(n + 1) /\ i - 1 # n + 1
        BY <3>2
      <4>2. f[i] = f[i - 1] + s[i] /\ t[i] = s[i]
        BY <1>1, <1>2, <4>1 DEF Adding
      <4> QED
        BY <3>2, <4>1, <4>2
    <3> QED
      BY <3>1, <3>2
  <2> HIDE DEF g
  <2> QED
    BY <2>1, <2>2 DEF Adding
<1> HIDE DEF g
<1>5. Len(t) = n + 1
  BY <1>1
<1>6. g[n + 1] = Total(t)
  BY <1>3, <1>4, <1>5, Summed
<1> QED
  BY <1>3, <1>6

LEMMA TotalBoth ==
  ASSUME NEW s \in Seq(Nat), NEW t \in Seq(Nat), NEW u \in Seq(Nat), Len(t) = Len(s), Len(u) = Len(s),
         \A i \in 1..Len(s) : u[i] = s[i] + t[i]
  PROVE  Total(u) = Total(s) + Total(t)
<1>1. PICK n \in Nat : n = Len(s)
  OBVIOUS
<1>2. PICK f \in [0..n -> Nat] : Adding(f, s, n) /\ f[n] = Total(s)
  BY <1>1, Summed DEF Total
<1>3. PICK g \in [0..n -> Nat] : Adding(g, t, n) /\ g[n] = Total(t)
  BY <1>1, Summed DEF Total
<1> DEFINE h == [i \in 0..n |-> f[i] + g[i]]
<1>4. h \in [0..n -> Int] /\ h[n] = Total(s) + Total(t)
  BY <1>2, <1>3
<1>5. Adding(h, u, n)
  <2>1. h[0] = 0
    BY <1>2, <1>3 DEF Adding
  <2>2. ASSUME NEW i \in 1..n PROVE h[i] = h[i - 1] + u[i]
    <3>1. i \in 0..n /\ i - 1 \in 0..n
      OBVIOUS
    <3>2. h[i] = f[i] + g[i] /\ h[i - 1] = f[i - 1] + g[i - 1]
      BY <3>1
    <3>3. f[i] = f[i - 1] + s[i] /\ g[i] = g[i - 1] + t[i] /\ u[i] = s[i] + t[i]
      BY <1>1, <1>2, <1>3 DEF Adding
    <3>4. i \in 1..Len(s) /\ i \in 1..Len(t)
      BY <1>1
    <3>5. s[i] \in Nat /\ t[i] \in Nat
      BY <3>4, ElementOfSeq
    <3>6. PICK a \in Nat, b \in Nat, x \in Nat, y \in Nat : a = s[i] /\ b = t[i] /\ x = f[i - 1] /\ y = g[i - 1]
      BY <3>1, <3>5
    <3>7. h[i] = (x + a) + (y + b) /\ h[i - 1] = x + y /\ u[i] = a + b
      BY <3>2, <3>3, <3>6
    <3>8. (x + a) + (y + b) = (x + y) + (a + b)
      OBVIOUS
    <3> QED
      BY <3>7, <3>8
  <2> HIDE DEF h
  <2> QED
    BY <2>1, <2>2 DEF Adding
<1> HIDE DEF h
<1>6. h[n] = Total(u)
  BY <1>1, <1>4, <1>5, Summed
<1> QED
  BY <1>4, <1>6

\* The lines of a text, one more of them, and the place of each among others.
LEMMA Places ==
  ASSUME NEW n \in Nat, NEW S \in SUBSET (1..n)
  PROVE  /\ IsFiniteSet(S) /\ Cardinality(S) \in Nat
         /\ \A j \in S : Rank(S, j) \in 1..Cardinality(S)
<1>1. IsFiniteSet(1..n)
  BY FS_Interval
<1>2. IsFiniteSet(S)
  BY <1>1, FS_Subset
<1>3. PICK c \in Nat : c = Cardinality(S)
  BY <1>2, FS_CardinalityType
<1>4. ASSUME NEW j \in S PROVE Rank(S, j) \in 1..c
  <2> DEFINE T == {k \in S : k <= j}
  <2>1. T \in SUBSET S /\ j \in T
    OBVIOUS
  <2> HIDE DEF T
  <2>2. IsFiniteSet(T) /\ Cardinality(T) <= Cardinality(S)
    BY <1>2, <2>1, FS_Subset
  <2>3. Cardinality(T) \in Nat
    BY <2>2, FS_CardinalityType
  <2>4. Cardinality(T) # 0
    BY <2>1, <2>2, FS_EmptySet
  <2>5. Rank(S, j) = Cardinality(T)
    BY DEF T, Rank
  <2>6. PICK d \in Nat : d = Cardinality(T)
    BY <2>3
  <2> QED
    BY <1>3, <2>2, <2>4, <2>5, <2>6
<1> QED
  BY <1>2, <1>3, <1>4

LEMMA PlaceMore ==
  ASSUME NEW n \in Nat, NEW S \in SUBSET (1..n)
  PROVE  /\ Cardinality(S \cup {n + 1}) = Cardinality(S) + 1
         /\ Rank(S \cup {n + 1}, n + 1) = Cardinality(S) + 1
         /\ \A j \in S : Rank(S \cup {n + 1}, j) = Rank(S, j)
<1>1. IsFiniteSet(S) /\ n + 1 \notin S
  <2>1. n + 1 \notin 1..n
    OBVIOUS
  <2> QED
    BY <2>1, Places
<1>2. Cardinality(S \cup {n + 1}) = Cardinality(S) + 1
  BY <1>1, FS_AddElement
<1>3. {j \in S \cup {n + 1} : j <= n + 1} = S \cup {n + 1}
  <2>1. \A j \in S \cup {n + 1} : j <= n + 1
    OBVIOUS
  <2> QED
    BY <2>1
<1>4. ASSUME NEW j \in S PROVE {k \in S \cup {n + 1} : k <= j} = {k \in S : k <= j}
  OBVIOUS
<1> QED
  BY <1>2, <1>3, <1>4 DEF Rank

LEMMA PlaceLast ==
  ASSUME NEW n \in Nat, NEW S \in SUBSET (1..n), NEW j \in S
  PROVE  Rank(S, j) = Cardinality(S) <=> \A k \in S : k <= j
<1> DEFINE T == {k \in S : k <= j}
<1>1. IsFiniteSet(S)
  BY Places
<1>2. Cardinality(S) = Cardinality(T) => S = T
  <2>1. T \in SUBSET S
    OBVIOUS
  <2> HIDE DEF T
  <2> QED
    BY <1>1, <2>1, FS_Subset
<1>3. Rank(S, j) = Cardinality(T)
  BY DEF Rank
<1>4. S = T <=> \A k \in S : k <= j
  OBVIOUS
<1> HIDE DEF T
<1> QED
  BY <1>2, <1>3, <1>4

Open(lines, i, ends) == \A k \in (i + 1)..Len(lines) : lines[k].kind \notin ends
More(lines, x, longer) ==
  /\ Len(longer) = Len(lines) + 1 /\ longer[Len(lines) + 1] = x
  /\ \A i \in 1..Len(lines) : longer[i] = lines[i]

LEMMA LinesIn ==
  ASSUME NEW s \in Seq(Lines), NEW kinds
  PROVE  /\ LinesOf(s, kinds) \in SUBSET (1..Len(s))
         /\ \A i, ends : LinesAfter(s, i, ends, kinds) \in SUBSET (1..Len(s))
BY DEF LinesOf, LinesAfter

LEMMA Gains ==
  ASSUME NEW n \in Nat, NEW A \in SUBSET (1..(n + 1)), NEW B \in SUBSET (1..n), NEW q,
         \A i \in 1..n : i \in A <=> i \in B, n + 1 \in A <=> q
  PROVE  (q => A = B \cup {n + 1}) /\ (~ q => A = B)
<1>1. \A i \in 1..(n + 1) : i = n + 1 \/ i \in 1..n
  OBVIOUS
<1>2. n + 1 \notin B
  OBVIOUS
<1> QED
  BY <1>1, <1>2

LEMMA MoreLines ==
  ASSUME NEW s \in Seq(Lines), NEW x, NEW r, More(s, x, r), NEW kinds
  PROVE  /\ x.kind \in kinds => LinesOf(r, kinds) = LinesOf(s, kinds) \cup {Len(s) + 1}
         /\ x.kind \notin kinds => LinesOf(r, kinds) = LinesOf(s, kinds)
<1>1. PICK n \in Nat : n = Len(s)
  OBVIOUS
<1>2. Len(r) = n + 1 /\ r[n + 1] = x /\ \A i \in 1..n : r[i] = s[i]
  BY <1>1 DEF More
<1>3. ASSUME NEW i \in 1..(n + 1) PROVE i = n + 1 \/ i \in 1..n
  OBVIOUS
<1>4. PICK A, B : A = LinesOf(r, kinds) /\ B = LinesOf(s, kinds)
  OBVIOUS
<1>5. A \subseteq 1..(n + 1) /\ B \subseteq 1..n
  BY <1>1, <1>2, <1>4 DEF LinesOf
<1>6. (\A i \in 1..n : i \in A <=> i \in B) /\ (n + 1 \in A <=> x.kind \in kinds)
  <2>1. n + 1 \in 1..(n + 1) /\ \A i \in 1..n : i \in 1..(n + 1)
    OBVIOUS
  <2> QED
    BY <1>1, <1>2, <1>4, <2>1 DEF LinesOf
<1>7. (x.kind \in kinds => A = B \cup {n + 1}) /\ (x.kind \notin kinds => A = B)
  BY <1>5, <1>6, Gains
<1> QED
  BY <1>1, <1>4, <1>7

LEMMA MoreAfter ==
  ASSUME NEW s \in Seq(Lines), NEW x, NEW r, More(s, x, r), NEW kinds, NEW ends, NEW i \in 1..Len(s)
  PROVE  /\ Open(s, i, ends) /\ x.kind \in kinds /\ x.kind \notin ends =>
              LinesAfter(r, i, ends, kinds) = LinesAfter(s, i, ends, kinds) \cup {Len(s) + 1}
         /\ ~ Open(s, i, ends) \/ x.kind \notin kinds \/ x.kind \in ends =>
              LinesAfter(r, i, ends, kinds) = LinesAfter(s, i, ends, kinds)
<1>1. PICK n \in Nat : n = Len(s) /\ i \in 1..n
  OBVIOUS
<1>2. Len(r) = n + 1 /\ r[n + 1] = x /\ \A k \in 1..n : r[k] = s[k]
  BY <1>1 DEF More
<1>3. ASSUME NEW j \in 1..n PROVE j \in LinesAfter(r, i, ends, kinds) <=> j \in LinesAfter(s, i, ends, kinds)
  <2>1. j \in 1..(n + 1) /\ \A k \in (i + 1)..j : k \in 1..n
    BY <1>1
  <2>2. j \in LinesOf(r, kinds) <=> j \in LinesOf(s, kinds)
    BY <1>1, <1>2, <2>1 DEF LinesOf
  <2> QED
    BY <1>2, <2>1, <2>2 DEF LinesAfter
<1>4. n + 1 \in LinesAfter(r, i, ends, kinds) <=> x.kind \in kinds /\ x.kind \notin ends /\ Open(s, i, ends)
  <2>1. n + 1 \in LinesOf(r, kinds) <=> x.kind \in kinds
    BY <1>2 DEF LinesOf
  <2>2. (\A k \in (i + 1)..(n + 1) : r[k].kind \notin ends) <=>
          x.kind \notin ends /\ \A k \in (i + 1)..n : s[k].kind \notin ends
    <3>1. \A k \in (i + 1)..(n + 1) : k = n + 1 \/ k \in (i + 1)..n
      BY <1>1
    <3>2. n + 1 \in (i + 1)..(n + 1) /\ \A k \in (i + 1)..n : k \in (i + 1)..(n + 1) /\ k \in 1..n
      BY <1>1
    <3> QED
      BY <1>2, <3>1, <3>2
  <2>3. n + 1 > i
    BY <1>1
  <2> QED
    BY <1>1, <2>1, <2>2, <2>3 DEF LinesAfter, Open
<1>5. LinesAfter(s, i, ends, kinds) \subseteq 1..n /\ LinesAfter(r, i, ends, kinds) \subseteq 1..(n + 1)
  BY <1>1, <1>2 DEF LinesAfter, LinesOf
<1>6. PICK A, B : A = LinesAfter(r, i, ends, kinds) /\ B = LinesAfter(s, i, ends, kinds)
  OBVIOUS
<1>7. PICK q \in BOOLEAN : q = (x.kind \in kinds /\ x.kind \notin ends /\ Open(s, i, ends))
  OBVIOUS
<1>8. (q => A = B \cup {n + 1}) /\ (~ q => A = B)
  BY <1>3, <1>4, <1>5, <1>6, <1>7, Gains
<1> QED
  BY <1>1, <1>6, <1>7, <1>8

LEMMA NewAfter ==
  ASSUME NEW s \in Seq(Lines), NEW x, NEW r, More(s, x, r), NEW kinds, NEW ends
  PROVE  LinesAfter(r, Len(s) + 1, ends, kinds) = {}
BY DEF LinesAfter, LinesOf, More

LEMMA SpellsSame ==
  ASSUME NEW s \in Seq(Lines), NEW x, NEW r, More(s, x, r), NEW S \in SUBSET (1..Len(s)), NEW t, Spells(s, t, S)
  PROVE  Spells(r, t, S)
BY DEF Spells, More

LEMMA SpellsMore ==
  ASSUME NEW s \in Seq(Lines), NEW x, NEW r, More(s, x, r), NEW S \in SUBSET (1..Len(s)),
         NEW T, NEW t \in Seq(T), Spells(s, t, S), NEW w \in T, w = x.text
  PROVE  Spells(r, Append(t, w), S \cup {Len(s) + 1})
<1>1. PICK n \in Nat, c \in Nat : n = Len(s) /\ c = Len(t) /\ c = Cardinality(S)
  <2>1. Len(t) = Cardinality(S) /\ Len(t) \in Nat /\ Len(s) \in Nat
    BY DEF Spells
  <2> QED
    BY <2>1
<1>2. PICK u : u = Append(t, w)
  OBVIOUS
<1>3. Len(u) = c + 1 /\ u[c + 1] = w /\ \A i \in 1..c : u[i] = t[i]
  <2>1. Len(u) = Len(t) + 1 /\ u[Len(t) + 1] = w /\ \A i \in 1..Len(t) : u[i] = t[i]
    BY <1>2, AppendProperties
  <2> QED
    BY <1>1, <2>1
<1>4. /\ Cardinality(S \cup {n + 1}) = c + 1 /\ Rank(S \cup {n + 1}, n + 1) = c + 1
      /\ \A j \in S : Rank(S \cup {n + 1}, j) = Rank(S, j)
  BY <1>1, PlaceMore
<1>5. \A j \in S : Rank(S, j) \in 1..c
  BY <1>1, Places
<1>6. r[n + 1] = x /\ \A j \in S : r[j] = s[j] /\ t[Rank(S, j)] = s[j].text
  BY <1>1 DEF More, Spells
<1>7. \A j \in S \cup {n + 1} : u[Rank(S \cup {n + 1}, j)] = r[j].text
  BY <1>3, <1>4, <1>5, <1>6
<1> QED
  BY <1>1, <1>2, <1>3, <1>4, <1>7 DEF Spells

\* The types of what is parsed.
Words == Texts \cup {EmptyText}
PathTexts == GoodPaths \cup BadPaths \cup {EmptyText}
Chunks == [context : Words, old : Seq(Words), new : Seq(Words), eof : BOOLEAN, added : Nat, removed : Nat]
FileChanges == [kind : FileHeaders, path : PathTexts, moveTo : PathTexts, addLines : Seq(Words), chunks : Seq(Chunks)]
Parsers == [mode : {"top", "add", "update", "chunk", "error"}, out : Seq(FileChanges), cur : FileChanges,
            chunk : Chunks, seen : SUBSET PathTexts]

LEMMA LineIs ==
  ASSUME NEW x \in Lines
  PROVE  /\ x.kind \in PathKinds \cup ChangeKinds \cup {"at", "blank", "eof", "other"}
         /\ x.kind \in PathKinds => x.text \in PathTexts
         /\ x.kind \in ChangeKinds \cup {"blank", "at"} => x.text \in Words
BY DEF Lines, Words, PathTexts, Texts, PathKinds, FileHeaders, ChangeKinds, EmptyText

\* The change that the parser is in, and all of them.
Current(p) == IF p.mode = "chunk" THEN [p.cur EXCEPT !.chunks = Append(@, p.chunk)] ELSE p.cur
Whole(p) == IF p.mode = "top" THEN p.out ELSE Append(p.out, Current(p))

LEMMA ChunkIs == ASSUME NEW w \in Words PROVE Chunk(w) \in Chunks
<1>1. <<>> \in Seq(Words)
  OBVIOUS
<1> QED
  BY <1>1 DEF Chunk, Chunks

LEMMA FileChangeIs == ASSUME NEW k \in FileHeaders, NEW w \in PathTexts PROVE FileChange(k, w) \in FileChanges
<1>1. <<>> \in Seq(Words) /\ <<>> \in Seq(Chunks) /\ EmptyText \in PathTexts
  BY DEF PathTexts
<1> QED
  BY <1>1 DEF FileChange, FileChanges

LEMMA HunkLineIs ==
  ASSUME NEW c \in Chunks, NEW x \in Lines, x.kind \in ChangeKinds \cup {"blank"}
  PROVE  /\ HunkLine(c, x) \in Chunks
         /\ HunkLine(c, x).context = c.context
         /\ HunkLine(c, x).old = IF x.kind = "plus" THEN c.old ELSE Append(c.old, x.text)
         /\ HunkLine(c, x).new = IF x.kind \in {"plus", "space"} THEN Append(c.new, x.text) ELSE c.new
         /\ HunkLine(c, x).added = c.added + (IF x.kind = "plus" THEN 1 ELSE 0)
         /\ HunkLine(c, x).removed = c.removed + (IF x.kind \in {"minus", "blank"} THEN 1 ELSE 0)
<1>1. x.text \in Words /\ EmptyText \in Words /\ (x.kind = "blank" => x.text = EmptyText)
  BY LineIs DEF Words, Lines, ChangeKinds, PathKinds, FileHeaders
<1>2. c.old \in Seq(Words) /\ c.new \in Seq(Words) /\ c.added \in Nat /\ c.removed \in Nat
  BY DEF Chunks
<1>3. PICK a \in Seq(Words), b \in Seq(Words), d \in Seq(Words) :
        a = Append(c.old, x.text) /\ b = Append(c.new, x.text) /\ d = Append(c.old, EmptyText)
  BY <1>1, <1>2, AppendProperties
<1>4. c.added + 1 \in Nat /\ c.removed + 1 \in Nat /\ c.added + 0 = c.added /\ c.removed + 0 = c.removed
  BY <1>2
<1>5. CASE x.kind = "minus"
  <2>1. HunkLine(c, x) = [c EXCEPT !.old = a, !.removed = c.removed + 1]
    BY <1>3, <1>5 DEF HunkLine
  <2> QED
    BY <1>2, <1>3, <1>4, <1>5, <2>1 DEF Chunks
<1>6. CASE x.kind = "blank"
  <2>1. HunkLine(c, x) = [c EXCEPT !.old = d, !.removed = c.removed + 1]
    BY <1>3, <1>6 DEF HunkLine
  <2> QED
    BY <1>1, <1>2, <1>3, <1>4, <1>6, <2>1 DEF Chunks
<1>7. CASE x.kind = "plus"
  <2>1. HunkLine(c, x) = [c EXCEPT !.new = b, !.added = c.added + 1]
    BY <1>3, <1>7 DEF HunkLine
  <2> QED
    BY <1>2, <1>3, <1>4, <1>7, <2>1 DEF Chunks
<1>8. CASE x.kind = "space"
  <2>1. HunkLine(c, x) = [c EXCEPT !.old = a, !.new = b]
    BY <1>3, <1>8 DEF HunkLine
  <2> QED
    BY <1>2, <1>3, <1>4, <1>8, <2>1 DEF Chunks
<1> QED
  BY <1>5, <1>6, <1>7, <1>8 DEF ChangeKinds

LEMMA CurrentIs ==
  ASSUME NEW p \in Parsers
  PROVE  Current(p) \in FileChanges /\ Whole(p) \in Seq(FileChanges)
<1>1. p.cur.chunks \in Seq(Chunks) /\ p.chunk \in Chunks
  BY DEF Parsers, FileChanges
<1>2. PICK a \in Seq(Chunks) : a = Append(p.cur.chunks, p.chunk)
  BY <1>1, AppendProperties
<1>3. [p.cur EXCEPT !.chunks = a] \in FileChanges
  BY <1>2 DEF Parsers, FileChanges
<1>4. Current(p) \in FileChanges
  BY <1>2, <1>3 DEF Current, Parsers
<1>5. p.out \in Seq(FileChanges)
  BY DEF Parsers
<1>6. Append(p.out, Current(p)) \in Seq(FileChanges)
  BY <1>4, <1>5, AppendProperties
<1> QED
  BY <1>4, <1>5, <1>6 DEF Whole

\* What a line does to the parser, when it is not refused.
IsNew(p, x) == x.text \in PathTexts /\ x.text # EmptyText /\ x.text \notin p.seen /\ x.text \notin BadPaths
Skips(p, x, q) == x.kind = "blank" /\ p.mode \in {"top", "add", "update"} /\ q = p
Heads(p, x, q) ==
  /\ x.kind \in FileHeaders /\ IsNew(p, x) /\ q.seen = p.seen \cup {x.text}
  /\ Whole(q) = Append(Whole(p), FileChange(x.kind, x.text))
  /\ q.mode = IF x.kind = "delete" THEN "top" ELSE x.kind
  /\ q.mode # "top" => q.cur = FileChange(x.kind, x.text) /\ q.out = Whole(p)
Pluses(p, x, q) ==
  /\ x.kind = "plus" /\ p.mode = "add" /\ q.mode = "add" /\ q.out = p.out /\ q.seen = p.seen
  /\ q.cur = [p.cur EXCEPT !.addLines = Append(@, x.text)]
Renames(p, x, q) ==
  /\ x.kind = "move" /\ p.mode \in {"update", "chunk"} /\ IsNew(p, x) /\ q.seen = p.seen \cup {x.text}
  /\ q.mode = "update" /\ q.out = p.out /\ q.cur = [Current(p) EXCEPT !.moveTo = x.text]
Starts(p, x, q) ==
  /\ x.kind = "at" /\ p.mode \in {"update", "chunk"} /\ q.seen = p.seen
  /\ q.mode = "chunk" /\ q.out = p.out /\ q.cur = Current(p) /\ q.chunk = Chunk(x.text)
Lengthens(p, x, q) ==
  /\ x.kind \in ChangeKinds \cup {"blank"} /\ p.mode = "chunk" /\ q.mode = "chunk" /\ q.seen = p.seen
  /\ q.out = p.out /\ q.cur = p.cur /\ q.chunk = HunkLine(p.chunk, x)
Does(p, x, q) ==
  \/ Skips(p, x, q) \/ Heads(p, x, q) \/ Pluses(p, x, q)
  \/ Renames(p, x, q) \/ Starts(p, x, q) \/ Lengthens(p, x, q)

LEMMA TopIs ==
  ASSUME NEW p \in Parsers, p.mode = "top", NEW x \in Lines, NEW q, q = TopLine(p, x)
  PROVE  q \in Parsers /\ (q.mode # "error" => Skips(p, x, q) \/ Heads(p, x, q))
<1>1. x.kind \in PathKinds \cup ChangeKinds \cup {"at", "blank", "eof", "other"} /\ (x.kind \in PathKinds =>
          x.text \in PathTexts)
  BY LineIs
<1>2. p.out \in Seq(FileChanges) /\ p.seen \in SUBSET PathTexts
  BY DEF Parsers
<1>3. Whole(p) = p.out
  BY DEF Whole
<1>4. Refuse(p) \in Parsers /\ Refuse(p).mode = "error"
  BY DEF Refuse, Parsers
<1>5. CASE x.kind = "blank"
  <2>1. q = p
    BY <1>5 DEF TopLine
  <2> QED
    BY <1>5, <2>1 DEF Skips
<1>6. CASE x.kind \in FileHeaders
  <2>1. x.kind \in PathKinds /\ x.text \in PathTexts
    BY <1>1, <1>6 DEF PathKinds
  <2>2. PICK c \in FileChanges : c = FileChange(x.kind, x.text)
    BY <1>6, <2>1, FileChangeIs
  <2>3. PICK o \in Seq(FileChanges) : o = Append(p.out, c)
    BY <1>2, AppendProperties
  <2>4. p.seen \cup {x.text} \in SUBSET PathTexts
    BY <1>2, <2>1
  <2>5. CASE ~ IsNew(p, x)
    <3>1. x.text = EmptyText \/ x.text \in p.seen \/ x.text \in BadPaths
      BY <2>1, <2>5 DEF IsNew
    <3>2. q = Refuse(p)
      BY <1>6, <3>1 DEF TopLine, registerPath, FileHeaders
    <3> QED
      BY <1>4, <3>2
  <2>6. CASE IsNew(p, x)
    <3>1. ~ (x.text = EmptyText \/ x.text \in p.seen \/ x.text \in BadPaths)
      BY <2>6 DEF IsNew
    <3>2. CASE x.kind = "delete"
      <4>1. q = [[p EXCEPT !.out = o] EXCEPT !.seen = p.seen \cup {x.text}]
        BY <2>2, <2>3, <3>1, <3>2 DEF TopLine, registerPath
      <4>2. q.out = o /\ q.mode = "top" /\ q.seen = p.seen \cup {x.text} /\ q \in Parsers
        BY <2>3, <2>4, <4>1 DEF Parsers
      <4>3. Whole(q) = o
        BY <4>2 DEF Whole
      <4> QED
        BY <1>3, <1>6, <2>2, <2>3, <2>6, <3>2, <4>2, <4>3 DEF Heads
    <3>3. CASE x.kind \in {"add", "update"}
      <4>1. q = [[p EXCEPT !.mode = x.kind, !.cur = c] EXCEPT !.seen = p.seen \cup {x.text}]
        BY <2>2, <3>1, <3>3 DEF TopLine, registerPath
      <4>2. q.out = p.out /\ q.mode = x.kind /\ q.cur = c /\ q.seen = p.seen \cup {x.text} /\ q \in Parsers
        BY <2>2, <2>4, <3>3, <4>1 DEF Parsers
      <4>3. Current(q) = c /\ Whole(q) = Append(p.out, c)
        BY <3>3, <4>2 DEF Whole, Current
      <4> QED
        BY <1>3, <1>6, <2>2, <2>6, <3>3, <4>2, <4>3 DEF Heads
    <3> QED
      BY <1>6, <3>2, <3>3 DEF FileHeaders
  <2> QED
    BY <2>5, <2>6
<1>7. CASE x.kind # "blank" /\ x.kind \notin FileHeaders
  <2>1. q = Refuse(p)
    BY <1>7 DEF TopLine, FileHeaders
  <2> QED
    BY <1>4, <2>1
<1> QED
  BY <1>5, <1>6, <1>7

LEMMA CloseIs ==
  ASSUME NEW p \in Parsers, p.mode \in {"add", "update"}, NEW r, r = CloseChange(p)
  PROVE  r \in Parsers /\ r.mode = "top" /\ r.seen = p.seen /\ Whole(r) = Whole(p)
<1>1. p.out \in Seq(FileChanges) /\ p.cur \in FileChanges
  BY DEF Parsers
<1>2. PICK o \in Seq(FileChanges) : o = Append(p.out, p.cur)
  BY <1>1, AppendProperties
<1>3. r = [p EXCEPT !.mode = "top", !.out = o]
  BY <1>2 DEF CloseChange
<1>4. r \in Parsers /\ r.mode = "top" /\ r.seen = p.seen /\ r.out = o
  BY <1>2, <1>3 DEF Parsers
<1>5. Whole(r) = o /\ Whole(p) = o
  BY <1>2, <1>4 DEF Whole, Current
<1> QED
  BY <1>4, <1>5

LEMMA HeadsFrom ==
  ASSUME NEW p, NEW r, NEW x, NEW q, r.seen = p.seen, Whole(r) = Whole(p), Heads(r, x, q)
  PROVE  Heads(p, x, q)
BY DEF Heads, IsNew

LEMMA AddIs ==
  ASSUME NEW p \in Parsers, p.mode = "add", NEW x \in Lines, NEW q, q = AddLine(p, x)
  PROVE  q \in Parsers /\ (q.mode # "error" => Does(p, x, q))
<1>1. x.kind \in PathKinds \cup ChangeKinds \cup {"at", "blank", "eof", "other"}
  BY LineIs
<1>2. CASE isHunkHeader(x)
  <2>1. PICK r : r = CloseChange(p)
    OBVIOUS
  <2>2. r \in Parsers /\ r.mode = "top" /\ r.seen = p.seen /\ Whole(r) = Whole(p)
    BY <2>1, CloseIs
  <2>3. q = TopLine(r, x)
    BY <1>2, <2>1 DEF AddLine, isHunkHeader, PathKinds, FileHeaders
  <2>4. q \in Parsers /\ (q.mode # "error" => Skips(r, x, q) \/ Heads(r, x, q))
    BY <2>2, <2>3, TopIs
  <2>5. ~ Skips(r, x, q)
    BY <1>2 DEF Skips, isHunkHeader, PathKinds, FileHeaders
  <2> QED
    BY <2>2, <2>4, <2>5, HeadsFrom DEF Does
<1>3. CASE ~ isHunkHeader(x) /\ x.kind = "blank"
  <2>1. q = p
    BY <1>3 DEF AddLine
  <2> QED
    BY <1>3, <2>1 DEF Does, Skips
<1>4. CASE ~ isHunkHeader(x) /\ x.kind = "plus"
  <2>1. x.text \in Words /\ p.cur.addLines \in Seq(Words) /\ p.cur \in FileChanges
    BY <1>4, LineIs DEF Parsers, FileChanges, ChangeKinds
  <2>2. PICK a \in Seq(Words) : a = Append(p.cur.addLines, x.text)
    BY <2>1, AppendProperties
  <2>3. PICK c \in FileChanges : c = [p.cur EXCEPT !.addLines = a]
    BY <2>1, <2>2 DEF FileChanges
  <2>4. q = [p EXCEPT !.cur = c]
    BY <1>4, <2>2, <2>3 DEF AddLine
  <2>5. q \in Parsers /\ q.mode = "add" /\ q.out = p.out /\ q.seen = p.seen /\ q.cur = c
    BY <2>4 DEF Parsers
  <2> QED
    BY <1>4, <2>2, <2>3, <2>5 DEF Does, Pluses
<1>5. CASE ~ isHunkHeader(x) /\ x.kind \notin {"blank", "plus"}
  <2>1. q = Refuse(p)
    BY <1>5 DEF AddLine
  <2> QED
    BY <2>1 DEF Refuse, Parsers
<1> QED
  BY <1>2, <1>3, <1>4, <1>5

\* A line in an update, between hunks.
LEMMA UpdateIs ==
  ASSUME NEW p \in Parsers, p.mode = "update", NEW x \in Lines, NEW q, q = UpdateLine(p, x)
  PROVE  q \in Parsers /\ (q.mode # "error" => Does(p, x, q))
<1>1. x.kind \in PathKinds \cup ChangeKinds \cup {"at", "blank", "eof", "other"} /\ (x.kind \in PathKinds =>
          x.text \in PathTexts)
  BY LineIs
<1>2. Current(p) = p.cur /\ p.cur \in FileChanges /\ p.seen \in SUBSET PathTexts
  BY DEF Current, Parsers
<1>3. Refuse(p) \in Parsers /\ Refuse(p).mode = "error"
  BY DEF Refuse, Parsers
<1>4. CASE x.kind = "move"
  <2>1. x.text \in PathTexts
    BY <1>1, <1>4 DEF PathKinds
  <2>2. CASE ~ IsNew(p, x)
    <3>1. x.text = EmptyText \/ x.text \in p.seen \/ x.text \in BadPaths
      BY <2>1, <2>2 DEF IsNew
    <3>2. q = Refuse(p)
      BY <1>4, <3>1 DEF UpdateLine, registerPath
    <3> QED
      BY <1>3, <3>2
  <2>3. CASE IsNew(p, x)
    <3>1. ~ (x.text = EmptyText \/ x.text \in p.seen \/ x.text \in BadPaths)
      BY <2>3 DEF IsNew
    <3>2. PICK c \in FileChanges : c = [p.cur EXCEPT !.moveTo = x.text]
      BY <1>2, <2>1 DEF FileChanges
    <3>3. q = [[p EXCEPT !.cur = c] EXCEPT !.seen = p.seen \cup {x.text}]
      BY <1>4, <3>1, <3>2 DEF UpdateLine, registerPath
    <3>4. PICK seen \in SUBSET PathTexts : seen = p.seen \cup {x.text}
      BY <1>2, <2>1
    <3>5. q \in Parsers /\ q.mode = "update" /\ q.out = p.out /\ q.cur = c /\ q.seen = seen
      BY <1>2, <3>3, <3>4 DEF Parsers
    <3> QED
      BY <1>2, <1>4, <2>3, <3>2, <3>4, <3>5 DEF Does, Renames
  <2> QED
    BY <2>2, <2>3
<1>5. CASE isHunkHeader(x) /\ x.kind # "move"
  <2>1. PICK r : r = CloseChange(p)
    OBVIOUS
  <2>2. r \in Parsers /\ r.mode = "top" /\ r.seen = p.seen /\ Whole(r) = Whole(p)
    BY <2>1, CloseIs
  <2>3. q = TopLine(r, x)
    BY <1>5, <2>1 DEF UpdateLine, isHunkHeader, PathKinds, FileHeaders
  <2>4. q \in Parsers /\ (q.mode # "error" => Skips(r, x, q) \/ Heads(r, x, q))
    BY <2>2, <2>3, TopIs
  <2>5. ~ Skips(r, x, q)
    BY <1>5 DEF Skips, isHunkHeader, PathKinds, FileHeaders
  <2> QED
    BY <2>2, <2>4, <2>5, HeadsFrom DEF Does
<1>6. CASE ~ isHunkHeader(x) /\ x.kind = "at"
  <2>1. x.text \in Words
    BY <1>6, LineIs
  <2>2. PICK k \in Chunks : k = Chunk(x.text)
    BY <2>1, ChunkIs
  <2>3. q = [p EXCEPT !.mode = "chunk", !.chunk = k]
    BY <1>6, <2>2 DEF UpdateLine
  <2>4. q \in Parsers /\ q.mode = "chunk" /\ q.chunk = k /\ q.cur = p.cur /\ q.out = p.out /\ q.seen = p.seen
    BY <2>3 DEF Parsers
  <2> QED
    BY <1>2, <1>6, <2>2, <2>4 DEF Does, Starts
<1>7. CASE ~ isHunkHeader(x) /\ x.kind = "blank"
  <2>1. q = p
    BY <1>7 DEF UpdateLine
  <2> QED
    BY <1>7, <2>1 DEF Does, Skips
<1>8. CASE ~ isHunkHeader(x) /\ x.kind \notin {"move", "at", "blank"}
  <2>1. q = Refuse(p)
    BY <1>8 DEF UpdateLine
  <2> QED
    BY <1>3, <2>1
<1> QED
  BY <1>4, <1>5, <1>6, <1>7, <1>8 DEF isHunkHeader, PathKinds

LEMMA ChunkLineIs ==
  ASSUME NEW p \in Parsers, p.mode = "chunk", NEW x \in Lines, NEW q, q = ChunkLine(p, x)
  PROVE  q \in Parsers /\ (q.mode # "error" => Does(p, x, q))
<1>1. x.kind \in PathKinds \cup ChangeKinds \cup {"at", "blank", "eof", "other"}
  BY LineIs
<1>2. CASE isHunkHeader(x) \/ x.kind = "at"
  <2>1. PICK c \in FileChanges : c = Current(p)
    BY CurrentIs
  <2>2. PICK r : r = CloseChunk(p)
    OBVIOUS
  <2>3. r = [p EXCEPT !.mode = "update", !.cur = c]
    BY <2>1, <2>2 DEF CloseChunk, Current, Parsers
  <2>4. r \in Parsers /\ r.mode = "update" /\ r.seen = p.seen /\ r.out = p.out /\ r.cur = c
    BY <2>3 DEF Parsers
  <2>5. Current(r) = Current(p) /\ Whole(r) = Whole(p)
    BY <2>1, <2>4 DEF Current, Whole
  <2>6. q = UpdateLine(r, x)
    BY <1>2, <2>2 DEF ChunkLine, isHunkHeader, PathKinds, FileHeaders
  <2>7. q \in Parsers /\ (q.mode # "error" => Does(r, x, q))
    BY <2>4, <2>6, UpdateIs
  <2>8. ~ Skips(r, x, q) /\ ~ Pluses(r, x, q) /\ ~ Lengthens(r, x, q)
    BY <1>2, <2>4 DEF Skips, Pluses, Lengthens, isHunkHeader, PathKinds, FileHeaders
  <2>9. Renames(r, x, q) => Renames(p, x, q)
    BY <2>4, <2>5 DEF Renames, IsNew
  <2>10. Starts(r, x, q) => Starts(p, x, q)
    BY <2>4, <2>5 DEF Starts
  <2>11. Heads(r, x, q) => Heads(p, x, q)
    BY <2>4, <2>5, HeadsFrom
  <2> QED
    BY <2>7, <2>8, <2>9, <2>10, <2>11 DEF Does
<1>3. CASE ~ (isHunkHeader(x) \/ x.kind = "at") /\ x.kind = "other"
  <2>1. q = Refuse(p)
    BY <1>3 DEF ChunkLine
  <2> QED
    BY <2>1 DEF Refuse, Parsers
<1>4. CASE ~ (isHunkHeader(x) \/ x.kind = "at") /\ x.kind # "other"
  <2>1. x.kind \in ChangeKinds \cup {"blank"}
    BY <1>1, <1>4 DEF isHunkHeader
  <2>2. PICK k \in Chunks : k = HunkLine(p.chunk, x)
    BY <2>1, HunkLineIs DEF Parsers
  <2>3. q = [p EXCEPT !.chunk = k]
    BY <1>4, <2>2 DEF ChunkLine
  <2>4. q \in Parsers /\ q.mode = "chunk" /\ q.chunk = k /\ q.cur = p.cur /\ q.out = p.out /\ q.seen = p.seen
    BY <2>3 DEF Parsers
  <2> QED
    BY <2>1, <2>2, <2>4 DEF Does, Lengthens
<1> QED
  BY <1>2, <1>3, <1>4

LEMMA ParseLineIs ==
  ASSUME NEW p \in Parsers, p.mode # "error", NEW x \in Lines, NEW q, q = ParseLine(p, x)
  PROVE  q \in Parsers /\ (q.mode # "error" => Does(p, x, q))
<1>1. CASE p.mode = "top"
  <2>1. q = TopLine(p, x)
    BY <1>1 DEF ParseLine
  <2> QED
    BY <1>1, <2>1, TopIs DEF Does
<1>2. CASE p.mode = "add"
  <2>1. q = AddLine(p, x)
    BY <1>2 DEF ParseLine
  <2> QED
    BY <1>2, <2>1, AddIs
<1>3. CASE p.mode = "update"
  <2>1. q = UpdateLine(p, x)
    BY <1>3 DEF ParseLine
  <2> QED
    BY <1>3, <2>1, UpdateIs
<1>4. CASE p.mode = "chunk"
  <2>1. q = ChunkLine(p, x)
    BY <1>4 DEF ParseLine
  <2> QED
    BY <1>4, <2>1, ChunkLineIs
<1>5. p.mode \in {"top", "add", "update", "chunk"}
  BY DEF Parsers
<1> QED
  BY <1>1, <1>2, <1>3, <1>4, <1>5

\* The whole of an accepted patch.
LEMMA ResultIs ==
  ASSUME parser \in Parsers, parser.mode # "error"
  PROVE  ParseResult.mode = "top" /\ ParseResult.out = Whole(parser)
<1>1. PICK p \in Parsers : p = parser /\ p.mode # "error"
  OBVIOUS
<1>2. PICK r : r = (IF p.mode = "chunk" THEN CloseChunk(p) ELSE p)
  OBVIOUS
<1>3. r \in Parsers /\ r.mode \in {"top", "add", "update"} /\ Whole(r) = Whole(p)
  <2>1. CASE p.mode = "chunk"
    <3>1. PICK c \in FileChanges : c = Current(p)
      BY CurrentIs
    <3>2. r = [p EXCEPT !.mode = "update", !.cur = c]
      BY <1>2, <2>1, <3>1 DEF CloseChunk, Current, Parsers
    <3>3. r \in Parsers /\ r.mode = "update" /\ r.out = p.out /\ r.cur = c
      BY <3>2 DEF Parsers
    <3> QED
      BY <2>1, <3>1, <3>3 DEF Whole, Current
  <2>2. CASE p.mode # "chunk"
    BY <1>1, <1>2, <2>2 DEF Parsers
  <2> QED
    BY <2>1, <2>2
<1>4. CASE r.mode = "top"
  BY <1>1, <1>2, <1>3, <1>4 DEF ParseResult, EndParse, Whole
<1>5. CASE r.mode # "top"
  <2>1. PICK o : o = CloseChange(r)
    OBVIOUS
  <2>2. o.mode = "top" /\ Whole(o) = Whole(r)
    BY <1>3, <1>5, <2>1, CloseIs
  <2>3. ParseResult = o
    BY <1>1, <1>2, <1>3, <1>5, <2>1 DEF ParseResult, EndParse
  <2> QED
    BY <1>1, <1>3, <2>2, <2>3 DEF Whole
<1> QED
  BY <1>4, <1>5

\* A hunk applied to any file.
LEMMA OneOnly == ASSUME NEW x \in Nat PROVE Max({x}) = x /\ Min({x}) = x
<1>1. {x} \subseteq Nat /\ {x} # {}
  OBVIOUS
<1>2. Min({x}) \in {x}
  BY <1>1, MinIn
<1>3. Max({x}) \in {x}
  <2>1. \E y \in {x} : \A z \in {x} : y >= z
    OBVIOUS
  <2> QED
    BY <2>1 DEF Max
<1> QED
  BY <1>2, <1>3

GoesTo(doc, c, nearest) ==
  \E i \in 1..Len(doc) :
    /\ FoundAt(doc, i, c.old)
    /\ applyChunk(doc, c) = SubSeq(doc, 1, i - 1) \o c.new \o SubSeq(doc, i + Len(c.old), Len(doc))
    /\ \A f \in nearest : i >= f
    /\ \A j \in Occurrences(doc, Max(nearest), c.old) : j < i + Len(c.old)

LEMMA HunkGoes ==
  ASSUME NEW W, NEW doc \in Seq(W), NEW c \in Chunks, applyChunk(doc, c) # Failed, c.old # <<>>,
         NEW from, from = (IF c.context = EmptyText THEN {1} ELSE {i \in 1..Len(doc) : HasText(doc[i], c.context)}),
         NEW nearest,
         nearest = (IF \E i \in from : doc[i] = c.context THEN {i \in from : doc[i] = c.context} ELSE from)
  PROVE  GoesTo(doc, c, nearest)
<1>1. PICK n \in Nat : n = Len(doc)
  OBVIOUS
<1>2. PICK m \in Nat : m = Len(c.old)
  BY DEF Chunks
<1>3. PICK context : context = (IF c.context = EmptyText THEN 1 ELSE findContext(doc, c.context))
  OBVIOUS
<1>4. PICK i : i = findSubsliceUnique(doc, context, c.old)
  OBVIOUS
<1>5. /\ context # 0 /\ i # 0
      /\ applyChunk(doc, c) = SubSeq(doc, 1, i - 1) \o c.new \o SubSeq(doc, i + Len(c.old), Len(doc))
  BY <1>3, <1>4 DEF applyChunk
<1>6. nearest = {context} /\ context \in Nat
  <2>1. CASE c.context = EmptyText
    BY <1>3, <2>1
  <2>2. CASE c.context # EmptyText
    <3>1. PICK exact, containing, candidates :
            /\ exact = {k \in 1..n : doc[k] = c.context}
            /\ containing = {k \in 1..n : HasText(doc[k], c.context)}
            /\ candidates = IF exact # {} THEN exact ELSE containing
      OBVIOUS
    <3>2. findContext(doc, c.context) = IF Cardinality(candidates) = 1 THEN Min(candidates) ELSE 0
      BY <1>1, <3>1 DEF findContext
    <3>3. Cardinality(candidates) = 1 /\ context = Min(candidates)
      BY <1>3, <1>5, <2>2, <3>2
    <3>4. candidates \in SUBSET (1..n)
      BY <3>1
    <3>5. IsFiniteSet(candidates)
      BY <3>4, Places
    <3>6. PICK x : candidates = {x}
      BY <3>3, <3>5, FS_Singleton
    <3>7. x \in Nat /\ context = x
      <4>1. x \in Nat
        <5>1. x \in 1..n
          BY <3>4, <3>6
        <5> QED
          BY <5>1
      <4>2. Min({x}) = x
        BY <4>1, OneOnly
      <4> QED
        BY <3>3, <3>6, <4>1, <4>2
    <3>8. exact \subseteq containing
      BY <3>1 DEF HasText
    <3>9. from = containing
      BY <1>1, <2>2, <3>1
    <3>10. {k \in from : doc[k] = c.context} = exact
      BY <3>1, <3>8, <3>9
    <3>11. nearest = candidates
      BY <3>1, <3>9, <3>10
    <3> QED
      BY <3>6, <3>7, <3>11
  <2> QED
    BY <2>1, <2>2
<1>7. PICK found : found = Occurrences(doc, context, c.old)
  OBVIOUS
<1>8. found # {} /\ i = Min(found) /\ {j \in found : j >= Min(found) + Len(c.old)} = {}
  BY <1>4, <1>5, <1>7 DEF findSubsliceUnique
<1>9. /\ found \subseteq Nat
      /\ \A k \in found : k >= context /\ k <= n /\ FoundAt(doc, k, c.old)
  BY <1>1, <1>6, <1>7 DEF Occurrences
<1>10. i \in found
  BY <1>8, <1>9, MinIn
<1>11. i \in 1..n
  <2>1. i \in Nat /\ i >= context /\ i <= n
    BY <1>9, <1>10
  <2> QED
    BY <1>5, <2>1
<1>12. \A j \in found : j < i + Len(c.old)
  <2>1. \A j \in found : ~ (j >= i + m)
    BY <1>2, <1>8
  <2>2. \A j \in found : j \in Nat
    BY <1>9
  <2> QED
    BY <1>2, <1>11, <2>1, <2>2
<1>13. Max(nearest) = context
  BY <1>6, OneOnly
<1>14. \A f \in nearest : i >= f
  BY <1>6, <1>9, <1>10
<1> QED
  BY <1>1, <1>5, <1>7, <1>9, <1>10, <1>11, <1>12, <1>13, <1>14 DEF GoesTo

LEMMA HunksPlaced == ASSUME parser \in Parsers PROVE HunkPlaced
<1>1. SUFFICES ASSUME NEW doc \in Docs PROVE PlacedIn(doc, parser.chunk)
  BY DEF HunkPlaced
<1>2. PICK c \in Chunks : c = parser.chunk
  BY DEF Parsers
<1>3. doc \in Seq(Texts \cup {"xy"})
  BY DEF Docs
<1>4. PICK from : from = IF c.context = EmptyText THEN {1} ELSE {i \in 1..Len(doc) : HasText(doc[i], c.context)}
  OBVIOUS
<1>5. PICK nearest : nearest = IF \E i \in from : doc[i] = c.context THEN {i \in from : doc[i] = c.context} ELSE from
  OBVIOUS
<1>6. ASSUME applyChunk(doc, c) # Failed, c.old # <<>> PROVE GoesTo(doc, c, nearest)
  BY <1>3, <1>4, <1>5, <1>6, HunkGoes
<1>7. PlacedIn(doc, c)
  BY <1>4, <1>5, <1>6 DEF PlacedIn, GoesTo
<1> QED
  BY <1>2, <1>7

\* A hunk and one more line.
LEMMA HunkKept ==
  ASSUME NEW s \in Seq(Lines), NEW x \in Lines, NEW r, More(s, x, r), NEW i \in 1..Len(s), NEW c, IsHunk(s, i, c),
         ~ Open(s, i, HunkEnds) \/ x.kind \in HunkEnds
  PROVE  IsHunk(r, i, c)
<1>1. \A kinds : LinesAfter(r, i, HunkEnds, kinds) = LinesAfter(s, i, HunkEnds, kinds)
  BY MoreAfter
<1>2. \A kinds : LinesAfter(s, i, HunkEnds, kinds) \in SUBSET (1..Len(s))
  BY LinesIn
<1>3. r[i] = s[i]
  BY DEF More
<1>4. \A t, kinds : Spells(s, t, LinesAfter(s, i, HunkEnds, kinds)) =>
          Spells(r, t, LinesAfter(s, i, HunkEnds, kinds))
  BY <1>2, SpellsSame
<1> QED
  BY <1>1, <1>3, <1>4 DEF IsHunk

LEMMA HunkLonger ==
  ASSUME NEW s \in Seq(Lines), NEW x \in Lines, NEW r, More(s, x, r), NEW i \in 1..Len(s), NEW c \in Chunks,
         IsHunk(s, i, c), Open(s, i, HunkEnds), x.kind \in ChangeKinds \cup {"blank"}
  PROVE  IsHunk(r, i, HunkLine(c, x))
<1> DEFINE A == LinesAfter(s, i, HunkEnds, {"minus", "space", "blank"})
           B == LinesAfter(s, i, HunkEnds, {"plus", "space"})
<1>1. x.kind \notin HunkEnds /\ x.kind \in {"plus", "minus", "space", "blank"}
  BY DEF HunkEnds, ChangeKinds, PathKinds, FileHeaders
<1>2. x.text \in Words /\ c.old \in Seq(Words) /\ c.new \in Seq(Words)
  BY LineIs DEF Chunks
<1>3. PICK d : d = HunkLine(c, x)
  OBVIOUS
<1>4. d.context = c.context /\ d.old = (IF x.kind = "plus" THEN c.old ELSE Append(c.old, x.text))
      /\ d.new = (IF x.kind \in {"plus", "space"} THEN Append(c.new, x.text) ELSE c.new)
  BY <1>3, HunkLineIs
<1>5. A \in SUBSET (1..Len(s)) /\ B \in SUBSET (1..Len(s))
  BY LinesIn
<1>6. c.context = s[i].text /\ Spells(s, c.old, A) /\ Spells(s, c.new, B)
  BY DEF IsHunk
<1>7. Spells(r, d.old, LinesAfter(r, i, HunkEnds, {"minus", "space", "blank"}))
  <2>1. CASE x.kind = "plus"
    <3>1. LinesAfter(r, i, HunkEnds, {"minus", "space", "blank"}) = A
      BY <2>1, MoreAfter
    <3> HIDE DEF A
    <3>2. Spells(r, c.old, A)
      BY <1>5, <1>6, SpellsSame
    <3> QED
      BY <1>4, <2>1, <3>1, <3>2
  <2>2. CASE x.kind # "plus"
    <3>1. LinesAfter(r, i, HunkEnds, {"minus", "space", "blank"}) = A \cup {Len(s) + 1}
      BY <1>1, <2>2, MoreAfter
    <3> HIDE DEF A
    <3>2. Spells(r, Append(c.old, x.text), A \cup {Len(s) + 1})
      BY <1>2, <1>5, <1>6, SpellsMore
    <3> QED
      BY <1>4, <2>2, <3>1, <3>2
  <2> QED
    BY <2>1, <2>2
<1>8. Spells(r, d.new, LinesAfter(r, i, HunkEnds, {"plus", "space"}))
  <2>1. CASE x.kind \notin {"plus", "space"}
    <3>1. LinesAfter(r, i, HunkEnds, {"plus", "space"}) = B
      BY <2>1, MoreAfter
    <3> HIDE DEF B
    <3>2. Spells(r, c.new, B)
      BY <1>5, <1>6, SpellsSame
    <3> QED
      BY <1>4, <2>1, <3>1, <3>2
  <2>2. CASE x.kind \in {"plus", "space"}
    <3>1. LinesAfter(r, i, HunkEnds, {"plus", "space"}) = B \cup {Len(s) + 1}
      BY <1>1, <2>2, MoreAfter
    <3> HIDE DEF B
    <3>2. Spells(r, Append(c.new, x.text), B \cup {Len(s) + 1})
      BY <1>2, <1>5, <1>6, SpellsMore
    <3> QED
      BY <1>4, <2>2, <3>1, <3>2
  <2> QED
    BY <2>1, <2>2
<1>9. r[i] = s[i]
  BY DEF More
<1> QED
  BY <1>3, <1>4, <1>6, <1>7, <1>8, <1>9 DEF IsHunk

LEMMA HunkNew ==
  ASSUME NEW s \in Seq(Lines), NEW x \in Lines, NEW r, More(s, x, r)
  PROVE  IsHunk(r, Len(s) + 1, Chunk(x.text))
<1>1. \A kinds : LinesAfter(r, Len(s) + 1, HunkEnds, kinds) = {}
  BY NewAfter
<1>2. Spells(r, <<>>, {})
  BY FS_EmptySet DEF Spells
<1>3. r[Len(s) + 1] = x
  BY DEF More
<1> QED
  BY <1>1, <1>2, <1>3 DEF IsHunk, Chunk

\* A change and one more line: nothing new about it, a move, a line of an added file,
\* a hunk, a line of the last hunk.
LEMMA HunksKept ==
  ASSUME NEW s \in Seq(Lines), NEW x \in Lines, NEW r, More(s, x, r), NEW i \in 1..Len(s), NEW c, IsChange(s, i, c),
         NEW H, H = LinesAfter(s, i, FileHeaders, {"at"}),
         \A j \in H : ~ Open(s, j, HunkEnds) \/ x.kind \in HunkEnds
  PROVE  \A j \in H : IsHunk(r, j, c.chunks[Rank(H, j)])
<1>1. H \in SUBSET (1..Len(s))
  BY LinesIn
<1>2. \A j \in H : IsHunk(s, j, c.chunks[Rank(H, j)])
  BY DEF IsChange
<1>3. ASSUME NEW j \in H PROVE IsHunk(r, j, c.chunks[Rank(H, j)])
  <2>1. j \in 1..Len(s) /\ (~ Open(s, j, HunkEnds) \/ x.kind \in HunkEnds) /\ IsHunk(s, j, c.chunks[Rank(H, j)])
    BY <1>1, <1>2
  <2> QED
    BY <2>1, HunkKept
<1> QED
  BY <1>3

LEMMA ChangeKept ==
  ASSUME NEW s \in Seq(Lines), NEW x \in Lines, NEW r, More(s, x, r), NEW i \in 1..Len(s), NEW c, IsChange(s, i, c),
         ~ Open(s, i, FileHeaders) \/ x.kind \in FileHeaders \cup {"blank"},
         \A j \in LinesAfter(s, i, FileHeaders, {"at"}) : ~ Open(s, j, HunkEnds) \/ x.kind \in HunkEnds
  PROVE  IsChange(r, i, c)
<1>1. PICK H, M, P : /\ H = LinesAfter(s, i, FileHeaders, {"at"}) /\ M = LinesAfter(s, i, FileHeaders, {"move"})
                     /\ P = IF c.kind = "add" THEN LinesAfter(s, i, FileHeaders, {"plus"}) ELSE {}
  OBVIOUS
<1>2. \A kind \in {"at", "move", "plus"} : LinesAfter(r, i, FileHeaders, {kind}) = LinesAfter(s, i, FileHeaders, {kind})
  BY MoreAfter DEF FileHeaders
<1>3. /\ H = LinesAfter(r, i, FileHeaders, {"at"}) /\ M = LinesAfter(r, i, FileHeaders, {"move"})
      /\ P = IF c.kind = "add" THEN LinesAfter(r, i, FileHeaders, {"plus"}) ELSE {}
  BY <1>1, <1>2
<1>4. M \in SUBSET (1..Len(s)) /\ P \in SUBSET (1..Len(s))
  BY <1>1, LinesIn
<1>5. \A j \in H : IsHunk(r, j, c.chunks[Rank(H, j)])
  BY <1>1, HunksKept
<1>6. Spells(r, c.addLines, P)
  <2>1. Spells(s, c.addLines, P)
    BY <1>1 DEF IsChange
  <2> QED
    BY <1>4, <2>1, SpellsSame
<1>7. c.moveTo = IF M = {} THEN EmptyText ELSE r[Max(M)].text
  <2>1. ASSUME M # {} PROVE Max(M) \in 1..Len(s)
    <3>1. Len(s) \in Nat /\ M \subseteq 1..Len(s)
      BY <1>4
    <3>2. Max(M) \in M
      BY <2>1, <3>1, MaxIn
    <3> QED
      BY <3>1, <3>2
  <2>2. c.moveTo = IF M = {} THEN EmptyText ELSE s[Max(M)].text
    BY <1>1 DEF IsChange
  <2> QED
    BY <2>1, <2>2 DEF More
<1>8. r[i] = s[i] /\ c.kind = s[i].kind /\ c.path = s[i].text /\ Len(c.chunks) = Cardinality(H)
  BY <1>1 DEF More, IsChange
<1> QED
  BY <1>3, <1>5, <1>6, <1>7, <1>8 DEF IsChange

LEMMA MaxMore == ASSUME NEW n \in Nat, NEW S \in SUBSET (1..n) PROVE Max(S \cup {n + 1}) = n + 1
<1>1. PICK T : T = S \cup {n + 1}
  OBVIOUS
<1>2. n + 1 \in Nat /\ T \subseteq 1..(n + 1) /\ T # {} /\ n + 1 \in T
  BY <1>1
<1>3. Max(T) \in T /\ n + 1 <= Max(T)
  BY <1>2, MaxIn
<1>4. \A k \in T : k <= n + 1 /\ k \in Nat
  BY <1>1
<1>5. PICK m \in T : m = Max(T)
  BY <1>3
<1>6. m = n + 1
  BY <1>3, <1>4, <1>5
<1> QED
  BY <1>1, <1>5, <1>6

LEMMA ChangeMoved ==
  ASSUME NEW s \in Seq(Lines), NEW x \in Lines, NEW r, More(s, x, r), NEW i \in 1..Len(s), NEW c \in FileChanges,
         IsChange(s, i, c), Open(s, i, FileHeaders), x.kind = "move"
  PROVE  IsChange(r, i, [c EXCEPT !.moveTo = x.text])
<1>1. PICK H, M, P : /\ H = LinesAfter(s, i, FileHeaders, {"at"}) /\ M = LinesAfter(s, i, FileHeaders, {"move"})
                     /\ P = IF c.kind = "add" THEN LinesAfter(s, i, FileHeaders, {"plus"}) ELSE {}
  OBVIOUS
<1>2. /\ LinesAfter(r, i, FileHeaders, {"at"}) = H
      /\ LinesAfter(r, i, FileHeaders, {"plus"}) = LinesAfter(s, i, FileHeaders, {"plus"})
  BY <1>1, MoreAfter
<1>3. LinesAfter(r, i, FileHeaders, {"move"}) = M \cup {Len(s) + 1}
  BY <1>1, MoreAfter DEF FileHeaders
<1>4. M \in SUBSET (1..Len(s)) /\ P \in SUBSET (1..Len(s))
  BY <1>1, LinesIn
<1>5. PICK d : d = [c EXCEPT !.moveTo = x.text]
  OBVIOUS
<1>6. d.kind = c.kind /\ d.path = c.path /\ d.moveTo = x.text /\ d.addLines = c.addLines /\ d.chunks = c.chunks
  BY <1>5 DEF FileChanges
<1>7. \A j \in H : IsHunk(r, j, c.chunks[Rank(H, j)])
  <2>1. x.kind \in HunkEnds
    BY DEF HunkEnds, PathKinds
  <2> QED
    BY <1>1, <2>1, HunksKept
<1>8. Spells(r, c.addLines, P)
  <2>1. Spells(s, c.addLines, P)
    BY <1>1 DEF IsChange
  <2> QED
    BY <1>4, <2>1, SpellsSame
<1>9. r[i] = s[i] /\ c.kind = s[i].kind /\ c.path = s[i].text /\ Len(c.chunks) = Cardinality(H)
  BY <1>1 DEF More, IsChange
<1>10. Max(M \cup {Len(s) + 1}) = Len(s) + 1 /\ r[Len(s) + 1] = x
  <2>1. Len(s) \in Nat
    OBVIOUS
  <2>2. Max(M \cup {Len(s) + 1}) = Len(s) + 1
    BY <1>4, <2>1, MaxMore
  <2> QED
    BY <2>2 DEF More
<1> QED
  BY <1>1, <1>2, <1>3, <1>5, <1>6, <1>7, <1>8, <1>9, <1>10 DEF IsChange

LEMMA ChangePlus ==
  ASSUME NEW s \in Seq(Lines), NEW x \in Lines, NEW r, More(s, x, r), NEW i \in 1..Len(s), NEW c \in FileChanges,
         IsChange(s, i, c), Open(s, i, FileHeaders), x.kind = "plus", c.kind = "add",
         \A j \in LinesAfter(s, i, FileHeaders, {"at"}) : ~ Open(s, j, HunkEnds)
  PROVE  IsChange(r, i, [c EXCEPT !.addLines = Append(@, x.text)])
<1>1. PICK H, M, P : /\ H = LinesAfter(s, i, FileHeaders, {"at"}) /\ M = LinesAfter(s, i, FileHeaders, {"move"})
                     /\ P = LinesAfter(s, i, FileHeaders, {"plus"})
  OBVIOUS
<1>2. LinesAfter(r, i, FileHeaders, {"at"}) = H /\ LinesAfter(r, i, FileHeaders, {"move"}) = M
  BY <1>1, MoreAfter
<1>3. LinesAfter(r, i, FileHeaders, {"plus"}) = P \cup {Len(s) + 1}
  BY <1>1, MoreAfter DEF FileHeaders
<1>4. M \in SUBSET (1..Len(s)) /\ P \in SUBSET (1..Len(s))
  BY <1>1, LinesIn
<1>5. PICK d : d = [c EXCEPT !.addLines = Append(c.addLines, x.text)]
  OBVIOUS
<1>6. /\ d.kind = c.kind /\ d.path = c.path /\ d.moveTo = c.moveTo /\ d.chunks = c.chunks
      /\ d.addLines = Append(c.addLines, x.text)
  BY <1>5 DEF FileChanges
<1>7. \A j \in H : IsHunk(r, j, c.chunks[Rank(H, j)])
  BY <1>1, HunksKept
<1>8. Spells(r, Append(c.addLines, x.text), P \cup {Len(s) + 1})
  <2>1. Spells(s, c.addLines, P)
    BY <1>1 DEF IsChange
  <2>2. x.text \in Words /\ c.addLines \in Seq(Words)
    BY LineIs DEF ChangeKinds, FileChanges
  <2> QED
    BY <1>4, <2>1, <2>2, SpellsMore
<1>9. c.moveTo = IF M = {} THEN EmptyText ELSE r[Max(M)].text
  <2>1. ASSUME M # {} PROVE Max(M) \in 1..Len(s)
    <3>1. Len(s) \in Nat /\ M \subseteq 1..Len(s)
      BY <1>4
    <3>2. Max(M) \in M
      BY <2>1, <3>1, MaxIn
    <3> QED
      BY <3>1, <3>2
  <2>2. c.moveTo = IF M = {} THEN EmptyText ELSE s[Max(M)].text
    BY <1>1 DEF IsChange
  <2> QED
    BY <2>1, <2>2 DEF More
<1>10. r[i] = s[i] /\ c.kind = s[i].kind /\ c.path = s[i].text /\ Len(c.chunks) = Cardinality(H)
  BY <1>1 DEF More, IsChange
<1> QED
  BY <1>1, <1>2, <1>3, <1>5, <1>6, <1>7, <1>8, <1>9, <1>10 DEF IsChange

LEMMA ChangeHunk ==
  ASSUME NEW s \in Seq(Lines), NEW x \in Lines, NEW r, More(s, x, r), NEW i \in 1..Len(s), NEW c \in FileChanges,
         IsChange(s, i, c), Open(s, i, FileHeaders), x.kind = "at"
  PROVE  IsChange(r, i, [c EXCEPT !.chunks = Append(@, Chunk(x.text))])
<1>1. PICK H, M, P : /\ H = LinesAfter(s, i, FileHeaders, {"at"}) /\ M = LinesAfter(s, i, FileHeaders, {"move"})
                     /\ P = IF c.kind = "add" THEN LinesAfter(s, i, FileHeaders, {"plus"}) ELSE {}
  OBVIOUS
<1>2. /\ LinesAfter(r, i, FileHeaders, {"move"}) = M
      /\ LinesAfter(r, i, FileHeaders, {"plus"}) = LinesAfter(s, i, FileHeaders, {"plus"})
  BY <1>1, MoreAfter
<1>3. LinesAfter(r, i, FileHeaders, {"at"}) = H \cup {Len(s) + 1}
  BY <1>1, MoreAfter DEF FileHeaders
<1>4. M \in SUBSET (1..Len(s)) /\ P \in SUBSET (1..Len(s)) /\ H \in SUBSET (1..Len(s))
  BY <1>1, LinesIn
<1>5. PICK k \in Chunks : k = Chunk(x.text)
  BY LineIs, ChunkIs
<1>6. c.chunks \in Seq(Chunks)
  BY DEF FileChanges
<1>7. PICK e \in Seq(Chunks) : e = Append(c.chunks, k)
  BY <1>6, AppendProperties
<1>8. Len(e) = Len(c.chunks) + 1 /\ e[Len(c.chunks) + 1] = k /\ \A j \in 1..Len(c.chunks) : e[j] = c.chunks[j]
  BY <1>6, <1>7, AppendProperties
<1>9. PICK d : d = [c EXCEPT !.chunks = e]
  OBVIOUS
<1>10. d.kind = c.kind /\ d.path = c.path /\ d.moveTo = c.moveTo /\ d.addLines = c.addLines /\ d.chunks = e
  BY <1>9 DEF FileChanges
<1>11. \A j \in H : IsHunk(r, j, c.chunks[Rank(H, j)])
  <2>1. x.kind \in HunkEnds
    BY DEF HunkEnds
  <2> QED
    BY <1>1, <2>1, HunksKept
<1>12. r[i] = s[i] /\ c.kind = s[i].kind /\ c.path = s[i].text /\ Len(c.chunks) = Cardinality(H)
  BY <1>1 DEF More, IsChange
<1>13. /\ Cardinality(H \cup {Len(s) + 1}) = Cardinality(H) + 1
       /\ Rank(H \cup {Len(s) + 1}, Len(s) + 1) = Cardinality(H) + 1
       /\ \A j \in H : Rank(H \cup {Len(s) + 1}, j) = Rank(H, j)
  <2>1. Len(s) \in Nat
    OBVIOUS
  <2> QED
    BY <1>4, <2>1, PlaceMore
<1>14. \A j \in H : Rank(H, j) \in 1..Cardinality(H)
  <2>1. Len(s) \in Nat
    OBVIOUS
  <2> QED
    BY <1>4, <2>1, Places
<1>15. IsHunk(r, Len(s) + 1, k)
  BY <1>5, HunkNew
<1>16. \A j \in H \cup {Len(s) + 1} : IsHunk(r, j, e[Rank(H \cup {Len(s) + 1}, j)])
  <2>1. \A j \in H : e[Rank(H \cup {Len(s) + 1}, j)] = c.chunks[Rank(H, j)]
    BY <1>8, <1>12, <1>13, <1>14
  <2>2. e[Rank(H \cup {Len(s) + 1}, Len(s) + 1)] = k
    BY <1>8, <1>12, <1>13
  <2> QED
    BY <1>11, <1>15, <2>1, <2>2
<1>17. Spells(r, c.addLines, P)
  <2>1. Spells(s, c.addLines, P)
    BY <1>1 DEF IsChange
  <2> QED
    BY <1>4, <2>1, SpellsSame
<1>18. c.moveTo = IF M = {} THEN EmptyText ELSE r[Max(M)].text
  <2>1. ASSUME M # {} PROVE Max(M) \in 1..Len(s)
    <3>1. Len(s) \in Nat /\ M \subseteq 1..Len(s)
      BY <1>4
    <3>2. Max(M) \in M
      BY <2>1, <3>1, MaxIn
    <3> QED
      BY <3>1, <3>2
  <2>2. c.moveTo = IF M = {} THEN EmptyText ELSE s[Max(M)].text
    BY <1>1 DEF IsChange
  <2> QED
    BY <2>1, <2>2 DEF More
<1>19. IsChange(r, i, d)
  BY <1>1, <1>2, <1>3, <1>8, <1>10, <1>12, <1>13, <1>16, <1>17, <1>18 DEF IsChange
<1> QED
  BY <1>5, <1>7, <1>9, <1>19

LEMMA ChangeLonger ==
  ASSUME NEW s \in Seq(Lines), NEW x \in Lines, NEW r, More(s, x, r), NEW i \in 1..Len(s), NEW c \in FileChanges,
         NEW cs \in Seq(Chunks), NEW k \in Chunks, IsChange(s, i, [c EXCEPT !.chunks = Append(cs, k)]),
         c.kind # "add", Open(s, i, FileHeaders), x.kind \in ChangeKinds \cup {"blank"},
         NEW j \in LinesAfter(s, i, FileHeaders, {"at"}), Open(s, j, HunkEnds)
  PROVE  IsChange(r, i, [c EXCEPT !.chunks = Append(cs, HunkLine(k, x))])
<1>1. PICK H, M : /\ H = LinesAfter(s, i, FileHeaders, {"at"}) /\ M = LinesAfter(s, i, FileHeaders, {"move"})
  OBVIOUS
<1>2. LinesAfter(r, i, FileHeaders, {"move"}) = M /\ LinesAfter(r, i, FileHeaders, {"at"}) = H
  <2>1. x.kind \notin {"at", "move"}
    BY DEF ChangeKinds
  <2> QED
    BY <1>1, <2>1, MoreAfter
<1>3. M \in SUBSET (1..Len(s)) /\ H \in SUBSET (1..Len(s)) /\ j \in H /\ Len(s) \in Nat
  <2>1. Len(s) \in Nat
    OBVIOUS
  <2>2. M \in SUBSET (1..Len(s)) /\ H \in SUBSET (1..Len(s))
    BY <1>1, LinesIn
  <2> QED
    BY <1>1, <2>1, <2>2
<1>4. PICK h \in Chunks : h = HunkLine(k, x)
  BY HunkLineIs
<1>5. PICK d \in Seq(Chunks), e \in Seq(Chunks) : d = Append(cs, k) /\ e = Append(cs, h)
  BY AppendProperties
<1>6. PICK n \in Nat : n = Len(cs) /\ Len(d) = n + 1 /\ Len(e) = n + 1 /\ d[n + 1] = k /\ e[n + 1] = h
         /\ \A l \in 1..n : d[l] = cs[l] /\ e[l] = cs[l]
  <2>1. Len(d) = Len(cs) + 1 /\ d[Len(cs) + 1] = k /\ \A l \in 1..Len(cs) : d[l] = cs[l]
    BY <1>5, AppendProperties
  <2>2. Len(e) = Len(cs) + 1 /\ e[Len(cs) + 1] = h /\ \A l \in 1..Len(cs) : e[l] = cs[l]
    BY <1>5, AppendProperties
  <2>3. Len(cs) \in Nat
    OBVIOUS
  <2> QED
    BY <2>1, <2>2, <2>3
<1>7. PICK a : a = [c EXCEPT !.chunks = d]
  OBVIOUS
<1>8. PICK b : b = [c EXCEPT !.chunks = e]
  OBVIOUS
<1>9. /\ a.kind = c.kind /\ a.path = c.path /\ a.moveTo = c.moveTo /\ a.addLines = c.addLines /\ a.chunks = d
      /\ b.kind = c.kind /\ b.path = c.path /\ b.moveTo = c.moveTo /\ b.addLines = c.addLines /\ b.chunks = e
  BY <1>7, <1>8 DEF FileChanges
<1>10. IsChange(s, i, a)
  BY <1>5, <1>7
<1>11. r[i] = s[i] /\ c.kind = s[i].kind /\ c.path = s[i].text /\ n + 1 = Cardinality(H)
  BY <1>1, <1>6, <1>9, <1>10 DEF More, IsChange
<1>12. \A l \in H : IsHunk(s, l, d[Rank(H, l)]) /\ s[l].kind = "at" /\ l \in 1..Len(s)
  BY <1>1, <1>3, <1>9, <1>10 DEF IsChange, LinesAfter, LinesOf
<1>13. \A l \in H : Rank(H, l) \in 1..(n + 1)
  <2>1. \A l \in H : Rank(H, l) \in 1..Cardinality(H)
    BY <1>3, Places
  <2> QED
    BY <1>11, <2>1
<1>14. \A l \in H : l <= j
  <2>1. ASSUME NEW l \in H, ~ (l <= j) PROVE FALSE
    <3>1. l \in (j + 1)..Len(s)
      BY <1>3, <2>1
    <3>2. s[l].kind = "at"
      BY <1>12
    <3> QED
      BY <3>1, <3>2 DEF Open, HunkEnds
  <2> QED
    BY <2>1
<1>15. Rank(H, j) = n + 1
  BY <1>3, <1>11, <1>14, PlaceLast
<1>16. ASSUME NEW l \in H PROVE IsHunk(r, l, e[Rank(H, l)])
  <2>1. CASE l = j
    <3>1. IsHunk(s, j, k) /\ j \in 1..Len(s)
      BY <1>6, <1>12, <1>15, <1>3
    <3>2. IsHunk(r, j, h)
      BY <1>4, <3>1, HunkLonger
    <3> QED
      BY <1>6, <1>15, <2>1, <3>2
  <2>2. CASE l # j
    <3>1. Rank(H, l) # Cardinality(H)
      <4>1. ~ (j <= l)
        BY <1>3, <1>14, <2>2
      <4> QED
        BY <1>3, <4>1, PlaceLast
    <3>2. PICK m \in 1..n : m = Rank(H, l)
      <4>1. Rank(H, l) \in 1..(n + 1) /\ Rank(H, l) # n + 1
        BY <1>11, <1>13, <3>1
      <4> QED
        BY <4>1
    <3>3. d[m] = e[m]
      BY <1>6
    <3>4. ~ Open(s, l, HunkEnds)
      <4>1. j \in (l + 1)..Len(s)
        BY <1>3, <1>14, <2>2
      <4>2. s[j].kind = "at"
        BY <1>3, <1>12
      <4> QED
        BY <4>1, <4>2 DEF Open, HunkEnds
    <3>5. IsHunk(s, l, e[m]) /\ l \in 1..Len(s)
      BY <1>12, <3>2, <3>3
    <3>6. IsHunk(r, l, e[m])
      BY <3>4, <3>5, HunkKept
    <3> QED
      BY <3>2, <3>6
  <2> QED
    BY <2>1, <2>2
<1>17. Spells(r, b.addLines, {})
  <2>1. Spells(s, a.addLines, {})
    BY <1>9, <1>10 DEF IsChange
  <2>2. {} \in SUBSET (1..Len(s))
    OBVIOUS
  <2> QED
    BY <1>9, <2>1, <2>2, SpellsSame
<1>18. b.moveTo = IF M = {} THEN EmptyText ELSE r[Max(M)].text
  <2>1. ASSUME M # {} PROVE Max(M) \in 1..Len(s)
    <3>1. Max(M) \in M
      BY <1>3, <2>1, MaxIn
    <3> QED
      BY <1>3, <3>1
  <2>2. b.moveTo = IF M = {} THEN EmptyText ELSE s[Max(M)].text
    BY <1>1, <1>9, <1>10 DEF IsChange
  <2> QED
    BY <2>1, <2>2 DEF More
<1>19. IsChange(r, i, b)
  BY <1>2, <1>6, <1>9, <1>11, <1>16, <1>17, <1>18 DEF IsChange
<1> QED
  BY <1>4, <1>5, <1>8, <1>19

LEMMA ChangeNew ==
  ASSUME NEW s \in Seq(Lines), NEW x \in Lines, NEW r, More(s, x, r), x.kind \in FileHeaders
  PROVE  IsChange(r, Len(s) + 1, FileChange(x.kind, x.text))
<1>1. \A kinds : LinesAfter(r, Len(s) + 1, FileHeaders, kinds) = {}
  BY NewAfter
<1>2. Spells(r, <<>>, {})
  BY FS_EmptySet DEF Spells
<1>3. r[Len(s) + 1] = x
  BY DEF More
<1>4. PICK c : c = FileChange(x.kind, x.text)
  OBVIOUS
<1>5. c.kind = x.kind /\ c.path = x.text /\ c.moveTo = EmptyText /\ c.addLines = <<>> /\ c.chunks = <<>>
  BY <1>4 DEF FileChange
<1>6. Len(<<>>) = Cardinality({})
  BY FS_EmptySet
<1> QED
  BY <1>1, <1>2, <1>3, <1>4, <1>5, <1>6 DEF IsChange

\* Whether the last hunk is still open.
HunksClosed(lines) == \A j \in LinesOf(lines, {"at"}) : ~ Open(lines, j, HunkEnds)
HunkOpen(lines) == \E j \in LinesOf(lines, {"at"}) : Open(lines, j, HunkEnds)

LEMMA OpenMore ==
  ASSUME NEW s \in Seq(Lines), NEW x, NEW r, More(s, x, r), NEW ends, NEW i \in 1..Len(s)
  PROVE  Open(r, i, ends) <=> Open(s, i, ends) /\ x.kind \notin ends
<1>1. PICK n \in Nat : n = Len(s) /\ i \in 1..n
  OBVIOUS
<1>2. Len(r) = n + 1 /\ r[n + 1] = x /\ \A k \in 1..n : r[k] = s[k]
  BY <1>1 DEF More
<1>3. \A k \in (i + 1)..(n + 1) : k = n + 1 \/ k \in (i + 1)..n
  BY <1>1
<1>4. n + 1 \in (i + 1)..(n + 1) /\ \A k \in (i + 1)..n : k \in (i + 1)..(n + 1) /\ k \in 1..n
  BY <1>1
<1> QED
  BY <1>1, <1>2, <1>3, <1>4 DEF Open

LEMMA HunksMore ==
  ASSUME NEW s \in Seq(Lines), NEW x, NEW r, More(s, x, r)
  PROVE  /\ x.kind # "at" /\ (HunksClosed(s) \/ x.kind \in HunkEnds) => HunksClosed(r)
         /\ x.kind = "at" \/ (HunkOpen(s) /\ x.kind \notin HunkEnds) => HunkOpen(r)
<1>1. LinesOf(s, {"at"}) \in SUBSET (1..Len(s))
  BY LinesIn
<1>2. \A j \in LinesOf(s, {"at"}) : Open(r, j, HunkEnds) <=> Open(s, j, HunkEnds) /\ x.kind \notin HunkEnds
  BY <1>1, OpenMore
<1>3. ASSUME x.kind # "at" PROVE LinesOf(r, {"at"}) = LinesOf(s, {"at"})
  BY <1>3, MoreLines
<1>4. ASSUME x.kind = "at" PROVE Len(s) + 1 \in LinesOf(r, {"at"}) /\ Open(r, Len(s) + 1, HunkEnds)
  <2>1. LinesOf(r, {"at"}) = LinesOf(s, {"at"}) \cup {Len(s) + 1}
    BY <1>4, MoreLines
  <2>2. PICK n \in Nat : n = Len(s)
    OBVIOUS
  <2>3. Len(r) = n + 1 /\ (n + 1 + 1)..(n + 1) = {}
    BY <2>2 DEF More
  <2> QED
    BY <2>1, <2>2, <2>3 DEF Open
<1>5. "at" \in HunkEnds
  BY DEF HunkEnds
<1>6. CASE x.kind = "at"
  BY <1>4, <1>6 DEF HunkOpen
<1>7. CASE x.kind # "at"
  BY <1>2, <1>3, <1>7 DEF HunkOpen, HunksClosed
<1> QED
  BY <1>6, <1>7

\* What is read from one more line: the same, a new change, another last one.
LEMMA ReadSame ==
  ASSUME NEW s \in Seq(Lines), NEW x \in Lines, NEW r, More(s, x, r), NEW o, ReadAs(s, o),
         x.kind = "blank", HunksClosed(s)
  PROVE  ReadAs(r, o)
<1>1. PICK F : F = LinesOf(s, FileHeaders)
  OBVIOUS
<1>2. LinesOf(r, FileHeaders) = F
  BY <1>1, MoreLines DEF FileHeaders
<1>3. F \in SUBSET (1..Len(s))
  BY <1>1, LinesIn
<1>4. ASSUME NEW i \in F PROVE IsChange(r, i, o[Rank(F, i)])
  <2>1. IsChange(s, i, o[Rank(F, i)]) /\ i \in 1..Len(s)
    BY <1>1, <1>3 DEF ReadAs
  <2>2. \A j \in LinesAfter(s, i, FileHeaders, {"at"}) : ~ Open(s, j, HunkEnds)
    BY DEF LinesAfter, HunksClosed
  <2> QED
    BY <2>1, <2>2, ChangeKept
<1> QED
  BY <1>1, <1>2, <1>4 DEF ReadAs

LEMMA ReadNew ==
  ASSUME NEW s \in Seq(Lines), NEW x \in Lines, NEW r, More(s, x, r), NEW o \in Seq(FileChanges), ReadAs(s, o),
         x.kind \in FileHeaders, NEW u, u = Append(o, FileChange(x.kind, x.text))
  PROVE  ReadAs(r, u)
<1>1. PICK n \in Nat, m \in Nat : n = Len(s) /\ m = Len(o)
  OBVIOUS
<1>2. PICK F : F = LinesOf(s, FileHeaders)
  OBVIOUS
<1>3. F \in SUBSET (1..n) /\ LinesOf(r, FileHeaders) = F \cup {n + 1} /\ m = Cardinality(F)
  BY <1>1, <1>2, LinesIn, MoreLines DEF ReadAs
<1>4. PICK c \in FileChanges : c = FileChange(x.kind, x.text)
  BY LineIs, FileChangeIs DEF PathKinds
<1>5. Len(u) = m + 1 /\ u[m + 1] = c /\ \A l \in 1..m : u[l] = o[l]
  <2>1. Len(u) = Len(o) + 1 /\ u[Len(o) + 1] = c /\ \A l \in 1..Len(o) : u[l] = o[l]
    BY <1>4, AppendProperties
  <2> QED
    BY <1>1, <2>1
<1>6. /\ Cardinality(F \cup {n + 1}) = m + 1 /\ Rank(F \cup {n + 1}, n + 1) = m + 1
      /\ \A j \in F : Rank(F \cup {n + 1}, j) = Rank(F, j)
  BY <1>3, PlaceMore
<1>7. \A j \in F : Rank(F, j) \in 1..m
  BY <1>3, Places
<1>8. ASSUME NEW i \in F PROVE IsChange(r, i, u[Rank(F, i)])
  <2>1. IsChange(s, i, o[Rank(F, i)]) /\ i \in 1..Len(s)
    BY <1>1, <1>2, <1>3 DEF ReadAs
  <2>2. x.kind \in HunkEnds
    BY DEF HunkEnds, PathKinds
  <2>3. IsChange(r, i, o[Rank(F, i)])
    BY <2>1, <2>2, ChangeKept
  <2> QED
    BY <1>5, <1>7, <2>3
<1>9. IsChange(r, n + 1, c)
  BY <1>1, <1>4, ChangeNew
<1>10. \A i \in F \cup {n + 1} : IsChange(r, i, u[Rank(F \cup {n + 1}, i)])
  BY <1>5, <1>6, <1>8, <1>9
<1> QED
  BY <1>3, <1>5, <1>6, <1>10 DEF ReadAs

LEMMA LastFile ==
  ASSUME NEW s \in Seq(Lines), NEW o \in Seq(FileChanges), NEW c \in FileChanges, ReadAs(s, Append(o, c))
  PROVE  \E i \in LinesOf(s, FileHeaders) :
           /\ Open(s, i, FileHeaders) /\ IsChange(s, i, c) /\ Rank(LinesOf(s, FileHeaders), i) = Len(o) + 1
           /\ \A l \in LinesOf(s, FileHeaders) : l <= i
<1>1. PICK n \in Nat, m \in Nat : n = Len(s) /\ m = Len(o)
  OBVIOUS
<1>2. PICK F : F = LinesOf(s, FileHeaders)
  OBVIOUS
<1>3. PICK u : u = Append(o, c)
  OBVIOUS
<1>4. Len(u) = m + 1 /\ u[m + 1] = c
  <2>1. Len(u) = Len(o) + 1 /\ u[Len(o) + 1] = c
    BY <1>3, AppendProperties
  <2> QED
    BY <1>1, <2>1
<1>5. F \in SUBSET (1..n) /\ m + 1 = Cardinality(F)
  BY <1>1, <1>2, <1>3, <1>4, LinesIn DEF ReadAs
<1>6. F # {}
  <2>1. Cardinality({}) = 0 /\ m + 1 # 0
    BY FS_EmptySet
  <2> QED
    BY <1>5, <2>1
<1>7. PICK i \in F : \A l \in F : l <= i
  BY <1>5, <1>6, Lasts
<1>8. Rank(F, i) = m + 1
  BY <1>5, <1>7, PlaceLast
<1>9. IsChange(s, i, c)
  BY <1>2, <1>3, <1>4, <1>8 DEF ReadAs
<1>10. Open(s, i, FileHeaders)
  <2>1. ASSUME NEW l \in (i + 1)..Len(s), s[l].kind \in FileHeaders PROVE FALSE
    <3>1. i \in 1..n /\ l \in 1..Len(s) /\ ~ (l <= i)
      BY <1>1, <1>5, <2>1
    <3>2. l \in F
      BY <1>2, <2>1, <3>1 DEF LinesOf
    <3> QED
      BY <1>7, <3>1, <3>2
  <2> QED
    BY <2>1 DEF Open
<1> QED
  BY <1>1, <1>2, <1>7, <1>8, <1>9, <1>10

LEMMA ReadLast ==
  ASSUME NEW s \in Seq(Lines), NEW x \in Lines, NEW r, More(s, x, r), NEW o \in Seq(FileChanges),
         NEW c \in FileChanges, NEW d \in FileChanges, ReadAs(s, Append(o, c)), x.kind \notin FileHeaders,
         \A i \in 1..Len(s) : Open(s, i, FileHeaders) /\ s[i].kind \in FileHeaders /\ IsChange(s, i, c) =>
             IsChange(r, i, d)
  PROVE  ReadAs(r, Append(o, d))
<1>1. PICK n \in Nat, m \in Nat : n = Len(s) /\ m = Len(o)
  OBVIOUS
<1>2. PICK F : F = LinesOf(s, FileHeaders)
  OBVIOUS
<1>3. PICK i \in F : /\ Open(s, i, FileHeaders) /\ IsChange(s, i, c) /\ Rank(F, i) = m + 1
                     /\ \A l \in F : l <= i
  BY <1>1, <1>2, LastFile
<1>4. PICK u : u = Append(o, c)
  OBVIOUS
<1>5. PICK v : v = Append(o, d)
  OBVIOUS
<1>6. /\ Len(u) = m + 1 /\ \A l \in 1..m : u[l] = o[l]
      /\ Len(v) = m + 1 /\ v[m + 1] = d /\ \A l \in 1..m : v[l] = o[l]
  <2>1. Len(u) = Len(o) + 1 /\ \A l \in 1..Len(o) : u[l] = o[l]
    BY <1>4, AppendProperties
  <2>2. Len(v) = Len(o) + 1 /\ v[Len(o) + 1] = d /\ \A l \in 1..Len(o) : v[l] = o[l]
    BY <1>5, AppendProperties
  <2> QED
    BY <1>1, <2>1, <2>2
<1>7. F \in SUBSET (1..n) /\ LinesOf(r, FileHeaders) = F /\ m + 1 = Cardinality(F)
  BY <1>1, <1>2, <1>4, <1>6, LinesIn, MoreLines DEF ReadAs
<1>8. \A l \in F : Rank(F, l) \in 1..(m + 1)
  BY <1>7, Places
<1>9. \A l \in F : IsChange(s, l, u[Rank(F, l)]) /\ l \in 1..Len(s) /\ s[l].kind \in FileHeaders
  BY <1>2, <1>4 DEF ReadAs, LinesOf
<1>10. ASSUME NEW l \in F PROVE IsChange(r, l, v[Rank(F, l)])
  <2>1. CASE l = i
    <3>1. IsChange(r, i, d)
      BY <1>3, <1>9
    <3> QED
      BY <1>3, <1>6, <2>1, <3>1
  <2>2. CASE l # i
    <3>1. l \in 1..n /\ i \in (l + 1)..Len(s) /\ ~ (i <= l)
      BY <1>1, <1>3, <1>7, <2>2
    <3>2. Rank(F, l) # m + 1
      BY <1>7, <3>1, PlaceLast
    <3>3. PICK q \in 1..m : q = Rank(F, l)
      <4>1. Rank(F, l) \in 1..(m + 1)
        BY <1>8
      <4> QED
        BY <3>2, <4>1
    <3>4. IsChange(s, l, v[q])
      BY <1>6, <1>9, <3>3
    <3>5. ~ Open(s, l, FileHeaders)
      BY <1>9, <3>1 DEF Open
    <3>6. ASSUME NEW j \in LinesAfter(s, l, FileHeaders, {"at"}) PROVE ~ Open(s, j, HunkEnds)
      <4>1. j \in 1..n /\ \A k \in (l + 1)..j : s[k].kind \notin FileHeaders
        BY <1>1 DEF LinesAfter, LinesOf
      <4>2. i \notin (l + 1)..j
        BY <1>9, <4>1
      <4>3. i \in (j + 1)..Len(s)
        BY <1>1, <3>1, <4>1, <4>2
      <4>4. s[i].kind \in HunkEnds
        BY <1>9 DEF HunkEnds, PathKinds
      <4> QED
        BY <4>3, <4>4 DEF Open
    <3>7. IsChange(r, l, v[q])
      BY <3>1, <3>4, <3>5, <3>6, <1>1, ChangeKept
    <3> QED
      BY <3>3, <3>7
  <2> QED
    BY <2>1, <2>2
<1> QED
  BY <1>5, <1>6, <1>7, <1>10 DEF ReadAs

\* The lines with a sign.
Blanks(lines) == UNION {LinesAfter(lines, i, HunkEnds, {"blank"}) : i \in LinesOf(lines, {"at"})}
Counts(lines, x) == x.kind \in {"plus", "minus", "delete"} \/ (x.kind = "blank" /\ HunkOpen(lines))

LEMMA BlanksMore ==
  ASSUME NEW s \in Seq(Lines), NEW x, NEW r, More(s, x, r)
  PROVE  /\ x.kind = "blank" /\ HunkOpen(s) => Blanks(r) = Blanks(s) \cup {Len(s) + 1}
         /\ ~ (x.kind = "blank" /\ HunkOpen(s)) => Blanks(r) = Blanks(s)
<1>1. LinesOf(s, {"at"}) \in SUBSET (1..Len(s))
  BY LinesIn
<1>2. "blank" \notin HunkEnds
  BY DEF HunkEnds, PathKinds, FileHeaders
<1>3. ASSUME NEW i \in LinesOf(s, {"at"})
      PROVE  LinesAfter(r, i, HunkEnds, {"blank"}) =
               LinesAfter(s, i, HunkEnds, {"blank"})
                 \cup (IF x.kind = "blank" /\ Open(s, i, HunkEnds) THEN {Len(s) + 1} ELSE {})
  BY <1>1, <1>2, MoreAfter
<1>4. CASE x.kind = "at"
  <2>1. LinesOf(r, {"at"}) = LinesOf(s, {"at"}) \cup {Len(s) + 1}
    BY <1>4, MoreLines
  <2>2. LinesAfter(r, Len(s) + 1, HunkEnds, {"blank"}) = {}
    BY NewAfter
  <2>3. \A i \in LinesOf(s, {"at"}) : LinesAfter(r, i, HunkEnds, {"blank"}) = LinesAfter(s, i, HunkEnds, {"blank"})
    BY <1>3, <1>4
  <2>4. Blanks(r) = Blanks(s)
    BY <2>1, <2>2, <2>3 DEF Blanks
  <2> QED
    BY <1>4, <2>4
<1>5. CASE x.kind # "at"
  <2>1. LinesOf(r, {"at"}) = LinesOf(s, {"at"})
    BY <1>5, MoreLines
  <2>2. CASE x.kind = "blank" /\ HunkOpen(s)
    <3>1. PICK j \in LinesOf(s, {"at"}) : Open(s, j, HunkEnds)
      BY <2>2 DEF HunkOpen
    <3>2. \A i \in LinesOf(s, {"at"}) :
            /\ LinesAfter(s, i, HunkEnds, {"blank"}) \subseteq LinesAfter(r, i, HunkEnds, {"blank"})
            /\ LinesAfter(r, i, HunkEnds, {"blank"}) \subseteq LinesAfter(s, i, HunkEnds, {"blank"}) \cup {Len(s) + 1}
      BY <1>3
    <3>3. Len(s) + 1 \in LinesAfter(r, j, HunkEnds, {"blank"})
      BY <1>3, <2>2, <3>1
    <3>4. Blanks(r) = Blanks(s) \cup {Len(s) + 1}
      BY <2>1, <3>2, <3>3 DEF Blanks
    <3> QED
      BY <2>2, <3>4
  <2>3. CASE ~ (x.kind = "blank" /\ HunkOpen(s))
    <3>1. \A i \in LinesOf(s, {"at"}) : LinesAfter(r, i, HunkEnds, {"blank"}) = LinesAfter(s, i, HunkEnds, {"blank"})
      BY <1>3, <2>3 DEF HunkOpen
    <3>2. Blanks(r) = Blanks(s)
      BY <2>1, <3>1 DEF Blanks
    <3> QED
      BY <2>3, <3>2
  <2> QED
    BY <2>2, <2>3
<1> QED
  BY <1>4, <1>5

LEMMA SignedMore ==
  ASSUME NEW s \in Seq(Lines), NEW x, NEW r, More(s, x, r)
  PROVE  /\ Cardinality(Signed(s)) \in Nat
         /\ Counts(s, x) => Cardinality(Signed(r)) = Cardinality(Signed(s)) + 1
         /\ ~ Counts(s, x) => Cardinality(Signed(r)) = Cardinality(Signed(s))
<1>1. PICK n \in Nat : n = Len(s)
  OBVIOUS
<1>2. PICK S : S = Signed(s)
  OBVIOUS
<1>3. PICK T : T = Signed(r)
  OBVIOUS
<1>4. /\ S = LinesOf(s, {"plus", "minus", "delete"}) \cup Blanks(s)
      /\ T = LinesOf(r, {"plus", "minus", "delete"}) \cup Blanks(r)
  BY <1>2, <1>3 DEF Signed, Blanks
<1>5. S \in SUBSET (1..n)
  <2>1. \A i : LinesAfter(s, i, HunkEnds, {"blank"}) \in SUBSET (1..n)
    BY <1>1, LinesIn
  <2>2. LinesOf(s, {"plus", "minus", "delete"}) \in SUBSET (1..n)
    BY <1>1, LinesIn
  <2> QED
    BY <1>4, <2>1, <2>2 DEF Blanks
<1>6. Cardinality(S) \in Nat /\ Cardinality(S \cup {n + 1}) = Cardinality(S) + 1
  BY <1>5, Places, PlaceMore
<1>7. /\ x.kind \in {"plus", "minus", "delete"} =>
           LinesOf(r, {"plus", "minus", "delete"}) = LinesOf(s, {"plus", "minus", "delete"}) \cup {n + 1}
      /\ x.kind \notin {"plus", "minus", "delete"} =>
           LinesOf(r, {"plus", "minus", "delete"}) = LinesOf(s, {"plus", "minus", "delete"})
  BY <1>1, MoreLines
<1>8. /\ x.kind = "blank" /\ HunkOpen(s) => Blanks(r) = Blanks(s) \cup {n + 1}
      /\ ~ (x.kind = "blank" /\ HunkOpen(s)) => Blanks(r) = Blanks(s)
  BY <1>1, BlanksMore
<1>9. (Counts(s, x) => T = S \cup {n + 1}) /\ (~ Counts(s, x) => T = S)
  BY <1>4, <1>7, <1>8 DEF Counts
<1> QED
  BY <1>2, <1>3, <1>6, <1>9

\* What is counted.
Counted(all) == Total([k \in 1..Len(all) |-> ChangedLines(all[k])])

LEMMA SignsMore ==
  ASSUME NEW cs \in Seq(Chunks)
  PROVE  /\ Signs(cs) \in Nat
         /\ \A k \in Chunks : Signs(Append(cs, k)) = Signs(cs) + (k.added + k.removed)
<1>1. PICK n \in Nat : n = Len(cs)
  OBVIOUS
<1>2. \A k \in Chunks : k.added + k.removed \in Nat
  BY DEF Chunks
<1>3. PICK s : s = [l \in 1..n |-> cs[l].added + cs[l].removed]
  OBVIOUS
<1>4. s \in Seq(Nat) /\ Len(s) = n
  <2>1. \A l \in 1..n : cs[l] \in Chunks
    BY <1>1
  <2>2. \A l \in 1..n : cs[l].added + cs[l].removed \in Nat
    BY <1>2, <2>1
  <2> QED
    BY <1>3, <2>2
<1>5. Signs(cs) = Total(s)
  BY <1>1, <1>3 DEF Signs
<1>6. ASSUME NEW k \in Chunks PROVE Signs(Append(cs, k)) = Signs(cs) + (k.added + k.removed)
  <2>1. PICK ds \in Seq(Chunks) : ds = Append(cs, k)
    BY AppendProperties
  <2>2. Len(ds) = n + 1 /\ ds[n + 1] = k /\ \A l \in 1..n : ds[l] = cs[l]
    BY <1>1, <2>1, AppendProperties
  <2>3. PICK t : t = [l \in 1..(n + 1) |-> ds[l].added + ds[l].removed]
    OBVIOUS
  <2>4. t \in Seq(Nat) /\ Len(t) = n + 1
    <3>1. \A l \in 1..(n + 1) : ds[l] \in Chunks
      BY <2>2, ElementOfSeq
    <3>2. \A l \in 1..(n + 1) : ds[l].added + ds[l].removed \in Nat
      BY <1>2, <3>1
    <3> QED
      BY <2>3, <3>2
  <2>5. t[n + 1] = k.added + k.removed /\ \A l \in 1..n : t[l] = s[l]
    BY <1>3, <2>2, <2>3
  <2>6. PICK v \in Nat : v = k.added + k.removed
    BY <1>2
  <2>7. Total(t) = Total(s) + v
    BY <1>4, <2>4, <2>5, <2>6, TotalMore
  <2>8. Signs(ds) = Total(t)
    BY <2>2, <2>3 DEF Signs
  <2> QED
    BY <1>5, <2>1, <2>6, <2>7, <2>8
<1>7. Total(s) \in Nat
  BY <1>4, Summed
<1> QED
  BY <1>5, <1>6, <1>7

LEMMA ChangedIs == ASSUME NEW c \in FileChanges PROVE ChangedLines(c) \in Nat
<1>1. c.chunks \in Seq(Chunks) /\ c.addLines \in Seq(Words)
  BY DEF FileChanges
<1>2. Signs(c.chunks) \in Nat
  BY <1>1, SignsMore
<1>3. Len(c.addLines) \in Nat
  BY <1>1
<1> QED
  BY <1>2, <1>3 DEF ChangedLines

LEMMA CountedMore ==
  ASSUME NEW o \in Seq(FileChanges)
  PROVE  /\ Counted(o) \in Nat
         /\ \A c \in FileChanges : Counted(Append(o, c)) = Counted(o) + ChangedLines(c)
<1>1. PICK n \in Nat : n = Len(o)
  OBVIOUS
<1>2. PICK s : s = [l \in 1..n |-> ChangedLines(o[l])]
  OBVIOUS
<1>3. s \in Seq(Nat) /\ Len(s) = n
  <2>1. \A l \in 1..n : o[l] \in FileChanges
    BY <1>1
  <2>2. \A l \in 1..n : ChangedLines(o[l]) \in Nat
    BY <2>1, ChangedIs
  <2> QED
    BY <1>2, <2>2
<1>4. Counted(o) = Total(s)
  BY <1>1, <1>2 DEF Counted
<1>5. ASSUME NEW c \in FileChanges PROVE Counted(Append(o, c)) = Counted(o) + ChangedLines(c)
  <2>1. PICK u \in Seq(FileChanges) : u = Append(o, c)
    BY AppendProperties
  <2>2. Len(u) = n + 1 /\ u[n + 1] = c /\ \A l \in 1..n : u[l] = o[l]
    BY <1>1, <2>1, AppendProperties
  <2>3. PICK t : t = [l \in 1..(n + 1) |-> ChangedLines(u[l])]
    OBVIOUS
  <2>4. t \in Seq(Nat) /\ Len(t) = n + 1
    <3>1. \A l \in 1..(n + 1) : u[l] \in FileChanges
      BY <2>2, ElementOfSeq
    <3>2. \A l \in 1..(n + 1) : ChangedLines(u[l]) \in Nat
      BY <3>1, ChangedIs
    <3> QED
      BY <2>3, <3>2
  <2>5. t[n + 1] = ChangedLines(c) /\ \A l \in 1..n : t[l] = s[l]
    BY <1>2, <2>2, <2>3
  <2>6. PICK v \in Nat : v = ChangedLines(c)
    BY ChangedIs
  <2>7. Total(t) = Total(s) + v
    BY <1>3, <2>4, <2>5, <2>6, TotalMore
  <2>8. Counted(u) = Total(t)
    BY <2>2, <2>3 DEF Counted
  <2> QED
    BY <1>4, <2>1, <2>6, <2>7, <2>8
<1>6. Total(s) \in Nat
  BY <1>3, Summed
<1> QED
  BY <1>4, <1>5, <1>6

\* The lines of an added file are of an added file, the hunks of an update.
KindOf(c) == (c.kind # "add" => c.addLines = <<>>) /\ (c.kind # "update" => c.chunks = <<>>)

LEMMA SignsNone == Signs(<<>>) = 0
<1>1. [k \in 1..Len(<<>>) |-> <<>>[k].added + <<>>[k].removed] = <<>>
  OBVIOUS
<1> QED
  BY <1>1, TotalNone DEF Signs

LEMMA StatIs ==
  ASSUME NEW c \in FileChanges, KindOf(c)
  PROVE  ChangedLines(c) = FileLineStat(c).added + FileLineStat(c).removed
<1>1. c.kind \in FileHeaders /\ c.chunks \in Seq(Chunks) /\ c.addLines \in Seq(Words)
  BY DEF FileChanges
<1>2. PICK a \in Nat : a = Len(c.addLines)
  BY <1>1
<1>3. CASE c.kind = "add"
  <2>1. Signs(c.chunks) = 0
    BY <1>3, SignsNone DEF KindOf
  <2>2. FileLineStat(c).added = a /\ FileLineStat(c).removed = 0
    BY <1>2, <1>3 DEF FileLineStat
  <2>3. ChangedLines(c) = a + 0 + 0
    BY <1>2, <1>3, <2>1 DEF ChangedLines
  <2> QED
    BY <2>2, <2>3
<1>4. CASE c.kind = "delete"
  <2>1. Signs(c.chunks) = 0 /\ a = 0
    BY <1>2, <1>4, SignsNone DEF KindOf
  <2>2. FileLineStat(c).added = 0 /\ FileLineStat(c).removed = 1
    BY <1>4 DEF FileLineStat
  <2>3. ChangedLines(c) = 0 + 0 + 1
    BY <1>2, <1>4, <2>1 DEF ChangedLines
  <2> QED
    BY <2>2, <2>3
<1>5. CASE c.kind = "update"
  <2>1. PICK n \in Nat : n = Len(c.chunks)
    BY <1>1
  <2>2. PICK s : s = [k \in 1..n |-> c.chunks[k].added]
    OBVIOUS
  <2>3. PICK t : t = [k \in 1..n |-> c.chunks[k].removed]
    OBVIOUS
  <2>4. PICK u : u = [k \in 1..n |-> c.chunks[k].added + c.chunks[k].removed]
    OBVIOUS
  <2>5. \A k \in 1..n : c.chunks[k].added \in Nat /\ c.chunks[k].removed \in Nat
    <3>1. \A k \in 1..n : c.chunks[k] \in Chunks
      BY <1>1, <2>1, ElementOfSeq
    <3> QED
      BY <3>1 DEF Chunks
  <2>6. \A k \in 1..n : c.chunks[k].added + c.chunks[k].removed \in Nat
    BY <2>5
  <2>7. s \in Seq(Nat) /\ t \in Seq(Nat) /\ u \in Seq(Nat) /\ Len(s) = n /\ Len(t) = n /\ Len(u) = n
    <3>1. s \in Seq(Nat) /\ Len(s) = n
      BY <2>2, <2>5
    <3>2. t \in Seq(Nat) /\ Len(t) = n
      BY <2>3, <2>5
    <3>3. u \in Seq(Nat) /\ Len(u) = n
      BY <2>4, <2>6
    <3> QED
      BY <3>1, <3>2, <3>3
  <2>8. \A k \in 1..n : u[k] = s[k] + t[k]
    BY <2>2, <2>3, <2>4
  <2>9. Total(u) = Total(s) + Total(t) /\ Total(s) \in Nat /\ Total(t) \in Nat
    <3>1. Total(s) \in Nat /\ Total(t) \in Nat
      BY <2>7, Summed
    <3>2. Len(t) = Len(s) /\ Len(u) = Len(s) /\ \A k \in 1..Len(s) : u[k] = s[k] + t[k]
      BY <2>7, <2>8
    <3>3. Total(u) = Total(s) + Total(t)
      BY <2>7, <3>2, TotalBoth
    <3> QED
      BY <3>1, <3>3
  <2>10. Signs(c.chunks) = Total(u)
    BY <2>1, <2>4 DEF Signs
  <2>11. FileLineStat(c).added = Total(s) /\ FileLineStat(c).removed = Total(t)
    BY <1>5, <2>1, <2>2, <2>3 DEF FileLineStat
  <2>12. ChangedLines(c) = Len(c.addLines) + Signs(c.chunks) + 0 /\ c.addLines = <<>>
    BY <1>5 DEF ChangedLines, KindOf
  <2>13. PICK v \in Nat : v = Total(s) + Total(t)
    BY <2>9
  <2>14. Len(c.addLines) = 0
    BY <2>12
  <2>15. ChangedLines(c) = 0 + v + 0
    BY <2>9, <2>10, <2>12, <2>13, <2>14
  <2> QED
    BY <2>11, <2>13, <2>15
<1> QED
  BY <1>1, <1>3, <1>4, <1>5 DEF FileHeaders

\* How a line changes the last change.
GrowsTo(s, r, x, c, d) ==
  /\ d.kind = c.kind /\ d.path = c.path /\ (KindOf(c) => KindOf(d))
  /\ d.moveTo = IF x.kind = "move" THEN x.text ELSE c.moveTo
  /\ ChangedLines(d) = ChangedLines(c) + (IF Counts(s, x) THEN 1 ELSE 0)
  /\ \A i \in 1..Len(s) : Open(s, i, FileHeaders) /\ s[i].kind \in FileHeaders /\ IsChange(s, i, c) => IsChange(r, i, d)

LEMMA PlusGrows ==
  ASSUME NEW s \in Seq(Lines), NEW x \in Lines, NEW r, More(s, x, r), NEW c \in FileChanges, c.kind = "add",
         x.kind = "plus", HunksClosed(s), NEW d, d = [c EXCEPT !.addLines = Append(@, x.text)]
  PROVE  d \in FileChanges /\ GrowsTo(s, r, x, c, d)
<1>1. x.text \in Words /\ c.addLines \in Seq(Words) /\ c.chunks \in Seq(Chunks)
  BY LineIs DEF ChangeKinds, FileChanges
<1>2. PICK a \in Seq(Words) : a = Append(c.addLines, x.text)
  BY <1>1, AppendProperties
<1>3. Len(a) = Len(c.addLines) + 1
  BY <1>1, <1>2, AppendProperties
<1>4. d = [c EXCEPT !.addLines = a]
  BY <1>2
<1>5. d \in FileChanges /\ d.kind = c.kind /\ d.path = c.path /\ d.moveTo = c.moveTo
      /\ d.addLines = a /\ d.chunks = c.chunks
  BY <1>4 DEF FileChanges
<1>6. KindOf(c) => KindOf(d)
  BY <1>5 DEF KindOf
<1>7. ChangedLines(d) = ChangedLines(c) + 1
  <2>1. PICK g \in Nat, n \in Nat : g = Signs(c.chunks) /\ n = Len(c.addLines)
    <3>1. Signs(c.chunks) \in Nat
      BY <1>1, SignsMore
    <3>2. Len(c.addLines) \in Nat
      BY <1>1
    <3> QED
      BY <3>1, <3>2
  <2>2. ChangedLines(d) = (n + 1) + g + 0 /\ ChangedLines(c) = n + g + 0
    BY <1>3, <1>5, <2>1 DEF ChangedLines
  <2> QED
    BY <2>2
<1>8. Counts(s, x)
  BY DEF Counts
<1>9. \A i \in 1..Len(s) : \A j \in LinesAfter(s, i, FileHeaders, {"at"}) : ~ Open(s, j, HunkEnds)
  BY DEF LinesAfter, HunksClosed
<1>10. ASSUME NEW i \in 1..Len(s), Open(s, i, FileHeaders), IsChange(s, i, c) PROVE IsChange(r, i, d)
  BY <1>9, <1>10, ChangePlus
<1> QED
  BY <1>5, <1>6, <1>7, <1>8, <1>10 DEF GrowsTo

LEMMA MoveGrows ==
  ASSUME NEW s \in Seq(Lines), NEW x \in Lines, NEW r, More(s, x, r), NEW c \in FileChanges,
         x.kind = "move", NEW d, d = [c EXCEPT !.moveTo = x.text]
  PROVE  d \in FileChanges /\ GrowsTo(s, r, x, c, d)
<1>1. x.text \in PathTexts
  BY LineIs DEF PathKinds
<1>2. /\ d \in FileChanges /\ d.kind = c.kind /\ d.path = c.path /\ d.moveTo = x.text
      /\ d.addLines = c.addLines /\ d.chunks = c.chunks
  BY <1>1 DEF FileChanges
<1>3. KindOf(c) => KindOf(d)
  BY <1>2 DEF KindOf
<1>4. ChangedLines(d) = ChangedLines(c) /\ ChangedLines(c) \in Nat
  BY <1>2, ChangedIs DEF ChangedLines
<1>5. ~ Counts(s, x)
  BY DEF Counts
<1>6. ASSUME NEW i \in 1..Len(s), Open(s, i, FileHeaders), IsChange(s, i, c) PROVE IsChange(r, i, d)
  BY <1>6, ChangeMoved
<1>7. ChangedLines(d) = ChangedLines(c) + 0
  BY <1>4
<1> QED
  BY <1>2, <1>3, <1>5, <1>6, <1>7 DEF GrowsTo

LEMMA HunkGrows ==
  ASSUME NEW s \in Seq(Lines), NEW x \in Lines, NEW r, More(s, x, r), NEW c \in FileChanges, c.kind = "update",
         x.kind = "at", NEW d, d = [c EXCEPT !.chunks = Append(@, Chunk(x.text))]
  PROVE  d \in FileChanges /\ GrowsTo(s, r, x, c, d)
<1>1. PICK k \in Chunks : k = Chunk(x.text)
  BY LineIs, ChunkIs
<1>2. c.chunks \in Seq(Chunks) /\ c.addLines \in Seq(Words)
  BY DEF FileChanges
<1>3. PICK e \in Seq(Chunks) : e = Append(c.chunks, k)
  BY <1>2, AppendProperties
<1>4. d = [c EXCEPT !.chunks = e]
  BY <1>1, <1>3
<1>5. d \in FileChanges /\ d.kind = c.kind /\ d.path = c.path /\ d.moveTo = c.moveTo
      /\ d.addLines = c.addLines /\ d.chunks = e
  BY <1>4 DEF FileChanges
<1>6. KindOf(c) => KindOf(d)
  BY <1>5 DEF KindOf
<1>7. k.added = 0 /\ k.removed = 0
  BY <1>1 DEF Chunk
<1>8. Signs(e) = Signs(c.chunks) + (0 + 0)
  BY <1>2, <1>3, <1>7, SignsMore
<1>9. PICK g \in Nat, n \in Nat : g = Signs(c.chunks) /\ n = Len(c.addLines)
  <2>1. Signs(c.chunks) \in Nat
    BY <1>2, SignsMore
  <2>2. Len(c.addLines) \in Nat
    BY <1>2
  <2> QED
    BY <2>1, <2>2
<1>10. ChangedLines(d) = n + (g + (0 + 0)) + 0 /\ ChangedLines(c) = n + g + 0
  BY <1>5, <1>8, <1>9 DEF ChangedLines
<1>11. ChangedLines(d) = ChangedLines(c) + 0
  BY <1>9, <1>10
<1>12. ~ Counts(s, x)
  BY DEF Counts
<1>13. ASSUME NEW i \in 1..Len(s), Open(s, i, FileHeaders), IsChange(s, i, c) PROVE IsChange(r, i, d)
  BY <1>13, ChangeHunk
<1> QED
  BY <1>5, <1>6, <1>11, <1>12, <1>13 DEF GrowsTo

LEMMA LineGrows ==
  ASSUME NEW s \in Seq(Lines), NEW x \in Lines, NEW r, More(s, x, r), NEW u \in FileChanges, u.kind = "update",
         NEW k \in Chunks, x.kind \in ChangeKinds \cup {"blank"}, HunkOpen(s),
         NEW c, c = [u EXCEPT !.chunks = Append(@, k)], NEW d, d = [u EXCEPT !.chunks = Append(@, HunkLine(k, x))]
  PROVE  d \in FileChanges /\ GrowsTo(s, r, x, c, d)
<1>1. PICK h \in Chunks : h = HunkLine(k, x)
  BY HunkLineIs
<1>2. PICK cs \in Seq(Chunks) : cs = u.chunks
  BY DEF FileChanges
<1>3. PICK e \in Seq(Chunks) : e = Append(cs, k)
  BY AppendProperties
<1>4. PICK f \in Seq(Chunks) : f = Append(cs, h)
  BY AppendProperties
<1>5. c = [u EXCEPT !.chunks = e] /\ d = [u EXCEPT !.chunks = f]
  BY <1>1, <1>2, <1>3, <1>4
<1>6. /\ d \in FileChanges /\ c.addLines \in Seq(Words) /\ c.kind = "update" /\ e = c.chunks /\ f = d.chunks
      /\ d.kind = c.kind /\ d.path = c.path /\ d.moveTo = c.moveTo /\ d.addLines = c.addLines
  BY <1>5 DEF FileChanges
<1>7. KindOf(c) => KindOf(d)
  BY <1>6 DEF KindOf
<1>8. x.kind \in {"plus", "minus", "space", "blank"} /\ x.kind # "move"
  BY DEF ChangeKinds
<1>9. PICK a \in Nat, b \in Nat, g \in Nat, n \in Nat :
        a = k.added /\ b = k.removed /\ g = Signs(cs) /\ n = Len(c.addLines)
  <2>1. k.added \in Nat /\ k.removed \in Nat
    BY DEF Chunks
  <2>2. Len(c.addLines) \in Nat
    BY <1>6
  <2>3. Signs(cs) \in Nat
    BY SignsMore
  <2> QED
    BY <2>1, <2>2, <2>3
<1>10. /\ h.added = a + (IF x.kind = "plus" THEN 1 ELSE 0)
       /\ h.removed = b + (IF x.kind \in {"minus", "blank"} THEN 1 ELSE 0)
  BY <1>1, <1>9, HunkLineIs
<1>11. Counts(s, x) <=> x.kind # "space"
  BY <1>8 DEF Counts
<1>12. PICK v \in Nat : v = IF Counts(s, x) THEN 1 ELSE 0
  OBVIOUS
<1>13. h.added + h.removed = (a + b) + v
  <2>1. CASE x.kind = "plus"
    BY <1>10, <1>11, <1>12, <2>1
  <2>2. CASE x.kind \in {"minus", "blank"}
    <3>1. v = 1 /\ h.added = a + 0 /\ h.removed = b + 1
      BY <1>10, <1>11, <1>12, <2>2
    <3> QED
      BY <3>1
  <2>3. CASE x.kind = "space"
    BY <1>10, <1>11, <1>12, <2>3
  <2> QED
    BY <1>8, <2>1, <2>2, <2>3
<1>14. Signs(e) = g + (a + b) /\ Signs(f) = g + ((a + b) + v)
  BY <1>3, <1>4, <1>9, <1>13, SignsMore
<1>15. ChangedLines(c) = n + (g + (a + b)) + 0 /\ ChangedLines(d) = n + (g + ((a + b) + v)) + 0
  BY <1>6, <1>9, <1>14 DEF ChangedLines
<1>16. ChangedLines(d) = ChangedLines(c) + v
  BY <1>15
<1>17. PICK j \in LinesOf(s, {"at"}) : Open(s, j, HunkEnds)
  BY DEF HunkOpen
<1>18. ASSUME NEW i \in 1..Len(s), Open(s, i, FileHeaders), s[i].kind \in FileHeaders
       PROVE  j \in LinesAfter(s, i, FileHeaders, {"at"})
  <2>1. PICK n1 \in Nat : n1 = Len(s)
    OBVIOUS
  <2>2. j \in 1..n1 /\ s[j].kind = "at" /\ i \in 1..n1
    BY <2>1 DEF LinesOf
  <2>3. i # j
    BY <1>18, <2>2 DEF FileHeaders
  <2>4. ~ (i > j)
    <3>1. i \in 1..n1 /\ s[i].kind \in HunkEnds
      BY <1>18, <2>2 DEF HunkEnds, PathKinds
    <3>2. i > j => i \in (j + 1)..n1
      BY <2>2
    <3> QED
      BY <1>17, <2>1, <3>1, <3>2 DEF Open
  <2>5. j > i
    BY <2>2, <2>3, <2>4
  <2>6. \A l \in (i + 1)..j : s[l].kind \notin FileHeaders
    <3>1. \A l \in (i + 1)..j : l \in (i + 1)..n1
      BY <2>2
    <3> QED
      BY <1>18, <2>1, <3>1 DEF Open
  <2> QED
    BY <2>5, <2>6 DEF LinesAfter
<1>19. ASSUME NEW i \in 1..Len(s), Open(s, i, FileHeaders), s[i].kind \in FileHeaders, IsChange(s, i, c)
       PROVE  IsChange(r, i, d)
  <2>1. j \in LinesAfter(s, i, FileHeaders, {"at"})
    BY <1>18, <1>19
  <2>2. IsChange(s, i, [u EXCEPT !.chunks = Append(cs, k)]) /\ u.kind # "add"
    BY <1>2, <1>19
  <2>3. IsChange(r, i, [u EXCEPT !.chunks = Append(cs, HunkLine(k, x))])
    BY <1>17, <1>19, <2>1, <2>2, ChangeLonger
  <2> QED
    BY <1>2, <2>3
<1>20. ChangedLines(d) = ChangedLines(c) + (IF Counts(s, x) THEN 1 ELSE 0)
  BY <1>12, <1>16
<1>21. \A i \in 1..Len(s) : Open(s, i, FileHeaders) /\ s[i].kind \in FileHeaders /\ IsChange(s, i, c) =>
           IsChange(r, i, d)
  BY <1>19
<1>22. d.moveTo = IF x.kind = "move" THEN x.text ELSE c.moveTo
  BY <1>6, <1>8
<1> QED
  BY <1>6, <1>7, <1>20, <1>21, <1>22 DEF GrowsTo

\* The names.
Names(all, seen) ==
  /\ \A k, l \in 1..Len(all) : k # l => NamedBy(all[k]) \cap NamedBy(all[l]) = {}
  /\ \A k \in 1..Len(all) :
       all[k].path # all[k].moveTo /\ all[k].path # EmptyText /\ NamedBy(all[k]) \subseteq seen

LEMMA NamesNew ==
  ASSUME NEW o \in Seq(FileChanges), NEW seen, Names(o, seen), NEW kind, NEW w, w \notin seen, w # EmptyText
  PROVE  Names(Append(o, FileChange(kind, w)), seen \cup {w})
<1>1. PICK n \in Nat : n = Len(o)
  OBVIOUS
<1>2. PICK c : c = FileChange(kind, w)
  OBVIOUS
<1>3. c.path = w /\ c.moveTo = EmptyText /\ NamedBy(c) = {w}
  BY <1>2 DEF FileChange, NamedBy
<1>4. PICK u : u = Append(o, c)
  OBVIOUS
<1>5. Len(u) = n + 1 /\ u[n + 1] = c /\ \A l \in 1..n : u[l] = o[l]
  <2>1. Len(u) = Len(o) + 1 /\ u[Len(o) + 1] = c /\ \A l \in 1..Len(o) : u[l] = o[l]
    BY <1>4, AppendProperties
  <2> QED
    BY <1>1, <2>1
<1>6. \A k \in 1..(n + 1) : k = n + 1 \/ k \in 1..n
  OBVIOUS
<1>7. \A k \in 1..n : NamedBy(u[k]) \subseteq seen /\ u[k].path # u[k].moveTo /\ u[k].path # EmptyText
  BY <1>1, <1>5 DEF Names
<1>8. \A k, l \in 1..n : k # l => NamedBy(u[k]) \cap NamedBy(u[l]) = {}
  BY <1>1, <1>5 DEF Names
<1>9. \A k \in 1..n : NamedBy(u[k]) \cap NamedBy(c) = {}
  BY <1>3, <1>7
<1>10. \A k, l \in 1..(n + 1) : k # l => NamedBy(u[k]) \cap NamedBy(u[l]) = {}
  BY <1>5, <1>6, <1>8, <1>9
<1>11. \A k \in 1..(n + 1) : u[k].path # u[k].moveTo /\ u[k].path # EmptyText /\ NamedBy(u[k]) \subseteq seen \cup {w}
  BY <1>3, <1>5, <1>6, <1>7
<1> QED
  BY <1>2, <1>4, <1>5, <1>10, <1>11 DEF Names

LEMMA NamesLast ==
  ASSUME NEW o \in Seq(FileChanges), NEW c, NEW d, NEW seen, NEW new, Names(Append(o, c), seen),
         d.path = c.path, (d.moveTo = c.moveTo /\ new = {}) \/ (d.moveTo \notin seen /\ new = {d.moveTo})
  PROVE  Names(Append(o, d), seen \cup new)
<1>1. PICK n \in Nat : n = Len(o)
  OBVIOUS
<1>2. PICK u : u = Append(o, c)
  OBVIOUS
<1>3. PICK v : v = Append(o, d)
  OBVIOUS
<1>4. /\ Len(u) = n + 1 /\ u[n + 1] = c /\ \A l \in 1..n : u[l] = o[l]
      /\ Len(v) = n + 1 /\ v[n + 1] = d /\ \A l \in 1..n : v[l] = o[l]
  <2>1. Len(u) = Len(o) + 1 /\ u[Len(o) + 1] = c /\ \A l \in 1..Len(o) : u[l] = o[l]
    BY <1>2, AppendProperties
  <2>2. Len(v) = Len(o) + 1 /\ v[Len(o) + 1] = d /\ \A l \in 1..Len(o) : v[l] = o[l]
    BY <1>3, AppendProperties
  <2> QED
    BY <1>1, <2>1, <2>2
<1>5. \A k \in 1..(n + 1) : k = n + 1 \/ k \in 1..n
  OBVIOUS
<1>6. \A k \in 1..n : k \in 1..(n + 1) /\ k # n + 1 /\ n + 1 \in 1..(n + 1)
  OBVIOUS
<1>7. n + 1 \in 1..(n + 1)
  OBVIOUS
<1>8. \A k \in 1..(n + 1) : NamedBy(u[k]) \subseteq seen /\ u[k].path # u[k].moveTo /\ u[k].path # EmptyText
  BY <1>2, <1>4 DEF Names
<1>9. \A k, l \in 1..(n + 1) : k # l => NamedBy(u[k]) \cap NamedBy(u[l]) = {}
  BY <1>2, <1>4 DEF Names
<1>10. NamedBy(c) \subseteq seen /\ c.path # c.moveTo /\ c.path # EmptyText /\ c.path \in seen
  BY <1>4, <1>7, <1>8 DEF NamedBy
<1>11. NamedBy(d) \subseteq NamedBy(c) \cup new /\ new \cap seen = {} /\ d.path # d.moveTo /\ d.path # EmptyText
  BY <1>10 DEF NamedBy
<1>12. \A k \in 1..n : v[k] = u[k] /\ NamedBy(v[k]) \subseteq seen /\ NamedBy(v[k]) \cap NamedBy(c) = {}
  BY <1>4, <1>6, <1>8, <1>9
<1>13. \A k \in 1..n : NamedBy(v[k]) \cap NamedBy(d) = {}
  BY <1>11, <1>12
<1>14. \A k, l \in 1..n : k # l => NamedBy(v[k]) \cap NamedBy(v[l]) = {}
  BY <1>6, <1>9, <1>12
<1>15. \A k, l \in 1..(n + 1) : k # l => NamedBy(v[k]) \cap NamedBy(v[l]) = {}
  BY <1>4, <1>5, <1>13, <1>14
<1>16. \A k \in 1..(n + 1) : v[k].path # v[k].moveTo /\ v[k].path # EmptyText /\ NamedBy(v[k]) \subseteq seen \cup new
  BY <1>4, <1>5, <1>6, <1>8, <1>10, <1>11, <1>12
<1> QED
  BY <1>3, <1>4, <1>15, <1>16 DEF Names

\* What holds of the lines read and of what the parser knows.
Reads(lines, p) ==
  /\ ReadAs(lines, Whole(p)) /\ Counted(Whole(p)) = Cardinality(Signed(lines))
  /\ \A k \in 1..Len(Whole(p)) : KindOf(Whole(p)[k])
  /\ Names(Whole(p), p.seen) /\ p.seen \cap BadPaths = {} /\ EmptyText \notin p.seen
  /\ IF p.mode = "chunk" THEN HunkOpen(lines) ELSE HunksClosed(lines)
  /\ (p.mode = "add" => p.cur.kind = "add") /\ (p.mode \in {"update", "chunk"} => p.cur.kind = "update")

\* The last change grew.
LEMMA ReadsLast ==
  ASSUME NEW s \in Seq(Lines), NEW x \in Lines, NEW r, More(s, x, r), NEW p \in Parsers, NEW q \in Parsers, Reads(s, p),
         x.kind \notin FileHeaders, p.mode # "top", q.mode # "top", q.out = p.out,
         GrowsTo(s, r, x, Current(p), Current(q)),
         IF x.kind = "move" THEN IsNew(p, x) /\ q.seen = p.seen \cup {x.text} ELSE q.seen = p.seen,
         IF q.mode = "chunk" THEN HunkOpen(r) ELSE HunksClosed(r),
         (q.mode = "add" => q.cur.kind = "add") /\ (q.mode \in {"update", "chunk"} => q.cur.kind = "update")
  PROVE  Reads(r, q)
<1>1. PICK c \in FileChanges, d \in FileChanges : c = Current(p) /\ d = Current(q)
  BY CurrentIs
<1>2. PICK o \in Seq(FileChanges) : o = p.out
  BY DEF Parsers
<1>3. Whole(p) = Append(o, c) /\ Whole(q) = Append(o, d)
  BY <1>1, <1>2 DEF Whole
<1>4. GrowsTo(s, r, x, c, d)
  BY <1>1
<1>5. ReadAs(r, Append(o, d))
  <2>1. ReadAs(s, Append(o, c))
    BY <1>3 DEF Reads
  <2>2. \A i \in 1..Len(s) : Open(s, i, FileHeaders) /\ s[i].kind \in FileHeaders /\ IsChange(s, i, c) =>
            IsChange(r, i, d)
    BY <1>4 DEF GrowsTo
  <2> QED
    BY <2>1, <2>2, ReadLast
<1>6. Counted(Append(o, d)) = Cardinality(Signed(r))
  <2>1. PICK a \in Nat, b \in Nat, g \in Nat : a = Counted(o) /\ b = ChangedLines(c) /\ g = Cardinality(Signed(s))
    <3>1. Counted(o) \in Nat
      BY CountedMore
    <3>2. ChangedLines(c) \in Nat
      BY ChangedIs
    <3>3. Cardinality(Signed(s)) \in Nat
      BY SignedMore
    <3> QED
      BY <3>1, <3>2, <3>3
  <2>2. PICK v \in Nat : v = IF Counts(s, x) THEN 1 ELSE 0
    OBVIOUS
  <2>3. ChangedLines(d) = b + v
    BY <1>4, <2>1, <2>2 DEF GrowsTo
  <2>4. Counted(Append(o, c)) = a + b /\ Counted(Append(o, d)) = a + (b + v)
    BY <2>1, <2>3, CountedMore
  <2>5. a + b = g
    BY <1>3, <2>1, <2>4 DEF Reads
  <2>6. Cardinality(Signed(r)) = g + v
    BY <2>1, <2>2, SignedMore
  <2> QED
    BY <2>4, <2>5, <2>6
<1>7. PICK n \in Nat : n = Len(o)
  OBVIOUS
<1>8. PICK u : u = Append(o, c)
  OBVIOUS
<1>9. PICK v : v = Append(o, d)
  OBVIOUS
<1>10. /\ Len(u) = n + 1 /\ u[n + 1] = c /\ \A l \in 1..n : u[l] = o[l]
       /\ Len(v) = n + 1 /\ v[n + 1] = d /\ \A l \in 1..n : v[l] = o[l]
  <2>1. Len(u) = Len(o) + 1 /\ u[Len(o) + 1] = c /\ \A l \in 1..Len(o) : u[l] = o[l]
    BY <1>8, AppendProperties
  <2>2. Len(v) = Len(o) + 1 /\ v[Len(o) + 1] = d /\ \A l \in 1..Len(o) : v[l] = o[l]
    BY <1>9, AppendProperties
  <2> QED
    BY <1>7, <2>1, <2>2
<1>11. \A k \in 1..(n + 1) : KindOf(u[k])
  BY <1>3, <1>8, <1>10 DEF Reads
<1>12. KindOf(d)
  <2>1. KindOf(c)
    BY <1>7, <1>10, <1>11
  <2> QED
    BY <1>4, <2>1 DEF GrowsTo
<1>13. \A k \in 1..(n + 1) : KindOf(v[k])
  BY <1>10, <1>11, <1>12
<1>14. PICK new : new = IF x.kind = "move" THEN {x.text} ELSE {}
  OBVIOUS
<1>15. q.seen = p.seen \cup new
  BY <1>14
<1>16. d.path = c.path /\ ((d.moveTo = c.moveTo /\ new = {}) \/ (d.moveTo \notin p.seen /\ new = {d.moveTo}))
  BY <1>4, <1>14 DEF GrowsTo, IsNew
<1>17. Names(Append(o, d), p.seen \cup new)
  <2>1. Names(Append(o, c), p.seen)
    BY <1>3 DEF Reads
  <2> QED
    BY <1>16, <2>1, NamesLast
<1>18. q.seen \cap BadPaths = {} /\ EmptyText \notin q.seen
  BY <1>14, <1>15 DEF Reads, IsNew
<1>19. \A k \in 1..Len(Whole(q)) : KindOf(Whole(q)[k])
  BY <1>3, <1>9, <1>10, <1>13
<1>20. ReadAs(r, Whole(q)) /\ Counted(Whole(q)) = Cardinality(Signed(r)) /\ Names(Whole(q), q.seen)
  BY <1>3, <1>5, <1>6, <1>15, <1>17
<1> QED
  BY <1>18, <1>19, <1>20 DEF Reads

\* One line keeps it.
LEMMA ReadsKept ==
  ASSUME NEW s \in Seq(Lines), NEW x \in Lines, NEW r, More(s, x, r), NEW p \in Parsers, NEW q \in Parsers,
         Reads(s, p), Does(p, x, q)
  PROVE  Reads(r, q)
<1>1. p.cur \in FileChanges /\ p.chunk \in Chunks /\ p.out \in Seq(FileChanges)
  BY DEF Parsers
<1>2. CASE Skips(p, x, q)
  <2>1. q = p /\ x.kind = "blank" /\ p.mode # "chunk"
    BY <1>2 DEF Skips
  <2>2. HunksClosed(s) /\ ReadAs(s, Whole(p))
    BY <2>1 DEF Reads
  <2>3. ReadAs(r, Whole(p))
    BY <2>1, <2>2, ReadSame
  <2>4. HunksClosed(r)
    BY <2>1, <2>2, HunksMore
  <2>5. ~ Counts(s, x)
    BY <2>1, <2>2 DEF Counts, HunkOpen, HunksClosed
  <2>6. Cardinality(Signed(r)) = Cardinality(Signed(s))
    BY <2>5, SignedMore
  <2> QED
    BY <2>1, <2>3, <2>4, <2>6 DEF Reads
<1>3. CASE Heads(p, x, q)
  <2>1. x.kind \in FileHeaders /\ x.kind \in PathKinds /\ x.kind # "at" /\ x.kind \in HunkEnds
    BY <1>3 DEF Heads, PathKinds, HunkEnds, FileHeaders
  <2>2. /\ x.text \in PathTexts /\ x.text # EmptyText /\ x.text \notin p.seen /\ x.text \notin BadPaths
        /\ q.seen = p.seen \cup {x.text}
    BY <1>3 DEF Heads, IsNew
  <2>3. PICK o \in Seq(FileChanges) : o = Whole(p)
    BY CurrentIs
  <2>4. PICK c \in FileChanges : c = FileChange(x.kind, x.text)
    BY <2>1, <2>2, FileChangeIs
  <2>5. Whole(q) = Append(o, c)
    BY <1>3, <2>3, <2>4 DEF Heads
  <2>6. ReadAs(r, Append(o, c))
    <3>1. ReadAs(s, o)
      BY <2>3 DEF Reads
    <3> QED
      BY <2>1, <2>4, <3>1, ReadNew
  <2>7. c.kind = x.kind /\ c.addLines = <<>> /\ c.chunks = <<>>
    BY <2>4 DEF FileChange
  <2>8. Counted(Append(o, c)) = Cardinality(Signed(r))
    <3>1. PICK v \in Nat : v = IF Counts(s, x) THEN 1 ELSE 0
      OBVIOUS
    <3>2. v = IF x.kind = "delete" THEN 1 ELSE 0
      BY <2>1, <3>1 DEF Counts, FileHeaders
    <3>3. ChangedLines(c) = 0 + 0 + v
      BY <2>7, <3>2, SignsNone DEF ChangedLines
    <3>4. PICK a \in Nat, g \in Nat : a = Counted(o) /\ g = Cardinality(Signed(s))
      <4>1. Counted(o) \in Nat
        BY CountedMore
      <4>2. Cardinality(Signed(s)) \in Nat
        BY SignedMore
      <4> QED
        BY <4>1, <4>2
    <3>5. Counted(Append(o, c)) = a + v
      <4>1. Counted(Append(o, c)) = Counted(o) + ChangedLines(c)
        BY CountedMore
      <4> QED
        BY <3>3, <3>4, <4>1
    <3>6. Cardinality(Signed(r)) = g + v
      BY <3>1, <3>4, SignedMore
    <3>7. a = g
      BY <2>3, <3>4 DEF Reads
    <3> QED
      BY <3>5, <3>6, <3>7
  <2>9. \A k \in 1..Len(Append(o, c)) : KindOf(Append(o, c)[k])
    <3>1. PICK n \in Nat : n = Len(o)
      OBVIOUS
    <3>2. PICK u : u = Append(o, c)
      OBVIOUS
    <3>3. Len(u) = n + 1 /\ u[n + 1] = c /\ \A l \in 1..n : u[l] = o[l]
      <4>1. Len(u) = Len(o) + 1 /\ u[Len(o) + 1] = c /\ \A l \in 1..Len(o) : u[l] = o[l]
        BY <3>2, AppendProperties
      <4> QED
        BY <3>1, <4>1
    <3>4. \A k \in 1..n : KindOf(o[k])
      BY <2>3, <3>1 DEF Reads
    <3>5. KindOf(c)
      BY <2>7 DEF KindOf
    <3>6. \A k \in 1..(n + 1) : k = n + 1 \/ k \in 1..n
      OBVIOUS
    <3> QED
      BY <3>2, <3>3, <3>4, <3>5, <3>6
  <2>10. Names(Append(o, c), q.seen)
    <3>1. Names(o, p.seen)
      BY <2>3 DEF Reads
    <3> QED
      BY <2>2, <2>4, <3>1, NamesNew
  <2>11. q.seen \cap BadPaths = {} /\ EmptyText \notin q.seen
    BY <2>2 DEF Reads
  <2>12. q.mode \in {"top", "add", "update"} /\ (q.mode # "top" => q.mode = x.kind /\ q.cur = c)
    BY <1>3, <2>4 DEF Heads, FileHeaders
  <2>13. HunksClosed(r)
    BY <2>1, HunksMore
  <2> QED
    BY <2>5, <2>6, <2>7, <2>8, <2>9, <2>10, <2>11, <2>12, <2>13 DEF Reads
<1>4. CASE Pluses(p, x, q)
  <2>1. x.kind = "plus" /\ p.mode = "add" /\ q.mode = "add" /\ q.out = p.out /\ q.seen = p.seen
        /\ q.cur = [p.cur EXCEPT !.addLines = Append(@, x.text)]
    BY <1>4 DEF Pluses
  <2>2. Current(p) = p.cur /\ Current(q) = q.cur
    BY <2>1 DEF Current
  <2>3. HunksClosed(s) /\ p.cur.kind = "add"
    BY <2>1 DEF Reads
  <2>4. GrowsTo(s, r, x, Current(p), Current(q))
    BY <1>1, <2>1, <2>2, <2>3, PlusGrows
  <2>5. x.kind \notin FileHeaders /\ x.kind # "move" /\ x.kind # "at"
    BY <2>1 DEF FileHeaders
  <2>6. HunksClosed(r)
    BY <2>3, <2>5, HunksMore
  <2>7. q.cur.kind = "add"
    BY <2>2, <2>3, <2>4 DEF GrowsTo
  <2>8. p.mode # "top" /\ q.mode # "top"
    BY <2>1
  <2>9. IF x.kind = "move" THEN IsNew(p, x) /\ q.seen = p.seen \cup {x.text} ELSE q.seen = p.seen
    BY <2>1
  <2>10. IF q.mode = "chunk" THEN HunkOpen(r) ELSE HunksClosed(r)
    BY <2>1, <2>6, <2>7
  <2>11. (q.mode = "add" => q.cur.kind = "add") /\ (q.mode \in {"update", "chunk"} => q.cur.kind = "update")
    BY <2>1, <2>6, <2>7
  <2>12. q.out = p.out
    BY <2>1
  <2> QED
    BY ZenonT(40), <2>4, <2>5, <2>8, <2>9, <2>10, <2>11, <2>12, ReadsLast
<1>5. CASE Renames(p, x, q)
  <2>1. /\ x.kind = "move" /\ p.mode \in {"update", "chunk"} /\ IsNew(p, x) /\ q.seen = p.seen \cup {x.text}
        /\ q.mode = "update" /\ q.out = p.out /\ q.cur = [Current(p) EXCEPT !.moveTo = x.text]
    BY <1>5 DEF Renames
  <2>2. Current(q) = q.cur /\ Current(p) \in FileChanges
    BY <2>1, CurrentIs DEF Current
  <2>3. Current(p).kind = "update"
    BY <1>1, <2>1 DEF Reads, Current, FileChanges
  <2>4. GrowsTo(s, r, x, Current(p), Current(q))
    BY <2>1, <2>2, MoveGrows
  <2>5. x.kind \notin FileHeaders /\ x.kind # "at" /\ x.kind \in HunkEnds
    BY <2>1 DEF FileHeaders, HunkEnds, PathKinds
  <2>6. HunksClosed(r)
    BY <2>5, HunksMore
  <2>7. q.cur.kind = "update"
    BY <2>2, <2>3, <2>4 DEF GrowsTo
  <2>8. p.mode # "top" /\ q.mode # "top"
    BY <2>1
  <2>9. IF x.kind = "move" THEN IsNew(p, x) /\ q.seen = p.seen \cup {x.text} ELSE q.seen = p.seen
    BY <2>1
  <2>10. IF q.mode = "chunk" THEN HunkOpen(r) ELSE HunksClosed(r)
    BY <2>1, <2>6, <2>7
  <2>11. (q.mode = "add" => q.cur.kind = "add") /\ (q.mode \in {"update", "chunk"} => q.cur.kind = "update")
    BY <2>1, <2>6, <2>7
  <2>12. q.out = p.out
    BY <2>1
  <2> QED
    BY ZenonT(40), <2>4, <2>5, <2>8, <2>9, <2>10, <2>11, <2>12, ReadsLast
<1>6. CASE Starts(p, x, q)
  <2>1. /\ x.kind = "at" /\ p.mode \in {"update", "chunk"} /\ q.seen = p.seen
        /\ q.mode = "chunk" /\ q.out = p.out /\ q.cur = Current(p) /\ q.chunk = Chunk(x.text)
    BY <1>6 DEF Starts
  <2>2. Current(p) \in FileChanges
    BY CurrentIs
  <2>3. Current(p).kind = "update"
    BY <1>1, <2>1 DEF Reads, Current, FileChanges
  <2>4. Current(q) = [Current(p) EXCEPT !.chunks = Append(@, Chunk(x.text))]
    BY <2>1 DEF Current
  <2>5. GrowsTo(s, r, x, Current(p), Current(q))
    BY <2>1, <2>2, <2>3, <2>4, HunkGrows
  <2>6. x.kind \notin FileHeaders /\ x.kind # "move"
    BY <2>1 DEF FileHeaders
  <2>7. HunkOpen(r)
    BY <2>1, HunksMore
  <2>8. p.mode # "top" /\ q.mode # "top" /\ q.cur.kind = "update"
    BY <2>1, <2>3
  <2>9. IF x.kind = "move" THEN IsNew(p, x) /\ q.seen = p.seen \cup {x.text} ELSE q.seen = p.seen
    BY <2>1
  <2>10. IF q.mode = "chunk" THEN HunkOpen(r) ELSE HunksClosed(r)
    BY <2>1, <2>7, <2>8
  <2>11. (q.mode = "add" => q.cur.kind = "add") /\ (q.mode \in {"update", "chunk"} => q.cur.kind = "update")
    BY <2>1, <2>7, <2>8
  <2>12. q.out = p.out
    BY <2>1
  <2> QED
    BY ZenonT(40), <2>5, <2>6, <2>8, <2>9, <2>10, <2>11, <2>12, ReadsLast
<1>7. CASE Lengthens(p, x, q)
  <2>1. /\ x.kind \in ChangeKinds \cup {"blank"} /\ p.mode = "chunk" /\ q.mode = "chunk" /\ q.seen = p.seen
        /\ q.out = p.out /\ q.cur = p.cur /\ q.chunk = HunkLine(p.chunk, x)
    BY <1>7 DEF Lengthens
  <2>2. HunkOpen(s) /\ p.cur.kind = "update"
    BY <2>1 DEF Reads
  <2>3. /\ Current(p) = [p.cur EXCEPT !.chunks = Append(@, p.chunk)]
        /\ Current(q) = [p.cur EXCEPT !.chunks = Append(@, HunkLine(p.chunk, x))]
    BY <2>1 DEF Current
  <2>4. GrowsTo(s, r, x, Current(p), Current(q))
    BY <1>1, <2>1, <2>2, <2>3, LineGrows
  <2>5. x.kind \notin FileHeaders /\ x.kind # "move" /\ x.kind \notin HunkEnds
    BY <2>1 DEF FileHeaders, HunkEnds, PathKinds, ChangeKinds
  <2>6. HunkOpen(r)
    BY <2>2, <2>5, HunksMore
  <2>7. p.mode # "top" /\ q.mode # "top"
    BY <2>1
  <2>9. IF x.kind = "move" THEN IsNew(p, x) /\ q.seen = p.seen \cup {x.text} ELSE q.seen = p.seen
    BY <2>1, <2>5
  <2>10. IF q.mode = "chunk" THEN HunkOpen(r) ELSE HunksClosed(r)
    BY <2>1, <2>2, <2>6
  <2>11. (q.mode = "add" => q.cur.kind = "add") /\ (q.mode \in {"update", "chunk"} => q.cur.kind = "update")
    BY <2>1, <2>2, <2>6
  <2>12. q.out = p.out
    BY <2>1
  <2> QED
    BY ZenonT(40), <2>4, <2>5, <2>7, <2>9, <2>10, <2>11, <2>12, ReadsLast
<1> QED
  BY <1>2, <1>3, <1>4, <1>5, <1>6, <1>7 DEF Does

LEMMA ReadsStart == StartParse \in Parsers /\ Reads(<<>>, StartParse)
<1>1. FileChange("add", EmptyText) \in FileChanges /\ Chunk(EmptyText) \in Chunks
  <2>1. EmptyText \in PathTexts /\ EmptyText \in Words /\ "add" \in FileHeaders
    BY DEF PathTexts, Words, FileHeaders
  <2> QED
    BY <2>1, FileChangeIs, ChunkIs
<1>2. StartParse \in Parsers
  <2>1. <<>> \in Seq(FileChanges)
    OBVIOUS
  <2> QED
    BY <1>1, <2>1 DEF StartParse, Parsers
<1>3. Whole(StartParse) = <<>> /\ StartParse.seen = {} /\ StartParse.mode = "top"
  BY DEF StartParse, Whole
<1>4. \A kinds : LinesOf(<<>>, kinds) = {}
  BY DEF LinesOf
<1>5. ReadAs(<<>>, <<>>)
  BY <1>4, FS_EmptySet DEF ReadAs
<1>6. Signed(<<>>) = {}
  BY <1>4 DEF Signed
<1>7. Counted(<<>>) = 0
  <2>1. [k \in 1..Len(<<>>) |-> ChangedLines(<<>>[k])] = <<>>
    OBVIOUS
  <2> QED
    BY <2>1, TotalNone DEF Counted
<1>8. Names(<<>>, {})
  BY DEF Names
<1>9. HunksClosed(<<>>)
  BY <1>4 DEF HunksClosed
<1>10. Cardinality({}) = 0
  BY FS_EmptySet
<1>11. \A k \in 1..Len(<<>>) : KindOf(<<>>[k])
  OBVIOUS
<1> QED
  BY <1>2, <1>3, <1>5, <1>6, <1>7, <1>8, <1>9, <1>10, <1>11 DEF Reads

\* The inductive invariant: a text that was not refused is read as it is written.
PatchInv == fed \in Seq(Lines) /\ parser \in Parsers /\ (parser.mode # "error" => Reads(fed, parser))

LEMMA PatchInvInit == PtInit => PatchInv
<1>1. <<>> \in Seq(Lines)
  OBVIOUS
<1> QED
  BY <1>1, ReadsStart DEF PtInit, PatchInv

LEMMA PatchInvNext == PatchInv /\ [PtNext]_ptVars => PatchInv'
<1>1. CASE PtNext /\ PatchInv
  <2>1. PICK x \in Lines : Feed(x)
    BY <1>1 DEF PtNext
  <2>2. PICK s \in Seq(Lines), p \in Parsers : s = fed /\ p = parser /\ p.mode # "error" /\ Reads(s, p)
    BY <1>1, <2>1 DEF Feed, PatchInv
  <2>3. PICK r \in Seq(Lines) : r = Append(s, x)
    BY AppendProperties
  <2>4. More(s, x, r)
    BY <2>3, AppendProperties DEF More
  <2>5. PICK q : q = ParseLine(p, x)
    OBVIOUS
  <2>6. q \in Parsers /\ (q.mode # "error" => Does(p, x, q))
    BY <2>2, <2>5, ParseLineIs
  <2>7. q.mode # "error" => Reads(r, q)
    BY <2>2, <2>4, <2>6, ReadsKept
  <2>8. fed' = r /\ parser' = q
    BY <2>1, <2>2, <2>3, <2>5 DEF Feed
  <2> QED
    BY <2>6, <2>7, <2>8 DEF PatchInv
<1>2. CASE UNCHANGED ptVars /\ PatchInv
  BY <1>2 DEF ptVars, PatchInv
<1> QED
  BY <1>1, <1>2

LEMMA PatchInvGives == PatchInv => PatchTextInv
<1> SUFFICES ASSUME PatchInv PROVE PatchTextInv
  OBVIOUS
<1>1. HunkPlaced
  BY HunksPlaced DEF PatchInv
<1>2. CASE ~ Accepted
  BY <1>1, <1>2 DEF PatchTextInv, ParsedAsWritten, CountsSigns, NamedOnce
<1>3. CASE Accepted
  <2>1. parser.mode # "error"
    <3>1. CASE parser.mode = "error"
      <4>1. ParseResult = parser
        BY <3>1 DEF ParseResult, EndParse
      <4> QED
        BY <1>3, <3>1, <4>1 DEF Accepted
    <3> QED
      BY <3>1
  <2>2. Reads(fed, parser) /\ parser \in Parsers
    BY <2>1 DEF PatchInv
  <2>3. PICK o \in Seq(FileChanges) : o = Whole(parser) /\ o = ParseResult.out
    BY <2>1, <2>2, CurrentIs, ResultIs
  <2>4. ParsedAsWritten
    BY <2>2, <2>3 DEF Reads, ParsedAsWritten
  <2>5. CountsSigns
    <3>1. CountChangedLines = Cardinality(Signed(fed))
      BY <2>2, <2>3 DEF Reads, CountChangedLines, Counted
    <3>2. PICK n \in Nat : n = Len(o)
      OBVIOUS
    <3>3. PICK st : st = FileLineStats
      OBVIOUS
    <3>4. st = [k \in 1..n |-> FileLineStat(o[k])] /\ Len(st) = n
      BY <2>3, <3>2, <3>3 DEF FileLineStats
    <3>5. \A k \in 1..n : st[k].added + st[k].removed = ChangedLines(o[k])
      <4>1. \A k \in 1..n : o[k] \in FileChanges /\ KindOf(o[k])
        BY <2>2, <2>3, <3>2, ElementOfSeq DEF Reads
      <4> QED
        BY <3>4, <4>1, StatIs
    <3>6. [k \in 1..Len(st) |-> st[k].added + st[k].removed] = [k \in 1..n |-> ChangedLines(o[k])]
      BY <3>4, <3>5
    <3>7. CountChangedLines = Total([k \in 1..Len(st) |-> st[k].added + st[k].removed])
      BY <2>3, <3>2, <3>6 DEF CountChangedLines
    <3> QED
      BY <3>1, <3>3, <3>7 DEF CountsSigns
  <2>6. NamedOnce
    <3>1. Names(o, parser.seen) /\ parser.seen \cap BadPaths = {}
      BY <2>2, <2>3 DEF Reads
    <3>2. ToSet(o) = {o[k] : k \in 1..Len(o)}
      BY DEF ToSet
    <3>3. PatchPaths \subseteq parser.seen
      <4>1. \A c \in ToSet(o) : {c.path, c.moveTo} \ {EmptyText} \subseteq parser.seen
        BY <3>1, <3>2 DEF Names, NamedBy
      <4>2. PICK all : all = ToSet(o)
        OBVIOUS
      <4>3. PatchPaths = (UNION {{c.path, c.moveTo} : c \in all}) \ {EmptyText}
        BY <2>3, <4>2 DEF PatchPaths
      <4>4. ASSUME NEW w \in PatchPaths PROVE w \in parser.seen
        <5>1. w # EmptyText /\ \E c \in all : w \in {c.path, c.moveTo}
          BY <4>3
        <5> QED
          BY <4>1, <4>2, <5>1
      <4> QED
        BY <4>4
    <3>4. RequiredReadPaths \subseteq PatchPaths
      <4>1. \A c \in ToSet(o) : c.path # EmptyText
        BY <3>1, <3>2 DEF Names
      <4>2. PICK all : all = ToSet(o)
        OBVIOUS
      <4>3. PatchPaths = (UNION {{c.path, c.moveTo} : c \in all}) \ {EmptyText}
        BY <2>3, <4>2 DEF PatchPaths
      <4>4. RequiredReadPaths = {c.path : c \in {d \in all : d.kind # "add"}}
        BY <2>3, <4>2 DEF RequiredReadPaths
      <4>5. ASSUME NEW w \in RequiredReadPaths PROVE w \in PatchPaths
        <5>1. PICK c \in all : w = c.path
          BY <4>4
        <5> QED
          BY <4>1, <4>2, <4>3, <5>1
      <4> QED
        BY <4>5
    <3>5. /\ \A k, l \in 1..Len(o) : k # l => NamedBy(o[k]) \cap NamedBy(o[l]) = {}
          /\ \A k \in 1..Len(o) : o[k].path # o[k].moveTo
      BY <3>1 DEF Names
    <3> QED
      BY <2>3, <3>1, <3>3, <3>4, <3>5 DEF NamedOnce
  <2> QED
    BY <1>1, <2>4, <2>5, <2>6 DEF PatchTextInv
<1> QED
  BY <1>2, <1>3

\* What the parser accepts is what the text says, and a hunk goes where its lines are.
THEOREM PatchTextHolds == PtSpec => []PatchTextInv
<1>1. PatchInv /\ [PtNext]_ptVars => PatchInv'
  BY PatchInvNext
<1> QED
  BY <1>1, PatchInvInit, PatchInvGives, PTL DEF PtSpec

(***************************************************************************)
(* ToolBatches.                                                            *)
(***************************************************************************)

USE ToolBatchesAssumption DEF ToolBatchesAssumption

(***************************************************************************)
(* Types.                                                                  *)
(***************************************************************************)

\* An answer is a sequence of at least one and at most MaxCalls calls.
LEMMA AnswerSeq ==
  ASSUME NEW cs \in Answers
  PROVE  /\ cs \in Seq(Calls) /\ Len(cs) \in 1..MaxCalls
         /\ DOMAIN cs = 1..Len(cs) /\ \A i \in DOMAIN cs : cs[i] \in Calls
<1>1. PICK n \in 1..MaxCalls : cs \in [1..n -> Calls]
  BY DEF Answers
<1> QED
  BY <1>1

\* What the types say of the calls and of the batch.
CallFacts ==
  /\ DOMAIN calls = 1..Len(calls) /\ Len(calls) \in 0..MaxCalls
  /\ \A i \in DOMAIN calls :
       i \in Ids /\ calls[i] \in Calls /\ calls[i].path \in Paths /\ calls[i].kind \in {"read", "patch"}
  /\ \A k \in Batch : k \in DOMAIN calls

LEMMA CallsTyped == TypeBatch => CallFacts
<1> SUFFICES ASSUME TypeBatch
             PROVE  CallFacts
  OBVIOUS
<1>1. CASE calls = <<>>
  BY <1>1 DEF CallFacts, Batch, partitionToolCalls, TypeBatch
<1>2. CASE calls \in Answers
  <2>1. /\ Len(calls) \in 1..MaxCalls /\ DOMAIN calls = 1..Len(calls)
        /\ \A i \in DOMAIN calls : calls[i] \in Calls
    BY <1>2, AnswerSeq
  <2>2. \A i \in DOMAIN calls : calls[i].path \in Paths /\ calls[i].kind \in {"read", "patch"}
    BY <2>1 DEF Calls
  <2>3. \A k \in Batch : k \in DOMAIN calls
    BY <2>1 DEF Batch, partitionToolCalls, TypeBatch
  <2> QED
    BY <2>1, <2>2, <2>3 DEF CallFacts, Ids
<1> QED
  BY <1>1, <1>2 DEF TypeBatch

\* Control variables keep to their types.
LEMMA ControlStep == TypeControl /\ Positions /\ [Next]_vars => TypeControl'
<1> SUFFICES ASSUME TypeControl, Positions, [Next]_vars
             PROVE  TypeControl'
  OBVIOUS
<1> USE DEF TypeControl, Positions, InBatch, gateVars, runFrame, taskFrame
<1>1. CASE BeginTurn
  BY <1>1 DEF BeginTurn
<1>2. CASE Finish
  <2>1. round' \in 0..MaxRounds
    BY <1>2 DEF Finish, Stop
  <2>2. restarts' \in 0..MaxRestarts /\ turn' \in 0..MaxTurns
    BY <1>2 DEF Finish, Stop
  <2>3. /\ pc' = "idle" /\ cancelled' \in BOOLEAN
        /\ hydrated' \in BOOLEAN /\ hydrateFailed' \in BOOLEAN
    BY <1>2, Zenon DEF Finish, Stop
  <2> QED
    BY <2>1, <2>2, <2>3
<1>3. CASE Answer
  BY <1>3 DEF Answer, ensureReadPaths
<1>4. CASE StartRows
  BY <1>4 DEF StartRows
<1>5. CASE Execute
  BY <1>5 DEF Execute
<1>6. CASE Spawn
  BY <1>6 DEF Spawn
<1>7. CASE Wait
  BY <1>7 DEF Wait
<1>8. CASE StoreInline
  BY <1>8 DEF StoreInline, Persist
<1>9. CASE Collect
  BY <1>9 DEF Collect, Persist
<1>10. CASE EndRows
  BY <1>10 DEF EndRows
<1>11. CASE RoundDone
  BY <1>11 DEF RoundDone
<1>12. CASE StopCancelled
  <2>1. round' \in 0..MaxRounds
    BY <1>12 DEF StopCancelled, Stop
  <2>2. restarts' \in 0..MaxRestarts /\ turn' \in 0..MaxTurns
    BY <1>12 DEF StopCancelled, Stop
  <2>3. /\ pc' = "idle" /\ cancelled' \in BOOLEAN
        /\ hydrated' \in BOOLEAN /\ hydrateFailed' \in BOOLEAN
    BY <1>12, Zenon DEF StopCancelled, Stop
  <2> QED
    BY <2>1, <2>2, <2>3
<1>13. CASE StoreFail
  <2>1. round' \in 0..MaxRounds
    BY <1>13 DEF StoreFail, Stop
  <2>2. restarts' \in 0..MaxRestarts /\ turn' \in 0..MaxTurns
    BY <1>13 DEF StoreFail, Stop
  <2>3. /\ pc' = "idle" /\ cancelled' \in BOOLEAN
        /\ hydrated' \in BOOLEAN /\ hydrateFailed' \in BOOLEAN
    BY <1>13, Zenon DEF StoreFail, Stop
  <2> QED
    BY <2>1, <2>2, <2>3
<1>14. CASE Cancel
  BY <1>14 DEF Cancel
<1>15. CASE Restart
  <2>1. round' \in 0..MaxRounds
    BY <1>15 DEF Restart
  <2>2. restarts' \in 0..MaxRestarts /\ turn' \in 0..MaxTurns
    BY <1>15 DEF Restart
  <2>3. /\ pc' = "idle" /\ cancelled' \in BOOLEAN
        /\ hydrated' \in BOOLEAN /\ hydrateFailed' \in BOOLEAN
    BY <1>15, Zenon DEF Restart
  <2> QED
    BY <2>1, <2>2, <2>3
<1>16. ASSUME NEW i \in Ids, Task(i) PROVE TypeControl'
  <2>1. CASE Acquire(i)
    BY <2>1 DEF Acquire
  <2>2. CASE executeTool(i)
    BY <2>2 DEF executeTool, Read, Patch, Fail, MarkPath
  <2> QED
    BY <1>16, <2>1, <2>2 DEF Task
<1>17. ASSUME NEW s \in strays, StrayEnds(s) PROVE TypeControl'
  BY <1>17 DEF StrayEnds, MarkPath
<1>18. CASE UNCHANGED vars
  BY <1>18 DEF vars
<1> QED
  BY <1>1, <1>2, <1>3, <1>4, <1>5, <1>6, <1>7, <1>8, <1>9, <1>10, <1>11, <1>12,
     <1>13, <1>14, <1>15, <1>16, <1>17, <1>18 DEF Next, Turn

\* The answer and the positions in it keep to their types.
LEMMA BatchStep == TypeBatch /\ Positions /\ [Next]_vars => TypeBatch'
<1> SUFFICES ASSUME TypeBatch, Positions, [Next]_vars
             PROVE  TypeBatch'
  OBVIOUS
<1>0. CallFacts
  BY CallsTyped
<1> USE DEF TypeBatch, Positions, InBatch, AtEnd, roundVars, gateVars, readHistory, runFrame, taskFrame
<1>1. CASE BeginTurn
  BY <1>1 DEF BeginTurn
<1>2. CASE Finish
  BY <1>2 DEF Finish, Stop, NoRound
<1>3. CASE Answer
  BY <1>3 DEF Answer, ensureReadPaths
<1>4. CASE StartRows
  BY <1>4 DEF StartRows
<1>5. CASE Execute
  BY <1>5 DEF Execute
<1>6. CASE Spawn
  BY <1>6, <1>0 DEF Spawn, CallFacts, Ids
<1>7. CASE Wait
  BY <1>7 DEF Wait
<1>8. CASE StoreInline
  BY <1>8, <1>0 DEF StoreInline, Persist, CallFacts, Ids
<1>9. CASE Collect
  BY <1>9, <1>0 DEF Collect, Persist, CallFacts, Ids
<1>10. CASE EndRows
  BY <1>10, <1>0 DEF EndRows, CallFacts, Ids
<1>11. CASE RoundDone
  BY <1>11 DEF RoundDone
<1>12. CASE StopCancelled
  BY <1>12 DEF StopCancelled, Stop, NoRound
<1>13. CASE StoreFail
  BY <1>13 DEF StoreFail, Stop, NoRound
<1>14. CASE Cancel
  BY <1>14 DEF Cancel
<1>15. CASE Restart
  BY <1>15 DEF Restart, NoRound
<1>16. ASSUME NEW i \in Ids, Task(i) PROVE TypeBatch'
  <2>1. CASE Acquire(i)
    BY <2>1 DEF Acquire
  <2>2. CASE executeTool(i)
    BY <2>2 DEF executeTool, Read, Patch, Fail, MarkPath
  <2> QED
    BY <1>16, <2>1, <2>2 DEF Task
<1>17. ASSUME NEW s \in strays, StrayEnds(s) PROVE TypeBatch'
  BY <1>17 DEF StrayEnds, MarkPath
<1>18. CASE UNCHANGED vars
  BY <1>18 DEF vars
<1> QED
  BY <1>1, <1>2, <1>3, <1>4, <1>5, <1>6, <1>7, <1>8, <1>9, <1>10, <1>11, <1>12,
     <1>13, <1>14, <1>15, <1>16, <1>17, <1>18 DEF Next, Turn

\* What the gate knows are paths.
LEMMA ReadsStep == TypeReads /\ TypeBatch /\ TypeTasks /\ Positions /\ [Next]_vars => TypeReads'
<1> SUFFICES ASSUME TypeReads, TypeBatch, TypeTasks, Positions, [Next]_vars
             PROVE  TypeReads'
  OBVIOUS
<1>0. CallFacts
  BY CallsTyped
<1> USE DEF TypeReads, roundVars, gateVars, readHistory, runFrame, taskFrame
<1>1. CASE BeginTurn
  BY <1>1 DEF BeginTurn
<1>2. CASE Finish
  BY <1>2 DEF Finish, Stop
<1>3. CASE Answer
  BY <1>3 DEF Answer, ensureReadPaths
<1>4. CASE StartRows
  BY <1>4 DEF StartRows
<1>5. CASE Execute
  BY <1>5 DEF Execute
<1>6. CASE Spawn
  BY <1>6 DEF Spawn
<1>7. CASE Wait
  BY <1>7 DEF Wait
<1>8. CASE StoreInline
  <2>1. next \in DOMAIN calls
    BY <1>8 DEF StoreInline, Positions, InBatch
  <2> QED
    BY <1>8, <1>0, <2>1 DEF StoreInline, Persist, CallFacts
<1>9. CASE Collect
  <2>1. next \in DOMAIN calls
    BY <1>9, <1>0 DEF Collect, AtEnd, CallFacts
  <2> QED
    BY <1>9, <1>0, <2>1 DEF Collect, Persist, CallFacts
<1>10. CASE EndRows
  BY <1>10 DEF EndRows
<1>11. CASE RoundDone
  BY <1>11 DEF RoundDone
<1>12. CASE StopCancelled
  BY <1>12 DEF StopCancelled, Stop
<1>13. CASE StoreFail
  BY <1>13 DEF StoreFail, Stop
<1>14. CASE Cancel
  BY <1>14 DEF Cancel
<1>15. CASE Restart
  BY <1>15 DEF Restart
<1>16. ASSUME NEW i \in Ids, Task(i) PROVE TypeReads'
  <2>1. CASE Acquire(i)
    BY <2>1 DEF Acquire
  <2>2. CASE executeTool(i)
    <3>1. calls[i].path \in Paths
      BY <2>2, <1>0 DEF executeTool, Running, Positions, CallFacts
    <3> QED
      BY <2>2, <3>1 DEF executeTool, Read, Patch, Fail, MarkPath
  <2> QED
    BY <1>16, <2>1, <2>2 DEF Task
<1>17. ASSUME NEW s \in strays, StrayEnds(s) PROVE TypeReads'
  <2>1. s.call.path \in Paths
    BY DEF TypeTasks, Calls
  <2> QED
    BY <1>17, <2>1 DEF StrayEnds, MarkPath
<1>18. CASE UNCHANGED vars
  BY <1>18 DEF vars
<1> QED
  BY <1>1, <1>2, <1>3, <1>4, <1>5, <1>6, <1>7, <1>8, <1>9, <1>10, <1>11, <1>12,
     <1>13, <1>14, <1>15, <1>16, <1>17, <1>18 DEF Next, Turn

\* What a stopped turn leaves behind are calls.
LEMMA StopTasks ==
  TypeControl /\ TypeBatch /\ TypeTasks /\ Positions /\ pc # "idle" /\ Stop => TypeTasks'
<1> SUFFICES ASSUME TypeControl, TypeBatch, TypeTasks, Positions, pc # "idle", Stop
             PROVE  TypeTasks'
  OBVIOUS
<1>0. CallFacts
  BY CallsTyped
<1>1. turn \in 1..MaxTurns
  BY DEF TypeControl, Positions
<1>2. \A i \in Running : i \in Ids /\ calls[i] \in Calls
  BY <1>0 DEF Running, Positions, CallFacts
<1>3. {[turn |-> turn, id |-> i, call |-> calls[i]] : i \in Running}
        \subseteq [turn : 1..MaxTurns, id : Ids, call : Calls]
  BY <1>1, <1>2
<1>4. strays' \subseteq [turn : 1..MaxTurns, id : Ids, call : Calls]
  BY <1>3, Zenon DEF Stop, TypeTasks
<1>5. task' \in [Ids -> States] /\ stored' \in Seq(Ids \X States)
  BY DEF Stop, NoRound, NoTasks, States
<1> QED
  BY <1>4, <1>5 DEF TypeTasks

\* Executions and results keep to their types.
LEMMA TasksStep == TypeControl /\ TypeBatch /\ TypeTasks /\ Positions /\ [Next]_vars => TypeTasks'
<1> SUFFICES ASSUME TypeControl, TypeBatch, TypeTasks, Positions, [Next]_vars
             PROVE  TypeTasks'
  OBVIOUS
<1>0. CallFacts
  BY CallsTyped
<1> USE DEF TypeTasks, States, Finished, roundVars, gateVars, readHistory, runFrame, taskFrame
<1>1. CASE BeginTurn
  BY <1>1 DEF BeginTurn
<1>2. CASE Finish
  <2>1. pc # "idle" /\ Stop
    BY <1>2 DEF Finish
  <2> QED
    BY <2>1, StopTasks
<1>3. CASE Answer
  BY <1>3 DEF Answer, ensureReadPaths, NoTasks
<1>4. CASE StartRows
  BY <1>4 DEF StartRows
<1>5. CASE Execute
  BY <1>5 DEF Execute
<1>6. CASE Spawn
  BY <1>6 DEF Spawn
<1>7. CASE Wait
  BY <1>7 DEF Wait
<1>8. CASE StoreInline
  <2>1. next \in DOMAIN calls
    BY <1>8, <1>0 DEF StoreInline, Positions, InBatch
  <2>2. stored' \in Seq(Ids \X States)
    BY <1>8, <1>0, <2>1 DEF StoreInline, Persist, CallFacts
  <2> QED
    BY <1>8, <2>2 DEF StoreInline
<1>9. CASE Collect
  <2>1. next \in DOMAIN calls
    BY <1>9, <1>0 DEF Collect, AtEnd, CallFacts
  <2>2. stored' \in Seq(Ids \X States)
    BY <1>9, <1>0, <2>1 DEF Collect, Persist, CallFacts
  <2> QED
    BY <1>9, <2>2 DEF Collect
<1>10. CASE EndRows
  BY <1>10 DEF EndRows
<1>11. CASE RoundDone
  BY <1>11 DEF RoundDone
<1>12. CASE StopCancelled
  <2>1. pc # "idle" /\ Stop
    BY <1>12 DEF StopCancelled
  <2> QED
    BY <2>1, StopTasks
<1>13. CASE StoreFail
  <2>1. pc # "idle" /\ Stop
    BY <1>13 DEF StoreFail
  <2> QED
    BY <2>1, StopTasks
<1>14. CASE Cancel
  BY <1>14 DEF Cancel
<1>15. CASE Restart
  BY <1>15 DEF Restart, NoRound, NoTasks
<1>16. ASSUME NEW i \in Ids, Task(i) PROVE TypeTasks'
  <2>1. CASE Acquire(i)
    BY <2>1 DEF Acquire
  <2>2. CASE executeTool(i)
    BY <2>2 DEF executeTool, Read, Patch, Fail, MarkPath
  <2> QED
    BY <1>16, <2>1, <2>2 DEF Task
<1>17. ASSUME NEW s \in strays, StrayEnds(s) PROVE TypeTasks'
  BY <1>17 DEF StrayEnds, MarkPath
<1>18. CASE UNCHANGED vars
  BY <1>18 DEF vars
<1> QED
  BY <1>1, <1>2, <1>3, <1>4, <1>5, <1>6, <1>7, <1>8, <1>9, <1>10, <1>11, <1>12,
     <1>13, <1>14, <1>15, <1>16, <1>17, <1>18 DEF Next, Turn

\* The parts of Positions.
InTurn == pc # "idle" => turn # 0
FirstCall == /\ InBatch => first \in DOMAIN calls /\ round < MaxRounds
             /\ pc \in {"start", "execute", "inline"} => next = first
InLoop == pc \in {"spawn", "collect"} =>
            /\ first..(next - 1) \subseteq Batch
            /\ first <= next /\ next - first <= maxConcurrentReadTools
Launched == \A i \in Ids : task[i] # "none" => i \in DOMAIN calls

LEMMA PositionParts == Positions <=> InTurn /\ FirstCall /\ InLoop /\ Launched
BY DEF Positions, InTurn, FirstCall, InLoop, Launched

\* A turn that is under way has been counted.
LEMMA InTurnStep == TypeControl /\ Positions /\ [Next]_vars => InTurn'
<1> SUFFICES ASSUME TypeControl, Positions, [Next]_vars
             PROVE  InTurn'
  OBVIOUS
<1> USE DEF InTurn, TypeControl, Positions, roundVars, gateVars, readHistory, runFrame, taskFrame
<1>1. CASE BeginTurn
  BY <1>1 DEF BeginTurn
<1>2. CASE Finish
  BY <1>2 DEF Finish, Stop
<1>3. CASE Answer
  BY <1>3 DEF Answer, ensureReadPaths
<1>4. CASE StartRows
  BY <1>4 DEF StartRows
<1>5. CASE Execute
  BY <1>5 DEF Execute
<1>6. CASE Spawn
  BY <1>6 DEF Spawn
<1>7. CASE Wait
  BY <1>7 DEF Wait
<1>8. CASE StoreInline
  BY <1>8 DEF StoreInline, Persist
<1>9. CASE Collect
  BY <1>9 DEF Collect, Persist
<1>10. CASE EndRows
  BY <1>10 DEF EndRows
<1>11. CASE RoundDone
  BY <1>11 DEF RoundDone
<1>12. CASE StopCancelled
  BY <1>12 DEF StopCancelled, Stop
<1>13. CASE StoreFail
  BY <1>13 DEF StoreFail, Stop
<1>14. CASE Cancel
  BY <1>14 DEF Cancel
<1>15. CASE Restart
  BY <1>15 DEF Restart
<1>16. ASSUME NEW i \in Ids, Task(i) PROVE InTurn'
  <2>1. CASE Acquire(i)
    BY <2>1 DEF Acquire
  <2>2. CASE executeTool(i)
    BY <2>2 DEF executeTool, Read, Patch, Fail, MarkPath
  <2> QED
    BY <1>16, <2>1, <2>2 DEF Task
<1>17. ASSUME NEW s \in strays, StrayEnds(s) PROVE InTurn'
  BY <1>17 DEF StrayEnds, MarkPath
<1>18. CASE UNCHANGED vars
  BY <1>18 DEF vars
<1> QED
  BY <1>1, <1>2, <1>3, <1>4, <1>5, <1>6, <1>7, <1>8, <1>9, <1>10, <1>11, <1>12,
     <1>13, <1>14, <1>15, <1>16, <1>17, <1>18 DEF Next, Turn

\* A batch begins with a call of the answer.
LEMMA FirstStep == TypeControl /\ TypeBatch /\ TypeTasks /\ Positions /\ [Next]_vars => FirstCall'
<1> SUFFICES ASSUME TypeControl, TypeBatch, TypeTasks, Positions, [Next]_vars
             PROVE  FirstCall'
  OBVIOUS
<1>0. CallFacts
  BY CallsTyped
<1> USE DEF FirstCall, Positions, InBatch, roundVars, gateVars, readHistory, runFrame, taskFrame
<1>1. CASE BeginTurn
  BY <1>1 DEF BeginTurn
<1>2. CASE Finish
  BY <1>2 DEF Finish, Stop, NoRound
<1>3. CASE Answer
  <2>1. DOMAIN calls' = 1..Len(calls') /\ Len(calls') \in 1..MaxCalls
    BY <1>3, AnswerSeq DEF Answer
  <2> QED
    BY <1>3, <2>1 DEF Answer, TypeControl
<1>4. CASE StartRows
  BY <1>4 DEF StartRows
<1>5. CASE Execute
  BY <1>5 DEF Execute
<1>6. CASE Spawn
  BY <1>6 DEF Spawn
<1>7. CASE Wait
  BY <1>7 DEF Wait
<1>8. CASE StoreInline
  BY <1>8 DEF StoreInline, Persist
<1>9. CASE Collect
  BY <1>9 DEF Collect, Persist, AtEnd
<1>10. CASE EndRows
  BY <1>10, <1>0 DEF EndRows, AtEnd, CallFacts, TypeBatch
<1>11. CASE RoundDone
  BY <1>11 DEF RoundDone
<1>12. CASE StopCancelled
  BY <1>12 DEF StopCancelled, Stop, NoRound
<1>13. CASE StoreFail
  BY <1>13 DEF StoreFail, Stop, NoRound
<1>14. CASE Cancel
  BY <1>14 DEF Cancel
<1>15. CASE Restart
  BY <1>15 DEF Restart, NoRound
<1>16. ASSUME NEW i \in Ids, Task(i) PROVE FirstCall'
  <2>1. CASE Acquire(i)
    BY <2>1 DEF Acquire
  <2>2. CASE executeTool(i)
    BY <2>2 DEF executeTool, Read, Patch, Fail, MarkPath
  <2> QED
    BY <1>16, <2>1, <2>2 DEF Task
<1>17. ASSUME NEW s \in strays, StrayEnds(s) PROVE FirstCall'
  BY <1>17 DEF StrayEnds, MarkPath
<1>18. CASE UNCHANGED vars
  BY <1>18 DEF vars
<1> QED
  BY <1>1, <1>2, <1>3, <1>4, <1>5, <1>6, <1>7, <1>8, <1>9, <1>10, <1>11, <1>12,
     <1>13, <1>14, <1>15, <1>16, <1>17, <1>18 DEF Next, Turn

\* No call of a batch is further from its first than the batch is long.
LEMMA BatchBound ==
  ASSUME TypeBatch, NEW k \in Batch
  PROVE  k \in Int /\ first <= k /\ k - first < maxConcurrentReadTools
BY DEF Batch, partitionToolCalls, TypeBatch

\* The loops over a batch stay in it.
LEMMA InLoopStep == TypeBatch /\ Positions /\ [Next]_vars => InLoop'
<1> SUFFICES ASSUME TypeBatch, Positions, [Next]_vars
             PROVE  InLoop'
  OBVIOUS
<1> USE DEF Positions, InBatch, roundVars, gateVars, readHistory, runFrame, taskFrame
<1>1. CASE BeginTurn
  BY <1>1 DEF BeginTurn, InLoop
<1>2. CASE Finish
  BY <1>2 DEF Finish, Stop, InLoop
<1>3. CASE Answer
  BY <1>3 DEF Answer, ensureReadPaths, InLoop
<1>4. CASE StartRows
  <2>1. first \in Int /\ first' = first /\ next' = first
    BY <1>4 DEF StartRows, TypeBatch
  <2>2. first..(next' - 1) \subseteq Batch' /\ next' - first' = 0
    BY <2>1
  <2> QED
    BY <2>1, <2>2 DEF InLoop
<1>5. CASE Execute
  BY <1>5 DEF Execute, InLoop
<1>6. CASE Spawn
  <2>1. next \in Batch /\ Batch' = Batch
    BY <1>6 DEF Spawn, AtEnd, Batch, partitionToolCalls
  <2>2. next \in Int /\ first <= next /\ next - first < maxConcurrentReadTools
    BY <2>1, BatchBound
  <2>3. first \in Int /\ first..((next + 1) - 1) \subseteq (first..(next - 1)) \cup {next}
    BY <2>2 DEF TypeBatch
  <2>4. first' = first /\ next' = next + 1 /\ first..(next - 1) \subseteq Batch
    BY <1>6 DEF Spawn, InLoop, Positions
  <2>5. first..(next' - 1) \subseteq Batch
    BY <2>1, <2>3, <2>4
  <2> QED
    BY <2>1, <2>2, <2>3, <2>4, <2>5 DEF InLoop
<1>7. CASE Wait
  <2>1. first \in Int /\ first' = first /\ next' = first
    BY <1>7 DEF Wait, TypeBatch
  <2>2. first..(next' - 1) \subseteq Batch' /\ next' - first' = 0
    BY <2>1
  <2> QED
    BY <2>1, <2>2 DEF InLoop
<1>8. CASE StoreInline
  <2>1. first \in Batch /\ Batch' = Batch
    BY <1>8, CallsTyped DEF StoreInline, Batch, partitionToolCalls, CallFacts, TypeBatch
  <2>2. first \in Int /\ first' = first /\ next' = first + 1
    BY <1>8 DEF StoreInline, TypeBatch
  <2>3. first..((first + 1) - 1) \subseteq {first}
    BY <2>2
  <2>4. first..(next' - 1) \subseteq Batch
    BY <2>1, <2>2, <2>3
  <2> QED
    BY <2>1, <2>2, <2>4 DEF InLoop
<1>9. CASE Collect
  <2>1. next \in Batch /\ Batch' = Batch
    BY <1>9 DEF Collect, AtEnd, Batch, partitionToolCalls
  <2>2. next \in Int /\ first <= next /\ next - first < maxConcurrentReadTools
    BY <2>1, BatchBound
  <2>3. first \in Int /\ first..((next + 1) - 1) \subseteq (first..(next - 1)) \cup {next}
    BY <2>2 DEF TypeBatch
  <2>4. first' = first /\ next' = next + 1 /\ first..(next - 1) \subseteq Batch
    BY <1>9 DEF Collect, InLoop, Positions
  <2>5. first..(next' - 1) \subseteq Batch
    BY <2>1, <2>3, <2>4
  <2> QED
    BY <2>1, <2>2, <2>3, <2>4, <2>5 DEF InLoop
<1>10. CASE EndRows
  BY <1>10 DEF EndRows, InLoop
<1>11. CASE RoundDone
  BY <1>11 DEF RoundDone, InLoop
<1>12. CASE StopCancelled
  BY <1>12 DEF StopCancelled, Stop, InLoop
<1>13. CASE StoreFail
  BY <1>13 DEF StoreFail, Stop, InLoop
<1>14. CASE Cancel
  <2>1. Batch' = Batch
    BY <1>14 DEF Cancel, Batch, partitionToolCalls
  <2> QED
    BY <1>14, <2>1 DEF Cancel, InLoop, TypeBatch
<1>15. CASE Restart
  BY <1>15 DEF Restart, InLoop
<1>16. ASSUME NEW i \in Ids, Task(i) PROVE InLoop'
  <2>1. CASE Acquire(i)
    <3>1. Batch' = Batch
      BY <2>1 DEF Acquire, Batch, partitionToolCalls
    <3> QED
      BY <2>1, <3>1 DEF Acquire, InLoop, TypeBatch
  <2>2. CASE executeTool(i)
    <3>1. Batch' = Batch
      BY <2>2 DEF executeTool, Batch, partitionToolCalls
    <3> QED
      BY <2>2, <3>1 DEF executeTool, InLoop, TypeBatch
  <2> QED
    BY <1>16, <2>1, <2>2 DEF Task
<1>17. ASSUME NEW s \in strays, StrayEnds(s) PROVE InLoop'
  <2>1. Batch' = Batch
    BY <1>17 DEF StrayEnds, Batch, partitionToolCalls
  <2> QED
    BY <1>17, <2>1 DEF StrayEnds, InLoop, TypeBatch
<1>18. CASE UNCHANGED vars
  <2>1. Batch' = Batch
    BY <1>18 DEF vars, Batch, partitionToolCalls
  <2> QED
    BY <1>18, <2>1 DEF vars, InLoop, TypeBatch
<1> QED
  BY <1>1, <1>2, <1>3, <1>4, <1>5, <1>6, <1>7, <1>8, <1>9, <1>10, <1>11, <1>12,
     <1>13, <1>14, <1>15, <1>16, <1>17, <1>18 DEF Next, Turn

\* Only calls of the answer are executed.
LEMMA LaunchedStep == TypeControl /\ TypeBatch /\ TypeTasks /\ Positions /\ [Next]_vars => Launched'
<1> SUFFICES ASSUME TypeControl, TypeBatch, TypeTasks, Positions, [Next]_vars
             PROVE  Launched'
  OBVIOUS
<1>0. CallFacts
  BY CallsTyped
<1> USE DEF Launched, Positions, InBatch, roundVars, gateVars, readHistory, runFrame, taskFrame
<1>1. CASE BeginTurn
  BY <1>1 DEF BeginTurn
<1>2. CASE Finish
  BY <1>2 DEF Finish, Stop, NoRound, NoTasks
<1>3. CASE Answer
  BY <1>3 DEF Answer, ensureReadPaths, NoTasks
<1>4. CASE StartRows
  BY <1>4 DEF StartRows
<1>5. CASE Execute
  BY <1>5 DEF Execute, TypeTasks
<1>6. CASE Spawn
  BY <1>6, <1>0 DEF Spawn, AtEnd, CallFacts, TypeTasks
<1>7. CASE Wait
  BY <1>7 DEF Wait
<1>8. CASE StoreInline
  BY <1>8 DEF StoreInline, Persist
<1>9. CASE Collect
  BY <1>9 DEF Collect, Persist
<1>10. CASE EndRows
  BY <1>10 DEF EndRows
<1>11. CASE RoundDone
  BY <1>11 DEF RoundDone
<1>12. CASE StopCancelled
  BY <1>12 DEF StopCancelled, Stop, NoRound, NoTasks
<1>13. CASE StoreFail
  BY <1>13 DEF StoreFail, Stop, NoRound, NoTasks
<1>14. CASE Cancel
  BY <1>14 DEF Cancel
<1>15. CASE Restart
  BY <1>15 DEF Restart, NoRound, NoTasks
<1>16. ASSUME NEW i \in Ids, Task(i) PROVE Launched'
  <2>1. CASE Acquire(i)
    BY <2>1 DEF Acquire, TypeTasks
  <2>2. CASE executeTool(i)
    BY <2>2 DEF executeTool, Read, Patch, Fail, MarkPath, TypeTasks, Running
  <2> QED
    BY <1>16, <2>1, <2>2 DEF Task
<1>17. ASSUME NEW s \in strays, StrayEnds(s) PROVE Launched'
  BY <1>17 DEF StrayEnds, MarkPath
<1>18. CASE UNCHANGED vars
  BY <1>18 DEF vars
<1> QED
  BY <1>1, <1>2, <1>3, <1>4, <1>5, <1>6, <1>7, <1>8, <1>9, <1>10, <1>11, <1>12,
     <1>13, <1>14, <1>15, <1>16, <1>17, <1>18 DEF Next, Turn

\* The type invariant is inductive.
LEMMA TypeStep == TypeOK /\ [Next]_vars => TypeOK'
<1> SUFFICES ASSUME TypeControl, TypeBatch, TypeTasks, TypeReads, Positions, [Next]_vars
             PROVE  TypeOK'
  BY DEF TypeOK
<1>1. TypeControl' /\ TypeBatch' /\ TypeTasks' /\ TypeReads'
  BY ControlStep, BatchStep, TasksStep, ReadsStep, Zenon
<1>2. InTurn' /\ FirstCall' /\ InLoop' /\ Launched'
  BY InTurnStep, FirstStep, InLoopStep, LaunchedStep, Zenon
<1>3. Positions'
  BY <1>2 DEF Positions, InTurn, FirstCall, InLoop, Launched
<1> QED
  BY <1>1, <1>3 DEF TypeOK

\* Types, and the positions in the calls and batches, for every value of the constants.
THEOREM Typing == Spec => []TypeOK
<1>1. Init => TypeOK
  <2> SUFFICES ASSUME Init
               PROVE  TypeOK
    OBVIOUS
  <2>1. TypeControl
    <3>1. turn \in 0..MaxTurns /\ round \in 0..MaxRounds /\ restarts \in 0..MaxRestarts
      BY DEF Init
    <3>2. pc = "idle" /\ cancelled \in BOOLEAN /\ hydrated \in BOOLEAN /\ hydrateFailed \in BOOLEAN
      BY Zenon DEF Init
    <3> QED
      BY <3>1, <3>2 DEF TypeControl
  <2>2. TypeBatch
    BY DEF Init, TypeBatch
  <2>3. TypeTasks
    BY DEF Init, TypeTasks, NoTasks, States
  <2>4. TypeReads
    BY DEF Init, TypeReads
  <2>5. Positions
    BY DEF Init, Positions, InBatch, NoTasks
  <2> QED
    BY <2>1, <2>2, <2>3, <2>4, <2>5 DEF TypeOK
<1> QED
  BY <1>1, TypeStep, PTL DEF Spec

(***************************************************************************)
(* The gate.                                                               *)
(***************************************************************************)

\* What the gate knows has been read, and what it asks was read before.
LEMMA ReadStep == TypeOK /\ ReadInv /\ [Next]_vars => ReadInv'
<1> SUFFICES ASSUME TypeOK, ReadInv, [Next]_vars
             PROVE  ReadInv'
  OBVIOUS
<1> USE DEF ReadInv, roundVars, gateVars, readHistory, runFrame, taskFrame
<1>1. CASE BeginTurn
  BY <1>1 DEF BeginTurn
<1>2. CASE Finish
  BY <1>2 DEF Finish, Stop, NoRound, NoTasks
<1>3. CASE Answer
  BY <1>3 DEF Answer, ensureReadPaths, NoTasks
<1>4. CASE StartRows
  BY <1>4 DEF StartRows
<1>5. CASE Execute
  BY <1>5 DEF Execute, TypeOK, TypeTasks
<1>6. CASE Spawn
  BY <1>6 DEF Spawn, TypeOK, TypeTasks
<1>7. CASE Wait
  BY <1>7 DEF Wait
<1>8. CASE StoreInline
  <2>1. next \in Ids
    BY <1>8, CallsTyped DEF StoreInline, TypeOK, Positions, InBatch, AtEnd, CallFacts
  <2> QED
    BY <1>8, <2>1 DEF StoreInline, Persist
<1>9. CASE Collect
  <2>1. next \in Ids
    BY <1>9, CallsTyped DEF Collect, TypeOK, Positions, InBatch, AtEnd, CallFacts
  <2> QED
    BY <1>9, <2>1 DEF Collect, Persist
<1>10. CASE EndRows
  BY <1>10 DEF EndRows
<1>11. CASE RoundDone
  BY <1>11 DEF RoundDone
<1>12. CASE StopCancelled
  BY <1>12 DEF StopCancelled, Stop, NoRound, NoTasks
<1>13. CASE StoreFail
  BY <1>13 DEF StoreFail, Stop, NoRound, NoTasks
<1>14. CASE Cancel
  BY <1>14 DEF Cancel
<1>15. CASE Restart
  BY <1>15 DEF Restart, NoRound, NoTasks
<1>16. ASSUME NEW i \in Ids, Task(i) PROVE ReadInv'
  <2>1. CASE Acquire(i)
    BY <2>1 DEF Acquire, TypeOK, TypeTasks
  <2>2. CASE executeTool(i)
    BY <2>2 DEF executeTool, Read, Patch, Fail, MarkPath, TypeOK, TypeTasks, Running
  <2> QED
    BY <1>16, <2>1, <2>2 DEF Task
<1>17. ASSUME NEW s \in strays, StrayEnds(s) PROVE ReadInv'
  BY <1>17 DEF StrayEnds, MarkPath
<1>18. CASE UNCHANGED vars
  BY <1>18 DEF vars
<1> QED
  BY <1>1, <1>2, <1>3, <1>4, <1>5, <1>6, <1>7, <1>8, <1>9, <1>10, <1>11, <1>12,
     <1>13, <1>14, <1>15, <1>16, <1>17, <1>18 DEF Next, Turn

\* A patch that succeeds in a step.
PatchGate ==
  \A i \in Running : calls[i].kind = "patch" /\ task'[i] = "ok"
    => calls[i].path \in readBefore /\ calls[i].path \notin SameBatchReads

\* A patch succeeds only through the gate.
LEMMA PatchStep == TypeOK /\ ReadInv /\ [Next]_vars => PatchGate
<1> SUFFICES ASSUME TypeOK, ReadInv, [Next]_vars
             PROVE  PatchGate
  OBVIOUS
<1> USE DEF PatchGate, Running, roundVars, gateVars, readHistory, runFrame, taskFrame
<1>1. CASE BeginTurn
  BY <1>1 DEF BeginTurn
<1>2. CASE Finish
  BY <1>2 DEF Finish, Stop, NoRound, NoTasks
<1>3. CASE Answer
  BY <1>3 DEF Answer, ensureReadPaths, NoTasks
<1>4. CASE StartRows
  BY <1>4 DEF StartRows
<1>5. CASE Execute
  BY <1>5 DEF Execute, TypeOK, TypeTasks
<1>6. CASE Spawn
  BY <1>6 DEF Spawn, TypeOK, TypeTasks
<1>7. CASE Wait
  BY <1>7 DEF Wait
<1>8. CASE StoreInline
  BY <1>8 DEF StoreInline, Persist
<1>9. CASE Collect
  BY <1>9 DEF Collect, Persist
<1>10. CASE EndRows
  BY <1>10 DEF EndRows
<1>11. CASE RoundDone
  BY <1>11 DEF RoundDone
<1>12. CASE StopCancelled
  BY <1>12 DEF StopCancelled, Stop, NoRound, NoTasks
<1>13. CASE StoreFail
  BY <1>13 DEF StoreFail, Stop, NoRound, NoTasks
<1>14. CASE Cancel
  BY <1>14 DEF Cancel
<1>15. CASE Restart
  BY <1>15 DEF Restart, NoRound, NoTasks
<1>16. ASSUME NEW i \in Ids, Task(i) PROVE PatchGate
  <2>1. CASE Acquire(i)
    BY <2>1 DEF Acquire, TypeOK, TypeTasks
  <2>2. CASE executeTool(i)
    BY <2>2 DEF executeTool, Read, Patch, Fail, MarkPath, TypeOK, TypeTasks, ReadInv, CheckApplyPatch
  <2> QED
    BY <1>16, <2>1, <2>2 DEF Task
<1>17. ASSUME NEW s \in strays, StrayEnds(s) PROVE PatchGate
  BY <1>17 DEF StrayEnds, MarkPath
<1>18. CASE UNCHANGED vars
  BY <1>18 DEF vars
<1> QED
  BY <1>1, <1>2, <1>3, <1>4, <1>5, <1>6, <1>7, <1>8, <1>9, <1>10, <1>11, <1>12,
     <1>13, <1>14, <1>15, <1>16, <1>17, <1>18 DEF Next, Turn

\* No file is patched that an earlier sub-round has not read, whatever is cancelled,
\* restarted or left running.
THEOREM PatchedWasRead == Spec => PatchNeedsRead
<1>1. Init => ReadInv
  BY DEF Init, ReadInv, NoTasks
<1>2. Spec => []TypeOK
  BY Typing
<1>3. TypeOK /\ ReadInv /\ [Next]_vars => ReadInv'
  BY ReadStep
<1>4. TypeOK /\ ReadInv /\ [Next]_vars =>
        [\A i \in Running : calls[i].kind = "patch" /\ task'[i] = "ok"
           => calls[i].path \in readBefore /\ calls[i].path \notin SameBatchReads]_vars
  BY PatchStep DEF PatchGate
<1> QED
  BY <1>1, <1>2, <1>3, <1>4, PTL DEF Spec, PatchNeedsRead

(***************************************************************************)
(* The round: how far the calls are, and what the transcript has of them.  *)
(***************************************************************************)

\* Batches that are over have finished, later ones have not begun; the one under way is
\* where its loop is.
Before == InBatch => \A k \in Ids : k < first => task[k] \in Finished
Resting ==
  /\ pc = "idle" => round = 0
  /\ pc \in {"idle", "prepare"} /\ round = 0 => task = NoTasks
  /\ pc = "prepare" /\ round > 0 => \A k \in DOMAIN calls : task[k] \in Finished
Ahead ==
  /\ pc \in {"start", "execute"} => \A k \in Ids : k >= first => task[k] = "none"
  /\ pc = "inline" => \A k \in Ids : k > first => task[k] = "none"
  /\ pc = "spawn" => \A k \in Ids : k >= next => task[k] = "none"
  /\ pc = "collect" => \A k \in Ids : k >= first /\ k \notin Batch => task[k] = "none"
UnderWay ==
  /\ pc = "inline" => task[first] \in {"running"} \cup Finished
  /\ pc = "spawn" => \A k \in Ids :
       first <= k /\ k < next => task[k] \in {"queued", "running"} \cup Finished
  /\ pc = "collect" => \A k \in Batch : task[k] \in Finished
Kinds ==
  /\ pc \in {"execute", "inline"} => Batch = {first}
  /\ pc = "spawn" => \A k \in Batch : isConcurrentToolCall(calls[k])

Progress == Before /\ Resting /\ Ahead /\ UnderWay /\ Kinds

\* What the transcript has: what the calls up to here returned, in their order.
Answered(n) == stored = [k \in 1..n |-> <<k, task[k]>>]
Told ==
  /\ pc \in {"start", "execute", "inline", "spawn"} => Answered(first - 1)
  /\ pc = "collect" => Answered(next - 1)
  /\ pc = "prepare" /\ round > 0 => Answered(Len(calls))

\* A batch is an interval that starts with its first call; unless it is that call alone,
\* every call of it is concurrent.
LEMMA BatchShape ==
  ASSUME TypeBatch, first \in DOMAIN calls
  PROVE  /\ first \in Batch
         /\ \A k \in Batch : k \in Ids /\ k \in DOMAIN calls /\ first <= k
         /\ \A k \in Batch, m \in Ids : first <= m /\ m <= k => m \in Batch
         /\ Batch # {first} => \A k \in Batch : isConcurrentToolCall(calls[k])
<1>0. /\ first \in Int /\ DOMAIN calls = 1..Len(calls) /\ Len(calls) \in 0..MaxCalls
      /\ \A k \in Batch : k \in DOMAIN calls
  BY CallsTyped DEF CallFacts, TypeBatch
<1>1. first \in Batch
  BY <1>0 DEF Batch, partitionToolCalls
<1>2. \A k \in Batch : k \in Ids /\ k \in DOMAIN calls /\ first <= k
  BY <1>0 DEF Batch, partitionToolCalls, Ids
<1>3. ASSUME NEW k \in Batch, NEW m \in Ids, first <= m, m <= k
      PROVE  m \in Batch
  <2>1. CASE m = first
    BY <2>1, <1>1
  <2>2. CASE m # first
    <3>1. k # first /\ k \in Int /\ m \in Int /\ k \in first..Len(calls)
      BY <2>2, <1>3, <1>0 DEF Ids, Batch, partitionToolCalls
    <3>2. k - first < maxConcurrentReadTools /\ \A j \in first..k : isConcurrentToolCall(calls[j])
      BY <3>1 DEF Batch, partitionToolCalls
    <3>3. m \in first..Len(calls) /\ m - first < maxConcurrentReadTools
      BY <3>1, <3>2, <1>3, <1>0
    <3>4. \A j \in first..m : isConcurrentToolCall(calls[j])
      BY <3>1, <3>2, <1>3, <1>0
    <3> QED
      BY <3>3, <3>4 DEF Batch, partitionToolCalls
  <2> QED
    BY <2>1, <2>2
<1>4. ASSUME Batch # {first}
      PROVE  \A k \in Batch : isConcurrentToolCall(calls[k])
  <2>1. PICK j \in Batch : j # first
    BY <1>1, <1>4
  <2>2. j \in Int /\ j >= first /\ \A m \in first..j : isConcurrentToolCall(calls[m])
    BY <2>1, <1>0 DEF Batch, partitionToolCalls
  <2>3. isConcurrentToolCall(calls[first])
    BY <2>2, <1>0
  <2>4. ASSUME NEW k \in Batch, k # first
        PROVE  isConcurrentToolCall(calls[k])
    <3>1. k \in Int /\ k >= first /\ \A m \in first..k : isConcurrentToolCall(calls[m])
      BY <2>4, <1>0 DEF Batch, partitionToolCalls
    <3> QED
      BY <3>1, <1>0
  <2> QED
    BY <2>3, <2>4
<1> QED
  BY <1>1, <1>2, <1>3, <1>4

\* What a step does to the round: the round ends or stays, its goroutine moves, or an execution does.
Over == pc' = "idle" /\ round' = 0 /\ NoRound
Still == /\ UNCHANGED <<round, roundVars>>
         /\ pc' = pc \/ (pc = "idle" /\ pc' = "prepare")
Moves(i) ==
  /\ task[i] \in {"queued", "running"}
  /\ \E v \in {"running"} \cup Finished :
       task' = [task EXCEPT ![i] = v] /\ (task[i] = "running" => v \in Finished)
  /\ UNCHANGED <<pc, round, calls, first, next, stored>>
Loop == \/ Answer \/ StartRows \/ Execute \/ Spawn \/ Wait
        \/ StoreInline \/ Collect \/ EndRows \/ RoundDone

LEMMA Steps == [Next]_vars => Over \/ Still \/ Loop \/ \E i \in Ids : Moves(i)
<1> SUFFICES ASSUME [Next]_vars
             PROVE  Over \/ Still \/ Loop \/ \E i \in Ids : Moves(i)
  OBVIOUS
<1>1. CASE Finish \/ StopCancelled \/ StoreFail \/ Restart
  BY <1>1 DEF Finish, StopCancelled, StoreFail, Stop, Restart, Over
<1>2. CASE BeginTurn \/ Cancel \/ UNCHANGED vars
  BY <1>2 DEF BeginTurn, Cancel, vars, Still, roundVars
<1>3. ASSUME NEW s \in strays, StrayEnds(s) PROVE Still
  BY <1>3 DEF StrayEnds, Still, roundVars
<1>4. ASSUME NEW i \in Ids, Acquire(i) PROVE Moves(i)
  BY <1>4 DEF Acquire, taskFrame, Moves, Finished
<1>5. ASSUME NEW i \in Ids, executeTool(i) PROVE Moves(i)
  BY <1>5 DEF executeTool, Running, Read, Patch, Fail, taskFrame, Moves, Finished
<1>6. ASSUME NEW i \in Ids, Task(i) PROVE Moves(i)
  BY <1>4, <1>5, <1>6 DEF Task
<1> QED
  BY <1>1, <1>2, <1>3, <1>6 DEF Next, Turn, Loop

\* The last batch ends with the last call.
LEMMA CollectEnds ==
  ASSUME TypeBatch, Positions, pc = "collect", next > Len(calls)
  PROVE  next - 1 = Len(calls)
<1>1. /\ first \in DOMAIN calls /\ first..(next - 1) \subseteq Batch
      /\ first \in Int /\ next \in Int
  BY DEF Positions, InBatch, TypeBatch
<1>2. /\ DOMAIN calls = 1..Len(calls) /\ Len(calls) \in Int
      /\ \A k \in Batch : k \in DOMAIN calls
  BY CallsTyped DEF CallFacts
<1>3. next - 1 \in first..(next - 1)
  BY <1>1, <1>2
<1>4. next - 1 \in 1..Len(calls)
  BY <1>1, <1>2, <1>3
<1> QED
  BY <1>1, <1>2, <1>4

\* The result of one more call.
LEMMA AnswerMore ==
  ASSUME NEW n \in Nat, Answered(n), NEW i, i = n + 1, Persist(i), task' = task
  PROVE  stored' = [k \in 1..i |-> <<k, task'[k]>>]
<1>1. stored' = Append([k \in 1..n |-> <<k, task[k]>>], <<i, task[i]>>)
  BY DEF Persist, Answered
<1> QED
  BY <1>1
  
\* Batches that are over have finished.
LEMMA BeforeStep ==
  ASSUME TypeOK, Progress, [Next]_vars
  PROVE  Before'
<1>0. /\ TypeControl /\ TypeBatch /\ TypeTasks /\ Positions /\ CallFacts
      /\ first' = first /\ calls' = calls => Batch' = Batch
  BY CallsTyped DEF TypeOK, Batch, partitionToolCalls
<1>s. first \in DOMAIN calls =>
         /\ first \in Batch
         /\ \A k \in Batch : k \in Ids /\ k \in DOMAIN calls /\ first <= k
         /\ \A k \in Batch, m \in Ids : first <= m /\ m <= k => m \in Batch
         /\ Batch # {first} => \A k \in Batch : isConcurrentToolCall(calls[k])
  BY <1>0, BatchShape
<1> USE DEF Progress, Before, Resting, Ahead, UnderWay, Kinds, TypeControl, TypeBatch, TypeTasks,
   Positions, InBatch, CallFacts, Ids, AtEnd, runFrame, roundVars
<1>1. CASE Over
  BY <1>1 DEF Over, NoRound, NoTasks, Running
<1>2. CASE Still
  BY <1>2, <1>0 DEF Still, Running, NoTasks
<1>3. CASE Answer
  BY <1>3, <1>0, <1>s DEF Answer, NoTasks, Finished, Finished, Running
<1>4. CASE StartRows
  BY <1>4, <1>0, <1>s DEF StartRows, Finished, Running
<1>5. CASE Execute
  BY <1>5, <1>0, <1>s DEF Execute, Finished, Running
<1>6. CASE Spawn
  BY <1>6, <1>0, <1>s DEF Spawn, Finished, Running
<1>7. CASE Wait
  BY <1>7, <1>0, <1>s DEF Wait, Finished, Running
<1>8. CASE StoreInline
  BY <1>8, <1>0, <1>s DEF StoreInline, Persist, Finished, Running
<1>9. CASE Collect
  BY <1>9, <1>0, <1>s DEF Collect, Persist, Finished, Running
<1>10. CASE EndRows
  BY <1>10, <1>0, <1>s DEF EndRows, Finished, Running
<1>11. CASE RoundDone
  BY <1>11, <1>0, <1>s DEF RoundDone, Finished, Running
<1>12. ASSUME NEW i \in Ids, Moves(i) PROVE Before'
  BY <1>12, <1>0, <1>s DEF Moves, Finished, Running, NoTasks
<1> QED
  BY Steps, <1>1, <1>2, <1>3, <1>4, <1>5, <1>6, <1>7, <1>8, <1>9, <1>10, <1>11, <1>12 DEF Loop

\* Between two rounds nothing runs.
LEMMA RestingStep ==
  ASSUME TypeOK, Progress, [Next]_vars
  PROVE  Resting'
<1>0. /\ TypeControl /\ TypeBatch /\ TypeTasks /\ Positions /\ CallFacts
      /\ first' = first /\ calls' = calls => Batch' = Batch
  BY CallsTyped DEF TypeOK, Batch, partitionToolCalls
<1>s. first \in DOMAIN calls =>
         /\ first \in Batch
         /\ \A k \in Batch : k \in Ids /\ k \in DOMAIN calls /\ first <= k
         /\ \A k \in Batch, m \in Ids : first <= m /\ m <= k => m \in Batch
         /\ Batch # {first} => \A k \in Batch : isConcurrentToolCall(calls[k])
  BY <1>0, BatchShape
<1> USE DEF Progress, Before, Resting, Ahead, UnderWay, Kinds, TypeControl, TypeBatch, TypeTasks,
   Positions, InBatch, CallFacts, Ids, AtEnd, runFrame, roundVars
<1>1. CASE Over
  BY <1>1 DEF Over, NoRound, NoTasks, Running
<1>2. CASE Still
  BY <1>2, <1>0 DEF Still, Running, NoTasks
<1>3. CASE Answer
  BY <1>3, <1>0, <1>s DEF Answer, NoTasks, Finished, Finished, Running
<1>4. CASE StartRows
  BY <1>4, <1>0, <1>s DEF StartRows, Finished, Running
<1>5. CASE Execute
  BY <1>5, <1>0, <1>s DEF Execute, Finished, Running
<1>6. CASE Spawn
  BY <1>6, <1>0, <1>s DEF Spawn, Finished, Running
<1>7. CASE Wait
  BY <1>7, <1>0, <1>s DEF Wait, Finished, Running
<1>8. CASE StoreInline
  BY <1>8, <1>0, <1>s DEF StoreInline, Persist, Finished, Running
<1>9. CASE Collect
  BY <1>9, <1>0, <1>s DEF Collect, Persist, Finished, Running
<1>10. CASE EndRows
  BY <1>10, <1>0, <1>s DEF EndRows, Finished, Running
<1>11. CASE RoundDone
  BY <1>11, <1>0, <1>s DEF RoundDone, Finished, Running
<1>12. ASSUME NEW i \in Ids, Moves(i) PROVE Resting'
  BY <1>12, <1>0, <1>s DEF Moves, Finished, Running, NoTasks
<1> QED
  BY Steps, <1>1, <1>2, <1>3, <1>4, <1>5, <1>6, <1>7, <1>8, <1>9, <1>10, <1>11, <1>12 DEF Loop

\* Nothing of a later batch has begun.
LEMMA AheadStep ==
  ASSUME TypeOK, Progress, [Next]_vars
  PROVE  Ahead'
<1>0. /\ TypeControl /\ TypeBatch /\ TypeTasks /\ Positions /\ CallFacts
      /\ first' = first /\ calls' = calls => Batch' = Batch
  BY CallsTyped DEF TypeOK, Batch, partitionToolCalls
<1>s. first \in DOMAIN calls =>
         /\ first \in Batch
         /\ \A k \in Batch : k \in Ids /\ k \in DOMAIN calls /\ first <= k
         /\ \A k \in Batch, m \in Ids : first <= m /\ m <= k => m \in Batch
         /\ Batch # {first} => \A k \in Batch : isConcurrentToolCall(calls[k])
  BY <1>0, BatchShape
<1> USE DEF Progress, Before, Resting, Ahead, UnderWay, Kinds, TypeControl, TypeBatch, TypeTasks,
   Positions, InBatch, CallFacts, Ids, AtEnd, runFrame, roundVars
<1>1. CASE Over
  BY <1>1 DEF Over, NoRound, NoTasks, Running
<1>2. CASE Still
  BY <1>2, <1>0 DEF Still, Running, NoTasks
<1>3. CASE Answer
  BY <1>3, <1>0, <1>s DEF Answer, NoTasks, Finished, Finished, Running
<1>4. CASE StartRows
  BY <1>4, <1>0, <1>s DEF StartRows, Finished, Running
<1>5. CASE Execute
  BY <1>5, <1>0, <1>s DEF Execute, Finished, Running
<1>6. CASE Spawn
  BY <1>6, <1>0, <1>s DEF Spawn, Finished, Running
<1>7. CASE Wait
  BY <1>7, <1>0, <1>s DEF Wait, Finished, Running
<1>8. CASE StoreInline
  BY <1>8, <1>0, <1>s DEF StoreInline, Persist, Finished, Running
<1>9. CASE Collect
  BY <1>9, <1>0, <1>s DEF Collect, Persist, Finished, Running
<1>10. CASE EndRows
  BY <1>10, <1>0, <1>s DEF EndRows, Finished, Running
<1>11. CASE RoundDone
  BY <1>11, <1>0, <1>s DEF RoundDone, Finished, Running
<1>12. ASSUME NEW i \in Ids, Moves(i) PROVE Ahead'
  BY <1>12, <1>0, <1>s DEF Moves, Finished, Running, NoTasks
<1> QED
  BY Steps, <1>1, <1>2, <1>3, <1>4, <1>5, <1>6, <1>7, <1>8, <1>9, <1>10, <1>11, <1>12 DEF Loop

\* Every call that the loop has passed has been launched; those collected have finished.
LEMMA UnderWayStep ==
  ASSUME TypeOK, Progress, [Next]_vars
  PROVE  UnderWay'
<1>0. /\ TypeControl /\ TypeBatch /\ TypeTasks /\ Positions /\ CallFacts
      /\ first' = first /\ calls' = calls => Batch' = Batch
  BY CallsTyped DEF TypeOK, Batch, partitionToolCalls
<1>s. first \in DOMAIN calls =>
         /\ first \in Batch
         /\ \A k \in Batch : k \in Ids /\ k \in DOMAIN calls /\ first <= k
         /\ \A k \in Batch, m \in Ids : first <= m /\ m <= k => m \in Batch
         /\ Batch # {first} => \A k \in Batch : isConcurrentToolCall(calls[k])
  BY <1>0, BatchShape
<1> USE DEF Progress, Before, Resting, Ahead, UnderWay, Kinds, TypeControl, TypeBatch, TypeTasks,
   Positions, InBatch, CallFacts, Ids, AtEnd, runFrame, roundVars
<1>1. CASE Over
  BY <1>1 DEF Over, NoRound, NoTasks, Running
<1>2. CASE Still
  BY <1>2, <1>0 DEF Still, Running, NoTasks
<1>3. CASE Answer
  BY <1>3, <1>0, <1>s DEF Answer, NoTasks, Finished, Finished, Running
<1>4. CASE StartRows
  BY <1>4, <1>0, <1>s DEF StartRows, Finished, Running
<1>5. CASE Execute
  BY <1>5, <1>0, <1>s DEF Execute, Finished, Running
<1>6. CASE Spawn
  BY <1>6, <1>0, <1>s DEF Spawn, Finished, Running
<1>7. CASE Wait
  BY <1>7, <1>0, <1>s DEF Wait, Finished, Running
<1>8. CASE StoreInline
  BY <1>8, <1>0, <1>s DEF StoreInline, Persist, Finished, Running
<1>9. CASE Collect
  BY <1>9, <1>0, <1>s DEF Collect, Persist, Finished, Running
<1>10. CASE EndRows
  BY <1>10, <1>0, <1>s DEF EndRows, Finished, Running
<1>11. CASE RoundDone
  BY <1>11, <1>0, <1>s DEF RoundDone, Finished, Running
<1>12. ASSUME NEW i \in Ids, Moves(i) PROVE UnderWay'
  BY <1>12, <1>0, <1>s DEF Moves, Finished, Running, NoTasks
<1> QED
  BY Steps, <1>1, <1>2, <1>3, <1>4, <1>5, <1>6, <1>7, <1>8, <1>9, <1>10, <1>11, <1>12 DEF Loop

\* Only concurrent calls share a batch, and a call that runs alone is its batch.
LEMMA KindsStep ==
  ASSUME TypeOK, Progress, [Next]_vars
  PROVE  Kinds'
<1>0. /\ TypeControl /\ TypeBatch /\ TypeTasks /\ Positions /\ CallFacts
      /\ first' = first /\ calls' = calls => Batch' = Batch
  BY CallsTyped DEF TypeOK, Batch, partitionToolCalls
<1>s. first \in DOMAIN calls =>
         /\ first \in Batch
         /\ \A k \in Batch : k \in Ids /\ k \in DOMAIN calls /\ first <= k
         /\ \A k \in Batch, m \in Ids : first <= m /\ m <= k => m \in Batch
         /\ Batch # {first} => \A k \in Batch : isConcurrentToolCall(calls[k])
  BY <1>0, BatchShape
<1> USE DEF Progress, Before, Resting, Ahead, UnderWay, Kinds, TypeControl, TypeBatch, TypeTasks,
   Positions, InBatch, CallFacts, Ids, AtEnd, runFrame, roundVars
<1>1. CASE Over
  BY <1>1 DEF Over, NoRound, NoTasks, Running
<1>2. CASE Still
  BY <1>2, <1>0 DEF Still, Running, NoTasks
<1>3. CASE Answer
  BY <1>3, <1>0, <1>s DEF Answer, NoTasks, Finished, Finished, Running
<1>4. CASE StartRows
  BY <1>4, <1>0, <1>s DEF StartRows, Finished, Running
<1>5. CASE Execute
  BY <1>5, <1>0, <1>s DEF Execute, Finished, Running
<1>6. CASE Spawn
  BY <1>6, <1>0, <1>s DEF Spawn, Finished, Running
<1>7. CASE Wait
  BY <1>7, <1>0, <1>s DEF Wait, Finished, Running
<1>8. CASE StoreInline
  BY <1>8, <1>0, <1>s DEF StoreInline, Persist, Finished, Running
<1>9. CASE Collect
  BY <1>9, <1>0, <1>s DEF Collect, Persist, Finished, Running
<1>10. CASE EndRows
  BY <1>10, <1>0, <1>s DEF EndRows, Finished, Running
<1>11. CASE RoundDone
  BY <1>11, <1>0, <1>s DEF RoundDone, Finished, Running
<1>12. ASSUME NEW i \in Ids, Moves(i) PROVE Kinds'
  BY <1>12, <1>0, <1>s DEF Moves, Finished, Running, NoTasks
<1> QED
  BY Steps, <1>1, <1>2, <1>3, <1>4, <1>5, <1>6, <1>7, <1>8, <1>9, <1>10, <1>11, <1>12 DEF Loop

\* The transcript has what the calls returned.
LEMMA ToldStep ==
  ASSUME TypeOK, Progress, Told, [Next]_vars
  PROVE  Told'
<1>0. /\ TypeControl /\ TypeBatch /\ TypeTasks /\ Positions /\ CallFacts
      /\ first' = first /\ calls' = calls => Batch' = Batch
  BY CallsTyped DEF TypeOK, Batch, partitionToolCalls
<1>s. first \in DOMAIN calls =>
         /\ first \in Batch
         /\ \A k \in Batch : k \in Ids /\ k \in DOMAIN calls /\ first <= k
         /\ \A k \in Batch, m \in Ids : first <= m /\ m <= k => m \in Batch
         /\ Batch # {first} => \A k \in Batch : isConcurrentToolCall(calls[k])
  BY <1>0, BatchShape
<1> USE DEF Progress, Before, Resting, Ahead, UnderWay, Kinds, TypeControl, TypeBatch, TypeTasks,
   Positions, InBatch, CallFacts, Ids, AtEnd, Told, runFrame, roundVars
<1>1. CASE Over
  BY <1>1 DEF Over, NoRound, NoTasks, Running, Answered
<1>2. CASE Still
  BY <1>2, <1>0 DEF Still, Running, NoTasks, Answered
<1>3. CASE Answer
  BY <1>3, <1>0, <1>s DEF Answer, NoTasks, Finished, Finished, Running, Answered
<1>4. CASE StartRows
  BY <1>4, <1>0, <1>s DEF StartRows, Finished, Running, Answered
<1>5. CASE Execute
  BY <1>5, <1>0, <1>s DEF Execute, Finished, Running, Answered
<1>6. CASE Spawn
  BY <1>6, <1>0, <1>s DEF Spawn, Finished, Running, Answered
<1>7. CASE Wait
  BY <1>7, <1>0, <1>s DEF Wait, Finished, Running, Answered
<1>8. CASE StoreInline
  <2>1. /\ next = first /\ next = (first - 1) + 1 /\ first - 1 \in Nat
        /\ Answered(first - 1) /\ Persist(next) /\ task' = task
    BY <1>8, <1>0 DEF StoreInline
  <2>2. stored' = [k \in 1..next |-> <<k, task'[k]>>]
    BY <2>1, AnswerMore
  <2>3. pc' = "collect" /\ next' - 1 = next
    BY <1>8, <1>0 DEF StoreInline
  <2> QED
    BY <2>2, <2>3 DEF Answered
<1>9. CASE Collect
  <2>1. next = (next - 1) + 1 /\ next - 1 \in Nat /\ Answered(next - 1) /\ Persist(next) /\ task' = task
    BY <1>9, <1>0 DEF Collect
  <2>2. stored' = [k \in 1..next |-> <<k, task'[k]>>]
    BY <2>1, AnswerMore
  <2>3. pc' = "collect" /\ next' - 1 = next
    BY <1>9, <1>0 DEF Collect
  <2> QED
    BY <2>2, <2>3 DEF Answered
<1>10. CASE EndRows
  BY <1>10, <1>0, <1>s DEF EndRows, Finished, Running, Answered
<1>11. CASE RoundDone
  <2>1. pc = "collect" /\ next > Len(calls) /\ Answered(next - 1)
    BY <1>11 DEF RoundDone
  <2>2. next - 1 = Len(calls)
    BY <2>1, <1>0, CollectEnds
  <2>3. pc' = "prepare" /\ calls' = calls /\ stored' = stored /\ task' = task
    BY <1>11 DEF RoundDone
  <2> QED
    BY <2>1, <2>2, <2>3 DEF Answered
<1>12. ASSUME NEW i \in Ids, Moves(i) PROVE Told'
  <2>1. UNCHANGED <<pc, round, calls, first, next, stored>> /\ task[i] \notin Finished
    BY <1>12 DEF Moves, Finished
  <2>2. ASSUME NEW n \in Int, \A k \in 1..n : k \in Ids /\ task[k] \in Finished, Answered(n)
        PROVE  stored' = [k \in 1..n |-> <<k, task'[k]>>]
    <3>1. \A k \in 1..n : task'[k] = task[k]
      BY <1>12, <2>1, <2>2 DEF Moves
    <3> QED
      BY <3>1, <2>1, <2>2 DEF Answered
  <2>3. InBatch => \A k \in 1..(first - 1) : k \in Ids /\ task[k] \in Finished
    BY <1>0
  <2>4. pc = "collect" => \A k \in 1..(next - 1) : k \in Ids /\ task[k] \in Finished
    BY <1>0, <1>s, <2>3
  <2>5. pc = "prepare" /\ round > 0 => \A k \in 1..Len(calls) : k \in Ids /\ task[k] \in Finished
    BY <1>0
  <2>6. first - 1 \in Int /\ next - 1 \in Int /\ Len(calls) \in Int
    BY <1>0
  <2>7. pc \in {"start", "execute", "inline", "spawn"} =>
          stored' = [k \in 1..(first - 1) |-> <<k, task'[k]>>]
    BY <2>2, <2>3, <2>6
  <2>8. pc = "collect" => stored' = [k \in 1..(next - 1) |-> <<k, task'[k]>>]
    BY <2>2, <2>4, <2>6
  <2>9. pc = "prepare" /\ round > 0 => stored' = [k \in 1..Len(calls) |-> <<k, task'[k]>>]
    BY <2>2, <2>5, <2>6
  <2> QED
    BY <2>1, <2>7, <2>8, <2>9 DEF Answered
<1> QED
  BY Steps, <1>1, <1>2, <1>3, <1>4, <1>5, <1>6, <1>7, <1>8, <1>9, <1>10, <1>11, <1>12 DEF Loop

LEMMA RoundInit == Init => Progress /\ Told
BY DEF Init, Progress, Before, Resting, Ahead, UnderWay, Kinds, Told, InBatch

LEMMA ProgressStep == TypeOK /\ Progress /\ [Next]_vars => Progress'
BY BeforeStep, RestingStep, AheadStep, UnderWayStep, KindsStep DEF Progress

(***************************************************************************)
(* Writes run alone.                                                       *)
(***************************************************************************)

\* A turn that ends leaves only reads behind: something runs then only in a batch of them.
StraysRead == \A s \in strays : s.call.kind = "read"

LEMMA StopLeavesReads ==
  ASSUME TypeOK, Progress, StraysRead, Stop,
         pc \in {"prepare", "start", "execute", "spawn", "collect"}
           \/ (pc = "inline" /\ task[next] \in Finished)
  PROVE  StraysRead'
<1>0. /\ TypeControl /\ TypeBatch /\ Positions /\ CallFacts
      /\ first \in DOMAIN calls => \A k \in Batch, m \in Ids : first <= m /\ m <= k => m \in Batch
  BY CallsTyped, BatchShape DEF TypeOK
<1>1. ASSUME NEW i \in Running
      PROVE  calls[i].kind = "read"
  <2>1. /\ i \in Ids /\ i \in Int /\ first \in Int /\ next \in Int
        /\ task[i] = "running" /\ i \in DOMAIN calls
    BY <1>0, <1>1 DEF Running, Positions, TypeBatch, Ids
  <2>2. pc = "spawn"
    BY <2>1, <1>0 DEF Progress, Before, Resting, Ahead, UnderWay, Kinds, InBatch, NoTasks, Finished,
       Positions, CallFacts, Stop, TypeControl
  <2>3. first <= i /\ i < next
    BY <2>1, <2>2 DEF Progress, Before, Ahead, InBatch, Finished
  <2>4. i \in Batch
    BY <2>1, <2>2, <2>3, <1>0 DEF Positions
  <2> QED
    BY <2>2, <2>4 DEF Progress, Kinds, isConcurrentToolCall
<1> QED
  BY <1>1 DEF StraysRead, Stop

LEMMA StraysStep ==
  ASSUME TypeOK, Progress, StraysRead, [Next]_vars
  PROVE  StraysRead'
<1>1. CASE Finish \/ StopCancelled \/ StoreFail
  BY <1>1, StopLeavesReads DEF Finish, StopCancelled, StoreFail
<1>2. CASE Restart
  BY <1>2 DEF Restart, StraysRead
<1>3. CASE BeginTurn \/ Cancel \/ UNCHANGED vars
  BY <1>3 DEF BeginTurn, Cancel, vars, StraysRead
<1>4. CASE Loop
  BY <1>4 DEF Loop, Answer, StartRows, Execute, Spawn, Wait, StoreInline, Collect, EndRows, RoundDone,
     runFrame, StraysRead
<1>5. ASSUME NEW i \in Ids, Task(i) PROVE StraysRead'
  BY <1>5 DEF Task, Acquire, executeTool, taskFrame, StraysRead
<1>6. ASSUME NEW s \in strays, StrayEnds(s) PROVE StraysRead'
  BY <1>6 DEF StrayEnds, StraysRead
<1> QED
  BY <1>1, <1>2, <1>3, <1>4, <1>5, <1>6 DEF Next, Turn, Loop

LEMMA PatchAlone == TypeOK /\ Progress /\ StraysRead => WritesAlone
<1> SUFFICES ASSUME TypeOK, Progress, StraysRead
             PROVE  WritesAlone
  OBVIOUS
<1>0. /\ TypeControl /\ TypeBatch /\ Positions /\ CallFacts
      /\ first \in DOMAIN calls => \A k \in Batch, m \in Ids : first <= m /\ m <= k => m \in Batch
  BY CallsTyped, BatchShape DEF TypeOK
<1>1. ASSUME NEW i \in Ids, task[i] = "running", calls[i].kind = "patch",
             NEW k \in Ids \ {i}, task[k] \in {"queued", "running"}
      PROVE  FALSE
  <2>1. /\ i \in Int /\ k \in Int /\ first \in Int /\ next \in Int
        /\ i \in DOMAIN calls /\ k \in DOMAIN calls
    BY <1>0, <1>1 DEF Positions, TypeBatch, Ids
  <2>2. pc \in {"inline", "spawn"}
    BY <2>1, <1>0, <1>1 DEF Progress, Before, Resting, Ahead, UnderWay, InBatch, NoTasks, Finished,
       TypeOK, TypeControl
  <2>3. CASE pc = "inline"
    BY <2>1, <2>3, <1>1 DEF Progress, Before, Ahead, InBatch, Finished
  <2>4. CASE pc = "spawn"
    <3>1. first <= i /\ i < next
      BY <2>1, <2>4, <1>1 DEF Progress, Before, Ahead, InBatch, Finished
    <3>2. i \in Batch
      BY <2>1, <2>4, <3>1, <1>0 DEF Positions
    <3> QED
      BY <2>4, <3>2, <1>1 DEF Progress, Kinds, isConcurrentToolCall
  <2> QED
    BY <2>2, <2>3, <2>4
<1> QED
  BY <1>1 DEF WritesAlone, StraysRead

\* A write runs alone among the tools of its turn, and no write goes on when its turn is over.
THEOREM WritesRunAlone == Spec => []WritesAlone
<1>1. Init => Progress /\ StraysRead
  BY RoundInit DEF Init, StraysRead
<1>2. TypeOK /\ Progress /\ StraysRead /\ [Next]_vars => Progress' /\ StraysRead'
  BY ProgressStep, StraysStep
<1>3. TypeOK /\ Progress /\ StraysRead => WritesAlone
  BY PatchAlone
<1> QED
  BY <1>1, <1>2, <1>3, Typing, PTL DEF Spec

(***************************************************************************)
(* The gate and the transcript agree.                                      *)
(***************************************************************************)

\* What is shown as read, the gate knows, once it has taken that from the transcript; what
\* this process has read, in any case.
Known ==
  /\ InBatch => hydrated
  /\ hydrated /\ ~hydrateFailed => shown \subseteq readPaths
  /\ \A k \in Ids : task[k] = "ok" /\ calls[k].kind = "read" => calls[k].path \in readPaths

LEMMA KnownStep ==
  ASSUME TypeOK, Known, ShownIsRead, [Next]_vars
  PROVE  Known' /\ ShownIsRead'
<1>0. TypeControl /\ TypeBatch /\ TypeTasks /\ Positions /\ CallFacts
  BY CallsTyped DEF TypeOK
<1> USE DEF Known, ShownIsRead, InBatch, gateVars, roundVars, runFrame, taskFrame
<1>1. CASE Finish \/ StopCancelled \/ StoreFail
  BY <1>1 DEF Finish, StopCancelled, StoreFail, Stop, NoRound, NoTasks
<1>2. CASE Restart
  BY <1>2 DEF Restart, NoRound, NoTasks
<1>3. CASE BeginTurn \/ Cancel \/ UNCHANGED vars
  BY <1>3 DEF BeginTurn, Cancel, vars, SameBatchReads
<1>4. CASE Answer
  BY <1>4, <1>0 DEF Answer, ensureReadPaths, NoTasks, SameBatchReads
<1>5. CASE StartRows \/ EndRows \/ RoundDone \/ Wait
  BY <1>5 DEF StartRows, EndRows, RoundDone, Wait, SameBatchReads
<1>6. CASE Execute \/ Spawn
  BY <1>6, <1>0 DEF Execute, Spawn, SameBatchReads, TypeTasks
<1>7. CASE StoreInline \/ Collect
  <2>1. /\ next \in Ids /\ next \in DOMAIN calls
        /\ UNCHANGED <<calls, task, gateVars>> /\ Persist(next) /\ InBatch
    BY <1>7, <1>0 DEF StoreInline, Collect, AtEnd, CallFacts, Positions
  <2>2. shown' \subseteq shown \cup SameBatchReads /\ SameBatchReads' = SameBatchReads
    BY <2>1 DEF Persist, SameBatchReads
  <2>3. hydrated /\ ~hydrateFailed => shown' \subseteq readPaths
    BY <2>1 DEF Persist
  <2> QED
    BY <2>1, <2>2, <2>3
<1>8. ASSUME NEW i \in Ids, Task(i) PROVE Known' /\ ShownIsRead'
  <2>1. /\ UNCHANGED <<pc, calls, shown, snapshot, hydrated, hydrateFailed>>
        /\ readPaths \subseteq readPaths'
    BY <1>8 DEF Task, Acquire, executeTool, Read, Patch, Fail, MarkPath
  <2>2. SameBatchReads' = SameBatchReads
    BY <2>1 DEF SameBatchReads
  <2>3. \A k \in Ids : task'[k] = "ok" /\ calls[k].kind = "read" => calls[k].path \in readPaths'
    BY <1>8, <1>0, <2>1 DEF Task, Acquire, executeTool, Read, Patch, Fail, MarkPath, TypeTasks
  <2> QED
    BY <2>1, <2>2, <2>3
<1>9. ASSUME NEW s \in strays, StrayEnds(s) PROVE Known' /\ ShownIsRead'
  BY <1>9 DEF StrayEnds, MarkPath, SameBatchReads
<1> QED
  BY <1>1, <1>2, <1>3, <1>4, <1>5, <1>6, <1>7, <1>8, <1>9 DEF Next, Turn

(***************************************************************************)
(* The turn never hangs.                                                   *)
(***************************************************************************)

\* Whoever waits in a batch waits for a call that runs, or one that can have a slot.
LEMMA SomebodyGoesOn == TypeOK /\ Progress => NeverStuck
<1> SUFFICES ASSUME TypeOK, Progress
             PROVE  NeverStuck
  OBVIOUS
<1>0. /\ TypeBatch /\ Positions /\ CallFacts /\ first \in Int /\ next \in Int
      /\ first \in DOMAIN calls => \A k \in Batch : k \in Ids /\ first <= k
      /\ first \in DOMAIN calls => \A k \in Batch, m \in Ids : first <= m /\ m <= k => m \in Batch
  BY CallsTyped, BatchShape DEF TypeOK, TypeBatch
<1>1. pc = "inline" => task[next] \in {"running"} \cup Finished
  BY <1>0 DEF Progress, UnderWay, Positions
<1>2. ASSUME pc = "spawn", AtEnd, NEW i \in Batch, task[i] \notin Finished, Running = {}
      PROVE  /\ \E k \in Batch : task[k] = "queued"
             /\ Cardinality(Running) < maxConcurrentReadTools
  <2>1. i \in Ids /\ i \in Int /\ next \in Int /\ first <= i
    BY <1>0, <1>2 DEF Positions, InBatch, Ids
  <2>2. i < next
    <3> SUFFICES ASSUME next <= i PROVE FALSE
      BY <2>1
    <3>1. next \in Ids /\ first <= next
      BY <2>1, <1>0, <1>2 DEF Positions, Ids, TypeBatch
    <3> QED
      BY <2>1, <3>1, <1>0, <1>2 DEF AtEnd, Positions, InBatch
  <2>3. task[i] = "queued"
    BY <2>1, <2>2, <1>2 DEF Progress, UnderWay, Running
  <2>4. Cardinality(Running) = 0
    BY <1>2, FS_EmptySet
  <2> QED
    BY <2>3, <2>4
<1> QED
  BY <1>1, <1>2 DEF NeverStuck

\* Every answer is in the transcript when the model is asked again.
LEMMA ToldAll == TypeOK /\ Progress /\ Told => RoundComplete
<1> SUFFICES ASSUME TypeOK, Progress, Told, pc = "prepare", round > 0
             PROVE  /\ stored = [i \in DOMAIN calls |-> <<i, task[i]>>]
                    /\ \A i \in DOMAIN calls : task[i] \in Finished
  BY DEF RoundComplete
<1>1. DOMAIN calls = 1..Len(calls)
  BY CallsTyped DEF TypeOK, CallFacts
<1> QED
  BY <1>1 DEF Told, Answered, Progress, Resting

\* The round at every moment.
THEOREM RoundsHold == Spec => []RoundInv
<1>1. Init => Progress /\ Told /\ ReadInv /\ Known /\ ShownIsRead
  <2>1. Init => ReadInv /\ Known /\ ShownIsRead
    BY DEF Init, ReadInv, NoTasks, Known, ShownIsRead, InBatch
  <2> QED
    BY <2>1, RoundInit
<1>2. TypeOK /\ Progress /\ Told /\ [Next]_vars => Progress' /\ Told'
  BY ProgressStep, ToldStep
<1>3. TypeOK /\ ReadInv /\ [Next]_vars => ReadInv'
  BY ReadStep
<1>4. TypeOK /\ Known /\ ShownIsRead /\ [Next]_vars => Known' /\ ShownIsRead'
  BY KnownStep
<1>5. TypeOK /\ Progress /\ Told /\ ReadInv /\ ShownIsRead => RoundInv
  BY SomebodyGoesOn, ToldAll DEF RoundInv
<1> QED
  BY <1>1, <1>2, <1>3, <1>4, <1>5, Typing, PTL DEF Spec
=============================================================================
