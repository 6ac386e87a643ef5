---------------------------- MODULE Tools_proofs ----------------------------
(***************************************************************************)
(* Theorems about what a request offers and shows and about the tools: the *)
(* calls of grep and glob and the pages of their answers (SearchCalls),    *)
(* the page cache of web_fetch (WebFetch), the tools that the model is     *)
(* offered (ToolRegistry), what it is shown of the session (ContextView),  *)
(* the copy of ripgrep that searches share (RgBinary), and the writing     *)
(* tools with their backups and the checkpoints that undo them             *)
(* (PatchFiles).                                                           *)
(***************************************************************************)
EXTENDS SearchCalls, WebFetch, ToolRegistry, ContextView, RgBinary, PatchFiles,
        FiniteSetTheorems, FunctionTheorems, SequenceTheorems, WellFoundedInduction, TLAPS

(***************************************************************************)
(* Numbers, ranks and sequences. A set of numbers has its least, which is  *)
(* how what a recursive function computes is shown: there is no least      *)
(* number at which it is otherwise.                                        *)
(***************************************************************************)

LEMMA Least ==
  ASSUME NEW D \in SUBSET Nat, D # {}
  PROVE  \E n \in D : \A m \in D : n <= m
<1> DEFINE LessThan == {p \in Nat \X Nat : p[1] < p[2]}
<1>1. IsWellFoundedOn(LessThan, Nat)
  BY ZenonT(20), NatLessThanWellFounded DEF OpToRel
<1>2. PICK n \in D : \A m \in D : ~ (<<m, n>> \in LessThan)
  <2> HIDE DEF LessThan
  <2> QED
    BY <1>1, WFMin
<1>3. ASSUME NEW m \in D PROVE n <= m
  <2>1. ~ (<<m, n>> \in LessThan)
    BY <1>2
  <2>2. ~ (m < n)
    BY <2>1
  <2> QED
    BY <2>2
<1> QED
  BY <1>3

\* In a strict total order of a finite set each rank has its element, and only one.
LEMMA RankedOnce ==
  ASSUME NEW S, IsFiniteSet(S), NEW R, \A x \in S : <<x, x>> \notin R,
         \A x, y \in S : x # y => <<x, y>> \in R \/ <<y, x>> \in R,
         \A x, y, z \in S : <<x, y>> \in R /\ <<y, z>> \in R => <<x, z>> \in R
  PROVE  /\ Cardinality(S) \in Nat
         /\ \A i \in 1..Cardinality(S) : \E x \in S : Cardinality({y \in S : <<y, x>> \in R}) = i - 1
         /\ \A x \in S : Cardinality({y \in S : <<y, x>> \in R}) \in 0..(Cardinality(S) - 1)
         /\ \A x, y \in S :
              Cardinality({z \in S : <<z, x>> \in R}) = Cardinality({z \in S : <<z, y>> \in R}) => x = y
<1> DEFINE Below(x) == {y \in S : <<y, x>> \in R}
           rank == [x \in S |-> Cardinality(Below(x))]
<1>1. PICK n \in Nat : n = Cardinality(S)
  BY FS_CardinalityType
<1>2. \A x \in S : Below(x) \in SUBSET S /\ Below(x) \cup {x} \in SUBSET S /\ x \notin Below(x)
  OBVIOUS
<1>3. \A x, y \in S : <<x, y>> \in R => Below(x) \cup {x} \in SUBSET Below(y)
  OBVIOUS
<1> HIDE DEF Below
<1>4. \A x \in S : IsFiniteSet(Below(x)) /\ IsFiniteSet(Below(x) \cup {x})
  BY <1>2, FS_Subset
<1>5. \A x \in S : Cardinality(Below(x) \cup {x}) = Cardinality(Below(x)) + 1
  BY <1>2, <1>4, FS_AddElement
<1>6. \A x \in S : Cardinality(Below(x)) \in 0..(n - 1)
  <2> SUFFICES ASSUME NEW x \in S PROVE Cardinality(Below(x)) \in 0..(n - 1)
    OBVIOUS
  <2>1. Cardinality(Below(x)) \in Nat
    BY <1>4, FS_CardinalityType
  <2>2. Cardinality(Below(x) \cup {x}) <= n
    BY <1>1, <1>2, FS_Subset
  <2>3. Cardinality(Below(x)) + 1 <= n
    BY <1>5, <2>2
  <2> QED
    BY <2>1, <2>3
<1>7. ASSUME NEW x \in S, NEW y \in S, x # y
      PROVE  rank[x] # rank[y]
  <2>1. ASSUME NEW u \in S, NEW v \in S, <<u, v>> \in R
        PROVE  rank[u] # rank[v]
    <3>1. Cardinality(Below(u) \cup {u}) <= Cardinality(Below(v))
      BY <1>3, <1>4, <2>1, FS_Subset
    <3>2. PICK k \in Int, m \in Int : k = rank[u] /\ m = rank[v]
      BY <1>6
    <3>3. k + 1 <= m
      BY <1>5, <3>1, <3>2
    <3> QED
      BY <3>2, <3>3
  <2> QED
    BY <1>7, <2>1
<1>8. rank \in Injection(S, 0..(n - 1))
  BY <1>6, <1>7 DEF Injection, IsInjective
<1>9. IsFiniteSet(0..(n - 1)) /\ Cardinality(0..(n - 1)) = n
  <2>1. 0 \in Int /\ n - 1 \in Int
    OBVIOUS
  <2>2. IsFiniteSet(0..(n - 1)) /\ Cardinality(0..(n - 1)) = IF 0 > n - 1 THEN 0 ELSE (n - 1) - 0 + 1
    BY <2>1, FS_Interval
  <2> QED
    BY <2>2
<1>10. rank \in Surjection(S, 0..(n - 1))
  <2> HIDE DEF rank
  <2> QED
    BY <1>1, <1>8, <1>9, FS_Injection
<1>11. ASSUME NEW i \in 1..n
       PROVE  \E x \in S : Cardinality(Below(x)) = i - 1
  <2>1. i - 1 \in 0..(n - 1)
    OBVIOUS
  <2>2. PICK x \in S : rank[x] = i - 1
    BY <1>10, <2>1 DEF Surjection
  <2> QED
    BY <2>2
<1>12. \A x, y \in S : Cardinality(Below(x)) = Cardinality(Below(y)) => x = y
  BY <1>7
<1> QED
  BY <1>1, <1>6, <1>11, <1>12 DEF Below

LEMMA Ranked ==
  ASSUME NEW S, IsFiniteSet(S), NEW R, \A x \in S : <<x, x>> \notin R,
         \A x, y \in S : x # y => <<x, y>> \in R \/ <<y, x>> \in R,
         \A x, y, z \in S : <<x, y>> \in R /\ <<y, z>> \in R => <<x, z>> \in R
  PROVE  /\ Cardinality(S) \in Nat
         /\ \A i \in 1..Cardinality(S) : \E x \in S : Cardinality({y \in S : <<y, x>> \in R}) = i - 1
<1>1. /\ Cardinality(S) \in Nat
      /\ \A i \in 1..Cardinality(S) : \E x \in S : Cardinality({y \in S : <<y, x>> \in R}) = i - 1
      /\ \A x \in S : Cardinality({y \in S : <<y, x>> \in R}) \in 0..(Cardinality(S) - 1)
      /\ \A x, y \in S :
           Cardinality({z \in S : <<z, x>> \in R}) = Cardinality({z \in S : <<z, y>> \in R}) => x = y
  BY RankedOnce
<1> QED
  BY <1>1

LEMMA IntervalFinite == ASSUME NEW n \in Nat, NEW S \in SUBSET (0..n) PROVE IsFiniteSet(S) /\ Cardinality(S) \in Nat
<1>1. 0 \in Int /\ n \in Int
  OBVIOUS
<1>2. IsFiniteSet(0..n)
  BY <1>1, FS_Interval
<1> QED
  BY <1>2, FS_Subset, FS_CardinalityType

LEMMA MaxFacts ==
  ASSUME NEW n \in Nat, NEW S \in SUBSET (0..n), S # {}
  PROVE  Max(S) \in S /\ \A y \in S : y <= Max(S)
<1> DEFINE D == {m \in 0..n : \A y \in S : y <= m}
<1>1. PICK m \in D : \A k \in D : m <= k
  <2>1. n \in D /\ D \in SUBSET Nat
    OBVIOUS
  <2> HIDE DEF D
  <2> QED
    BY <2>1, Least
<1>2. m \in 0..n /\ \A y \in S : y <= m
  OBVIOUS
<1>3. m \in S
  <2> SUFFICES ASSUME m \notin S PROVE FALSE
    OBVIOUS
  <2>1. PICK y \in S : TRUE
    OBVIOUS
  <2>2. m - 1 \in 0..n
    BY <1>2, <2>1
  <2>3. \A z \in S : z <= m - 1
    BY <1>2
  <2>4. m - 1 \in D
    BY <2>2, <2>3
  <2> QED
    BY <1>1, <1>2, <2>4
<1>4. \E x \in S : \A y \in S : x >= y
  BY <1>2, <1>3
<1>5. Max(S) \in S /\ \A y \in S : Max(S) >= y
  BY <1>4 DEF Max
<1> QED
  BY <1>5

\* A set of numbers by their ranks is the set in its order.
ByRank(s, I) == s = [k \in 1..Cardinality(I) |-> CHOOSE i \in I : Cardinality({j \in I : j < i}) = k - 1]
InOrderOf(s, I) ==
  /\ Cardinality(I) \in Nat /\ DOMAIN s = 1..Cardinality(I)
  /\ \A k \in 1..Cardinality(I) : s[k] \in I
  /\ \A i \in I : \E k \in 1..Cardinality(I) : s[k] = i
  /\ \A j, k \in 1..Cardinality(I) : j < k => s[j] < s[k]
LEMMA OrderOf ==
  ASSUME NEW n \in Nat, NEW I \in SUBSET (1..n),
         NEW s, ByRank(s, I)
  PROVE  InOrderOf(s, I)
<1> DEFINE R == {p \in I \X I : p[1] < p[2]}
           Before(i) == {j \in I : j < i}
           Rank(i) == Cardinality(Before(i))
<1>1. IsFiniteSet(I)
  <2>1. I \in SUBSET (0..n)
    OBVIOUS
  <2> QED
    BY <2>1, IntervalFinite
<1>2. \A i, j \in I : <<i, j>> \in R <=> i < j
  OBVIOUS
<1>3. /\ \A i \in I : <<i, i>> \notin R
      /\ \A i, j \in I : i # j => <<i, j>> \in R \/ <<j, i>> \in R
      /\ \A i, j, k \in I : <<i, j>> \in R /\ <<j, k>> \in R => <<i, k>> \in R
  <2> HIDE DEF R
  <2>0. \A i \in I : i \in Int
    OBVIOUS
  <2>1. \A i \in I : <<i, i>> \notin R
    BY <1>2, <2>0
  <2>2. \A i, j \in I : i # j => <<i, j>> \in R \/ <<j, i>> \in R
    BY <1>2, <2>0
  <2>3. \A i, j, k \in I : <<i, j>> \in R /\ <<j, k>> \in R => <<i, k>> \in R
    BY <1>2, <2>0
  <2> QED
    BY <2>1, <2>2, <2>3
<1>4. \A i \in I : {j \in I : <<j, i>> \in R} = Before(i)
  BY <1>2
<1> HIDE DEF R
<1>5. /\ Cardinality(I) \in Nat
      /\ \A k \in 1..Cardinality(I) : \E i \in I : Cardinality({j \in I : <<j, i>> \in R}) = k - 1
      /\ \A i \in I : Cardinality({j \in I : <<j, i>> \in R}) \in 0..(Cardinality(I) - 1)
      /\ \A i, k \in I : Cardinality({j \in I : <<j, i>> \in R}) = Cardinality({j \in I : <<j, k>> \in R}) => i = k
  BY <1>1, <1>3, RankedOnce
<1>6. /\ \A k \in 1..Cardinality(I) : \E i \in I : Rank(i) = k - 1
      /\ \A i \in I : Rank(i) \in 0..(Cardinality(I) - 1)
      /\ \A i, k \in I : Rank(i) = Rank(k) => i = k
  BY <1>4, <1>5
<1>7. s = [k \in 1..Cardinality(I) |-> CHOOSE i \in I : Rank(i) = k - 1]
  BY DEF ByRank
<1> HIDE DEF Rank
<1>8. ASSUME NEW k \in 1..Cardinality(I) PROVE s[k] \in I /\ Rank(s[k]) = k - 1
  BY <1>6, <1>7
<1>9. ASSUME NEW i \in I PROVE \E k \in 1..Cardinality(I) : s[k] = i
  <2>1. PICK r \in 0..(Cardinality(I) - 1) : r = Rank(i)
    BY <1>6
  <2>2. r + 1 \in 1..Cardinality(I) /\ (r + 1) - 1 = r
    BY <1>5
  <2>3. s[r + 1] \in I /\ Rank(s[r + 1]) = r
    BY <1>8, <2>2
  <2> QED
    BY <1>6, <2>1, <2>2, <2>3
<1>10. ASSUME NEW j \in 1..Cardinality(I), NEW k \in 1..Cardinality(I), j < k
       PROVE  s[j] < s[k]
  <2>1. PICK a \in I, b \in I : a = s[j] /\ b = s[k] /\ Rank(a) = j - 1 /\ Rank(b) = k - 1
    BY <1>8
  <2>2. CASE b <= a
    <3>0. \A i \in I : i < b => i < a
      <4>1. a \in Int /\ b \in Int /\ \A i \in I : i \in Int
        OBVIOUS
      <4> QED
        BY <2>2, <4>1
    <3>1. Before(b) \subseteq Before(a) /\ IsFiniteSet(Before(a))
      <4>1. Before(b) \subseteq Before(a) /\ Before(a) \subseteq I
        BY <3>0
      <4> QED
        BY <1>1, <4>1, FS_Subset
    <3>2. Rank(b) <= Rank(a)
      BY <3>1, FS_Subset DEF Rank
    <3> QED
      BY <1>5, <1>10, <2>1, <3>2
  <2>3. CASE a < b
    BY <2>1, <2>3
  <2> QED
    BY <2>2, <2>3
<1>11. DOMAIN s = 1..Cardinality(I)
  BY <1>7
<1> QED
  BY <1>5, <1>8, <1>9, <1>10, <1>11 DEF InOrderOf

LEMMA SetOfAppend ==
  ASSUME NEW S, NEW s \in Seq(S), NEW x \in S
  PROVE  Append(s, x) \in Seq(S) /\ ToSet(Append(s, x)) = ToSet(s) \cup {x}
<1>1. /\ Append(s, x) \in Seq(S) /\ Len(Append(s, x)) = Len(s) + 1 /\ Append(s, x)[Len(s) + 1] = x
      /\ \A i \in 1 .. Len(s) : Append(s, x)[i] = s[i]
  OBVIOUS
<1>2. /\ Len(s) \in Nat /\ DOMAIN s = 1 .. Len(s)
      /\ DOMAIN Append(s, x) = 1 .. Len(Append(s, x))
  BY <1>1
<1>3. \A i \in DOMAIN Append(s, x) : i \in DOMAIN s \/ i = Len(s) + 1
  BY <1>1, <1>2
<1>4. DOMAIN s \subseteq DOMAIN Append(s, x) /\ Len(s) + 1 \in DOMAIN Append(s, x)
  BY <1>1, <1>2
<1> QED
  BY <1>1, <1>2, <1>3, <1>4 DEF ToSet

LEMMA SetOfPair ==
  ASSUME NEW S, NEW s \in Seq(S), NEW x \in S, NEW y \in S
  PROVE  s \o <<x, y>> \in Seq(S) /\ ToSet(s \o <<x, y>>) = ToSet(s) \cup {x, y}
<1>1. s \o <<x, y>> = Append(Append(s, x), y)
  OBVIOUS
<1> DEFINE t == Append(s, x)
<1>2. t \in Seq(S) /\ ToSet(t) = ToSet(s) \cup {x}
  BY SetOfAppend
<1> HIDE DEF t
<1>3. Append(t, y) \in Seq(S) /\ ToSet(Append(t, y)) = ToSet(t) \cup {y}
  BY <1>2, SetOfAppend
<1> QED
  BY <1>1, <1>2, <1>3 DEF t

LEMMA SetOfRest ==
  ASSUME NEW S, NEW s \in Seq(S), NEW n \in 1 .. 2, Len(s) >= n
  PROVE  SubSeq(s, n + 1, Len(s)) \in Seq(S) /\ ToSet(SubSeq(s, n + 1, Len(s))) \subseteq ToSet(s)
BY DEF ToSet

LEMMA SetOfNone == ASSUME NEW S PROVE <<>> \in Seq(S) /\ ToSet(<<>>) = {}
BY DEF ToSet

LEMMA FirstIn ==
  ASSUME NEW S, NEW s \in Seq(S), NEW i \in 1 .. Len(s)
  PROVE  s[i] \in ToSet(s) /\ s[i] \in S
BY DEF ToSet

\* The elements of two sequences joined.
LEMMA SetOfBoth ==
  ASSUME NEW T, NEW s \in Seq(T), NEW t \in Seq(T)
  PROVE  s \o t \in Seq(T) /\ ToSet(s \o t) = ToSet(s) \cup ToSet(t)
<1>1. PICK m \in Nat, n \in Nat : m = Len(s) /\ n = Len(t) /\ DOMAIN s = 1..m /\ DOMAIN t = 1..n
  BY LenProperties
<1>2. /\ s \o t \in Seq(T) /\ Len(s \o t) = m + n
      /\ \A i \in 1..(m + n) : (s \o t)[i] = IF i <= m THEN s[i] ELSE t[i - m]
  BY <1>1, ConcatProperties
<1> DEFINE u == s \o t
<1> HIDE DEF u
<1>3. DOMAIN u = 1..(m + n)
  BY <1>2, LenProperties DEF u
<1>4. \A i \in 1..m : i \in 1..(m + n) /\ u[i] = s[i]
  BY <1>2 DEF u
<1>5. \A i \in 1..n : m + i \in 1..(m + n) /\ u[m + i] = t[i]
  <2>1. \A i \in 1..n : m + i \in 1..(m + n) /\ ~(m + i <= m) /\ (m + i) - m = i
    OBVIOUS
  <2> QED
    BY <1>2, <2>1 DEF u
<1>6. \A i \in 1..(m + n) : \/ i \in 1..m /\ u[i] = s[i]
                            \/ i - m \in 1..n /\ u[i] = t[i - m]
  BY <1>2 DEF u
<1>7. ToSet(u) = ToSet(s) \cup ToSet(t)
  BY <1>1, <1>3, <1>4, <1>5, <1>6 DEF ToSet
<1> QED
  BY <1>2, <1>7 DEF u

\* A sequence of sequences joined into one: its elements are theirs.
Elements(s, n) == UNION {ToSet(s[i]) : i \in 1..n}
Joined(f, s, n) == \A i \in 1..n : f[i] = IF i = 1 THEN s[i] ELSE f[i - 1] \o s[i]

LEMMA JoinedExists ==
  ASSUME NEW T, NEW n \in Nat, NEW s \in [1..n -> Seq(T)]
  PROVE  \E f \in [1..n -> Seq(T)] : Joined(f, s, n)
<1> DEFINE Has(k) == \E f \in [1..k -> Seq(T)] : Joined(f, s, k)
           D == {k \in 0..n : ~ Has(k)}
<1>1. CASE D # {}
  <2>0. D \in SUBSET Nat
    OBVIOUS
  <2>1. PICK k \in D : \A m \in D : k <= m
    <3> HIDE DEF D
    <3> QED
      BY <1>1, <2>0, Least
  <2>2. k # 0
    <3>1. [i \in 1..0 |-> <<>>] \in [1..0 -> Seq(T)] /\ Joined([i \in 1..0 |-> <<>>], s, 0)
      BY DEF Joined
    <3>2. Has(0)
      BY <3>1
    <3> QED
      BY <3>2
  <2>3. k - 1 \in 0..n /\ Has(k - 1) /\ k \in 1..n /\ ~Has(k)
    <3> HIDE DEF Has
    <3>1. k \in 0..n /\ k \in Int /\ ~Has(k)
      BY <2>1
    <3>2. k - 1 \in 0..n /\ k \in 1..n /\ ~(k <= k - 1)
      BY <2>2, <3>1
    <3>3. k - 1 \notin D
      BY <2>1, <3>2
    <3> QED
      BY <3>1, <3>2, <3>3
  <2>4. PICK f \in [1..(k - 1) -> Seq(T)] : Joined(f, s, k - 1)
    BY <2>3
  <2>5. PICK last \in Seq(T) : last = IF k = 1 THEN s[k] ELSE f[k - 1] \o s[k]
    <3>1. CASE k = 1
      BY <2>3, <3>1
    <3>2. CASE k # 1
      <4>1. k - 1 \in 1..(k - 1)
        BY <2>3, <3>2
      <4>2. f[k - 1] \in Seq(T) /\ s[k] \in Seq(T)
        BY <2>3, <4>1
      <4>3. f[k - 1] \o s[k] \in Seq(T)
        BY <4>2, ConcatProperties
      <4> QED
        BY <3>2, <4>3
    <3> QED
      BY <3>1, <3>2
  <2> DEFINE g == [i \in 1..k |-> IF i = k THEN last ELSE f[i]]
  <2>6. g \in [1..k -> Seq(T)]
    <3>1. \A i \in 1..k : i # k => i \in 1..(k - 1)
      BY <2>3
    <3> QED
      BY <2>3, <3>1
  <2>7. ASSUME NEW i \in 1..k PROVE g[i] = IF i = 1 THEN s[i] ELSE g[i - 1] \o s[i]
    <3>1. CASE i = k
      <4>1. k # 1 => k - 1 \in 1..k /\ k - 1 # k
        BY <2>3
      <4>2. k # 1 => g[k - 1] = f[k - 1]
        BY <4>1
      <4>3. g[k] = last
        BY <2>3
      <4> HIDE DEF g
      <4> QED
        BY <2>5, <3>1, <4>2, <4>3, Zenon
    <3>2. CASE i # k
      <4>1. i \in 1..(k - 1) /\ (i # 1 => i - 1 \in 1..k /\ i - 1 # k)
        BY <2>3, <3>2
      <4>2. f[i] = IF i = 1 THEN s[i] ELSE f[i - 1] \o s[i]
        BY <2>4, <4>1 DEF Joined
      <4>3. g[i] = f[i] /\ (i # 1 => g[i - 1] = f[i - 1])
        BY <3>2, <4>1
      <4> HIDE DEF g
      <4> QED
        BY <4>2, <4>3, Zenon
    <3> QED
      BY <3>1, <3>2
  <2> HIDE DEF g
  <2> QED
    BY <2>3, <2>6, <2>7 DEF Joined
<1>2. CASE D = {}
  <2>1. n \in 0..n /\ Has(n)
    <3> HIDE DEF Has
    <3> QED
      BY <1>2
  <2> QED
    BY <2>1
<1> QED
  BY <1>1, <1>2

LEMMA JoinedIn ==
  ASSUME NEW T, NEW n \in Nat, NEW s \in [1..n -> Seq(T)], NEW f \in [1..n -> Seq(T)], Joined(f, s, n)
  PROVE  \A k \in 1..n : ToSet(f[k]) = Elements(s, k)
<1> DEFINE D == {k \in 1..n : ToSet(f[k]) # Elements(s, k)}
<1>1. CASE D # {}
  <2>0. D \in SUBSET Nat
    OBVIOUS
  <2>1. PICK k \in D : \A m \in D : k <= m
    <3> HIDE DEF D
    <3> QED
      BY <1>1, <2>0, Least
  <2>2. k \in 1..n /\ k \in Nat /\ ToSet(f[k]) # Elements(s, k)
    OBVIOUS
  <2>3. CASE k = 1
    <3>1. f[1] = s[1]
      BY <2>2, <2>3 DEF Joined
    <3>2. 1..1 = {1}
      OBVIOUS
    <3>3. Elements(s, 1) = ToSet(s[1])
      BY <3>2 DEF Elements
    <3> QED
      BY <2>2, <2>3, <3>1, <3>3
  <2>4. CASE k # 1
    <3>1. k - 1 \in 1..n /\ ~(k <= k - 1)
      BY <2>2, <2>4
    <3>2. ToSet(f[k - 1]) = Elements(s, k - 1)
      <4>1. k - 1 \notin D
        BY <2>1, <3>1
      <4> QED
        BY <3>1, <4>1
    <3>3. f[k] = f[k - 1] \o s[k]
      BY <2>2, <2>4 DEF Joined
    <3>4. f[k - 1] \in Seq(T) /\ s[k] \in Seq(T)
      BY <2>2, <3>1
    <3>5. ToSet(f[k]) = ToSet(f[k - 1]) \cup ToSet(s[k])
      BY <3>3, <3>4, SetOfBoth
    <3>6. 1..k = 1..(k - 1) \cup {k}
      BY <2>2
    <3>7. Elements(s, k) = Elements(s, k - 1) \cup ToSet(s[k])
      BY <3>6 DEF Elements
    <3> QED
      BY <2>2, <3>2, <3>5, <3>7
  <2> QED
    BY <2>3, <2>4
<1>2. CASE D = {}
  BY <1>2
<1> QED
  BY <1>1, <1>2

LEMMA FlattenFacts ==
  ASSUME NEW T, NEW s \in Seq(Seq(T))
  PROVE  FlattenSeq(s) \in Seq(T) /\ ToSet(FlattenSeq(s)) = Elements(s, Len(s))
<1>1. PICK n \in Nat : n = Len(s) /\ DOMAIN s = 1..n
  BY LenProperties
<1>2. s \in [1..n -> Seq(T)]
  BY <1>1, LenProperties
<1>3. CASE n = 0
  <2>1. FlattenSeq(s) = s
    BY <1>1, <1>3 DEF FlattenSeq
  <2>2. s = <<>> /\ DOMAIN s = {}
    BY <1>1, <1>3
  <2> QED
    BY <1>1, <1>3, <2>1, <2>2 DEF ToSet, Elements
<1>4. CASE n # 0
  <2>1. PICK f \in [1..n -> Seq(T)] : Joined(f, s, n)
    BY <1>2, JoinedExists
  <2> DEFINE Fix(h) == h = [i \in 1..n |-> IF i = 1 THEN s[i] ELSE h[i - 1] \o s[i]]
  <2>2. Fix(f)
    <3> DEFINE g == [i \in 1..n |-> IF i = 1 THEN s[i] ELSE f[i - 1] \o s[i]]
    <3>1. \A i \in 1..n : f[i] = g[i]
      BY <2>1 DEF Joined
    <3> QED
      BY <3>1
  <2>3. FlattenSeq(s) = (CHOOSE h : Fix(h))[n]
    BY <1>1, <1>4 DEF FlattenSeq
  <2>4. PICK h : h = (CHOOSE k : Fix(k)) /\ Fix(h)
    <3> HIDE DEF Fix
    <3> QED
      BY <2>2
  <2>5. DOMAIN h = 1..n /\ Joined(h, s, n)
    <3>1. h = [i \in 1..n |-> IF i = 1 THEN s[i] ELSE h[i - 1] \o s[i]]
      BY <2>4
    <3>2. \A i \in 1..n : h[i] = IF i = 1 THEN s[i] ELSE h[i - 1] \o s[i]
      BY <3>1
    <3> QED
      BY <3>1, <3>2 DEF Joined
  <2>6. \A k \in 1..n : h[k] = f[k]
    <3> DEFINE D == {k \in 1..n : h[k] # f[k]}
    <3>1. D \in SUBSET Nat
      OBVIOUS
    <3>2. CASE D # {}
      <4>1. PICK k \in D : \A m \in D : k <= m
        <5> HIDE DEF D
        <5> QED
          BY <3>1, <3>2, Least
      <4>2. k \in 1..n /\ h[k] # f[k]
        OBVIOUS
      <4>3. k # 1
        BY <2>1, <2>5, <4>2 DEF Joined
      <4>4. k - 1 \in 1..n /\ ~(k <= k - 1)
        BY <4>2, <4>3
      <4>5. h[k - 1] = f[k - 1]
        BY <4>1, <4>4
      <4>6. h[k] = h[k - 1] \o s[k] /\ f[k] = f[k - 1] \o s[k]
        BY <2>1, <2>5, <4>2, <4>3 DEF Joined
      <4> QED
        BY <4>2, <4>5, <4>6
    <3>3. CASE D = {}
      BY <3>3
    <3> QED
      BY <3>2, <3>3
  <2>7. FlattenSeq(s) = f[n] /\ n \in 1..n
    <3> HIDE DEF Fix
    <3>1. FlattenSeq(s) = h[n]
      BY <2>3, <2>4
    <3>2. n \in 1..n
      BY <1>4
    <3> QED
      BY <2>6, <3>1, <3>2
  <2>8. ToSet(f[n]) = Elements(s, n)
    BY <1>2, <2>1, <2>7, JoinedIn
  <2> QED
    BY <1>1, <2>7, <2>8
<1> QED
  BY <1>3, <1>4

\* The elements of a sequence are finitely many.
LEMMA SetFinite == ASSUME NEW T, NEW s \in Seq(T) PROVE IsFiniteSet(ToSet(s))
<1>1. PICK n \in Nat : n = Len(s) /\ DOMAIN s = 1..n /\ s \in [1..n -> T]
  BY LenProperties
<1>2. s \in Surjection(1..n, ToSet(s))
  BY <1>1 DEF Surjection, ToSet
<1>3. IsFiniteSet(1..n)
  BY FS_Interval
<1> QED
  BY <1>2, <1>3, FS_Surjection

LEMMA OneElement ==
  ASSUME NEW S, IsFiniteSet(S), ~(Cardinality(S) > 1), NEW x \in S, NEW y \in S
  PROVE  x = y
<1>1. Cardinality(S) \in Nat /\ Cardinality(S) # 0
  BY FS_CardinalityType, FS_EmptySet
<1>2. Cardinality(S) = 1
  BY <1>1
<1>3. PICK z : S = {z}
  BY <1>2, FS_Singleton
<1> QED
  BY <1>3

(***************************************************************************)
(* SearchCalls. What is found has its file in scope and not excluded; what *)
(* is sorted has the elements of the set, each at its rank; the pages are  *)
(* adjacent parts of one list as long as nobody edits the workspace.       *)
(***************************************************************************)

FoundSet == [rel : SearchFiles, line : 0..(2 * MaxHits + 1), kind : {"match", "context", "file"}]
EntrySet == SearchFiles \cup FoundSet \cup [rel : SearchFiles, count : Nat]
AnswerSet == [kind : {"none", "text", "error"}, body : Seq(EntrySet), total : Nat, matches : Nat, more : BOOLEAN]
SearchSet == [at : {"rest", "check", "exec", "parse", "sort", "answered"}, in : SearchInput,
              found : SUBSET FoundSet, list : Seq(EntrySet), answer : AnswerSet, still : BOOLEAN]
WalkSet == [from : Int, shown : Seq(EntrySet), over : BOOLEAN]
TreeSet == [SearchFiles -> [time : 0..(2 + MaxEdits), hits : 0..MaxHits]]

ScShape ==
  /\ tree \in TreeSet /\ fileEdits \in 0..MaxEdits /\ search \in SearchSet /\ walk \in WalkSet
  /\ search.at \in {"exec", "parse", "sort"} => search.in.offset \in Nat

\* A line of a file is found once.
OneLine(found) == \A r, s \in found : r.rel = s.rel /\ r.line = s.line => r = s
InReach(in, f) == f \in SearchFiles /\ Place[f] # "git" /\ (Place[f] = "skip" => in.scope = "skip")
Allowed(in, f) ==
  /\ InReach(in, f) /\ Place[f] \notin {"secret", "binary"}
  /\ Place[f] = "hidden" /\ in.tool = "glob" => IncludeHidden
FileOf(in, e) == IF in.tool = "glob" \/ in.mode = "files_with_matches" THEN e ELSE e.rel

\* What a call has found at its place, and what it may have answered.
FoundThere ==
  /\ search.at \in {"parse", "sort"} => OneLine(search.found) /\ \A r \in search.found : InReach(search.in, r.rel)
  /\ search.at = "sort" => \A r \in search.found : Allowed(search.in, r.rel)
  /\ search.at # "answered" => search.answer = NoAnswer /\ search.list = <<>>
  /\ \A i \in 1..Len(search.answer.body) : Allowed(search.in, FileOf(search.in, search.answer.body[i]))

\* One unlimited answer to the query, in the workspace as it is.
Whole(in) == Entries(in, ParsedRecords(in, Output(in)))

\* The pages so far of a query that nobody disturbed: those before the offset, or before the next one.
Shown(in, to) ==
  /\ walk.from \in Nat /\ walk.from <= to /\ (to <= Len(Whole(in)) \/ walk.from = to)
  /\ walk.shown = SubSeq(Whole(in), walk.from + 1, to)
Complete(in) ==
  LET rest == SubSeq(Whole(in), walk.from + 1, Len(Whole(in)))
  IN  /\ IsPrefix(walk.shown, rest)
      /\ walk.over \/ ~search.answer.more => walk.shown = rest
      /\ search.answer.total = Len(Whole(in))
Pages(in) ==
  /\ search.at \in {"check", "exec", "parse", "sort"} /\ in.offset \in Nat => Shown(in, in.offset)
  /\ search.at = "answered" /\ search.answer.kind = "text" =>
       /\ in.offset \in Nat /\ Complete(in)
       /\ ~walk.over =>
            /\ ResolveHeadLimit(in) # 0 /\ in.offset + ResolveHeadLimit(in) <= Len(Whole(in))
            /\ Shown(in, in.offset + ResolveHeadLimit(in))
Paging ==
  \A in \in SearchInput : search.still /\ search.in = in =>
    /\ search.at = "parse" => search.found = Output(in)
    /\ search.at = "sort" => search.found = ParsedRecords(in, Output(in))
    /\ in.tool = "grep" /\ in.scope # "git" => Pages(in)

ScInductive == ScShape /\ FoundThere /\ NothingCutSilently /\ Paging

-----------------------------------------------------------------------------
(* Ranks, pages, and what is sorted.                                       *)

LEMMA FoundFinite == IsFiniteSet(FoundSet) /\ \A found \in SUBSET FoundSet : IsFiniteSet(found)
<1> DEFINE Lines == 0..(2 * MaxHits + 1)
           KindSet == {"match", "context", "file"}
           made == [p \in SearchFiles \X (Lines \X KindSet) |-> [rel |-> p[1], line |-> p[2][1], kind |-> p[2][2]]]
<1>1. IsFiniteSet(Lines)
  <2>1. 2 * MaxHits + 1 \in Int /\ 0 \in Int
    BY SearchAssumption DEF SearchAssumption
  <2> QED
    BY <2>1, FS_Interval
<1>2. IsFiniteSet(KindSet)
  <2>1. IsFiniteSet({"match"})
    BY FS_Singleton
  <2>2. IsFiniteSet({"match"} \cup {"context"})
    BY <2>1, FS_AddElement
  <2>3. IsFiniteSet(({"match"} \cup {"context"}) \cup {"file"})
    BY <2>2, FS_AddElement
  <2>4. KindSet = ({"match"} \cup {"context"}) \cup {"file"}
    OBVIOUS
  <2> QED
    BY <2>3, <2>4
<1>3. IsFiniteSet(SearchFiles \X (Lines \X KindSet))
  BY <1>1, <1>2, SearchAssumption, FS_Product DEF SearchAssumption
<1>4. made \in Surjection(SearchFiles \X (Lines \X KindSet), FoundSet)
  <2> HIDE DEF Lines, KindSet
  <2>0. FoundSet = [rel : SearchFiles, line : Lines, kind : KindSet]
    BY DEF FoundSet, Lines, KindSet
  <2>1. made \in [SearchFiles \X (Lines \X KindSet) -> FoundSet]
    BY <2>0
  <2>2. ASSUME NEW r \in FoundSet
        PROVE  \E p \in SearchFiles \X (Lines \X KindSet) : made[p] = r
    <3>1. <<r.rel, <<r.line, r.kind>> >> \in SearchFiles \X (Lines \X KindSet)
      BY <2>0
    <3>2. made[<<r.rel, <<r.line, r.kind>> >>] = [rel |-> r.rel, line |-> r.line, kind |-> r.kind]
      BY <3>1
    <3>3. r = [rel |-> r.rel, line |-> r.line, kind |-> r.kind]
      BY <2>0
    <3> QED
      BY <3>1, <3>2, <3>3
  <2> QED
    BY <2>1, <2>2 DEF Surjection
<1> QED
  BY <1>3, <1>4, FS_Surjection, FS_Subset

\* The files changed last come first; the elements are those of the set.
LEMMA FilesSorted ==
  ASSUME tree \in TreeSet, NEW files \in SUBSET SearchFiles
  PROVE  /\ Cardinality(files) \in Nat /\ SortFilesByMtime(files) \in Seq(SearchFiles)
         /\ Len(SortFilesByMtime(files)) = Cardinality(files)
         /\ \A i \in 1..Cardinality(files) : SortFilesByMtime(files)[i] \in files
<1> DEFINE R == {p \in files \X files : Newer(p[1], p[2])}
<1>1. IsFiniteSet(files)
  BY SearchAssumption, FS_Subset DEF SearchAssumption
<1>2. \A f \in files : f \in Nat /\ FileModTime(f) \in Nat
  BY SearchAssumption DEF SearchAssumption, TreeSet, FileModTime
<1>3. \A f, g \in files : <<f, g>> \in R <=> Newer(f, g)
  OBVIOUS
<1>4. /\ \A x \in files : <<x, x>> \notin R
      /\ \A x, y \in files : x # y => <<x, y>> \in R \/ <<y, x>> \in R
      /\ \A x, y, z \in files : <<x, y>> \in R /\ <<y, z>> \in R => <<x, z>> \in R
  <2> HIDE DEF R
  <2>1. \A x \in files : <<x, x>> \notin R
    BY <1>2, <1>3 DEF Newer
  <2>2. \A x, y \in files : x # y => <<x, y>> \in R \/ <<y, x>> \in R
    BY <1>2, <1>3 DEF Newer
  <2>3. \A x, y, z \in files : <<x, y>> \in R /\ <<y, z>> \in R => <<x, z>> \in R
    BY <1>2, <1>3 DEF Newer
  <2> QED
    BY <2>1, <2>2, <2>3
<1> HIDE DEF R
<1>5. /\ Cardinality(files) \in Nat
      /\ \A i \in 1..Cardinality(files) : \E x \in files : Cardinality({y \in files : <<y, x>> \in R}) = i - 1
  BY <1>1, <1>4, Ranked
<1>6. \A x \in files : {y \in files : <<y, x>> \in R} = {y \in files : Newer(y, x)}
  BY <1>3
<1>7. \A i \in 1..Cardinality(files) : \E x \in files : Cardinality({y \in files : Newer(y, x)}) = i - 1
  BY <1>5, <1>6
<1>8. SortFilesByMtime(files) =
        [i \in 1..Cardinality(files) |-> CHOOSE x \in files : Cardinality({y \in files : Newer(y, x)}) = i - 1]
  BY DEF SortFilesByMtime, Sorted
<1>9. \A i \in 1..Cardinality(files) : SortFilesByMtime(files)[i] \in files
  BY <1>7, <1>8
<1>10. SortFilesByMtime(files) \in [1..Cardinality(files) -> SearchFiles]
  <2>1. DOMAIN SortFilesByMtime(files) = 1..Cardinality(files)
    BY <1>8
  <2> QED
    BY <1>8, <1>9, <2>1
<1> QED
  BY <1>5, <1>9, <1>10, LenProperties, SeqDef

LEMMA RecordsSorted ==
  ASSUME tree \in TreeSet, NEW found \in SUBSET FoundSet, OneLine(found)
  PROVE  /\ Cardinality(found) \in Nat /\ SortContentRecords(found) \in Seq(FoundSet)
         /\ Len(SortContentRecords(found)) = Cardinality(found)
         /\ \A i \in 1..Cardinality(found) : SortContentRecords(found)[i] \in found
<1> DEFINE Before(a, b) == IF a.rel # b.rel THEN Newer(a.rel, b.rel) ELSE a.line < b.line
           R == {p \in found \X found : Before(p[1], p[2])}
<1>1. IsFiniteSet(found)
  BY FoundFinite
<1>2. \A r \in found : r.rel \in Nat /\ r.line \in Nat /\ FileModTime(r.rel) \in Nat
  <2> SUFFICES ASSUME NEW r \in found
               PROVE  r.rel \in Nat /\ r.line \in Nat /\ FileModTime(r.rel) \in Nat
    OBVIOUS
  <2>1. r.rel \in SearchFiles /\ r.line \in 0..(2 * MaxHits + 1)
    BY DEF FoundSet
  <2>2. tree[r.rel].time \in 0..(2 + MaxEdits)
    BY <2>1 DEF TreeSet
  <2>3. r.rel \in Nat
    BY <2>1, SearchAssumption DEF SearchAssumption
  <2>4. MaxHits \in Nat /\ MaxEdits \in Nat
    BY SearchAssumption DEF SearchAssumption
  <2>5. r.line \in Nat
    BY <2>1, <2>4
  <2>6. FileModTime(r.rel) \in Nat
    BY <2>2, <2>4 DEF FileModTime
  <2> QED
    BY <2>3, <2>5, <2>6
<1>3. \A a, b \in found : <<a, b>> \in R <=> Before(a, b)
  OBVIOUS
<1>4. /\ \A x \in found : <<x, x>> \notin R
      /\ \A x, y \in found : x # y => <<x, y>> \in R \/ <<y, x>> \in R
      /\ \A x, y, z \in found : <<x, y>> \in R /\ <<y, z>> \in R => <<x, z>> \in R
  <2> HIDE DEF R
  <2>1. \A x \in found : <<x, x>> \notin R
    BY <1>2, <1>3
  <2>2. \A x, y \in found : x # y => <<x, y>> \in R \/ <<y, x>> \in R
    BY <1>2, <1>3 DEF Newer, OneLine
  <2>3. \A x, y, z \in found : <<x, y>> \in R /\ <<y, z>> \in R => <<x, z>> \in R
    BY <1>2, <1>3 DEF Newer
  <2> QED
    BY <2>1, <2>2, <2>3
<1> HIDE DEF R
<1>5. /\ Cardinality(found) \in Nat
      /\ \A i \in 1..Cardinality(found) : \E x \in found : Cardinality({y \in found : <<y, x>> \in R}) = i - 1
  BY <1>1, <1>4, Ranked
<1>6. \A x \in found : {y \in found : <<y, x>> \in R} = {y \in found : Before(y, x)}
  BY <1>3
<1>7. \A i \in 1..Cardinality(found) : \E x \in found : Cardinality({y \in found : Before(y, x)}) = i - 1
  BY <1>5, <1>6
<1>8. SortContentRecords(found) =
        [i \in 1..Cardinality(found) |-> CHOOSE x \in found : Cardinality({y \in found : Before(y, x)}) = i - 1]
  BY DEF SortContentRecords, Sorted
<1> HIDE DEF Before
<1>9. \A i \in 1..Cardinality(found) : SortContentRecords(found)[i] \in found
  BY <1>7, <1>8
<1>10. SortContentRecords(found) \in [1..Cardinality(found) -> FoundSet]
  <2>1. DOMAIN SortContentRecords(found) = 1..Cardinality(found)
    BY <1>8
  <2> QED
    BY <1>8, <1>9, <2>1
<1> QED
  BY <1>5, <1>9, <1>10, LenProperties, SeqDef

LEMMA EntriesFacts ==
  ASSUME tree \in TreeSet, NEW in \in SearchInput, NEW found \in SUBSET FoundSet, OneLine(found)
  PROVE  /\ Entries(in, found) \in Seq(EntrySet)
         /\ \A i \in 1..Len(Entries(in, found)) : \E r \in found : FileOf(in, Entries(in, found)[i]) = r.rel
<1> DEFINE files == SortFilesByMtime(WithMatches(found))
           n == Cardinality(WithMatches(found))
<1>1. WithMatches(found) \in SUBSET SearchFiles /\ \A f \in WithMatches(found) : \E r \in found : f = r.rel
  BY DEF WithMatches, FoundSet
<1>2. /\ n \in Nat /\ files \in Seq(SearchFiles) /\ Len(files) = n
      /\ \A i \in 1..n : files[i] \in WithMatches(found)
  BY <1>1, FilesSorted
<1>3. CASE in.tool = "glob" \/ in.mode = "files_with_matches"
  <2>1. Entries(in, found) = files
    BY <1>3 DEF Entries
  <2>2. files \in Seq(EntrySet)
    BY <1>2, SeqMonotonic DEF EntrySet
  <2> QED
    BY <1>1, <1>2, <1>3, <2>1, <2>2 DEF FileOf
<1>4. CASE ~(in.tool = "glob" \/ in.mode = "files_with_matches") /\ in.mode = "content"
  <2>1. Entries(in, found) = SortContentRecords(found)
    BY <1>4 DEF Entries
  <2>2. /\ Cardinality(found) \in Nat /\ SortContentRecords(found) \in Seq(FoundSet)
        /\ Len(SortContentRecords(found)) = Cardinality(found)
        /\ \A i \in 1..Cardinality(found) : SortContentRecords(found)[i] \in found
    BY RecordsSorted
  <2>3. SortContentRecords(found) \in Seq(EntrySet)
    BY <2>2, SeqMonotonic DEF EntrySet
  <2> QED
    BY <1>4, <2>1, <2>2, <2>3 DEF FileOf
<1>5. CASE ~(in.tool = "glob" \/ in.mode = "files_with_matches") /\ in.mode # "content"
  <2> DEFINE Counted(i) == [rel |-> files[i], count |-> Cardinality(Matches(found, files[i]))]
  <2>1. DOMAIN files = 1..n
    BY <1>2
  <2>2. Entries(in, found) = [i \in 1..n |-> Counted(i)]
    BY <1>5, <2>1 DEF Entries
  <2>3. ASSUME NEW i \in 1..n
        PROVE  Counted(i) \in EntrySet /\ Counted(i).rel = files[i]
    <3>1. Matches(found, files[i]) \in SUBSET FoundSet
      BY DEF Matches
    <3>2. Cardinality(Matches(found, files[i])) \in Nat
      BY <3>1, FoundFinite, FS_CardinalityType
    <3>3. files[i] \in SearchFiles
      BY <1>1, <1>2
    <3> QED
      BY <3>2, <3>3 DEF EntrySet
  <2> HIDE DEF Counted, files, n
  <2>4. Entries(in, found) \in [1..n -> EntrySet]
    BY <2>2, <2>3
  <2>5. Entries(in, found) \in Seq(EntrySet) /\ Len(Entries(in, found)) = n
    BY <1>2, <2>4, SeqDef, LenProperties
  <2>6. ASSUME NEW i \in 1..n
        PROVE  \E r \in found : FileOf(in, Entries(in, found)[i]) = r.rel
    <3>1. Entries(in, found)[i] = Counted(i)
      BY <2>2
    <3>2. FileOf(in, Entries(in, found)[i]) = files[i]
      BY <1>5, <2>3, <3>1 DEF FileOf
    <3> QED
      BY <1>1, <1>2, <3>2
  <2> QED
    BY <2>5, <2>6
<1> QED
  BY <1>3, <1>4, <1>5

LEMMA OfOne ==
  ASSUME NEW S, NEW e \in S
  PROVE  <<e>> \in Seq(S) /\ Len(<<e>>) = 1 /\ <<e>>[1] = e /\ <<>> \in Seq(S)
  OBVIOUS

\* The exclusions come last: no glob of the model's takes them back.
LEMMA GlobsExclude ==
  ASSUME NEW in \in SearchInput, NEW f \in SearchFiles, NEW hidden, Admits(f, BuildArgs(in), hidden)
  PROVE  InReach(in, f)
<1> DEFINE GlobSet == [neg : BOOLEAN, places : SUBSET FilePlaces]
           user == IF in.glob = {} THEN <<>> ELSE <<Glob(FALSE, in.glob)>>
           front == user \o SensitiveExcludeGlobs
           rest == front \o SkipGlobs(in.scope)
           last == Glob(TRUE, {"git"})
           globs == BuildArgs(in)
           n == Len(globs)
<1>1. /\ Glob(FALSE, in.glob) \in GlobSet /\ Glob(TRUE, {"secret"}) \in GlobSet
      /\ Glob(TRUE, {"skip"}) \in GlobSet /\ Glob(TRUE, {"git"}) \in GlobSet
  BY DEF Glob, SearchInput, FilePlaces
<1>2. /\ user \in Seq(GlobSet) /\ SensitiveExcludeGlobs \in Seq(GlobSet) /\ SkipGlobs(in.scope) \in Seq(GlobSet)
      /\ <<last>> \in Seq(GlobSet) /\ Len(<<last>>) = 1 /\ <<last>>[1] = last
  <2> HIDE DEF GlobSet
  <2>1. \A e \in GlobSet : <<e>> \in Seq(GlobSet) /\ Len(<<e>>) = 1 /\ <<e>>[1] = e /\ <<>> \in Seq(GlobSet)
    BY OfOne
  <2> QED
    BY <1>1, <2>1 DEF SensitiveExcludeGlobs, SkipGlobs
<1> HIDE DEF user, GlobSet
<1>3. front \in Seq(GlobSet)
  BY <1>2, ConcatProperties
<1>4. /\ rest \in Seq(GlobSet) /\ Len(rest) = Len(front) + Len(SkipGlobs(in.scope))
      /\ \A i \in 1..Len(front) + Len(SkipGlobs(in.scope)) :
           rest[i] = IF i <= Len(front) THEN front[i] ELSE SkipGlobs(in.scope)[i - Len(front)]
  BY <1>2, <1>3, ConcatProperties
<1>5. globs = rest \o <<last>>
  BY DEF BuildArgs, user
<1> HIDE DEF front, rest, last
<1>6. /\ globs \in Seq(GlobSet) /\ Len(rest) \in Nat /\ n = Len(rest) + 1 /\ globs[n] = last
      /\ \A i \in 1..Len(rest) : globs[i] = rest[i]
  <2> HIDE DEF globs
  <2>1. Len(rest) \in Nat
    BY <1>4
  <2>2. /\ globs \in Seq(GlobSet) /\ n = Len(rest) + 1
        /\ \A i \in 1..Len(rest) + 1 : globs[i] = IF i <= Len(rest) THEN rest[i] ELSE <<last>>[i - Len(rest)]
    BY <1>2, <1>4, <1>5, ConcatProperties
  <2>3. n \in 1..Len(rest) + 1 /\ ~(n <= Len(rest)) /\ n - Len(rest) = 1
    BY <2>1, <2>2
  <2>4. globs[n] = last
    BY <1>2, <2>2, <2>3
  <2>5. \A i \in 1..Len(rest) : globs[i] = rest[i]
    BY <2>1, <2>2
  <2> QED
    BY <2>1, <2>2, <2>4, <2>5
<1>7. in.scope # "skip" => n - 1 \in 1..n /\ globs[n - 1] = Glob(TRUE, {"skip"})
  <2> SUFFICES ASSUME in.scope # "skip" PROVE n - 1 \in 1..n /\ globs[n - 1] = Glob(TRUE, {"skip"})
    OBVIOUS
  <2>1. SkipGlobs(in.scope) = <<Glob(TRUE, {"skip"})>>
    BY DEF SkipGlobs
  <2>2. Len(SkipGlobs(in.scope)) = 1 /\ SkipGlobs(in.scope)[1] = Glob(TRUE, {"skip"})
    BY <1>1, <2>1, OfOne
  <2>3. Len(front) \in Nat
    BY <1>3
  <2>4. Len(rest) = Len(front) + 1
    BY <1>4, <2>2
  <2>5. /\ Len(front) + 1 \in 1..Len(front) + Len(SkipGlobs(in.scope)) /\ ~(Len(front) + 1 <= Len(front))
        /\ Len(front) + 1 - Len(front) = 1
    BY <2>2, <2>3
  <2>6. rest[Len(front) + 1] = Glob(TRUE, {"skip"})
    <3>1. PICK m \in 1..Len(front) + Len(SkipGlobs(in.scope)) : m = Len(front) + 1
      BY <2>5
    <3>2. rest[m] = SkipGlobs(in.scope)[m - Len(front)]
      BY <1>4, <2>5, <3>1
    <3>3. m - Len(front) = 1
      BY <2>5, <3>1
    <3> QED
      BY <2>2, <3>1, <3>2, <3>3
  <2>7. n - 1 = Len(front) + 1 /\ n - 1 \in 1..Len(rest) /\ n - 1 \in 1..n
    BY <1>6, <2>3, <2>4
  <2> QED
    BY <1>6, <2>6, <2>7
<1> HIDE DEF globs
<1>8. Deciding(f, globs) = {i \in 1..n : Place[f] \in globs[i].places}
  BY <1>6 DEF Deciding
<1>9. ASSUME NEW m \in 1..n, m \in Deciding(f, globs), \A j \in Deciding(f, globs) : j <= m, globs[m].neg
      PROVE  FALSE
  <2> DEFINE c == CHOOSE i \in Deciding(f, globs) : \A j \in Deciding(f, globs) : j <= i
  <2>1. c \in Deciding(f, globs) /\ \A j \in Deciding(f, globs) : j <= c
    BY <1>9
  <2>2. c \in Nat /\ m \in Nat /\ n \in Nat
    BY <1>6, <1>8, <2>1
  <2>3. c = m
    BY <1>9, <2>1, <2>2
  <2>4. ~globs[c].neg
    BY <1>9 DEF Admits, globs
  <2> QED
    BY <1>9, <2>3, <2>4
<1>10. n \in 1..n /\ n \in Nat
  BY <1>6
<1>11. /\ last.neg /\ Glob(TRUE, {"skip"}).neg
       /\ last.places = {"git"} /\ Glob(TRUE, {"skip"}).places = {"skip"}
  BY DEF Glob, last
<1>12. Place[f] # "git"
  <2> SUFFICES ASSUME Place[f] = "git" PROVE FALSE
    OBVIOUS
  <2>1. n \in Deciding(f, globs) /\ \A j \in Deciding(f, globs) : j <= n
    BY <1>6, <1>8, <1>10, <1>11
  <2> QED
    BY <1>6, <1>9, <1>10, <1>11, <2>1
<1>13. ASSUME Place[f] = "skip", in.scope # "skip"
       PROVE  FALSE
  <2>1. n \notin Deciding(f, globs) /\ n - 1 \in Deciding(f, globs)
    BY <1>6, <1>7, <1>8, <1>10, <1>11, <1>13
  <2>2. \A j \in Deciding(f, globs) : j <= n - 1
    BY <1>8, <1>10, <2>1
  <2> QED
    BY <1>7, <1>9, <1>11, <1>13, <2>1, <2>2
<1> QED
  BY <1>12, <1>13 DEF InReach

LEMMA OutputFacts ==
  ASSUME tree \in TreeSet, NEW in \in SearchInput
  PROVE  /\ Output(in) \in SUBSET FoundSet /\ OneLine(Output(in))
         /\ \A r \in Output(in) : InReach(in, r.rel)
<1>1. \A f \in Selected(in) : f \in SearchFiles /\ InReach(in, f)
  BY GlobsExclude DEF Selected
<1>2. CASE in.tool = "glob"
  <2>1. Output(in) = {Listed(f) : f \in Selected(in)}
    BY <1>2 DEF Output
  <2>2. MaxHits \in Nat
    BY SearchAssumption DEF SearchAssumption
  <2>3. \A f \in Selected(in) : Listed(f) \in FoundSet /\ Listed(f).rel = f
    BY <1>1, <2>2 DEF Listed, FoundSet
  <2> QED
    BY <1>1, <2>1, <2>3 DEF OneLine
<1>3. CASE in.tool # "glob"
  <2>1. Output(in) = UNION {Records(in, f) : f \in Selected(in)}
    BY <1>3 DEF Output
  <2>2. ASSUME NEW f \in Selected(in), NEW r \in Records(in, f)
        PROVE  /\ r \in FoundSet /\ r.rel = f
               /\ \E k \in 1..MaxHits : \/ r = [rel |-> f, line |-> 2 * k, kind |-> "match"]
                                        \/ r = [rel |-> f, line |-> 2 * k + 1, kind |-> "context"]
    <3>1. MaxHits \in Nat /\ tree[f].hits \in 0..MaxHits
      BY <1>1, SearchAssumption DEF SearchAssumption, TreeSet
    <3>2. PICK k \in 1..tree[f].hits : \/ r = [rel |-> f, line |-> 2 * k, kind |-> "match"]
                                       \/ r = [rel |-> f, line |-> 2 * k + 1, kind |-> "context"]
      BY DEF Records
    <3>3. k \in 1..MaxHits /\ 2 * k \in 0..(2 * MaxHits + 1) /\ 2 * k + 1 \in 0..(2 * MaxHits + 1)
      BY <3>1
    <3>4. r \in FoundSet
      BY <1>1, <3>2, <3>3 DEF FoundSet
    <3> QED
      BY <3>2, <3>3, <3>4
  <2>3. Output(in) \in SUBSET FoundSet /\ \A r \in Output(in) : InReach(in, r.rel)
    BY <1>1, <2>1, <2>2
  <2>4. ASSUME NEW r \in Output(in), NEW s \in Output(in), r.rel = s.rel, r.line = s.line
        PROVE  r = s
    <3>1. PICK f \in Selected(in) : r \in Records(in, f)
      BY <2>1
    <3>2. PICK g \in Selected(in) : s \in Records(in, g)
      BY <2>1
    <3>3. PICK k \in 1..MaxHits : \/ r = [rel |-> f, line |-> 2 * k, kind |-> "match"]
                                  \/ r = [rel |-> f, line |-> 2 * k + 1, kind |-> "context"]
      BY <2>2, <3>1
    <3>4. PICK l \in 1..MaxHits : \/ s = [rel |-> g, line |-> 2 * l, kind |-> "match"]
                                  \/ s = [rel |-> g, line |-> 2 * l + 1, kind |-> "context"]
      BY <2>2, <3>2
    <3>5. f = g
      BY <2>4, <3>3, <3>4
    <3>6. k \in Int /\ l \in Int
      OBVIOUS
    <3>7. r.line \in {2 * k, 2 * k + 1} /\ s.line \in {2 * l, 2 * l + 1}
      BY <3>3, <3>4
    <3>8. k = l
      BY <2>4, <3>6, <3>7
    <3> QED
      BY <2>4, <3>3, <3>4, <3>5, <3>6, <3>8
  <2> QED
    BY <2>3, <2>4 DEF OneLine
<1> QED
  BY <1>2, <1>3

LEMMA ParsedFacts ==
  ASSUME tree \in TreeSet, NEW in \in SearchInput, NEW found \in SUBSET FoundSet, OneLine(found),
         \A r \in found : InReach(in, r.rel)
  PROVE  /\ ParsedRecords(in, found) \in SUBSET FoundSet /\ OneLine(ParsedRecords(in, found))
         /\ \A r \in ParsedRecords(in, found) : Allowed(in, r.rel)
  BY DEF ParsedRecords, OneLine, Allowed, IsSearchable, IsHiddenRelPath

LEMMA WholeList ==
  ASSUME tree \in TreeSet, NEW in \in SearchInput
  PROVE  Whole(in) \in Seq(EntrySet) /\ Len(Whole(in)) \in Nat
<1>1. /\ Output(in) \in SUBSET FoundSet /\ OneLine(Output(in))
      /\ \A r \in Output(in) : InReach(in, r.rel)
  BY OutputFacts
<1>2. ParsedRecords(in, Output(in)) \in SUBSET FoundSet /\ OneLine(ParsedRecords(in, Output(in)))
  BY <1>1, ParsedFacts
<1> QED
  BY <1>2, EntriesFacts DEF Whole

\* The whole answer does not depend on the page that is asked for, but on the workspace.
LEMMA WholeOfQuery ==
  ASSUME NEW in \in SearchInput, NEW o
  PROVE  Whole([in EXCEPT !.offset = o]) = Whole(in)
<1> DEFINE next == [in EXCEPT !.offset = o]
<1>1. /\ next.tool = in.tool /\ next.mode = in.mode /\ next.scope = in.scope /\ next.glob = in.glob
      /\ next.context = in.context /\ next.limit = in.limit
  BY DEF SearchInput
<1> HIDE DEF next
<1>2. BuildArgs(next) = BuildArgs(in) /\ IgnoreFlags(next) = IgnoreFlags(in)
  BY <1>1 DEF BuildArgs, IgnoreFlags
<1>3. Selected(next) = Selected(in)
  BY <1>1, <1>2 DEF Selected
<1>4. \A f \in SearchFiles : Records(next, f) = Records(in, f)
  BY <1>1 DEF Records
<1>5. Selected(in) \subseteq SearchFiles
  BY DEF Selected
<1>6. Output(next) = Output(in)
  BY <1>1, <1>3, <1>4, <1>5 DEF Output
<1>7. ParsedRecords(next, Output(in)) = ParsedRecords(in, Output(in))
  BY <1>1 DEF ParsedRecords
<1>8. Entries(next, ParsedRecords(in, Output(in))) = Entries(in, ParsedRecords(in, Output(in)))
  BY <1>1 DEF Entries
<1> QED
  BY <1>6, <1>7, <1>8 DEF Whole, next

LEMMA SameTree ==
  ASSUME tree' = tree, NEW in
  PROVE  Output(in)' = Output(in) /\ ParsedRecords(in, Output(in))' = ParsedRecords(in, Output(in))
         /\ Whole(in)' = Whole(in)
  BY DEF Whole, Entries, SortFilesByMtime, SortContentRecords, Sorted, Newer, FileModTime,
     ParsedRecords, IsSearchable, Exists, Output, Selected, Records

LEMMA LimitFacts == \A in \in SearchInput : ResolveHeadLimit(in) \in Nat
  BY SearchAssumption DEF SearchAssumption, SearchInput, ResolveHeadLimit

PageEnd(list, offset, limit) == IF limit > 0 /\ offset + limit < Len(list) THEN offset + limit ELSE Len(list)

LEMMA PageFacts ==
  ASSUME NEW S, NEW list \in Seq(S), NEW offset \in Nat, NEW limit \in Nat
  PROVE  /\ PageEnd(list, offset, limit) \in 0..Len(list) /\ Len(list) \in Nat
         /\ Paginate(list, offset, limit) = SubSeq(list, offset + 1, PageEnd(list, offset, limit))
         /\ Paginate(list, offset, limit) \in Seq(S)
         /\ Len(Paginate(list, offset, limit)) =
              IF offset < PageEnd(list, offset, limit) THEN PageEnd(list, offset, limit) - offset ELSE 0
         /\ \A i \in 1..Len(Paginate(list, offset, limit)) :
              offset + i \in 1..Len(list) /\ Paginate(list, offset, limit)[i] = list[offset + i]
<1>1. PICK n \in Nat : n = Len(list)
  OBVIOUS
<1>2. PICK to \in 0..n : to = PageEnd(list, offset, limit)
  BY <1>1 DEF PageEnd
<1>3. Paginate(list, offset, limit) = SubSeq(list, offset + 1, to)
  BY <1>2 DEF Paginate, PageEnd
<1>4. \A i \in (offset + 1)..to : list[i] \in S
  BY <1>1
<1>5. /\ SubSeq(list, offset + 1, to) \in Seq(S)
      /\ Len(SubSeq(list, offset + 1, to)) = IF offset + 1 <= to THEN to - (offset + 1) + 1 ELSE 0
      /\ \A i \in 1..(to - (offset + 1) + 1) : SubSeq(list, offset + 1, to)[i] = list[offset + 1 + i - 1]
  <2>1. offset + 1 \in Int /\ to \in Int
    BY <1>1
  <2> QED
    BY <1>4, <2>1, SubSeqProperties
<1>6. Len(SubSeq(list, offset + 1, to)) = IF offset < to THEN to - offset ELSE 0
  BY <1>1, <1>5
<1>7. ASSUME NEW i \in 1..Len(SubSeq(list, offset + 1, to))
      PROVE  offset + i \in 1..n /\ SubSeq(list, offset + 1, to)[i] = list[offset + i]
  <2>1. offset < to /\ i \in 1..(to - offset) /\ to \in Nat
    BY <1>1, <1>6
  <2>2. i \in 1..(to - (offset + 1) + 1) /\ offset + 1 + i - 1 = offset + i /\ offset + i \in 1..n
    BY <1>1, <2>1
  <2> QED
    BY <1>5, <2>2
<1> QED
  BY <1>1, <1>2, <1>3, <1>5, <1>6, <1>7

\* The next page joins those before it.
LEMMA PagesJoin ==
  ASSUME NEW S, NEW list \in Seq(S), NEW from \in Nat, NEW to \in Nat, NEW end \in 0..Len(list),
         from <= to, to <= Len(list) \/ from = to, to <= end \/ end = Len(list)
  PROVE  SubSeq(list, from + 1, to) \o SubSeq(list, to + 1, end) = SubSeq(list, from + 1, end)
<1>1. Len(list) \in Nat
  OBVIOUS
<1>2. CASE to <= Len(list)
  <2>1. from + 1 \in 1..Len(list) + 1 /\ to \in (from + 1) - 1..Len(list) /\ end \in to..Len(list)
    BY <1>1, <1>2
  <2> QED
    BY <2>1, ConcatAdjacentSubSeq
<1>3. CASE ~(to <= Len(list))
  <2>1. to < from + 1 /\ end < to + 1 /\ end < from + 1 /\ from + 1 \in Int /\ to + 1 \in Int /\ end \in Int
    BY <1>1, <1>3
  <2>2. SubSeq(list, from + 1, to) = <<>> /\ SubSeq(list, to + 1, end) = <<>> /\ SubSeq(list, from + 1, end) = <<>>
    BY <2>1, SubSeqEmpty
  <2>3. <<>> \o <<>> = <<>>
    OBVIOUS
  <2> QED
    BY <2>2, <2>3
<1> QED
  BY <1>2, <1>3

LEMMA PageCases ==
  ASSUME NEW S, NEW list \in Seq(S), NEW offset \in Nat, NEW limit \in Nat,
         NEW size \in Nat, size = Len(Paginate(list, offset, limit))
  PROVE  /\ limit = 0 \/ size < limit => PageEnd(list, offset, limit) = Len(list)
         /\ ~(limit = 0 \/ size < limit) =>
              PageEnd(list, offset, limit) = offset + limit /\ offset + limit <= Len(list)
         /\ ~(Len(list) > 0 /\ NeedsPaginationFooter(limit, offset, Len(list), size)) =>
              /\ PageEnd(list, offset, limit) = Len(list)
              /\ Paginate(list, offset, limit) = list
<1>1. PICK n \in Nat : n = Len(list)
  OBVIOUS
<1>2. PICK to \in 0..n : to = PageEnd(list, offset, limit)
  BY <1>1 DEF PageEnd
<1>3. size = IF offset < to THEN to - offset ELSE 0
  BY <1>2, PageFacts
<1>4. to = IF limit > 0 /\ offset + limit < n THEN offset + limit ELSE n
  BY <1>1, <1>2 DEF PageEnd
<1>5. limit = 0 \/ size < limit => to = n
  BY <1>3, <1>4
<1>6. ~(limit = 0 \/ size < limit) => to = offset + limit /\ offset + limit <= n
  BY <1>1, <1>3, <1>4
<1>7. ASSUME ~(n > 0 /\ NeedsPaginationFooter(limit, offset, n, size))
      PROVE  to = n /\ Paginate(list, offset, limit) = list
  <2>1. to = n /\ (n = 0 \/ offset = 0)
    BY <1>1, <1>3, <1>4, <1>7 DEF NeedsPaginationFooter
  <2>2. Paginate(list, offset, limit) = SubSeq(list, offset + 1, n)
    <3>1. Paginate(list, offset, limit) = SubSeq(list, offset + 1, PageEnd(list, offset, limit))
      BY PageFacts
    <3> QED
      BY <1>2, <2>1, <3>1
  <2>3. CASE offset = 0
    <3>1. SubSeq(list, 1, n) = list
      BY <1>1, SubSeqFull
    <3>2. offset + 1 = 1
      BY <2>3
    <3> QED
      BY <2>1, <2>2, <3>1, <3>2
  <2>4. CASE n = 0
    <3>0. list = <<>>
      BY <1>1, <2>4, EmptySeq
    <3>1. n < offset + 1 /\ n \in Int /\ offset + 1 \in Int
      BY <1>1, <2>4
    <3>2. SubSeq(list, offset + 1, n) = <<>>
      BY <3>1, SubSeqEmpty
    <3> QED
      BY <2>1, <2>2, <3>0, <3>2
  <2> QED
    BY <2>1, <2>3, <2>4
<1> QED
  BY <1>1, <1>2, <1>5, <1>6, <1>7

LEMMA PrefixOfRest ==
  ASSUME NEW S, NEW list \in Seq(S), NEW from \in Nat, NEW end \in 0..Len(list)
  PROVE  IsPrefix(SubSeq(list, from + 1, end), SubSeq(list, from + 1, Len(list)))
<1>1. PICK n \in Nat : n = Len(list)
  OBVIOUS
<1> DEFINE part == SubSeq(list, from + 1, end)
           rest == SubSeq(list, from + 1, n)
<1>2. \A i \in (from + 1)..n : list[i] \in S
  BY <1>1
<1>3. \A i \in (from + 1)..end : list[i] \in S
  BY <1>1
<1>4. from + 1 \in Int /\ n \in Int /\ end \in Int
  BY <1>1
<1>5. /\ part \in Seq(S) /\ Len(part) = (IF from + 1 <= end THEN end - (from + 1) + 1 ELSE 0)
      /\ \A i \in 1..(end - (from + 1) + 1) : part[i] = list[from + 1 + i - 1]
  BY <1>3, <1>4, SubSeqProperties
<1>6. /\ rest \in Seq(S) /\ Len(rest) = (IF from + 1 <= n THEN n - (from + 1) + 1 ELSE 0)
      /\ \A i \in 1..(n - (from + 1) + 1) : rest[i] = list[from + 1 + i - 1]
  BY <1>2, <1>4, SubSeqProperties
<1> HIDE DEF part, rest
<1>7. PICK p \in Nat, q \in Nat : p = Len(part) /\ q = Len(rest)
  <2>1. Len(part) \in Nat /\ Len(rest) \in Nat
    BY <1>5, <1>6, LenProperties
  <2> QED
    BY <2>1
<1>8. p <= q /\ end <= n
  BY <1>1, <1>5, <1>6, <1>7
<1>9. \A i \in 1..p : part[i] = rest[i]
  <2> SUFFICES ASSUME NEW i \in 1..p PROVE part[i] = rest[i]
    OBVIOUS
  <2>1. i \in 1..(end - (from + 1) + 1) /\ i \in 1..(n - (from + 1) + 1)
    BY <1>1, <1>5, <1>7, <1>8
  <2> QED
    BY <1>5, <1>6, <2>1
<1>10. SubSeq(part, 1, p) = part
  BY <1>5, <1>7, SubSeqFull
<1>11. /\ SubSeq(rest, 1, p) \in Seq(S) /\ Len(SubSeq(rest, 1, p)) = p
       /\ \A i \in 1..p : SubSeq(rest, 1, p)[i] = rest[i]
  <2>1. \A i \in 1..p : rest[i] \in S
    BY <1>6, <1>7, <1>8
  <2>2. /\ SubSeq(rest, 1, p) \in Seq(S) /\ Len(SubSeq(rest, 1, p)) = (IF 1 <= p THEN p - 1 + 1 ELSE 0)
        /\ \A i \in 1..(p - 1 + 1) : SubSeq(rest, 1, p)[i] = rest[1 + i - 1]
    BY <2>1, SubSeqProperties
  <2>3. p - 1 + 1 = p /\ (IF 1 <= p THEN p - 1 + 1 ELSE 0) = p /\ \A i \in 1..p : 1 + i - 1 = i
    OBVIOUS
  <2>4. \A i \in 1..p : SubSeq(rest, 1, p)[i] = rest[i]
    BY <2>2, <2>3
  <2> QED
    BY <2>2, <2>3, <2>4
<1>12. part = SubSeq(rest, 1, p)
  BY <1>5, <1>7, <1>9, <1>11, SeqEqual
<1> QED
  BY <1>1, <1>7, <1>8, <1>10, <1>12 DEF IsPrefix, part, rest

-----------------------------------------------------------------------------
(* The steps.                                                              *)

LEMMA NothingAnswered ==
  /\ NoAnswer \in AnswerSet /\ Error \in AnswerSet /\ Empty \in AnswerSet /\ <<>> \in Seq(EntrySet)
  /\ NoAnswer.kind = "none" /\ Error.kind = "error" /\ Empty.kind = "text" /\ ~Empty.more
  /\ NoAnswer.body = <<>> /\ Error.body = <<>> /\ Empty.body = <<>> /\ Len(<<>>) = 0
<1>1. <<>> \in Seq(EntrySet) /\ Len(<<>>) = 0
  BY EmptySeq
<1> QED
  BY <1>1 DEF NoAnswer, Error, Empty, AnswerSet

LEMMA RestFacts ==
  /\ AtRest \in SearchSet /\ AtRest.at = "rest" /\ AtRest.answer = NoAnswer /\ AtRest.list = <<>>
  /\ NoWalk \in WalkSet
  /\ AtRest.still
<1>1. (CHOOSE i \in Inputs : TRUE) \in SearchInput
  BY SearchAssumption DEF SearchAssumption
<1>2. <<>> \in Seq(EntrySet) /\ NoAnswer \in AnswerSet
  BY NothingAnswered
<1> QED
  BY <1>1, <1>2 DEF AtRest, SearchSet, NoWalk, WalkSet

LEMMA ScInitHolds == ScInit => ScInductive
<1> SUFFICES ASSUME ScInit PROVE ScInductive
  OBVIOUS
<1>1. tree \in TreeSet
  BY SearchAssumption DEF ScInit, SearchAssumption, TreeSet
<1>2. ScShape
  BY <1>1, RestFacts, SearchAssumption DEF ScShape, ScInit, SearchAssumption
<1>3. FoundThere /\ NothingCutSilently /\ Paging
  BY RestFacts, NothingAnswered DEF ScInit, FoundThere, NothingCutSilently, Paging, Pages
<1> QED
  BY <1>2, <1>3 DEF ScInductive

\* The pages of a query stay as they are, and what is still to come too.
LEMMA ShownSame ==
  ASSUME tree' = tree, walk' = walk, NEW in, NEW to
  PROVE  Shown(in, to)' = Shown(in, to)
  BY SameTree DEF Shown

LEMMA CallHolds ==
  ASSUME ScInductive, NEW in \in Inputs, Call(in)
  PROVE  ScInductive'
<1>1. /\ search' = [AtRest EXCEPT !.at = "check", !.in = in] /\ tree' = tree /\ fileEdits' = fileEdits
      /\ walk' = [from |-> in.offset, shown |-> <<>>, over |-> FALSE]
  BY DEF Call
<1>2. in \in SearchInput /\ in.offset \in Int
  BY SearchAssumption DEF SearchAssumption, SearchInput
<1>3. /\ search' \in SearchSet /\ search'.at = "check" /\ search'.in = in
      /\ search'.answer = NoAnswer /\ search'.list = <<>>
  BY <1>1, <1>2, RestFacts DEF SearchSet
<1>4. walk' \in WalkSet /\ walk'.from = in.offset /\ walk'.shown = <<>>
  BY <1>1, <1>2, NothingAnswered DEF WalkSet
<1>5. ScShape'
  BY <1>1, <1>3, <1>4 DEF ScInductive, ScShape
<1>6. FoundThere' /\ NothingCutSilently'
  BY <1>3, NothingAnswered DEF FoundThere, NothingCutSilently
<1>7. Paging'
  <2>1. ASSUME in.offset \in Nat
        PROVE  Shown(in, in.offset)'
    <3>1. SubSeq(Whole(in), in.offset + 1, in.offset) = <<>>
      <4>1. in.offset < in.offset + 1 /\ in.offset + 1 \in Int
        BY <1>2
      <4> QED
        BY <1>2, <4>1, SubSeqEmpty
    <3> QED
      BY <1>1, <1>4, <2>1, <3>1, SameTree DEF Shown
  <2>2. ASSUME NEW i \in SearchInput, search'.in = i
        PROVE  Pages(i)'
    BY <1>3, <2>1, <2>2 DEF Pages
  <2> QED
    BY <1>3, <2>2 DEF Paging
<1> QED
  BY <1>5, <1>6, <1>7 DEF ScInductive

LEMMA ExecuteSearchHolds ==
  ASSUME ScInductive, ExecuteSearch
  PROVE  ScInductive'
<1>1. PICK in \in SearchInput : in = search.in
  BY DEF ScInductive, ScShape, SearchSet
<1>2. search.at = "check" /\ tree' = tree /\ fileEdits' = fileEdits /\ walk' = walk
  BY DEF ExecuteSearch
<1>3. \/ in.scope = "git" /\ search' = [search EXCEPT !.at = "answered", !.answer = Empty]
      \/ search' = [search EXCEPT !.at = "answered", !.answer = Error]
      \/ in.offset \in Nat /\ search' = [search EXCEPT !.at = "exec"]
  BY <1>1 DEF ExecuteSearch, AnswersWith, IsGitOnlyPath, Refused, SearchInput
<1>4. /\ search' \in SearchSet /\ search'.in = in /\ search'.still = search.still /\ search'.list = search.list
      /\ \/ in.scope = "git" /\ search'.at = "answered" /\ search'.answer = Empty
         \/ search'.at = "answered" /\ search'.answer = Error
         \/ in.offset \in Nat /\ search'.at = "exec" /\ search'.answer = search.answer
  BY <1>1, <1>3, NothingAnswered DEF ScInductive, ScShape, SearchSet
<1>5. search.answer = NoAnswer /\ search.list = <<>>
  BY <1>2 DEF ScInductive, FoundThere
<1>6. ScShape'
  BY <1>2, <1>4 DEF ScInductive, ScShape
<1>7. FoundThere' /\ NothingCutSilently'
  BY <1>4, <1>5, NothingAnswered DEF FoundThere, NothingCutSilently
<1>8. Paging'
  <2>1. ASSUME search.still, in.tool = "grep", in.scope # "git"
        PROVE  Pages(in)'
    <3>1. in.offset \in Nat => Shown(in, in.offset)
      BY <1>1, <1>2, <2>1 DEF ScInductive, Paging, Pages
    <3>2. in.offset \in Nat => Shown(in, in.offset)'
      BY <1>2, <3>1, ShownSame
    <3> QED
      BY <1>4, <2>1, <3>2, NothingAnswered DEF Pages
  <2> QED
    BY <1>4, <2>1 DEF Paging
<1> QED
  BY <1>6, <1>7, <1>8 DEF ScInductive

LEMMA ExecHolds ==
  ASSUME ScInductive, Exec
  PROVE  ScInductive'
<1>1. PICK in \in SearchInput : in = search.in
  BY DEF ScInductive, ScShape, SearchSet
<1>2. search.at = "exec" /\ tree' = tree /\ fileEdits' = fileEdits /\ walk' = walk
  BY DEF Exec
<1>3. \/ search' = [search EXCEPT !.at = "parse", !.found = Output(in)]
      \/ search' = [search EXCEPT !.at = "answered", !.answer = Error]
  BY <1>1 DEF Exec, AnswersWith
<1>4. tree \in TreeSet
  BY DEF ScInductive, ScShape
<1>5. /\ Output(in) \in SUBSET FoundSet /\ OneLine(Output(in))
      /\ \A r \in Output(in) : InReach(in, r.rel)
  BY <1>4, OutputFacts
<1>6. /\ search' \in SearchSet /\ search'.in = in /\ search'.still = search.still /\ search'.list = search.list
      /\ \/ search'.at = "answered" /\ search'.answer = Error
         \/ search'.at = "parse" /\ search'.answer = search.answer /\ search'.found = Output(in)
  BY <1>1, <1>3, <1>5, NothingAnswered DEF ScInductive, ScShape, SearchSet
<1>7. search.answer = NoAnswer /\ search.list = <<>> /\ in.offset \in Nat
  BY <1>1, <1>2 DEF ScInductive, FoundThere, ScShape
<1>8. ScShape'
  BY <1>2, <1>6, <1>7 DEF ScInductive, ScShape
<1>9. FoundThere' /\ NothingCutSilently'
  BY <1>5, <1>6, <1>7, NothingAnswered DEF FoundThere, NothingCutSilently
<1>10. Paging'
  <2>1. ASSUME search.still, in.tool = "grep", in.scope # "git"
        PROVE  Pages(in)'
    <3>1. Shown(in, in.offset)'
      BY <1>1, <1>2, <1>7, <2>1, ShownSame DEF ScInductive, Paging, Pages
    <3> QED
      BY <1>6, <3>1, NothingAnswered DEF Pages
  <2>2. Output(in)' = Output(in)
    BY <1>2, SameTree
  <2> QED
    BY <1>6, <2>1, <2>2 DEF Paging
<1> QED
  BY <1>8, <1>9, <1>10 DEF ScInductive

LEMMA ParseHolds ==
  ASSUME ScInductive, Parse
  PROVE  ScInductive'
<1>1. PICK in \in SearchInput, found \in SUBSET FoundSet : in = search.in /\ found = search.found
  BY DEF ScInductive, ScShape, SearchSet
<1>2. search.at = "parse" /\ tree' = tree /\ fileEdits' = fileEdits /\ walk' = walk
  BY DEF Parse
<1>3. search' = [search EXCEPT !.at = "sort", !.found = ParsedRecords(in, found)]
  BY <1>1 DEF Parse
<1>4. tree \in TreeSet
  BY DEF ScInductive, ScShape
<1>5. OneLine(found) /\ \A r \in found : InReach(in, r.rel)
  BY <1>1, <1>2 DEF ScInductive, FoundThere
<1>6. /\ ParsedRecords(in, found) \in SUBSET FoundSet /\ OneLine(ParsedRecords(in, found))
      /\ \A r \in ParsedRecords(in, found) : Allowed(in, r.rel)
  BY <1>4, <1>5, ParsedFacts
<1>7. /\ search' \in SearchSet /\ search'.in = in /\ search'.still = search.still /\ search'.list = search.list
      /\ search'.at = "sort" /\ search'.answer = search.answer /\ search'.found = ParsedRecords(in, found)
  BY <1>1, <1>3, <1>6 DEF ScInductive, ScShape, SearchSet
<1>8. search.answer = NoAnswer /\ search.list = <<>> /\ in.offset \in Nat
  BY <1>1, <1>2 DEF ScInductive, FoundThere, ScShape
<1>9. ScShape'
  BY <1>2, <1>7, <1>8 DEF ScInductive, ScShape
<1>10. FoundThere' /\ NothingCutSilently'
  BY <1>6, <1>7, <1>8, NothingAnswered DEF FoundThere, NothingCutSilently, Allowed
<1>11. Paging'
  <2>1. ASSUME search.still, in.tool = "grep", in.scope # "git"
        PROVE  Pages(in)'
    <3>1. Shown(in, in.offset)'
      BY <1>1, <1>2, <1>8, <2>1, ShownSame DEF ScInductive, Paging, Pages
    <3> QED
      BY <1>7, <3>1 DEF Pages
  <2>2. search.still => found = Output(in)
    BY <1>1, <1>2 DEF ScInductive, Paging
  <2>3. ParsedRecords(in, Output(in))' = ParsedRecords(in, Output(in))
    BY <1>2, SameTree
  <2> QED
    BY <1>7, <2>1, <2>2, <2>3 DEF Paging
<1> QED
  BY <1>9, <1>10, <1>11 DEF ScInductive

LEMMA ForgetHolds ==
  ASSUME ScInductive, Forget
  PROVE  ScInductive'
<1>1. search' = AtRest /\ walk' = NoWalk /\ tree' = tree /\ fileEdits' = fileEdits
  BY DEF Forget
<1>2. ScShape'
  BY <1>1, RestFacts DEF ScInductive, ScShape
<1>3. FoundThere' /\ NothingCutSilently' /\ Paging'
  BY <1>1, RestFacts, NothingAnswered DEF FoundThere, NothingCutSilently, Paging, Pages
<1> QED
  BY <1>2, <1>3 DEF ScInductive

LEMMA EditHolds ==
  ASSUME ScInductive, NEW f \in SearchFiles, Edit(f)
  PROVE  ScInductive'
<1>1. PICK h \in 0..MaxHits, t \in {0, 3 + fileEdits} : tree' = [tree EXCEPT ![f] = [time |-> t, hits |-> h]]
  BY DEF Edit
<1>2. /\ fileEdits < MaxEdits /\ fileEdits' = fileEdits + 1 /\ walk' = walk
      /\ search' = [search EXCEPT !.still = FALSE]
  BY DEF Edit
<1>3. MaxEdits \in Nat /\ fileEdits \in 0..MaxEdits /\ fileEdits' \in 0..MaxEdits /\ t \in 0..(2 + MaxEdits)
  BY <1>1, <1>2, SearchAssumption DEF ScInductive, ScShape, SearchAssumption
<1>4. tree' \in TreeSet
  BY <1>1, <1>3 DEF ScInductive, ScShape, TreeSet
<1>5. /\ search' \in SearchSet /\ search'.at = search.at /\ search'.in = search.in /\ search'.found = search.found
      /\ search'.list = search.list /\ search'.answer = search.answer /\ ~search'.still
  BY <1>2 DEF ScInductive, ScShape, SearchSet
<1>6. ScShape'
  BY <1>2, <1>3, <1>4, <1>5 DEF ScInductive, ScShape
<1>7. FoundThere' /\ NothingCutSilently'
  BY <1>5 DEF ScInductive, FoundThere, NothingCutSilently
<1>8. Paging'
  BY <1>5 DEF Paging
<1> QED
  BY <1>6, <1>7, <1>8 DEF ScInductive

\* The next page begins where the last one ended.
LEMMA NextPageHolds ==
  ASSUME ScInductive, NextPage
  PROVE  ScInductive'
<1>1. PICK in \in SearchInput, limit \in Nat : in = search.in /\ limit = ResolveHeadLimit(in)
  BY LimitFacts DEF ScInductive, ScShape, SearchSet
<1> DEFINE next == [in EXCEPT !.offset = in.offset + limit]
<1>2. /\ search.at = "answered" /\ search.answer.kind = "text" /\ ~walk.over
      /\ tree' = tree /\ fileEdits' = fileEdits /\ walk' = walk
  BY DEF NextPage
<1>3. search' = [search EXCEPT !.at = "check", !.answer = NoAnswer, !.found = {}, !.list = <<>>, !.in = next]
  BY <1>1 DEF NextPage, ScInductive, ScShape, SearchSet, SearchInput
<1>4. /\ next \in SearchInput /\ next.tool = in.tool /\ next.scope = in.scope
      /\ next.offset = in.offset + limit /\ in.offset \in Int
  BY <1>1 DEF SearchInput
<1>5. Whole(next) = Whole(in)
  BY WholeOfQuery
<1> HIDE DEF next
<1>6. /\ search' \in SearchSet /\ search'.at = "check" /\ search'.in = next /\ search'.still = search.still
      /\ search'.answer = NoAnswer /\ search'.list = <<>>
  BY <1>3, <1>4, NothingAnswered DEF ScInductive, ScShape, SearchSet
<1>7. ScShape'
  BY <1>2, <1>6 DEF ScInductive, ScShape
<1>8. FoundThere' /\ NothingCutSilently'
  BY <1>6, NothingAnswered DEF FoundThere, NothingCutSilently
<1>9. ASSUME search.still, in.tool = "grep", in.scope # "git"
      PROVE  Pages(next)'
  <2>1. in.offset \in Nat /\ Shown(in, in.offset + limit)
    BY <1>1, <1>2, <1>9 DEF ScInductive, Paging, Pages
  <2>2. Shown(next, next.offset)
    BY <1>4, <1>5, <2>1 DEF Shown
  <2>3. Shown(next, next.offset)'
    BY <1>2, <2>2, ShownSame
  <2> QED
    BY <1>6, <2>3 DEF Pages
<1>10. Paging'
  BY <1>4, <1>6, <1>9 DEF Paging
<1> QED
  BY <1>7, <1>8, <1>10 DEF ScInductive

LEMMA GrepAnswers ==
  ASSUME ScInductive, NEW in \in SearchInput, in = search.in, in.tool = "grep", in.offset \in Nat,
         NEW limit \in Nat, limit = ResolveHeadLimit(in), search.still, in.scope # "git",
         search.at = "sort", tree' = tree, search'.answer = FormatGrepOutput(in, Whole(in), search.found),
         walk' = [walk EXCEPT !.shown = @ \o Paginate(Whole(in), in.offset, limit),
                              !.over = limit = 0 \/ Len(Paginate(Whole(in), in.offset, limit)) < limit]
  PROVE  /\ Complete(in)'
         /\ ~walk'.over => /\ limit # 0 /\ in.offset + limit <= Len(Whole(in))
                           /\ Shown(in, in.offset + limit)'
<1> DEFINE list == Whole(in)
           page == Paginate(list, in.offset, limit)
           to == PageEnd(list, in.offset, limit)
           size == Len(page)
<1>1. Shown(in, in.offset)
  BY DEF ScInductive, Paging, Pages
<1>2. list \in Seq(EntrySet) /\ Len(list) \in Nat
  BY WholeList DEF ScInductive, ScShape
<1>3. Whole(in)' = list
  BY SameTree
<1> HIDE DEF list
<1>4. PICK from \in Nat : from = walk.from
  BY <1>1 DEF Shown
<1>5. /\ from <= in.offset /\ (in.offset <= Len(list) \/ from = in.offset)
      /\ walk.shown = SubSeq(list, from + 1, in.offset)
  BY <1>1, <1>4 DEF Shown, list
<1>6. /\ to \in 0..Len(list) /\ page = SubSeq(list, in.offset + 1, to) /\ page \in Seq(EntrySet)
      /\ size = (IF in.offset < to THEN to - in.offset ELSE 0)
  BY SMTT(40), <1>2, PageFacts
<1>7. size \in Nat
  BY <1>6, LenProperties
<1>8. /\ limit = 0 \/ size < limit => to = Len(list)
      /\ ~(limit = 0 \/ size < limit) => to = in.offset + limit /\ in.offset + limit <= Len(list)
      /\ ~(Len(list) > 0 /\ NeedsPaginationFooter(limit, in.offset, Len(list), size)) => to = Len(list)
  BY <1>2, <1>7, PageCases
<1>9. /\ walk'.from = from /\ walk'.shown = walk.shown \o page
      /\ walk'.over = (limit = 0 \/ size < limit)
  BY <1>4 DEF ScInductive, ScShape, WalkSet, list
<1>10. /\ search'.answer.total = Len(list)
       /\ search'.answer.more = (Len(list) > 0 /\ NeedsPaginationFooter(limit, in.offset, Len(list), size))
  BY DEF FormatGrepOutput, list
<1> HIDE DEF page, to, size
<1>11. walk'.shown = SubSeq(list, from + 1, to)
  <2>1. in.offset <= to \/ to = Len(list)
    <3>1. limit = 0 \/ size < limit \/ in.offset <= to
      BY <1>2, <1>7, <1>8
    <3> QED
      BY <1>8, <3>1
  <2>2. PICK o \in Nat, e \in 0..Len(list) : o = in.offset /\ e = to
    BY <1>6
  <2>3. from <= o /\ (o <= Len(list) \/ from = o) /\ (o <= e \/ e = Len(list))
    BY <1>5, <2>1, <2>2
  <2>4. ASSUME NEW l \in Seq(EntrySet), e \in 0..Len(l), o <= Len(l) \/ from = o, o <= e \/ e = Len(l)
        PROVE  SubSeq(l, from + 1, o) \o SubSeq(l, o + 1, e) = SubSeq(l, from + 1, e)
    <3>1. from <= o
      BY <2>3
    <3> QED
      BY <2>4, <3>1, PagesJoin, ZenonT(90)
  <2> QED
    BY <1>2, <1>5, <1>6, <1>9, <2>2, <2>3, <2>4
<1>12. IsPrefix(SubSeq(list, from + 1, to), SubSeq(list, from + 1, Len(list)))
  BY <1>2, <1>6, PrefixOfRest
<1>13. Complete(in)'
  BY <1>3, <1>8, <1>9, <1>10, <1>11, <1>12 DEF Complete
<1>14. ASSUME ~walk'.over
       PROVE  limit # 0 /\ in.offset + limit <= Len(list) /\ Shown(in, in.offset + limit)'
  <2>1. limit # 0 /\ to = in.offset + limit /\ in.offset + limit <= Len(list)
    BY <1>8, <1>9, <1>14
  <2>2. from <= in.offset + limit
    BY <1>5
  <2> QED
    BY <1>3, <1>4, <1>9, <1>11, <2>1, <2>2 DEF Shown
<1> QED
  BY <1>13, <1>14 DEF list

LEMMA PostProcessHolds ==
  ASSUME ScInductive, PostProcess
  PROVE  ScInductive'
<1>1. PICK in \in SearchInput, found \in SUBSET FoundSet, limit \in Nat :
        in = search.in /\ found = search.found /\ limit = ResolveHeadLimit(in)
  BY LimitFacts DEF ScInductive, ScShape, SearchSet
<1>2. search.at = "sort" /\ tree' = tree /\ fileEdits' = fileEdits /\ in.offset \in Nat
  BY <1>1 DEF PostProcess, ScInductive, ScShape
<1> DEFINE list == Entries(in, found)
           answer == IF in.tool = "glob" THEN FormatGlobOutput(list) ELSE FormatGrepOutput(in, list, found)
<1>3. \/ search' = [search EXCEPT !.at = "answered", !.list = list, !.answer = answer] /\ walk' = Walked(in, answer.body)
      \/ search' = [search EXCEPT !.at = "answered", !.answer = Error] /\ walk' = walk
  BY <1>1 DEF PostProcess, AnswersWith
<1>4. /\ tree \in TreeSet /\ OneLine(found) /\ \A r \in found : Allowed(in, r.rel)
      /\ search.answer = NoAnswer /\ search.list = <<>>
  BY <1>1, <1>2 DEF ScInductive, ScShape, FoundThere
<1>5. /\ list \in Seq(EntrySet)
      /\ \A i \in 1..Len(list) : Allowed(in, FileOf(in, list[i]))
  <2>1. list \in Seq(EntrySet) /\ \A i \in 1..Len(list) : \E r \in found : FileOf(in, list[i]) = r.rel
    BY <1>4, EntriesFacts
  <2> HIDE DEF list
  <2> QED
    BY <1>4, <2>1
<1> HIDE DEF list
<1>6. CASE search' = [search EXCEPT !.at = "answered", !.answer = Error] /\ walk' = walk
  <2>1. /\ search' \in SearchSet /\ search'.in = in /\ search'.still = search.still /\ search'.list = <<>>
        /\ search'.at = "answered" /\ search'.answer = Error
    BY <1>1, <1>4, <1>6, NothingAnswered DEF ScInductive, ScShape, SearchSet
  <2>2. ScShape'
    BY <1>2, <1>6, <2>1 DEF ScInductive, ScShape
  <2>3. FoundThere' /\ NothingCutSilently' /\ Paging'
    BY <2>1, NothingAnswered DEF FoundThere, NothingCutSilently, Paging, Pages
  <2> QED
    BY <2>2, <2>3 DEF ScInductive
<1>7. CASE /\ search' = [search EXCEPT !.at = "answered", !.list = list, !.answer = answer]
           /\ walk' = Walked(in, answer.body)
  <2> DEFINE offset == IF in.tool = "glob" THEN 0 ELSE in.offset
             most == IF in.tool = "glob" THEN MaxResults ELSE limit
             page == Paginate(list, offset, most)
  <2>1. offset \in Nat /\ most \in Nat
    BY <1>2, SearchAssumption DEF SearchAssumption
  <2>0. /\ page \in Seq(EntrySet) /\ Len(page) \in Nat /\ Len(list) \in Nat
        /\ \A i \in 1..Len(page) : offset + i \in 1..Len(list) /\ page[i] = list[offset + i]
        /\ Len(page) = IF offset < PageEnd(list, offset, most) THEN PageEnd(list, offset, most) - offset ELSE 0
    <3> HIDE DEF offset, most
    <3>1. /\ page \in Seq(EntrySet)
          /\ \A i \in 1..Len(page) : offset + i \in 1..Len(list) /\ page[i] = list[offset + i]
          /\ Len(page) = IF offset < PageEnd(list, offset, most) THEN PageEnd(list, offset, most) - offset ELSE 0
      BY <1>5, <2>1, PageFacts
    <3> QED
      BY <1>5, <3>1, LenProperties
  <2>2. /\ answer.kind = "text" /\ answer.body = page /\ answer.total \in Nat /\ answer.matches \in Nat
        /\ answer.more \in BOOLEAN /\ answer = [kind |-> "text", body |-> page, total |-> answer.total,
                                                matches |-> answer.matches, more |-> answer.more]
    <3>1. Cardinality({r \in found : r.kind = "match"}) \in Nat
      BY FoundFinite, FS_CardinalityType, FS_Subset
    <3>2. CASE in.tool = "glob"
      <4>1. answer = [kind |-> "text", body |-> page, total |-> Len(page), matches |-> 0,
                      more |-> Len(list) > MaxResults]
        BY <3>2 DEF FormatGlobOutput
      <4> HIDE DEF answer, page
      <4> QED
        BY <2>0, <4>1
    <3>3. CASE in.tool # "glob"
      <4>1. answer = [kind |-> "text", body |-> page, total |-> Len(list),
                      matches |-> IF in.mode = "count" THEN Cardinality({r \in found : r.kind = "match"}) ELSE 0,
                      more |-> Len(list) > 0 /\ NeedsPaginationFooter(limit, in.offset, Len(list), Len(page))]
        BY <1>1, <3>3 DEF FormatGrepOutput
      <4>2. (Len(list) > 0 /\ NeedsPaginationFooter(limit, in.offset, Len(list), Len(page))) \in BOOLEAN
        BY DEF NeedsPaginationFooter
      <4> HIDE DEF answer, page
      <4> QED
        BY <2>0, <3>1, <4>1, <4>2
    <3> QED
      BY <3>2, <3>3
  <2>3. /\ page \in Seq(EntrySet) /\ \A i \in 1..Len(page) : Allowed(in, FileOf(in, page[i]))
    <3> HIDE DEF page, offset
    <3> QED
      BY <1>5, <2>0
  <2>4. ~answer.more => page = list
    <3>1. PICK size \in Nat : size = Len(page)
      BY <2>0
    <3>2. ~(Len(list) > 0 /\ NeedsPaginationFooter(most, offset, Len(list), size)) => page = list
      <4> HIDE DEF offset, most
      <4> QED
        BY <1>5, <2>1, <3>1, PageCases
    <3>3. CASE in.tool = "glob"
      <4>1. answer.more = (Len(list) > MaxResults)
        BY <3>3 DEF FormatGlobOutput
      <4>2. PICK n \in Nat : n = Len(list)
        BY <2>0
      <4>3. PICK m \in Nat : m = MaxResults /\ m = most /\ offset = 0
        BY <2>1, <3>3
      <4>4. ~(n > m) => size = n
        <5>1. PageEnd(list, 0, m) = IF m > 0 /\ 0 + m < n THEN 0 + m ELSE n
          BY <4>2 DEF PageEnd
        <5>2. size = IF 0 < PageEnd(list, 0, m) THEN PageEnd(list, 0, m) - 0 ELSE 0
          BY <2>0, <3>1, <4>3
        <5> QED
          BY <5>1, <5>2
      <4>5. ~(n > m) => ~NeedsPaginationFooter(m, 0, n, size)
        BY <4>4 DEF NeedsPaginationFooter
      <4>6. ~(Len(list) > 0 /\ NeedsPaginationFooter(m, 0, n, size)) => page = list
        BY <3>2, <4>2, <4>3
      <4> HIDE DEF page, answer
      <4> QED
        BY <4>1, <4>2, <4>3, <4>5, <4>6
    <3>4. CASE in.tool # "glob"
      BY <1>1, <3>1, <3>2, <3>4 DEF FormatGrepOutput
    <3> QED
      BY <3>3, <3>4
  <2> HIDE DEF page, answer
  <2>5. answer \in AnswerSet
    BY <2>2, <2>3 DEF AnswerSet
  <2>6. /\ search' \in SearchSet /\ search'.in = in /\ search'.still = search.still /\ search'.list = list
        /\ search'.at = "answered" /\ search'.answer = answer
    BY <1>1, <1>5, <1>7, <2>5 DEF ScInductive, ScShape, SearchSet
  <2>7. walk' \in WalkSet
    <3>1. walk.shown \in Seq(EntrySet) /\ walk.shown \o page \in Seq(EntrySet)
      BY <2>3, ConcatProperties DEF ScInductive, ScShape, WalkSet
    <3> QED
      BY <1>7, <2>2, <2>3, <3>1 DEF ScInductive, ScShape, WalkSet, Walked
  <2>8. ScShape'
    BY <1>2, <2>6, <2>7 DEF ScInductive, ScShape
  <2>9. FoundThere' /\ NothingCutSilently'
    BY <2>2, <2>3, <2>4, <2>6 DEF FoundThere, NothingCutSilently
  <2>10. ASSUME search.still, in.tool = "grep", in.scope # "git"
         PROVE  Pages(in)'
    <3>1. list = Whole(in)
      BY <1>1, <1>2, <2>10 DEF ScInductive, Paging, Whole, list
    <3>2. search'.answer = FormatGrepOutput(in, Whole(in), search.found)
      BY <1>1, <2>6, <2>10, <3>1 DEF answer
    <3>3. walk' = [walk EXCEPT !.shown = @ \o Paginate(Whole(in), in.offset, limit),
                               !.over = limit = 0 \/ Len(Paginate(Whole(in), in.offset, limit)) < limit]
      BY <1>1, <1>7, <2>2, <2>10, <3>1 DEF Walked, page
    <3>4. /\ Complete(in)'
          /\ ~walk'.over => /\ limit # 0 /\ in.offset + limit <= Len(Whole(in))
                            /\ Shown(in, in.offset + limit)'
      BY <1>1, <1>2, <2>10, <3>2, <3>3, GrepAnswers
    <3>5. Whole(in)' = Whole(in)
      BY <1>2, SameTree
    <3> QED
      BY <1>1, <1>2, <2>6, <3>4, <3>5 DEF Pages
  <2>11. Paging'
    BY <2>6, <2>10 DEF Paging
  <2> QED
    BY <2>8, <2>9, <2>11 DEF ScInductive
<1> QED
  BY <1>3, <1>6, <1>7

LEMMA ScSteps == ScInductive /\ [ScNext]_scVars => ScInductive'
<1> SUFFICES ASSUME ScInductive, [ScNext]_scVars PROVE ScInductive'
  OBVIOUS
<1>1. CASE UNCHANGED scVars
  <2>1. tree' = tree /\ fileEdits' = fileEdits /\ search' = search /\ walk' = walk
    BY <1>1 DEF scVars
  <2>2. ScShape' /\ FoundThere' /\ NothingCutSilently'
    BY <2>1 DEF ScInductive, ScShape, FoundThere, NothingCutSilently
  <2>3. \A in \in SearchInput : /\ Output(in)' = Output(in) /\ Whole(in)' = Whole(in)
                                /\ ParsedRecords(in, Output(in))' = ParsedRecords(in, Output(in))
    BY <2>1, SameTree
  <2>4. Paging'
    BY <2>1, <2>3 DEF ScInductive, Paging, Pages, Shown, Complete
  <2> QED
    BY <2>2, <2>4 DEF ScInductive
<1>2. CASE ScNext
  BY <1>2, CallHolds, ExecuteSearchHolds, ExecHolds, ParseHolds, PostProcessHolds, NextPageHolds,
     ForgetHolds,
     EditHolds DEF ScNext
<1> QED
  BY <1>1, <1>2

\* An answer of a search (SearchInv): whatever glob the model writes and however the files change
\* meanwhile, no answer names a file that is excluded; none leaves an entry out without saying
\* so; and the pages of a grep that nobody disturbs are together one unlimited answer.
THEOREM SearchHolds == ScSpec => []SearchInv
<1>1. ScInductive => SearchInv
  <2> SUFFICES ASSUME ScInductive PROVE SearchInv
    OBVIOUS
  <2>1. ScTypeOK
    BY DEF ScInductive, ScShape, ScTypeOK, SearchSet, SearchInput, AnswerSet, WalkSet, TreeSet
  <2>2. OnlyAllowed
    <3>1. search.answer.body \in Seq(EntrySet)
      BY DEF ScInductive, ScShape, SearchSet, AnswerSet
    <3>2. DOMAIN search.answer.body = 1..Len(search.answer.body)
      BY <3>1, LenProperties
    <3>3. \A f \in ShownFiles : \E i \in 1..Len(search.answer.body) : f = FileOf(search.in, search.answer.body[i])
      BY <3>2 DEF ShownFiles, FileOf
    <3>4. \A f \in ShownFiles : Allowed(search.in, f)
      BY <3>3 DEF ScInductive, FoundThere
    <3>5. \A f \in SearchFiles : Place[f] \in FilePlaces
      BY SearchAssumption DEF SearchAssumption
    <3>6. \A f \in ShownFiles : Place[f] \in FilePlaces
      BY <3>4, <3>5 DEF Allowed, InReach
    <3> QED
      BY <3>4, <3>6 DEF OnlyAllowed, Allowed, InReach, FilePlaces
  <2>3. PagesComplete
    BY DEF ScInductive, ScShape, SearchSet, Paging, Pages, Complete, Whole, PagesComplete
  <2> QED
    BY <2>1, <2>2, <2>3 DEF SearchInv, ScInductive
<1> QED
  BY <1>1, ScInitHolds, ScSteps, PTL DEF ScSpec

-----------------------------------------------------------------------------
(***************************************************************************)
(* WebFetch. The list of the cache has one entry for each address, and its *)
(* count is the sum of their sizes. The sum is a recursive function: that  *)
(* there is one, and how it changes with an entry, is shown on the least   *)
(* number at which it would be otherwise.                                  *)
(***************************************************************************)

\* The sizes of the beginnings of a list.
Adds(f, s, n) == f[0] = 0 /\ \A i \in 1..n : f[i] = f[i - 1] + s[i].size

LEMMA AddsOnce ==
  ASSUME NEW s, NEW n \in Nat, NEW f \in [0..n -> Int], NEW g \in [0..n -> Int], Adds(f, s, n), Adds(g, s, n)
  PROVE  f = g
<1> DEFINE D == {i \in 0..n : f[i] # g[i]}
<1>1. CASE D # {}
  <2>0. D \in SUBSET Nat
    OBVIOUS
  <2>1. PICK i \in D : \A m \in D : i <= m
    <3> HIDE DEF D
    <3> QED
      BY <1>1, <2>0, Least
  <2>2. i # 0
    BY DEF Adds
  <2>3. i - 1 \in 0..n /\ i - 1 \notin D /\ i \in 1..n
    BY <2>1, <2>2
  <2>4. f[i - 1] = g[i - 1]
    BY <2>3
  <2>5. f[i] = f[i - 1] + s[i].size /\ g[i] = g[i - 1] + s[i].size
    BY <2>3 DEF Adds
  <2> QED
    BY <2>4, <2>5
<1>2. CASE D = {}
  BY <1>2
<1> QED
  BY <1>1, <1>2

LEMMA AddsExists ==
  ASSUME NEW s, NEW n \in Nat, \A i \in 1..n : s[i].size \in Nat
  PROVE  \E f \in [0..n -> Nat] : Adds(f, s, n)
<1> DEFINE Has(k) == \E f \in [0..k -> Nat] : Adds(f, s, k)
           D == {k \in 0..n : ~ Has(k)}
<1>1. CASE D # {}
  <2>0. D \in SUBSET Nat
    OBVIOUS
  <2>1. PICK k \in D : \A m \in D : k <= m
    <3> HIDE DEF D
    <3> QED
      BY <1>1, <2>0, Least
  <2>2. k # 0
    <3>1. [i \in 0..0 |-> 0] \in [0..0 -> Nat] /\ Adds([i \in 0..0 |-> 0], s, 0)
      BY DEF Adds
    <3> QED
      BY <3>1
  <2>3. k - 1 \in 0..n /\ Has(k - 1) /\ k \in 1..n /\ ~Has(k)
    <3> HIDE DEF Has
    <3>1. k \in 0..n /\ k \in Int /\ ~Has(k)
      BY <2>1
    <3>2. k - 1 \in 0..n /\ k \in 1..n /\ ~(k <= k - 1)
      BY <2>2, <3>1
    <3>3. k - 1 \notin D
      BY <2>1, <3>2
    <3> QED
      BY <3>1, <3>2, <3>3
  <2>4. PICK f \in [0..(k - 1) -> Nat] : Adds(f, s, k - 1)
    BY <2>3
  <2> DEFINE g == [i \in 0..k |-> IF i = k THEN f[k - 1] + s[k].size ELSE f[i]]
  <2>5. g \in [0..k -> Nat]
    BY <2>3
  <2>6. g[0] = 0
    BY <2>2, <2>4 DEF Adds
  <2>7. ASSUME NEW i \in 1..k PROVE g[i] = g[i - 1] + s[i].size
    <3>1. CASE i = k
      BY <2>3, <3>1
    <3>2. CASE i # k
      <4>1. i \in 1..(k - 1) /\ i \in 0..k /\ i - 1 \in 0..k /\ i - 1 # k
        BY <3>2
      <4>2. f[i] = f[i - 1] + s[i].size
        BY <2>4, <4>1 DEF Adds
      <4> QED
        BY <3>2, <4>1, <4>2
    <3> QED
      BY <3>1, <3>2
  <2> HIDE DEF g
  <2> QED
    BY <2>3, <2>5, <2>6, <2>7 DEF Adds
<1>2. CASE D = {}
  <2>1. n \in 0..n /\ Has(n)
    <3> HIDE DEF Has
    <3> QED
      BY <1>2
  <2> QED
    BY <2>1
<1> QED
  BY <1>1, <1>2

CachedSet == [key : Urls, size : Nat, from : Urls, put : 0..MaxClock]

LEMMA Sized ==
  ASSUME NEW s \in Seq(CachedSet)
  PROVE  /\ Len(s) \in Nat /\ SizesUpTo(s) \in [0..Len(s) -> Nat] /\ Adds(SizesUpTo(s), s, Len(s)) /\ SizeOf(s) \in Nat
         /\ \A f \in [0..Len(s) -> Int] : Adds(f, s, Len(s)) => f[Len(s)] = SizeOf(s)
<1>1. PICK n \in Nat : n = Len(s)
  OBVIOUS
<1>2. \A i \in 1..n : s[i].size \in Nat
  <2>1. \A i \in 1..n : s[i] \in CachedSet
    BY <1>1
  <2> QED
    BY <2>1 DEF CachedSet
<1>3. PICK f \in [0..n -> Nat] : Adds(f, s, n)
  BY <1>2, AddsExists
<1> DEFINE Fix(h) == h = [i \in 0..n |-> IF i = 0 THEN 0 ELSE h[i - 1] + s[i].size]
<1>4. Fix(f)
  <2> DEFINE g == [i \in 0..n |-> IF i = 0 THEN 0 ELSE f[i - 1] + s[i].size]
  <2>1. \A i \in 0..n : f[i] = g[i]
    BY <1>3 DEF Adds
  <2> QED
    BY <2>1
<1>5. SizesUpTo(s) = CHOOSE h : Fix(h)
  BY <1>1 DEF SizesUpTo
<1>6. Fix(SizesUpTo(s))
  <2> HIDE DEF Fix
  <2> QED
    BY <1>4, <1>5
<1>7. SizesUpTo(s) = f
  <2>1. SizesUpTo(s) \in [0..n -> Int]
    <3> DEFINE g == SizesUpTo(s)
    <3>1. g = [i \in 0..n |-> g[i]] /\ g[0] = 0 /\ \A i \in 1..n : g[i] = g[i - 1] + s[i].size
      <4>1. PICK h : h = g /\ h = [i \in 0..n |-> IF i = 0 THEN 0 ELSE h[i - 1] + s[i].size]
        BY <1>6
      <4> HIDE DEF g
      <4>2. DOMAIN h = 0..n
        BY <4>1
      <4>3. \A i \in 0..n : h[i] = IF i = 0 THEN 0 ELSE h[i - 1] + s[i].size
        BY <4>1
      <4>4. h = [i \in 0..n |-> h[i]]
        BY <4>1, <4>2
      <4>5. h[0] = 0
        <5>1. 0 \in 0..n
          OBVIOUS
        <5>2. h[0] = IF 0 = 0 THEN 0 ELSE h[0 - 1] + s[0].size
          BY Zenon, <4>3, <5>1
        <5> QED
          BY Zenon, <5>2
      <4>6. \A i \in 1..n : h[i] = h[i - 1] + s[i].size
        BY <4>3
      <4> QED
        BY <4>1, <4>4, <4>5, <4>6
    <3> HIDE DEF g
    <3> DEFINE D == {k \in 0..n : g[k] # f[k]}
    <3>2. D \in SUBSET Nat
      OBVIOUS
    <3>3. CASE D # {}
      <4>1. PICK k \in D : \A m \in D : k <= m
        <5> HIDE DEF D
        <5> QED
          BY <3>2, <3>3, Least
      <4>2. k # 0
        BY <1>3, <3>1 DEF Adds
      <4>3. k - 1 \in 0..n /\ k - 1 \notin D /\ k \in 1..n
        BY <4>1, <4>2
      <4>4. g[k - 1] = f[k - 1] /\ g[k] = g[k - 1] + s[k].size /\ f[k] = f[k - 1] + s[k].size
        BY <1>3, <3>1, <4>3 DEF Adds
      <4> QED
        BY <4>4
    <3>4. CASE D = {}
      <4>1. \A k \in 0..n : g[k] = f[k]
        BY <3>4
      <4>2. \A k \in 0..n : g[k] \in Int
        BY <4>1
      <4> QED
        BY <3>1, <4>2 DEF g
    <3> QED
      BY <3>3, <3>4
  <2>2. Adds(SizesUpTo(s), s, n)
    BY <1>6 DEF Adds
  <2>3. f \in [0..n -> Int]
    OBVIOUS
  <2> QED
    BY <1>3, <2>1, <2>2, <2>3, AddsOnce
<1>8. SizeOf(s) = f[n] /\ f[n] \in Nat
  BY <1>1, <1>7 DEF SizeOf
<1>9. ASSUME NEW g \in [0..n -> Int], Adds(g, s, n) PROVE g = f
  <2>1. f \in [0..n -> Int]
    OBVIOUS
  <2> QED
    BY <1>3, <1>9, <2>1, AddsOnce
<1> QED
  BY <1>1, <1>3, <1>7, <1>8, <1>9

\* A beginning of the list, one more entry at its front, and one fewer.
LEMMA SizesBegin ==
  ASSUME NEW s \in Seq(CachedSet), NEW k \in 0..Len(s)
  PROVE  /\ SubSeq(s, 1, k) \in Seq(CachedSet) /\ Len(SubSeq(s, 1, k)) = k
         /\ \A i \in 1..k : SubSeq(s, 1, k)[i] = s[i]
         /\ SizeOf(SubSeq(s, 1, k)) = SizesUpTo(s)[k] /\ SizesUpTo(s)[k] \in Nat
<1>1. PICK n \in Nat : n = Len(s)
  OBVIOUS
<1> DEFINE t == SubSeq(s, 1, k)
           f == [i \in 0..k |-> SizesUpTo(s)[i]]
<1>2. t \in Seq(CachedSet) /\ Len(t) = k /\ \A i \in 1..k : t[i] = s[i]
  <2>1. \A i \in 1..k : s[i] \in CachedSet
    BY <1>1
  <2>2. k \in Int /\ 1 \in Int
    BY <1>1
  <2>3. /\ t \in Seq(CachedSet) /\ Len(t) = (IF 1 <= k THEN k - 1 + 1 ELSE 0)
        /\ \A i \in 1..(k - 1 + 1) : t[i] = s[1 + i - 1]
    BY <2>1, <2>2, SubSeqProperties
  <2> HIDE DEF t
  <2>4. k - 1 + 1 = k /\ (IF 1 <= k THEN k - 1 + 1 ELSE 0) = k /\ \A i \in 1..k : 1 + i - 1 = i
    BY <1>1
  <2>5. \A i \in 1..k : t[i] = s[i]
    BY <2>3, <2>4
  <2> QED
    BY <2>3, <2>4, <2>5
<1>3. SizesUpTo(s) \in [0..n -> Nat] /\ Adds(SizesUpTo(s), s, n)
  BY <1>1, Sized
<1>4. f \in [0..k -> Int] /\ f[k] = SizesUpTo(s)[k] /\ f[k] \in Nat
  BY <1>1, <1>3
<1>5. Adds(f, t, k)
  <2>1. f[0] = 0
    BY <1>1, <1>3 DEF Adds
  <2>2. ASSUME NEW i \in 1..k PROVE f[i] = f[i - 1] + t[i].size
    <3>1. i \in 1..n /\ i \in 0..k /\ i - 1 \in 0..k
      BY <1>1
    <3>2. SizesUpTo(s)[i] = SizesUpTo(s)[i - 1] + s[i].size
      BY <1>3, <3>1 DEF Adds
    <3> QED
      BY <1>2, <3>1, <3>2
  <2> HIDE DEF f
  <2> QED
    BY <2>1, <2>2 DEF Adds
<1> HIDE DEF t, f
<1>6. f[k] = SizeOf(t)
  BY <1>2, <1>4, <1>5, Sized
<1> QED
  BY <1>2, <1>4, <1>6 DEF t

LEMMA SizeIn == ASSUME NEW s \in Seq(CachedSet), NEW i \in 1..Len(s) PROVE s[i] \in CachedSet /\ s[i].size \in Nat
<1>1. s[i] \in CachedSet
  OBVIOUS
<1> QED
  BY <1>1 DEF CachedSet

LEMMA SizesFront ==
  ASSUME NEW s \in Seq(CachedSet), NEW e \in CachedSet
  PROVE  /\ <<e>> \o s \in Seq(CachedSet) /\ Len(<<e>> \o s) = Len(s) + 1 /\ (<<e>> \o s)[1] = e
         /\ \A i \in 1..Len(s) : (<<e>> \o s)[i + 1] = s[i]
         /\ SizeOf(<<e>> \o s) = e.size + SizeOf(s)
<1>1. PICK n \in Nat : n = Len(s)
  OBVIOUS
<1> DEFINE t == <<e>> \o s
           f == [i \in 0..(n + 1) |-> IF i = 0 THEN 0 ELSE e.size + SizesUpTo(s)[i - 1]]
<1>2. t \in Seq(CachedSet) /\ Len(t) = n + 1 /\ t[1] = e /\ \A i \in 2..(n + 1) : t[i] = s[i - 1]
  <2>1. <<e>> \in Seq(CachedSet) /\ Len(<<e>>) = 1 /\ <<e>>[1] = e
    OBVIOUS
  <2>2. /\ t \in Seq(CachedSet) /\ Len(t) = Len(<<e>>) + Len(s)
        /\ \A i \in 1..Len(<<e>>) + Len(s) : t[i] = IF i <= Len(<<e>>) THEN <<e>>[i] ELSE s[i - Len(<<e>>)]
    BY <2>1, ConcatProperties
  <2> HIDE DEF t
  <2>3. \A i \in 1..(1 + n) : t[i] = IF i <= 1 THEN e ELSE s[i - 1]
    BY <1>1, <2>1, <2>2
  <2> QED
    BY <1>1, <2>1, <2>2, <2>3
<1>3. SizesUpTo(s) \in [0..n -> Nat] /\ Adds(SizesUpTo(s), s, n) /\ SizeOf(s) = SizesUpTo(s)[n] /\ e.size \in Nat
  BY <1>1, Sized DEF SizeOf, CachedSet
<1>4. f \in [0..(n + 1) -> Int] /\ f[n + 1] = e.size + SizeOf(s)
  BY <1>3
<1>5. Adds(f, t, n + 1)
  <2>1. f[0] = 0
    OBVIOUS
  <2>2. ASSUME NEW i \in 1..(n + 1) PROVE f[i] = f[i - 1] + t[i].size
    <3>1. CASE i = 1
      BY <1>2, <1>3, <3>1 DEF Adds
    <3>2. CASE i # 1
      <4>1. i - 1 \in 1..n /\ i \in 2..(n + 1) /\ i - 1 \in 0..(n + 1) /\ i - 1 # 0 /\ i # 0 /\ i \in 0..(n + 1)
            /\ i - 1 - 1 \in 0..n /\ i - 1 \in 0..n
        BY <3>2
      <4>2. SizesUpTo(s)[i - 1] = SizesUpTo(s)[i - 1 - 1] + s[i - 1].size
        BY <1>3, <4>1 DEF Adds
      <4>3. f[i] = e.size + SizesUpTo(s)[i - 1] /\ f[i - 1] = e.size + SizesUpTo(s)[i - 1 - 1]
        BY <4>1
      <4>4. t[i].size = s[i - 1].size
        BY <1>2, <4>1
      <4>5. PICK a \in Nat, b \in Nat : a = SizesUpTo(s)[i - 1 - 1] /\ b = SizesUpTo(s)[i - 1]
        BY <1>3, <4>1
      <4>6. s[i - 1].size \in Nat
        BY <1>1, <4>1, SizeIn
      <4>7. PICK x \in Nat, y \in Nat : x = e.size /\ y = s[i - 1].size
        BY <1>3, <4>6
      <4>8. b = a + y
        BY <4>2, <4>5, <4>7
      <4>9. f[i] = x + b /\ f[i - 1] = x + a /\ t[i].size = y
        BY <4>3, <4>4, <4>5, <4>7
      <4> HIDE DEF f, t
      <4>10. x + b = (x + a) + y
        BY <4>8
      <4>11. f[i - 1] + t[i].size = (x + a) + y
        BY <4>9, Zenon
      <4> QED
        BY <4>9, <4>10, <4>11
    <3> QED
      BY <3>1, <3>2
  <2> HIDE DEF f
  <2> QED
    BY <2>1, <2>2 DEF Adds
<1> HIDE DEF t, f
<1>6. f[n + 1] = SizeOf(t)
  BY <1>2, <1>4, <1>5, Sized
<1>7. \A i \in 1..n : i + 1 \in 2..(n + 1) /\ i + 1 - 1 = i
  OBVIOUS
<1> QED
  BY <1>1, <1>2, <1>4, <1>6, <1>7 DEF t

LEMMA SizesRemove ==
  ASSUME NEW s \in Seq(CachedSet), NEW k \in 1..Len(s)
  PROVE  /\ RemoveAt(s, k) \in Seq(CachedSet) /\ Len(RemoveAt(s, k)) = Len(s) - 1
         /\ \A i \in 1..(Len(s) - 1) : RemoveAt(s, k)[i] = IF i < k THEN s[i] ELSE s[i + 1]
         /\ SizeOf(RemoveAt(s, k)) = SizeOf(s) - s[k].size
<1>1. PICK n \in Nat : n = Len(s)
  OBVIOUS
<1> DEFINE t == RemoveAt(s, k)
           f == [i \in 0..(n - 1) |-> IF i < k THEN SizesUpTo(s)[i] ELSE SizesUpTo(s)[i + 1] - s[k].size]
<1>2. t \in Seq(CachedSet) /\ Len(t) = n - 1 /\ \A i \in 1..(n - 1) : t[i] = IF i < k THEN s[i] ELSE s[i + 1]
  <2> DEFINE a == SubSeq(s, 1, k - 1)
             b == SubSeq(s, k + 1, n)
  <2>1. /\ \A i \in 1..(k - 1) : s[i] \in CachedSet
        /\ \A i \in (k + 1)..n : s[i] \in CachedSet
        /\ k - 1 \in Int /\ k + 1 \in Int /\ n \in Int /\ k \in 1..n
    BY <1>1
  <2>2. /\ a \in Seq(CachedSet) /\ Len(a) = (IF 1 <= k - 1 THEN k - 1 - 1 + 1 ELSE 0)
        /\ \A i \in 1..(k - 1 - 1 + 1) : a[i] = s[1 + i - 1]
    BY <2>1, SubSeqProperties
  <2>3. /\ b \in Seq(CachedSet) /\ Len(b) = (IF k + 1 <= n THEN n - (k + 1) + 1 ELSE 0)
        /\ \A i \in 1..(n - (k + 1) + 1) : b[i] = s[k + 1 + i - 1]
    BY <2>1, SubSeqProperties
  <2>4. t = a \o b
    BY <1>1 DEF RemoveAt
  <2> HIDE DEF a, b, t
  <2>5. Len(a) = k - 1 /\ Len(b) = n - k /\ k \in 1..n
    BY <2>1, <2>2, <2>3
  <2>6. (\A i \in 1..(k - 1) : a[i] = s[i]) /\ \A i \in 1..(n - k) : b[i] = s[k + i]
    <3>1. \A i \in 1..(k - 1) : i \in 1..(k - 1 - 1 + 1) /\ 1 + i - 1 = i
      BY <2>5
    <3>2. \A i \in 1..(n - k) : i \in 1..(n - (k + 1) + 1) /\ k + 1 + i - 1 = k + i
      BY <2>5
    <3> QED
      BY <2>2, <2>3, <3>1, <3>2
  <2>7. /\ t \in Seq(CachedSet) /\ Len(t) = Len(a) + Len(b)
        /\ \A i \in 1..Len(a) + Len(b) : t[i] = IF i <= Len(a) THEN a[i] ELSE b[i - Len(a)]
    BY <2>2, <2>3, <2>4, ConcatProperties
  <2>8. ASSUME NEW i \in 1..(n - 1) PROVE t[i] = IF i < k THEN s[i] ELSE s[i + 1]
    <3>1. i \in 1..Len(a) + Len(b) /\ (i <= Len(a) <=> i < k)
      BY <2>5
    <3>2. CASE i < k
      <4>1. i \in 1..(k - 1)
        BY <2>5, <3>2
      <4> QED
        BY <2>6, <2>7, <3>1, <3>2, <4>1
    <3>3. CASE ~(i < k)
      <4>1. i - Len(a) \in 1..(n - k) /\ k + (i - Len(a)) = i + 1
        BY <2>5, <3>3
      <4> QED
        BY <2>6, <2>7, <3>1, <3>3, <4>1
    <3> QED
      BY <3>2, <3>3
  <2>9. Len(t) = n - 1
    BY <2>5, <2>7
  <2> QED
    BY <2>7, <2>8, <2>9
<1>3. /\ SizesUpTo(s) \in [0..n -> Nat] /\ Adds(SizesUpTo(s), s, n) /\ SizeOf(s) = SizesUpTo(s)[n] /\ s[k].size \in Nat
      /\ k \in 1..n
  BY <1>1, Sized, SizeIn DEF SizeOf
<1>4. f \in [0..(n - 1) -> Int]
  <2>1. \A i \in 0..(n - 1) : i \in 0..n /\ i + 1 \in 0..n
    BY <1>3
  <2> QED
    BY <1>3, <2>1
<1>5. f[n - 1] = SizeOf(s) - s[k].size
  <2>1. n - 1 \in 0..(n - 1) /\ n - 1 + 1 = n
    BY <1>3
  <2>2. CASE n - 1 < k
    <3>1. k = n
      BY <1>3, <2>2
    <3>2. SizesUpTo(s)[n] = SizesUpTo(s)[n - 1] + s[n].size
      BY <1>3, <3>1 DEF Adds
    <3>3. SizesUpTo(s)[n - 1] \in Nat
      BY <1>3, <2>1
    <3> QED
      BY <1>3, <2>1, <2>2, <3>1, <3>2, <3>3
  <2>3. CASE ~(n - 1 < k)
    BY <1>3, <2>1, <2>3
  <2> QED
    BY <2>2, <2>3
<1>6. Adds(f, t, n - 1)
  <2>1. f[0] = 0
    BY <1>3 DEF Adds
  <2>2. ASSUME NEW i \in 1..(n - 1) PROVE f[i] = f[i - 1] + t[i].size
    <3>1. /\ i \in 0..(n - 1) /\ i - 1 \in 0..(n - 1) /\ i \in 1..n /\ i + 1 \in 1..n
          /\ i - 1 \in 0..n /\ i \in 0..n /\ i + 1 \in 0..n /\ i - 1 + 1 = i /\ i + 1 - 1 = i
      BY <1>3
    <3>2. SizesUpTo(s)[i] = SizesUpTo(s)[i - 1] + s[i].size /\ SizesUpTo(s)[i + 1] = SizesUpTo(s)[i] + s[i + 1].size
      <4>1. \A j \in 1..n : SizesUpTo(s)[j] = SizesUpTo(s)[j - 1] + s[j].size
        BY <1>3 DEF Adds
      <4> QED
        BY <3>1, <4>1
    <3>3. PICK a \in Nat, b \in Nat, c \in Nat : a = SizesUpTo(s)[i - 1] /\ b = SizesUpTo(s)[i] /\ c = SizesUpTo(s)[i + 1]
      BY <1>3, <3>1
    <3>4. s[i].size \in Nat /\ s[i + 1].size \in Nat
      BY <1>1, <3>1, SizeIn
    <3>5. f[i] = (IF i < k THEN b ELSE c - s[k].size) /\ f[i - 1] = IF i - 1 < k THEN a ELSE b - s[k].size
      BY <3>1, <3>3
    <3>6. t[i].size = IF i < k THEN s[i].size ELSE s[i + 1].size
      BY <1>2
    <3>7. i - 1 < k /\ ~(i < k) => i = k
      BY <1>3
    <3> HIDE DEF f, t
    <3>8. PICK x \in Nat, y \in Nat, z \in Nat : x = s[i].size /\ y = s[i + 1].size /\ z = s[k].size
      BY <1>3, <3>4
    <3>9. b = a + x /\ c = b + y /\ (i = k => x = z)
      BY <3>2, <3>3, <3>8
    <3>10. f[i] = (IF i < k THEN b ELSE c - z) /\ f[i - 1] = (IF i - 1 < k THEN a ELSE b - z)
           /\ t[i].size = IF i < k THEN x ELSE y
      BY <3>5, <3>6, <3>8
    <3>11. CASE i < k
      <4>1. i - 1 < k
        BY <1>3, <3>11
      <4> QED
        BY <3>9, <3>10, <3>11, <4>1
    <3>12. CASE ~(i < k)
      <4>1. CASE i = k
        <5>1. i - 1 < k
          BY <1>3, <4>1
        <5>2. f[i] = c - z /\ f[i - 1] = a /\ t[i].size = y /\ x = z
          BY <3>9, <3>10, <3>12, <4>1, <5>1
        <5>3. f[i - 1] + t[i].size = a + y
          BY <5>2, Zenon
        <5>0. c = a + z + y
          <6>1. c = b + y /\ b = a + x
            BY <3>9
          <6>2. x = z
            BY <5>2
          <6> QED
            BY <6>1, <6>2
        <5>4. c - z = a + y
          BY <5>0
        <5> QED
          BY <5>2, <5>3, <5>4, Zenon
      <4>2. CASE i # k
        <5>1. ~(i - 1 < k)
          BY <3>7, <3>12, <4>2
        <5>2. f[i] = c - z /\ f[i - 1] = b - z /\ t[i].size = y
          BY <3>10, <3>12, <5>1
        <5>3. f[i - 1] + t[i].size = (b - z) + y
          BY <5>2, Zenon
        <5>0. c = b + y
          BY <3>9
        <5>4. c - z = (b - z) + y
          BY <5>0
        <5> QED
          BY <5>2, <5>3, <5>4, Zenon
      <4> QED
        BY <4>1, <4>2
    <3> QED
      BY <3>11, <3>12
  <2> HIDE DEF f
  <2> QED
    BY <2>1, <2>2 DEF Adds
<1> HIDE DEF t, f
<1>7. f[n - 1] = SizeOf(t)
  BY <1>2, <1>4, <1>6, Sized
<1> QED
  BY <1>1, <1>2, <1>5, <1>7 DEF t

\* A list in which no address comes twice, and each page is that of its address.
Clean(s) ==
  /\ s \in Seq(CachedSet) /\ \A i \in 1..Len(s) : s[i].from = s[i].key
  /\ \A i, j \in 1..Len(s) : s[i].key = s[j].key => i = j

LEMMA WithoutFacts ==
  ASSUME Clean(lru), NEW key
  PROVE  /\ Clean(Without(key)) /\ \A i \in 1..Len(Without(key)) : Without(key)[i].key # key
         /\ HeldOf(key) \in Nat /\ HeldOf(key) <= SizeOf(lru) /\ SizeOf(Without(key)) = SizeOf(lru) - HeldOf(key)
<1>1. lru \in Seq(CachedSet) /\ DOMAIN lru = 1..Len(lru) /\ Len(lru) \in Nat
  BY LenProperties DEF Clean
<1>2. SizeOf(lru) \in Nat
  BY <1>1, Sized
<1>3. CASE Slot(key) = {}
  <2>1. Without(key) = lru /\ HeldOf(key) = 0
    BY <1>3 DEF Without, HeldOf
  <2>2. \A i \in 1..Len(lru) : lru[i].key # key
    BY <1>1, <1>3 DEF Slot, Key
  <2> QED
    BY <1>2, <2>1, <2>2
<1>4. CASE Slot(key) # {}
  <2>1. PICK k \in 1..Len(lru) : k = (CHOOSE i \in Slot(key) : TRUE) /\ lru[k].key = key
    BY <1>1, <1>4 DEF Slot, Key
  <2> DEFINE t == RemoveAt(lru, k)
             n == Len(lru)
  <2>2. Without(key) = t /\ HeldOf(key) = lru[k].size
    BY <1>4, <2>1 DEF Without, HeldOf
  <2>3. /\ t \in Seq(CachedSet) /\ Len(t) = n - 1
        /\ \A i \in 1..(n - 1) : t[i] = IF i < k THEN lru[i] ELSE lru[i + 1]
        /\ SizeOf(t) = SizeOf(lru) - lru[k].size
    BY <1>1, <2>1, SizesRemove
  <2>4. lru[k].size \in Nat /\ SizeOf(t) \in Nat
    BY <1>1, <2>1, <2>3, SizeIn, Sized
  <2> HIDE DEF t
  <2> DEFINE to(i) == IF i < k THEN i ELSE i + 1
  <2>5. \A i \in 1..(n - 1) : to(i) \in 1..n /\ to(i) # k /\ t[i] = lru[to(i)]
    <3> SUFFICES ASSUME NEW i \in 1..(n - 1) PROVE to(i) \in 1..n /\ to(i) # k /\ t[i] = lru[to(i)]
      OBVIOUS
    <3>1. i \in Int /\ k \in Int /\ n \in Int /\ k \in 1..n
      BY <1>1, <2>1
    <3>2. to(i) \in 1..n /\ to(i) # k
      BY <3>1
    <3>3. t[i] = lru[to(i)]
      BY <2>3
    <3> QED
      BY <3>2, <3>3
  <2>6. \A i, j \in 1..(n - 1) : to(i) = to(j) => i = j
    BY <1>1, <2>1
  <2> HIDE DEF to
  <2>7. Clean(t)
    <3>1. \A i \in 1..(n - 1) : t[i].from = t[i].key
      BY <2>5 DEF Clean
    <3>2. ASSUME NEW i \in 1..(n - 1), NEW j \in 1..(n - 1), t[i].key = t[j].key PROVE i = j
      <4>1. PICK u \in 1..n, v \in 1..n : u = to(i) /\ v = to(j) /\ t[i] = lru[u] /\ t[j] = lru[v]
        BY <2>5
      <4>2. lru[u].key = lru[v].key
        BY <3>2, <4>1
      <4>3. u = v
        BY <4>2 DEF Clean
      <4> QED
        BY <2>6, <4>1, <4>3
    <3> QED
      BY <2>3, <3>1, <3>2 DEF Clean
  <2>8. \A i \in 1..(n - 1) : t[i].key # key
    BY <2>1, <2>5 DEF Clean
  <2>9. lru[k].size <= SizeOf(lru)
    BY <1>2, <2>3, <2>4
  <2> QED
    BY <2>2, <2>3, <2>4, <2>7, <2>8, <2>9
<1> QED
  BY <1>3, <1>4

LEMMA FrontClean ==
  ASSUME NEW s, Clean(s), NEW e \in CachedSet, e.from = e.key, \A i \in 1..Len(s) : s[i].key # e.key
  PROVE  /\ Clean(<<e>> \o s) /\ Len(<<e>> \o s) \in Nat \ {0} /\ (<<e>> \o s)[1] = e
         /\ SizeOf(<<e>> \o s) = e.size + SizeOf(s)
<1>1. s \in Seq(CachedSet) /\ Len(s) \in Nat
  BY LenProperties DEF Clean
<1> DEFINE t == <<e>> \o s
<1>2. /\ t \in Seq(CachedSet) /\ Len(t) = Len(s) + 1 /\ t[1] = e /\ \A i \in 1..Len(s) : t[i + 1] = s[i]
      /\ SizeOf(t) = e.size + SizeOf(s)
  BY <1>1, SizesFront
<1> HIDE DEF t
<1>3. ASSUME NEW i \in 1..Len(t), i # 1 PROVE i - 1 \in 1..Len(s) /\ t[i] = s[i - 1]
  <2>1. i - 1 \in 1..Len(s) /\ i - 1 + 1 = i
    BY <1>1, <1>2, <1>3
  <2> QED
    BY <1>2, <2>1
<1>4. \A i \in 1..Len(t) : t[i].from = t[i].key
  BY ZenonT(60), <1>2, <1>3 DEF Clean
<1>5. ASSUME NEW i \in 1..Len(t), NEW j \in 1..Len(t), t[i].key = t[j].key PROVE i = j
  <2>1. CASE i = 1 /\ j # 1
    BY <1>2, <1>3, <1>5, <2>1
  <2>2. CASE i # 1 /\ j = 1
    BY <1>2, <1>3, <1>5, <2>2
  <2>3. CASE i # 1 /\ j # 1
    <3>1. i - 1 = j - 1
      BY <1>3, <1>5, <2>3 DEF Clean
    <3>2. i \in Int /\ j \in Int
      BY <1>1, <1>2
    <3> QED
      BY <3>1, <3>2
  <2> QED
    BY <2>1, <2>2, <2>3
<1> QED
  BY <1>1, <1>2, <1>4, <1>5 DEF Clean, t

LEMMA EvictFacts ==
  ASSUME NEW s, Clean(s)
  PROVE  /\ Clean(Evict(s, SizeOf(s))) /\ SizeOf(Evict(s, SizeOf(s))) <= CacheMax
         /\ SizeOf(Evict(s, SizeOf(s))) \in Nat
         /\ (Len(s) > 0 /\ s[1].size <= CacheMax) =>
              Len(Evict(s, SizeOf(s))) \in Nat \ {0} /\ Evict(s, SizeOf(s))[1] = s[1]
<1>1. PICK n \in Nat : n = Len(s)
  BY LenProperties DEF Clean
<1>2. s \in Seq(CachedSet) /\ SizesUpTo(s) \in [0..n -> Nat] /\ SizeOf(s) \in Nat /\ Adds(SizesUpTo(s), s, n)
  BY <1>1, Sized DEF Clean
<1> DEFINE K == {0} \cup {k \in 1..n : SizeOf(s) - Evicted(s, k) <= CacheMax}
           keep == Max(K)
<1>3. K \subseteq 0..n /\ 0 \in K
  BY <1>1
<1>4. keep \in K /\ \A k \in K : keep >= k
  <2> HIDE DEF K
  <2> DEFINE D == {n - k : k \in K}
  <2>1. D \in SUBSET Nat /\ D # {}
    BY <1>3
  <2>2. PICK d \in D : \A m \in D : d <= m
    <3> HIDE DEF D
    <3> QED
      BY <2>1, Least
  <2>3. PICK k \in K : d = n - k
    OBVIOUS
  <2>4. \A m \in K : k >= m
    <3> SUFFICES ASSUME NEW m \in K PROVE k >= m
      OBVIOUS
    <3>1. n - k <= n - m
      BY <2>2, <2>3
    <3>2. k \in Int /\ m \in Int
      BY <1>3
    <3> QED
      BY <3>1, <3>2
  <2> QED
    BY <2>4 DEF Max
<1>5. Evict(s, SizeOf(s)) = SubSeq(s, 1, keep)
  BY <1>1 DEF Evict
<1> HIDE DEF keep
<1> DEFINE t == SubSeq(s, 1, keep)
<1>6. keep \in 0..n
  BY <1>3, <1>4
<1>7. /\ t \in Seq(CachedSet) /\ Len(t) = keep /\ (\A i \in 1..keep : t[i] = s[i])
      /\ SizeOf(t) = SizesUpTo(s)[keep] /\ SizeOf(t) \in Nat
  BY <1>1, <1>2, <1>6, SizesBegin
<1>8. \A k \in 0..n : SizeOf(s) - Evicted(s, k) = SizesUpTo(s)[k]
  <2> SUFFICES ASSUME NEW k \in 0..n PROVE SizeOf(s) - Evicted(s, k) = SizesUpTo(s)[k]
    OBVIOUS
  <2>1. PICK a \in Nat, b \in Nat : a = SizeOf(s) /\ b = SizesUpTo(s)[k]
    BY <1>2
  <2>2. a - (a - b) = b
    OBVIOUS
  <2> QED
    BY <2>1, <2>2 DEF Evicted
<1>9. SizeOf(t) <= CacheMax
  <2>1. CASE keep = 0
    <3>1. SizeOf(t) = 0
      BY <1>2, <1>7, <2>1 DEF Adds
    <3> QED
      BY <3>1, WebAssumption DEF WebAssumption
  <2>2. CASE keep # 0
    <3>1. SizeOf(s) - Evicted(s, keep) <= CacheMax
      BY <1>4, <2>2
    <3> QED
      BY <1>6, <1>7, <1>8, <3>1
  <2> QED
    BY <2>1, <2>2
<1> HIDE DEF t
<1>10. Clean(t)
  <2>1. \A i \in 1..keep : i \in 1..n
    BY <1>6
  <2> QED
    BY <1>1, <1>7, <2>1 DEF Clean
<1>11. ASSUME n > 0, s[1].size <= CacheMax PROVE Len(t) \in Nat \ {0} /\ t[1] = s[1]
  <2>1. 1 \in 1..n /\ 1 - 1 = 0
    BY <1>11
  <2>2. SizesUpTo(s)[1] = SizesUpTo(s)[1 - 1] + s[1].size /\ s[1].size \in Nat
    BY <1>1, <1>2, <2>1, SizeIn DEF Adds
  <2>3. SizesUpTo(s)[1] = s[1].size
    BY <1>2, <2>1, <2>2 DEF Adds
  <2>4. 1 \in K
    BY <1>8, <1>11, <2>1, <2>3
  <2>5. keep >= 1
    <3> HIDE DEF K
    <3> QED
      BY <1>4, <2>4
  <2> QED
    BY <1>6, <1>7, <2>5
<1> QED
  BY <1>1, <1>5, <1>7, <1>9, <1>10, <1>11 DEF t

(***************************************************************************)
(* Where each call is, and whose page it has.                              *)
(***************************************************************************)

PageSet == [from : Urls \cup {"none"}, size : Nat]
FetchSet == [at : Ended \cup {"lookup", "fetch", "store", "analyze"}, key : Urls \cup {"none"},
             current : Urls \cup {"none"}, hops : 0..(MaxFollowed - 1), redirected : BOOLEAN, page : PageSet]

WfShape ==
  /\ clock \in 0..MaxClock /\ totalBytes \in Nat /\ crashed \in BOOLEAN /\ web \in [WebCalls -> FetchSet]
  /\ \A c \in WebCalls : web[c].at \in {"lookup", "fetch", "store"} => {web[c].key, web[c].current} \subseteq Urls

\* Where the page of a call that followed no redirect is from, or will be.
ByAddress ==
  \A c \in WebCalls : ~web[c].redirected =>
    /\ web[c].at \in {"lookup", "fetch"} => web[c].current = web[c].key
    /\ web[c].at \in {"store", "analyze"} => web[c].page.from = web[c].key
    /\ web[c].at = "store" => web[c].page.from \in Urls

Counted == Clean(lru) /\ totalBytes = SizeOf(lru) /\ totalBytes <= CacheMax
WfInductive == WfShape /\ ByAddress /\ Counted

LEMMA WaitingIn ==
  /\ Waiting0 \in FetchSet /\ Waiting0.at = "free" /\ Waiting0.redirected = FALSE
  /\ DOMAIN Waiting0 = {"at", "key", "current", "hops", "redirected", "page"}
  BY WebAssumption DEF WebAssumption, Waiting0, NoPage, FetchSet, PageSet, Ended

LEMMA WfInits == WfInit => WfInductive
<1> SUFFICES ASSUME WfInit PROVE WfInductive
  OBVIOUS
<1>2. WfShape /\ ByAddress
  <2>1. web \in [WebCalls -> FetchSet] /\ \A c \in WebCalls : web[c].at = "free"
    BY WaitingIn DEF WfInit
  <2>2. clock \in 0..MaxClock /\ totalBytes \in Nat
    BY WebAssumption DEF WebAssumption, WfInit
  <2>3. crashed \in BOOLEAN
    BY DEF WfInit
  <2> QED
    BY <2>1, <2>2, <2>3 DEF WfShape, ByAddress
<1>3. Counted
  <2>1. <<>> \in Seq(CachedSet) /\ Len(<<>>) = 0
    OBVIOUS
  <2>2. Clean(<<>>)
    BY <2>1 DEF Clean
  <2>3. SizeOf(<<>>) = 0
    BY <2>1, Sized DEF Adds, SizeOf
  <2> QED
    BY <2>2, <2>3, WebAssumption DEF WebAssumption, WfInit, Counted
<1> QED
  BY <1>2, <1>3 DEF WfInductive

\* A call goes on; what it has fits, and the cache and the others are as they were.
LEMMA GoesWeb ==
  ASSUME WfShape, ByAddress, NEW c \in WebCalls, NEW w \in FetchSet, web' = [web EXCEPT ![c] = w],
         clock' = clock, crashed' = crashed, totalBytes' \in Nat,
         w.at \in {"lookup", "fetch", "store"} => {w.key, w.current} \subseteq Urls,
         ~w.redirected => /\ w.at \in {"lookup", "fetch"} => w.current = w.key
                          /\ w.at \in {"store", "analyze"} => w.page.from = w.key
                          /\ w.at = "store" => w.page.from \in Urls
  PROVE  WfShape' /\ ByAddress'
<1>1. web' \in [WebCalls -> FetchSet] /\ \A d \in WebCalls : web'[d] = IF d = c THEN w ELSE web[d]
  BY DEF WfShape
<1> QED
  BY <1>1 DEF WfShape, ByAddress

LEMMA CountedSame == ASSUME Counted, lru' = lru, totalBytes' = totalBytes PROVE Counted'
  BY DEF Counted, Clean

LEMMA EndedFacts ==
  ASSUME NEW how \in Ended
  PROVE  /\ [Waiting0 EXCEPT !.at = how] \in FetchSet /\ [Waiting0 EXCEPT !.at = how].at = how
         /\ [Waiting0 EXCEPT !.at = how].redirected = FALSE
         /\ how \notin {"lookup", "fetch", "store", "analyze"}
<1>1. how \notin {"lookup", "fetch", "store", "analyze"}
  BY DEF Ended
<1>2. [Waiting0 EXCEPT !.at = how] \in FetchSet
  BY WaitingIn DEF FetchSet
<1> QED
  BY <1>1, <1>2, WaitingIn

LEMMA EndsHolds ==
  ASSUME WfInductive, NEW c \in WebCalls, NEW how \in Ended, EndsWith(c, how),
         clock' = clock, crashed' = crashed, lru' = lru, totalBytes' = totalBytes
  PROVE  WfInductive'
<1>1. PICK w \in FetchSet : w = [Waiting0 EXCEPT !.at = how]
  BY EndedFacts
<1>2. w.at \notin {"lookup", "fetch", "store", "analyze"} /\ web' = [web EXCEPT ![c] = w]
  BY <1>1, EndedFacts DEF EndsWith
<1>3. totalBytes' \in Nat
  BY DEF WfInductive, WfShape
<1> QED
  BY <1>2, <1>3, GoesWeb, CountedSame DEF WfInductive

LEMMA ExecuteFetchHolds == ASSUME WfInductive, NEW c \in WebCalls, ExecuteFetch(c) PROVE WfInductive'
<1>1. clock' = clock /\ lru' = lru /\ totalBytes' = totalBytes /\ totalBytes' \in Nat
  BY DEF ExecuteFetch, WfInductive, WfShape
<1>2. PICK raw \in RawUrls :
        \/ /\ raw \in DOMAIN Normal /\ crashed' = crashed
           /\ web' = [web EXCEPT ![c] = [Waiting0 EXCEPT !.at = "lookup", !.key = Normal[raw], !.current = Normal[raw]]]
        \/ crashed' = TRUE /\ web' = web
  BY DEF ExecuteFetch
<1>3. CASE crashed' = TRUE /\ web' = web
  BY <1>1, <1>3, CountedSame DEF WfInductive, WfShape, ByAddress
<1>4. CASE /\ raw \in DOMAIN Normal /\ crashed' = crashed
           /\ web' = [web EXCEPT ![c] = [Waiting0 EXCEPT !.at = "lookup", !.key = Normal[raw], !.current = Normal[raw]]]
  <2>1. PICK w \in FetchSet : w = [Waiting0 EXCEPT !.at = "lookup", !.key = Normal[raw], !.current = Normal[raw]]
    <3>1. Normal[raw] \in Urls
      BY <1>4 DEF Urls
    <3>2. [Waiting0 EXCEPT !.at = "lookup", !.key = Normal[raw], !.current = Normal[raw]] \in FetchSet
      BY <3>1, WaitingIn DEF FetchSet
    <3> QED
      BY <3>2
  <2>2. w.at = "lookup" /\ w.key = Normal[raw] /\ w.current = w.key /\ Normal[raw] \in Urls
    BY <1>4, <2>1 DEF Waiting0, Urls
  <2>3. web' = [web EXCEPT ![c] = w] /\ crashed' = crashed
    BY <1>4, <2>1
  <2>4. WfShape' /\ ByAddress'
    BY <1>1, <2>2, <2>3, GoesWeb DEF WfInductive
  <2> QED
    BY <1>1, <2>4, CountedSame DEF WfInductive
<1> QED
  BY <1>2, <1>3, <1>4

LEMMA CacheGetHolds == ASSUME WfInductive, NEW c \in WebCalls, CacheGet(c) PROVE WfInductive'
<1>1. PICK key \in Urls : key = web[c].key
  BY DEF WfInductive, WfShape, CacheGet
<1>2. web[c] \in FetchSet /\ web[c].at = "lookup" /\ web[c].current \in Urls
  BY DEF WfInductive, WfShape, CacheGet
<1>3. clock' = clock /\ crashed' = crashed
  BY DEF CacheGet
<1>4. /\ Clean(lru) /\ totalBytes = SizeOf(lru) /\ totalBytes \in Nat /\ totalBytes <= CacheMax
      /\ lru \in Seq(CachedSet) /\ DOMAIN lru = 1..Len(lru)
  BY LenProperties DEF WfInductive, WfShape, Counted, Clean
<1>5. /\ Clean(Without(key)) /\ \A i \in 1..Len(Without(key)) : Without(key)[i].key # key
      /\ HeldOf(key) \in Nat /\ HeldOf(key) <= SizeOf(lru) /\ SizeOf(Without(key)) = SizeOf(lru) - HeldOf(key)
  BY <1>4, WithoutFacts
<1> DEFINE hits == {i \in Slot(key) : ~Expired(lru[i])}
<1>6. CASE hits = {}
  <2>1. lru' = Without(key) /\ totalBytes' = totalBytes - HeldOf(key) /\ web' = [web EXCEPT ![c].at = "fetch"]
    BY <1>1, <1>6 DEF CacheGet
  <2>2. totalBytes' \in Nat /\ totalBytes' <= CacheMax /\ totalBytes' = SizeOf(Without(key))
    BY <1>4, <1>5, <2>1, WebAssumption DEF WebAssumption
  <2>3. Counted'
    BY <1>5, <2>1, <2>2 DEF Counted, Clean
  <2>4. PICK w \in FetchSet : w = [web[c] EXCEPT !.at = "fetch"]
    BY <1>2 DEF FetchSet
  <2>5. /\ w.at = "fetch" /\ w.key = web[c].key /\ w.current = web[c].current /\ w.redirected = web[c].redirected
        /\ web' = [web EXCEPT ![c] = w]
    BY <1>2, <2>1, <2>4 DEF FetchSet
  <2> QED
    BY <1>1, <1>2, <1>3, <2>2, <2>3, <2>5, GoesWeb DEF WfInductive, ByAddress
<1>7. CASE hits # {}
  <2>1. PICK i \in 1..Len(lru) : i = (CHOOSE j \in hits : TRUE) /\ lru[i].key = key
    BY <1>4, <1>7 DEF Slot, Key
  <2>2. PICK e \in CachedSet : e = lru[i] /\ e.from = e.key /\ e.key = key
    BY <1>4, <2>1, SizeIn DEF Clean
  <2>3. /\ lru' = <<e>> \o Without(key) /\ totalBytes' = totalBytes
        /\ web' = [web EXCEPT ![c].at = "analyze", ![c].page = [NoPage EXCEPT !.from = e.from]]
    BY <1>1, <1>7, <2>1, <2>2 DEF CacheGet
  <2>4. HeldOf(key) = e.size
    <3>1. PICK k \in Slot(key) : k = (CHOOSE j \in Slot(key) : TRUE)
      BY <2>1, <1>4 DEF Slot, Key
    <3>2. k \in 1..Len(lru) /\ lru[k].key = key
      BY <1>4, <3>1 DEF Slot, Key
    <3>3. k = i
      BY <1>4, <2>1, <3>2 DEF Clean
    <3> QED
      BY <2>2, <3>1, <3>3 DEF HeldOf
  <2>5. Clean(<<e>> \o Without(key)) /\ SizeOf(<<e>> \o Without(key)) = e.size + SizeOf(Without(key))
    BY <1>5, <2>2, FrontClean
  <2>6. SizeOf(<<e>> \o Without(key)) = totalBytes
    BY <1>4, <1>5, <2>4, <2>5
  <2>7. Counted'
    BY <1>4, <2>3, <2>5, <2>6 DEF Counted, Clean
  <2>8. PICK w \in FetchSet : w = [web[c] EXCEPT !.at = "analyze", !.page = [NoPage EXCEPT !.from = e.from]]
    BY <1>2, <2>2 DEF FetchSet, PageSet, NoPage, CachedSet
  <2>9. /\ w.at = "analyze" /\ w.key = web[c].key /\ w.redirected = web[c].redirected /\ w.page.from = key
        /\ web' = [web EXCEPT ![c] = w]
    BY <1>2, <2>2, <2>3, <2>8 DEF FetchSet, NoPage
  <2> QED
    BY <1>1, <1>3, <1>4, <2>3, <2>7, <2>9, GoesWeb DEF WfInductive
<1> QED
  BY <1>6, <1>7

LEMMA FetchHopHolds == ASSUME WfInductive, NEW c \in WebCalls, FetchHop(c) PROVE WfInductive'
<1>1. web[c] \in FetchSet /\ web[c].at = "fetch" /\ web[c].current \in Urls /\ web[c].key \in Urls
  BY DEF WfInductive, WfShape, FetchHop
<1>2. clock' = clock /\ crashed' = crashed /\ lru' = lru /\ totalBytes' = totalBytes /\ totalBytes' \in Nat
  BY DEF FetchHop, WfInductive, WfShape
<1>3. ASSUME NEW size \in PageSizes,
             web' = [web EXCEPT ![c].at = "store", ![c].page = [from |-> web[c].current, size |-> size]]
      PROVE  WfInductive'
  <2>1. PICK w \in FetchSet : w = [web[c] EXCEPT !.at = "store", !.page = [from |-> web[c].current, size |-> size]]
    BY <1>1, WebAssumption DEF WebAssumption, FetchSet, PageSet
  <2>2. /\ w.at = "store" /\ w.key = web[c].key /\ w.current = web[c].current /\ w.redirected = web[c].redirected
        /\ w.page.from = web[c].current /\ web' = [web EXCEPT ![c] = w]
    BY <1>1, <1>3, <2>1 DEF FetchSet
  <2> QED
    BY <1>1, <1>2, <2>2, GoesWeb, CountedSame DEF WfInductive, ByAddress
<1>4. ASSUME NEW next \in Urls, ~TooMany(c),
             web' = [web EXCEPT ![c].hops = Hops(c), ![c].current = next, ![c].redirected = TRUE]
      PROVE  WfInductive'
  <2>1. Hops(c) \in 0..(MaxFollowed - 1)
    <3>1. web[c].hops \in 0..(MaxFollowed - 1) /\ web[c].hops + 1 # MaxFollowed
      BY <1>1, <1>4 DEF TooMany, Hops, FetchSet
    <3> QED
      BY <3>1, WebAssumption DEF Hops, WebAssumption
  <2>2. PICK w \in FetchSet : w = [web[c] EXCEPT !.hops = Hops(c), !.current = next, !.redirected = TRUE]
    BY <1>1, <2>1 DEF FetchSet
  <2>3. /\ w.at = "fetch" /\ w.key = web[c].key /\ w.current = next /\ w.redirected
        /\ web' = [web EXCEPT ![c] = w]
    BY <1>1, <1>4, <2>2 DEF FetchSet
  <2> QED
    BY <1>1, <1>2, <2>3, GoesWeb, CountedSame DEF WfInductive
<1>5. ASSUME NEW how \in {"failed", "redirected"}, EndsWith(c, how) PROVE WfInductive'
  <2>1. how \in Ended
    BY DEF Ended
  <2> QED
    BY <1>2, <1>5, <2>1, EndsHolds
<1> QED
  BY <1>3, <1>4, <1>5 DEF FetchHop, FetchFails

\* What a page that fits does to the cache: it is at its front.
LEMMA PutFacts ==
  ASSUME WfInductive, NEW key \in Urls, NEW page \in PageSet, page.from = key, Put(key, page)
  PROVE  /\ Counted' /\ totalBytes' \in Nat
         /\ page.size \in 1..CacheMax => /\ 1 \in DOMAIN lru' /\ lru'[1].key = key /\ lru'[1].put = clock
<1>1. /\ Clean(lru) /\ totalBytes = SizeOf(lru) /\ totalBytes \in Nat /\ totalBytes <= CacheMax
      /\ page.size \in Nat /\ CacheMax \in Nat
  BY WebAssumption DEF WebAssumption, WfInductive, WfShape, Counted, PageSet
<1>2. /\ Clean(Without(key)) /\ \A i \in 1..Len(Without(key)) : Without(key)[i].key # key
      /\ HeldOf(key) \in Nat /\ HeldOf(key) <= SizeOf(lru) /\ SizeOf(Without(key)) = SizeOf(lru) - HeldOf(key)
  BY <1>1, WithoutFacts
<1>3. CASE page.size = 0
  BY <1>1, <1>3, CountedSame DEF Put, WfInductive
<1>4. CASE page.size > CacheMax
  <2>1. lru' = Without(key) /\ totalBytes' = totalBytes - HeldOf(key)
    BY <1>1, <1>4 DEF Put, Replaced
  <2>2. totalBytes' \in Nat /\ totalBytes' <= CacheMax /\ totalBytes' = SizeOf(Without(key))
    BY <1>1, <1>2, <2>1
  <2> QED
    <3>1. Counted'
      BY <1>2, <2>1, <2>2 DEF Counted, Clean
    <3>2. page.size \notin 1..CacheMax
      BY <1>1, <1>4
    <3> QED
      BY <2>2, <3>1, <3>2
<1>5. CASE page.size \in 1..CacheMax
  <2>1. PICK fresh \in CachedSet : fresh = [key |-> key, size |-> page.size, from |-> page.from, put |-> clock]
    BY <1>1 DEF CachedSet, WfInductive, WfShape
  <2> DEFINE all == <<fresh>> \o Without(key)
             total == totalBytes - Replaced(key) + page.size
  <2>2. fresh.from = fresh.key /\ fresh.key = key /\ fresh.size = page.size /\ fresh.put = clock
    BY <2>1
  <2>3. /\ Clean(all) /\ Len(all) \in Nat \ {0} /\ all[1] = fresh /\ SizeOf(all) = page.size + SizeOf(Without(key))
    BY <1>2, <2>2, FrontClean
  <2>4. lru' = Evict(all, total) /\ totalBytes' = total - (SizeOf(all) - SizeOf(Evict(all, total)))
    BY <1>1, <1>5, <2>1 DEF Put
  <2>5. total = SizeOf(all)
    <3> HIDE DEF all
    <3> QED
      BY <1>1, <1>2, <2>3 DEF Replaced
  <2> HIDE DEF all, total
  <2>6. PICK kept : kept = Evict(all, total)
    OBVIOUS
  <2>7. /\ Clean(kept) /\ SizeOf(kept) <= CacheMax /\ SizeOf(kept) \in Nat
        /\ Len(kept) \in Nat \ {0} /\ kept[1] = fresh
    BY <1>1, <1>5, <2>2, <2>3, <2>5, <2>6, EvictFacts
  <2>8. SizeOf(all) \in Nat
    BY <2>3, Sized DEF Clean
  <2>9. totalBytes' = SizeOf(kept)
    <3>1. totalBytes' = SizeOf(all) - (SizeOf(all) - SizeOf(kept))
      BY <2>4, <2>5, <2>6
    <3> QED
      BY <2>7, <2>8, <3>1
  <2>10. Counted'
    BY <2>4, <2>6, <2>7, <2>9 DEF Counted, Clean
  <2>11. 1 \in DOMAIN kept
    BY <2>7, LenProperties DEF Clean
  <2> QED
    BY <2>2, <2>4, <2>6, <2>7, <2>9, <2>10, <2>11
<1> QED
  BY <1>1, <1>3, <1>4, <1>5

LEMMA StoreHolds == ASSUME WfInductive, NEW c \in WebCalls, Store(c) PROVE WfInductive'
<1>1. web[c] \in FetchSet /\ web[c].at = "store" /\ web[c].key \in Urls /\ web[c].page \in PageSet
  BY DEF WfInductive, WfShape, Store, FetchSet
<1>2. clock' = clock /\ crashed' = crashed
  BY DEF Store
<1>3. Counted' /\ totalBytes' \in Nat
  <2>1. CASE web[c].redirected
    BY <2>1, CountedSame DEF Store, WfInductive, WfShape
  <2>2. CASE ~web[c].redirected
    <3>1. PICK key \in Urls, page \in PageSet : key = web[c].key /\ page = web[c].page
      BY <1>1
    <3>2. page.from = key /\ Put(key, page)
      BY <1>1, <2>2, <3>1 DEF Store, WfInductive, ByAddress
    <3> QED
      BY <3>2, PutFacts
  <2> QED
    BY <2>1, <2>2
<1>4. PICK w \in FetchSet : w = [web[c] EXCEPT !.at = "analyze", !.page.size = 0]
  BY <1>1 DEF FetchSet, PageSet
<1>5. /\ w.at = "analyze" /\ w.key = web[c].key /\ w.redirected = web[c].redirected
      /\ w.page.from = web[c].page.from /\ web' = [web EXCEPT ![c] = w]
  BY ZenonT(60), <1>1, <1>4 DEF FetchSet, PageSet, Store
<1> QED
  BY <1>1, <1>2, <1>3, <1>5, GoesWeb DEF WfInductive, ByAddress

LEMMA WfSteps == WfInductive /\ [WfNext]_wfVars => WfInductive'
<1> SUFFICES ASSUME WfInductive, [WfNext]_wfVars PROVE WfInductive'
  OBVIOUS
<1>1. CASE UNCHANGED wfVars
  BY <1>1, CountedSame DEF wfVars, WfInductive, WfShape, ByAddress
<1>2. CASE Tick
  <2>1. clock' \in 0..MaxClock
    BY <1>2, WebAssumption DEF WebAssumption, Tick, WfInductive, WfShape
  <2> QED
    BY <1>2, <2>1, CountedSame DEF Tick, WfInductive, WfShape, ByAddress
<1>3. ASSUME NEW c \in WebCalls, AnalyzePage(c) PROVE WfInductive'
  <2>1. PICK how \in Ended : EndsWith(c, how)
    BY <1>3 DEF AnalyzePage, FetchFails, Ended
  <2> QED
    BY <1>3, <2>1, EndsHolds DEF AnalyzePage
<1> QED
  BY <1>1, <1>2, <1>3, ExecuteFetchHolds, CacheGetHolds, FetchHopHolds, StoreHolds DEF WfNext

\* The page cache at every moment (LRUCache.Get, LRUCache.Put and removeElement, called by
\* WebFetchTool.Execute from any number of parallel calls): its entries have each an address
\* of their own, curBytes is the sum of their sizes and within maxBytes, and a call that
\* followed no redirect has, from the cache or from the web, the page of the address it asked.
THEOREM CacheHolds == WfSpec => []CacheInv
<1>1. WfInductive => CacheInv
  <2> SUFFICES ASSUME WfInductive PROVE CacheInv
    OBVIOUS
  <2>1. WfTypeOK
    BY DEF WfInductive, WfShape, WfTypeOK, FetchSet
  <2>2. CacheCounts
    <3>1. DOMAIN lru = 1..Len(lru)
      BY LenProperties DEF WfInductive, Counted, Clean
    <3> QED
      BY <3>1 DEF WfInductive, Counted, Clean, CacheCounts, Key
  <2>3. PageIsAsked
    BY DEF WfInductive, ByAddress, PageIsAsked
  <2> QED
    BY <2>1, <2>2, <2>3 DEF CacheInv
<1> QED
  BY <1>1, WfInits, WfSteps, PTL DEF WfSpec

\* What LRUCache.Get serves is not older than the ttl; and what WebFetchTool.Execute puts, a
\* page that fits and came without a redirect, is in the cache after LRUCache.Put made room.
THEOREM CacheServes == WfSpec => [][FreshServed /\ PutStays]_wfVars
<1>1. WfInductive /\ [WfNext]_wfVars => [FreshServed /\ PutStays]_wfVars
  <2> SUFFICES ASSUME WfInductive, WfNext PROVE FreshServed /\ PutStays
    OBVIOUS
  <2>1. ASSUME NEW c \in WebCalls, web[c].at = "lookup", web'[c].at = "analyze"
        PROVE  CacheGet(c)
    <3>1. \A d \in WebCalls : web[d] \in FetchSet
      BY DEF WfInductive, WfShape
    <3>2. ASSUME NEW d \in WebCalls, ExecuteFetch(d) \/ CacheGet(d) \/ FetchHop(d) \/ Store(d) \/ AnalyzePage(d)
          PROVE  d = c
      BY <2>1, <3>2 DEF WfInductive, WfShape, ExecuteFetch, CacheGet, FetchHop, FetchFails,
         Store, AnalyzePage, EndsWith
    <3>3. ~Tick
      BY <2>1 DEF Tick
    <3>4. ~ExecuteFetch(c) /\ ~FetchHop(c) /\ ~Store(c) /\ ~AnalyzePage(c)
      BY <2>1 DEF ExecuteFetch, FetchOver, Ended, FetchHop, Store, AnalyzePage
    <3> QED
      BY <3>2, <3>3, <3>4 DEF WfNext
  <2>2. FreshServed
    <3> SUFFICES ASSUME NEW c \in WebCalls, web[c].at = "lookup", web'[c].at = "analyze"
                 PROVE  \E i \in Slot(web[c].key) : clock <= lru[i].put + Ttl
      BY DEF FreshServed
    <3>1. CacheGet(c)
      BY <2>1
    <3> DEFINE hits == {i \in Slot(web[c].key) : ~Expired(lru[i])}
    <3>2. hits # {}
      <4> SUFFICES ASSUME hits = {} PROVE FALSE
        OBVIOUS
      <4>1. web' = [web EXCEPT ![c].at = "fetch"]
        BY <3>1 DEF CacheGet
      <4>2. web \in [WebCalls -> FetchSet]
        BY DEF WfInductive, WfShape
      <4>3. web'[c].at = "fetch"
        BY <4>1, <4>2 DEF FetchSet
      <4> QED
        BY <4>3
    <3>3. PICK i \in Slot(web[c].key) : ~Expired(lru[i])
      BY <3>2
    <3>4. i \in 1..Len(lru) /\ lru \in Seq(CachedSet)
      BY <3>3, LenProperties DEF Slot, WfInductive, Counted, Clean
    <3>5. lru[i].put \in 0..MaxClock
      BY <3>4, SizeIn DEF CachedSet
    <3>6. clock <= lru[i].put + Ttl
      BY <3>3, <3>5, WebAssumption DEF Expired, WebAssumption, WfInductive, WfShape
    <3> QED
      BY <3>3, <3>6
  <2>3. PutStays
    <3> SUFFICES ASSUME NEW c \in WebCalls, web[c].at = "store", web'[c].at = "analyze", ~web[c].redirected,
                        web[c].page.size \in 1..CacheMax
                 PROVE  \E i \in DOMAIN lru' : lru'[i].key = web[c].key /\ lru'[i].put = clock
      BY DEF PutStays
    <3>1. Store(c)
      <4>1. ASSUME NEW d \in WebCalls, ExecuteFetch(d) \/ CacheGet(d) \/ FetchHop(d) \/ Store(d) \/ AnalyzePage(d)
            PROVE  d = c
        BY <4>1 DEF WfInductive, WfShape, ExecuteFetch, CacheGet, FetchHop, FetchFails, Store,
           AnalyzePage, EndsWith
      <4>2. ~Tick
        BY DEF Tick
      <4>3. ~ExecuteFetch(c) /\ ~FetchHop(c) /\ ~CacheGet(c) /\ ~AnalyzePage(c)
        BY DEF ExecuteFetch, FetchOver, Ended, FetchHop, CacheGet, AnalyzePage
      <4> QED
        BY <4>1, <4>2, <4>3 DEF WfNext
    <3>2. PICK key \in Urls, page \in PageSet : key = web[c].key /\ page = web[c].page
      BY DEF WfInductive, WfShape, FetchSet
    <3>3. page.from = key /\ Put(key, page)
      BY <3>1, <3>2 DEF Store, WfInductive, ByAddress
    <3> QED
      BY <3>2, <3>3, PutFacts
  <2> QED
    BY <2>2, <2>3
<1> QED
  BY <1>1, WfInits, WfSteps, PTL DEF WfSpec

(***************************************************************************)
(* ToolRegistry. The tools that are left have a name of their own, the     *)
(* registries are built of them, and what is not left is among the         *)
(* skipped.                                                                *)
(***************************************************************************)

\* The indices of a set in their order: each once.
LEMMA OrderedFacts ==
  ASSUME NEW n \in Nat, NEW I \in SUBSET (1..n)
  PROVE  /\ Cardinality(I) \in Nat /\ DOMAIN Ordered(I) = 1..Cardinality(I)
         /\ \A k \in 1..Cardinality(I) : Ordered(I)[k] \in I
         /\ \A i \in I : \E k \in 1..Cardinality(I) : Ordered(I)[k] = i
         /\ \A j, k \in 1..Cardinality(I) : Ordered(I)[j] = Ordered(I)[k] => j = k
<1>1. PICK s : s = Ordered(I)
  OBVIOUS
<1>2. InOrderOf(s, I)
  BY <1>1, OrderOf DEF ByRank, Ordered
<1>3. PICK c \in Nat : c = Cardinality(I)
  BY <1>2 DEF InOrderOf
<1>4. ASSUME NEW j \in 1..c, NEW k \in 1..c, s[j] = s[k] PROVE j = k
  <2>1. PICK a \in I : a = s[j] /\ a = s[k]
    BY <1>2, <1>3, <1>4 DEF InOrderOf
  <2>2. ~(a < a)
    OBVIOUS
  <2>3. ~(j < k) /\ ~(k < j)
    BY <1>2, <1>3, <2>1, <2>2 DEF InOrderOf
  <2> QED
    BY <2>3
<1> QED
  BY <1>1, <1>2, <1>3, <1>4 DEF InOrderOf

ToolNames == STRING \cup Builtins
Owners == ToSet(ServerNames) \cup {"builtin"}
Skips == [server : ToSet(ServerNames), name : STRING,
          reason : {"cross_server_duplicate", "in_server_duplicate", "builtin_conflict"}]
Managers == [servers : Seq(ToSet(ServerNames)), tools : Seq(Tools), skipped : Seq(Skips), registered : SUBSET STRING]
Registries == [mode : RunModes, stubs : SUBSET ToolNames,
               owner : UNION {[names -> Owners] : names \in SUBSET ToolNames}]
Apps == [phase : {"starting", "building", "idle", "turn", "over", "aborted"}, lsp : BOOLEAN, mode : RunModes,
         cur : Nat, wired : Nat]
KidSet == [svc : Nat, state : {"none", "running", "finished"}, background : BOOLEAN, tools : SUBSET ToolNames]

TrShape ==
  /\ live \subseteq ToSet(ServerNames) /\ manager \in Managers /\ registries \in Seq(Registries)
  /\ app \in Apps /\ app.cur <= Len(registries) /\ app.wired <= Len(registries)
  /\ app.phase \in {"idle", "turn"} => app.cur > 0
  /\ app.phase \in {"starting", "building"} => registries = <<>>
  /\ kids \in [Kids -> KidSet] /\ \A k \in Kids : kids[k].svc <= Len(registries)

\* The servers that run are the manager's, until it is closed.
Running == live = IF app.phase = "over" THEN {} ELSE ToSet(manager.servers)

\* The tools that are left have a name of their own, and the registries are built of them.
OneName == \A t, u \in ToSet(manager.tools) : t.name = u.name => t = u
Built ==
  app.phase # "over" =>
    \A i \in 1..Len(registries) : \A mode \in RunModes :
      registries[i].mode = mode => registries[i] = BuildRegistry(mode)

\* A tool that was given is left or skipped, and in agent mode it is skipped if it is taken.
Told ==
  app.phase \in {"building", "idle", "turn"} =>
    \A server \in DOMAIN given : \A name \in ToSet(given[server]) :
      [server |-> server, name |-> name] \in ToSet(manager.tools) \/ Skipped(server, name)
TakenTold ==
  (app.phase \in {"idle", "turn"} /\ Current.mode = "agent") =>
    /\ \A t \in ToSet(manager.tools) : t.name \in OwnNames("agent") => Skipped(t.server, t.name)
    /\ manager.registered = {t.name : t \in Free("agent")}

TrInductive == TrShape /\ Running /\ OneName /\ Built /\ Told /\ TakenTold /\ KidsNarrow

LEMMA NamedIn ==
  ASSUME NEW s \in ToSet(ServerNames), NEW names \in Seq(STRING)
  PROVE  /\ Named(s, names) \in Seq(Tools)
         /\ ToSet(Named(s, names)) = {[server |-> s, name |-> n] : n \in ToSet(names)}
<1>1. PICK n \in Nat : n = Len(names) /\ DOMAIN names = 1..n /\ names \in [1..n -> STRING]
  BY LenProperties
<1>2. Named(s, names) \in [1..n -> Tools]
  BY <1>1 DEF Named, Tools
<1>3. Named(s, names) \in Seq(Tools)
  BY <1>2, SeqDef
<1>4. ToSet(Named(s, names)) = {[server |-> s, name |-> m] : m \in ToSet(names)}
  BY <1>1 DEF Named, ToSet
<1> QED
  BY <1>3, <1>4

\* What the servers gave, in one list.
LEMMA AllFacts ==
  ASSUME manager \in Managers, NEW lists \in [ToSet(manager.servers) -> Advertised]
  PROVE  /\ All(lists) \in Seq(Tools)
         /\ \A t \in ToSet(All(lists)) : t.server \in DOMAIN lists /\ t.name \in ToSet(lists[t.server])
         /\ \A s \in DOMAIN lists : \A n \in ToSet(lists[s]) : [server |-> s, name |-> n] \in ToSet(All(lists))
<1> DEFINE servers == manager.servers
<1>1. servers \in Seq(ToSet(ServerNames))
  BY DEF Managers
<1>2. PICK m \in Nat : m = Len(servers) /\ DOMAIN servers = 1..m /\ servers \in [1..m -> ToSet(ServerNames)]
  BY <1>1, LenProperties
<1>3. \A i \in 1..m : servers[i] \in ToSet(servers) /\ lists[servers[i]] \in Seq(STRING)
  BY <1>2, RegistryAssumption DEF ToSet, RegistryAssumption
<1> DEFINE parts == [i \in 1..m |-> Named(servers[i], lists[servers[i]])]
<1>4. \A i \in 1..m : /\ parts[i] \in Seq(Tools)
                      /\ ToSet(parts[i]) = {[server |-> servers[i], name |-> n] : n \in ToSet(lists[servers[i]])}
  BY <1>2, <1>3, NamedIn
<1>5. parts \in Seq(Seq(Tools)) /\ Len(parts) = m
  <2>1. parts \in [1..m -> Seq(Tools)]
    BY <1>4
  <2>2. parts \in Seq(Seq(Tools))
    BY <2>1, SeqDef
  <2> QED
    BY <2>1, <2>2, LenProperties
<1>6. All(lists) = FlattenSeq(parts)
  BY <1>2 DEF All
<1> HIDE DEF parts
<1>7. All(lists) \in Seq(Tools) /\ ToSet(All(lists)) = Elements(parts, m)
  BY <1>5, <1>6, FlattenFacts
<1>8. ASSUME NEW t \in ToSet(All(lists)) PROVE t.server \in DOMAIN lists /\ t.name \in ToSet(lists[t.server])
  <2>1. PICK i \in 1..m : t \in ToSet(parts[i])
    BY <1>7 DEF Elements
  <2>2. PICK n \in ToSet(lists[servers[i]]) : t = [server |-> servers[i], name |-> n]
    BY <1>4, <2>1
  <2> QED
    BY <1>3, <2>2
<1>9. ASSUME NEW s \in DOMAIN lists, NEW n \in ToSet(lists[s])
      PROVE  [server |-> s, name |-> n] \in ToSet(All(lists))
  <2>1. PICK i \in 1..m : s = servers[i]
    BY <1>2 DEF ToSet
  <2>2. [server |-> s, name |-> n] \in ToSet(parts[i])
    BY <1>4, <2>1
  <2> QED
    BY <1>7, <2>2 DEF Elements
<1> QED
  BY <1>7, <1>8, <1>9

\* A sequence of some of the indices of a list.
LEMMA PickedIn ==
  ASSUME NEW T, NEW s \in Seq(T), NEW I \in SUBSET DOMAIN s
  PROVE  /\ Cardinality(I) \in Nat /\ DOMAIN Ordered(I) = 1..Cardinality(I)
         /\ \A k \in 1..Cardinality(I) : Ordered(I)[k] \in I /\ s[Ordered(I)[k]] \in T
         /\ \A i \in I : \E k \in 1..Cardinality(I) : Ordered(I)[k] = i
<1>1. PICK n \in Nat : DOMAIN s = 1..n /\ \A i \in 1..n : s[i] \in T
  BY LenProperties
<1>2. I \in SUBSET (1..n)
  BY <1>1
<1>3. /\ Cardinality(I) \in Nat /\ DOMAIN Ordered(I) = 1..Cardinality(I)
      /\ \A k \in 1..Cardinality(I) : Ordered(I)[k] \in I
      /\ \A i \in I : \E k \in 1..Cardinality(I) : Ordered(I)[k] = i
  BY <1>2, OrderedFacts
<1> QED
  BY <1>1, <1>2, <1>3

LEMMA ChoosingFacts ==
  ASSUME manager \in Managers, NEW lists \in [ToSet(manager.servers) -> Advertised]
  PROVE  /\ Choosing(lists) \in Managers /\ Choosing(lists).servers = manager.servers
         /\ \A t, u \in ToSet(Choosing(lists).tools) : t.name = u.name => t = u
         /\ \A s \in DOMAIN lists : \A n \in ToSet(lists[s]) :
              \/ [server |-> s, name |-> n] \in ToSet(Choosing(lists).tools)
              \/ \E x \in ToSet(Choosing(lists).skipped) : x.server = s /\ x.name = n
<1> DEFINE all == All(lists)
           I == {i \in DOMAIN all : Kept(lists, i)}
           J == {i \in DOMAIN all : ~Kept(lists, i)}
           kept == Ordered(I)
           dropped == Ordered(J)
           why(i) == IF Ambiguous(lists, all[i]) THEN "cross_server_duplicate" ELSE "in_server_duplicate"
           tools == [n \in DOMAIN kept |-> all[kept[n]]]
           skipped == [n \in DOMAIN dropped |-> Skip(all[dropped[n]], why(dropped[n]))]
<1>1. Choosing(lists) = [manager EXCEPT !.tools = tools, !.skipped = skipped]
  BY DEF Choosing
<1>2. /\ all \in Seq(Tools)
      /\ \A t \in ToSet(all) : t.server \in DOMAIN lists /\ t.name \in ToSet(lists[t.server])
      /\ \A s \in DOMAIN lists : \A n \in ToSet(lists[s]) : [server |-> s, name |-> n] \in ToSet(all)
  BY AllFacts
<1> HIDE DEF all
<1>3. I \in SUBSET DOMAIN all /\ J \in SUBSET DOMAIN all
  OBVIOUS
<1>4. /\ \A i \in DOMAIN all : i \in I <=> Kept(lists, i)
      /\ \A i \in DOMAIN all : i \in J <=> ~Kept(lists, i)
  OBVIOUS
<1> HIDE DEF I, J
<1>5. /\ Cardinality(I) \in Nat /\ DOMAIN kept = 1..Cardinality(I)
      /\ \A k \in 1..Cardinality(I) : kept[k] \in I /\ all[kept[k]] \in Tools
      /\ \A i \in I : \E k \in 1..Cardinality(I) : kept[k] = i
  BY <1>2, <1>3, PickedIn
<1>6. /\ Cardinality(J) \in Nat /\ DOMAIN dropped = 1..Cardinality(J)
      /\ \A k \in 1..Cardinality(J) : dropped[k] \in J /\ all[dropped[k]] \in Tools
      /\ \A i \in J : \E k \in 1..Cardinality(J) : dropped[k] = i
  BY <1>2, <1>3, PickedIn
<1> HIDE DEF kept, dropped
<1>7. tools \in Seq(Tools) /\ \A t \in ToSet(tools) : \E i \in I : t = all[i]
  <2>1. tools \in [1..Cardinality(I) -> Tools]
    BY <1>5
  <2>2. tools \in Seq(Tools)
    BY <1>5, <2>1, SeqDef
  <2>3. \A t \in ToSet(tools) : \E i \in I : t = all[i]
    BY <1>5 DEF ToSet
  <2> QED
    BY <2>2, <2>3
<1>8. \A i \in I : all[i] \in ToSet(tools)
  BY <1>5 DEF ToSet
<1>9. skipped \in Seq(Skips)
  <2>1. \A k \in 1..Cardinality(J) : Skip(all[dropped[k]], why(dropped[k])) \in Skips
    <3> SUFFICES ASSUME NEW k \in 1..Cardinality(J) PROVE Skip(all[dropped[k]], why(dropped[k])) \in Skips
      OBVIOUS
    <3>1. PICK e \in Tools : e = all[dropped[k]]
      BY <1>6
    <3>2. e.server \in ToSet(ServerNames) /\ e.name \in STRING
      BY DEF Tools
    <3>3. why(dropped[k]) \in {"cross_server_duplicate", "in_server_duplicate"}
      OBVIOUS
    <3> HIDE DEF why
    <3> QED
      BY <3>1, <3>2, <3>3 DEF Skip, Skips
  <2>2. skipped \in [1..Cardinality(J) -> Skips]
    BY <1>6, <2>1
  <2> QED
    BY <1>6, <2>2, SeqDef
<1>10. \A i \in J : \E x \in ToSet(skipped) : x.server = all[i].server /\ x.name = all[i].name
  <2> SUFFICES ASSUME NEW i \in J PROVE \E x \in ToSet(skipped) : x.server = all[i].server /\ x.name = all[i].name
    OBVIOUS
  <2>1. PICK k \in 1..Cardinality(J) : dropped[k] = i
    BY <1>6
  <2>2. k \in DOMAIN skipped /\ skipped[k] = Skip(all[i], why(i))
    BY <1>6, <2>1
  <2>3. skipped[k].server = all[i].server /\ skipped[k].name = all[i].name
    BY <2>2 DEF Skip
  <2> HIDE DEF skipped
  <2> QED
    BY <2>2, <2>3 DEF ToSet
<1> HIDE DEF tools, skipped, why
<1>11. /\ Choosing(lists) \in Managers /\ Choosing(lists).servers = manager.servers
       /\ Choosing(lists).tools = tools /\ Choosing(lists).skipped = skipped
  BY <1>1, <1>7, <1>9 DEF Managers
<1>12. DOMAIN all = 1..Len(all) /\ Len(all) \in Nat /\ \A i \in DOMAIN all : all[i] \in ToSet(all) /\ all[i] \in Tools
  BY <1>2, LenProperties DEF ToSet
<1>13. ASSUME NEW t \in ToSet(tools), NEW u \in ToSet(tools), t.name = u.name PROVE t = u
  <2>1. PICK i \in I, j \in I : t = all[i] /\ u = all[j]
    BY <1>7
  <2>2. i \in DOMAIN all /\ j \in DOMAIN all /\ Kept(lists, i) /\ Kept(lists, j)
    BY <1>3, <1>4
  <2>3. ~Ambiguous(lists, t) /\ t.server \in DOMAIN lists /\ u.server \in DOMAIN lists
        /\ t.name \in ToSet(lists[t.server]) /\ t.name \in ToSet(lists[u.server]) /\ t \in Tools /\ u \in Tools
    BY <1>2, <1>12, <1>13, <2>1, <2>2 DEF Kept, all
  <2>4. t.server = u.server
    <3> DEFINE givers == Givers(lists, t.name)
    <3>1. t.server \in givers /\ u.server \in givers
      BY <2>3 DEF Givers
    <3>2. IsFiniteSet(givers)
      <4>1. IsFiniteSet(ToSet(manager.servers))
        BY SetFinite DEF Managers
      <4> QED
        BY <4>1, FS_Subset DEF Givers
    <3>3. ~(Cardinality(givers) > 1)
      BY <2>3 DEF Ambiguous
    <3> HIDE DEF givers
    <3> QED
      BY <3>1, <3>2, <3>3, OneElement
  <2> QED
    BY <1>13, <2>3, <2>4 DEF Tools
<1>14. ASSUME NEW s \in DOMAIN lists, NEW n \in ToSet(lists[s])
       PROVE  \/ [server |-> s, name |-> n] \in ToSet(tools)
              \/ \E x \in ToSet(skipped) : x.server = s /\ x.name = n
  <2> DEFINE t == [server |-> s, name |-> n]
             D == {i \in DOMAIN all : all[i] = t}
  <2>0. t.server = s /\ t.name = n
    OBVIOUS
  <2>1. PICK i \in DOMAIN all : all[i] = t
    BY <1>2 DEF ToSet
  <2> HIDE DEF t
  <2>2. D \in SUBSET Nat /\ D # {}
    BY <1>12, <2>1
  <2>3. PICK k \in D : \A m \in D : k <= m
    <3> HIDE DEF D
    <3> QED
      BY <2>2, Least
  <2>4. k \in DOMAIN all /\ all[k] = t
    OBVIOUS
  <2>5. ~\E j \in 1..(k - 1) : all[j] = all[k]
    <3> SUFFICES ASSUME NEW j \in 1..(k - 1), all[j] = all[k] PROVE FALSE
      OBVIOUS
    <3>1. j \in DOMAIN all /\ ~(k <= j)
      BY <1>12, <2>4
    <3>2. j \in D
      BY <2>4, <3>1
    <3> HIDE DEF D
    <3> QED
      BY <2>3, <3>1, <3>2
  <2> QED
    BY <1>4, <1>8, <1>10, <2>0, <2>4, <2>5 DEF t
<1> QED
  BY <1>11, <1>13, <1>14

LEMMA SkippedIn ==
  \A server, name : Skipped(server, name) <=> \E x \in ToSet(manager.skipped) : x.server = server /\ x.name = name
BY DEF Skipped, ToSet

\* The names of the program's own tools, and the registry of a mode.
LEMMA OwnNamesIn == ASSUME NEW mode PROVE OwnNames(mode) \subseteq Builtins
BY DEF OwnNames, ReadOnly, Writing, Builtins

LEMMA BuildRegistryIn ==
  ASSUME TrShape, NEW mode \in RunModes
  PROVE  /\ BuildRegistry(mode) \in Registries /\ BuildRegistry(mode).mode = mode
         /\ OwnNames(mode) \subseteq DOMAIN BuildRegistry(mode).owner
         /\ DOMAIN BuildRegistry(mode).owner \subseteq Builtins \cup {t.name : t \in ToSet(manager.tools)}
         /\ \A n \in OwnNames(mode) : BuildRegistry(mode).owner[n] = "builtin"
         /\ \A n \in DOMAIN BuildRegistry(mode).owner \ OwnNames(mode) :
              \E t \in ToSet(manager.tools) : t.name = n /\ BuildRegistry(mode).owner[n] = t.server
         /\ mode = "agent" =>
              DOMAIN BuildRegistry(mode).owner = OwnNames(mode) \cup {t.name : t \in Free(mode)}
<1> DEFINE mcp == IF mode = "plan" THEN {} ELSE Free(mode)
           names == OwnNames(mode) \cup {t.name : t \in mcp}
           owner == [n \in names |-> IF n \in OwnNames(mode) THEN "builtin" ELSE (CHOOSE t \in mcp : t.name = n).server]
           r == BuildRegistry(mode)
<1>1. r.mode = mode /\ r.owner = owner /\ r = [mode |-> mode, stubs |-> r.stubs, owner |-> owner] /\ r.stubs \in SUBSET ToolNames
  BY RegistryAssumption DEF RegistryAssumption, BuildRegistry, ToolNames
<1>2. ToSet(manager.tools) \subseteq Tools /\ mcp \subseteq ToSet(manager.tools)
  <2>1. manager.tools \in Seq(Tools)
    BY DEF TrShape, Managers
  <2>2. ToSet(manager.tools) \subseteq Tools
    BY <2>1, LenProperties DEF ToSet
  <2> QED
    BY <2>2 DEF Free
<1>3. \A t \in Tools : t.name \in ToolNames /\ t.server \in Owners
  BY DEF Tools, ToolNames, Owners
<1>4. OwnNames(mode) \subseteq Builtins
  BY OwnNamesIn
<1>5. mode = "agent" => mcp = Free(mode)
  OBVIOUS
<1> HIDE DEF mcp, r
<1>6. names \subseteq ToolNames /\ names \subseteq Builtins \cup {t.name : t \in ToSet(manager.tools)}
  BY <1>2, <1>3, <1>4 DEF ToolNames
<1>7. ASSUME NEW n \in names \ OwnNames(mode) PROVE \E t \in mcp : t.name = n /\ owner[n] = t.server
  <2>1. \E t \in mcp : t.name = n
    OBVIOUS
  <2> QED
    BY <2>1
<1>8. \A n \in OwnNames(mode) : owner[n] = "builtin"
  OBVIOUS
<1>9. owner \in [names -> Owners]
  <2>1. \A n \in names : owner[n] \in Owners
    <3> SUFFICES ASSUME NEW n \in names PROVE owner[n] \in Owners
      OBVIOUS
    <3> HIDE DEF owner, names
    <3>1. CASE n \in OwnNames(mode)
      BY <1>8, <3>1 DEF Owners
    <3>2. CASE n \notin OwnNames(mode)
      BY <1>2, <1>3, <1>7, <3>2
    <3> QED
      BY <3>1, <3>2
  <2>2. DOMAIN owner = names /\ owner = [n \in names |-> owner[n]]
    OBVIOUS
  <2> HIDE DEF owner, names
  <2> QED
    BY <2>1, <2>2
<1>10. DOMAIN owner = names
  OBVIOUS
<1>11. names = OwnNames(mode) \cup {t.name : t \in mcp}
  OBVIOUS
<1> HIDE DEF owner, names
<1>12. r \in Registries
  <2>1. owner \in UNION {[N -> Owners] : N \in SUBSET ToolNames}
    BY <1>6, <1>9
  <2> QED
    BY <1>1, <2>1 DEF Registries
<1> QED
  BY <1>1, <1>2, <1>5, <1>6, <1>7, <1>8, <1>10, <1>11, <1>12 DEF r

LEMMA BuildRegistrySame ==
  ASSUME manager'.tools = manager.tools, app'.lsp = app.lsp
  PROVE  /\ \A mode : BuildRegistry(mode)' = BuildRegistry(mode)
         /\ \A mode : OwnNames(mode)' = OwnNames(mode) /\ Free(mode)' = Free(mode)
<1>1. ReadOnly' = ReadOnly
  BY DEF ReadOnly
<1>2. \A mode : OwnNames(mode)' = OwnNames(mode)
  BY <1>1 DEF OwnNames, Writing
<1>3. \A mode : Free(mode)' = Free(mode)
  BY <1>2 DEF Free
<1>4. \A mode : BuildRegistry(mode)' = BuildRegistry(mode)
  BY <1>2, <1>3 DEF BuildRegistry, Writing
<1> QED
  BY <1>2, <1>3, <1>4

\* The tools that the registry does not take are among the skipped ones.
LEMMA RegisterFacts ==
  ASSUME TrShape, NEW mode \in RunModes, Register(mode)
  PROVE  /\ manager' \in Managers /\ manager'.servers = manager.servers /\ manager'.tools = manager.tools
         /\ \A server, name : Skipped(server, name) => Skipped(server, name)'
         /\ mode = "agent" =>
              /\ \A t \in ToSet(manager.tools) : t.name \in OwnNames(mode) => Skipped(t.server, t.name)'
              /\ manager'.registered = {t.name : t \in Free(mode)}
<1> DEFINE I == {i \in DOMAIN manager.tools : manager.tools[i].name \in OwnNames(mode)}
           taken == ToolsTaken(mode)
           more == [n \in DOMAIN taken |-> Skip(manager.tools[taken[n]], "builtin_conflict")]
           free == {t.name : t \in Free(mode)}
<1>1. manager.tools \in Seq(Tools) /\ manager.skipped \in Seq(Skips) /\ manager.registered \in SUBSET STRING
  BY DEF TrShape, Managers
<1>2. CASE mode = "plan"
  BY <1>2, SkippedIn DEF Register, TrShape, Skipped
<1>3. CASE mode = "agent"
  <2>1. manager' = [manager EXCEPT !.skipped = @ \o more, !.registered = free]
    BY <1>3 DEF Register
  <2>2. /\ Cardinality(I) \in Nat /\ DOMAIN taken = 1..Cardinality(I)
        /\ \A k \in 1..Cardinality(I) : taken[k] \in I /\ manager.tools[taken[k]] \in Tools
        /\ \A i \in I : \E k \in 1..Cardinality(I) : taken[k] = i
    <3>1. I \in SUBSET DOMAIN manager.tools /\ taken = Ordered(I)
      BY DEF ToolsTaken
    <3> HIDE DEF I
    <3> QED
      BY <1>1, <3>1, PickedIn
  <2>3. \A i \in DOMAIN manager.tools : i \in I <=> manager.tools[i].name \in OwnNames(mode)
    OBVIOUS
  <2> HIDE DEF I, taken
  <2>4. more \in Seq(Skips)
    <3>1. ASSUME NEW k \in 1..Cardinality(I) PROVE Skip(manager.tools[taken[k]], "builtin_conflict") \in Skips
      <4>1. PICK e \in Tools : e = manager.tools[taken[k]]
        BY <2>2
      <4>2. e.server \in ToSet(ServerNames) /\ e.name \in STRING
        BY DEF Tools
      <4> QED
        BY <4>1, <4>2 DEF Skip, Skips
    <3>2. more \in [1..Cardinality(I) -> Skips]
      BY <2>2, <3>1
    <3> QED
      BY <2>2, <3>2, SeqDef
  <2>5. \A i \in I : \E x \in ToSet(more) : x.server = manager.tools[i].server /\ x.name = manager.tools[i].name
    <3> SUFFICES ASSUME NEW i \in I
                 PROVE  \E x \in ToSet(more) : x.server = manager.tools[i].server /\ x.name = manager.tools[i].name
      OBVIOUS
    <3>1. PICK k \in 1..Cardinality(I) : taken[k] = i
      BY <2>2
    <3>2. k \in DOMAIN more /\ more[k] = Skip(manager.tools[i], "builtin_conflict")
      BY <2>2, <3>1
    <3> HIDE DEF more
    <3>3. more[k] \in ToSet(more)
      BY <3>2 DEF ToSet
    <3> QED
      BY <3>2, <3>3 DEF Skip
  <2>6. free \in SUBSET STRING
    <3>1. ToSet(manager.tools) \subseteq Tools
      BY <1>1, LenProperties DEF ToSet
    <3> QED
      BY <3>1 DEF Free, Tools
  <2> HIDE DEF more, free
  <2>7. manager.skipped \o more \in Seq(Skips) /\ ToSet(manager.skipped \o more) = ToSet(manager.skipped) \cup ToSet(more)
    BY <1>1, <2>4, SetOfBoth
  <2>8. /\ manager' \in Managers /\ manager'.servers = manager.servers /\ manager'.tools = manager.tools
        /\ manager'.skipped = manager.skipped \o more /\ manager'.registered = free
    BY <2>1, <2>6, <2>7 DEF TrShape, Managers
  <2>9. \A server, name : Skipped(server, name)' <=> \E x \in ToSet(manager.skipped \o more) : x.server = server /\ x.name = name
    BY <2>8 DEF Skipped, ToSet
  <2>10. \A server, name : Skipped(server, name) => Skipped(server, name)'
    BY <2>7, <2>9, SkippedIn
  <2>11. ASSUME NEW t \in ToSet(manager.tools), t.name \in OwnNames(mode) PROVE Skipped(t.server, t.name)'
    <3>1. PICK i \in DOMAIN manager.tools : t = manager.tools[i]
      BY DEF ToSet
    <3>2. i \in I
      BY <2>3, <2>11, <3>1
    <3>3. PICK x \in ToSet(more) : x.server = t.server /\ x.name = t.name
      BY <2>5, <3>1, <3>2
    <3> QED
      BY <2>7, <2>9, <3>3
  <2> QED
    BY <2>8, <2>10, <2>11 DEF free
<1> QED
  BY <1>2, <1>3 DEF RunModes


LEMMA TrInits == RgInit => TrInductive
<1> SUFFICES ASSUME RgInit PROVE TrInductive
  OBVIOUS
<1>1. NoManager \in Managers /\ ToSet(NoManager.servers) = {} /\ ToSet(NoManager.tools) = {}
  BY DEF NoManager, Managers, ToSet
<1>2. NoKid \in KidSet /\ NoKid.svc = 0 /\ NoKid.tools = {}
  BY DEF NoKid, KidSet
<1>3. /\ app \in Apps /\ app.phase = "starting" /\ app.cur = 0 /\ app.wired = 0
      /\ registries = <<>> /\ Len(registries) = 0 /\ registries \in Seq(Registries) /\ live = {} /\ manager = NoManager
  BY DEF RgInit, Apps
<1>4. kids \in [Kids -> KidSet] /\ \A k \in Kids : kids[k].svc = 0 /\ kids[k].tools = {}
  BY <1>2 DEF RgInit
<1>5. TrShape
  BY <1>1, <1>3, <1>4 DEF TrShape
<1>6. Running /\ OneName /\ Built /\ Told /\ TakenTold
  BY <1>1, <1>3 DEF Running, OneName, Built, Told, TakenTold
<1>7. KidsNarrow
  BY <1>4 DEF KidsNarrow
<1> QED
  BY <1>5, <1>6, <1>7 DEF TrInductive

\* The manager is closed, and the program over.
LEMMA CloseHolds ==
  ASSUME TrInductive, app.phase # "over", CloseManager, app' = [app EXCEPT !.phase = "over"],
         UNCHANGED <<registries, kids, given>>
  PROVE  TrInductive'
<1>1. /\ manager' = NoManager /\ NoManager \in Managers /\ ToSet(NoManager.tools) = {}
  BY DEF CloseManager, NoManager, Managers, ToSet
<1>2. live' = {}
  BY DEF CloseManager, TrInductive, Running
<1>3. app' \in Apps /\ app'.phase = "over" /\ app'.cur = app.cur /\ app'.wired = app.wired
  BY DEF TrInductive, TrShape, Apps
<1>4. TrShape'
  BY <1>1, <1>2, <1>3 DEF TrInductive, TrShape
<1>5. Running' /\ OneName' /\ Built' /\ Told' /\ TakenTold'
  BY <1>1, <1>2, <1>3 DEF Running, OneName, Built, Told, TakenTold
<1>6. KidsNarrow'
  BY DEF TrInductive, KidsNarrow
<1> QED
  BY <1>4, <1>5, <1>6 DEF TrInductive

LEMMA ConnectHolds == ASSUME TrInductive, ConnectServer PROVE TrInductive'
<1>1. app.phase = "starting" /\ UNCHANGED <<registries, kids, heard, given>>
  BY DEF ConnectServer
<1>2. CASE CloseManager /\ app' = [app EXCEPT !.phase = "over"]
  BY <1>1, <1>2, CloseHolds
<1>3. ASSUME NEW s \in ToSet(ServerNames), live' = live \cup {s},
             manager' = [manager EXCEPT !.servers = Append(@, s)], app' = app
      PROVE  TrInductive'
  <2>1. manager.servers \in Seq(ToSet(ServerNames))
    BY DEF TrInductive, TrShape, Managers
  <2>2. Append(manager.servers, s) \in Seq(ToSet(ServerNames))
        /\ ToSet(Append(manager.servers, s)) = ToSet(manager.servers) \cup {s}
    BY <2>1, SetOfAppend
  <2>3. /\ manager' \in Managers /\ manager'.servers = Append(manager.servers, s)
        /\ manager'.tools = manager.tools
    BY <1>3, <2>2 DEF TrInductive, TrShape, Managers
  <2>4. TrShape'
    BY <1>1, <1>3, <2>3 DEF TrInductive, TrShape
  <2>5. Running'
    BY <1>1, <1>3, <2>2, <2>3 DEF TrInductive, Running
  <2>6. OneName'
    BY <2>3 DEF TrInductive, OneName
  <2>7. registries = <<>> /\ Len(registries) = 0
    BY <1>1 DEF TrInductive, TrShape
  <2>8. Built' /\ Told' /\ TakenTold'
    BY <1>1, <1>3, <2>7 DEF Built, Told, TakenTold
  <2>9. KidsNarrow'
    BY <1>1 DEF TrInductive, KidsNarrow
  <2> QED
    BY <2>4, <2>5, <2>6, <2>8, <2>9 DEF TrInductive
<1>4. ServerNames[Len(manager.servers) + 1] \in ToSet(ServerNames)
  <2>1. Len(manager.servers) \in Nat
    BY LenProperties DEF TrInductive, TrShape, Managers
  <2>2. Len(ServerNames) \in Nat /\ DOMAIN ServerNames = 1..Len(ServerNames)
    BY LenProperties, RegistryAssumption DEF RegistryAssumption
  <2>3. Len(manager.servers) + 1 \in 1..Len(ServerNames)
    BY <2>1, <2>2 DEF ConnectServer
  <2> QED
    BY <2>2, <2>3 DEF ToSet
<1> QED
  BY <1>2, <1>3, <1>4 DEF ConnectServer

LEMMA DiscoverHolds == ASSUME TrInductive, DiscoverTools PROVE TrInductive'
<1>1. app.phase = "starting" /\ UNCHANGED <<registries, kids, heard>>
  BY DEF DiscoverTools
<1>2. CASE CloseManager /\ app' = [app EXCEPT !.phase = "over"] /\ given' = given
  BY <1>1, <1>2, CloseHolds
<1>3. ASSUME NEW lists \in [ToSet(manager.servers) -> Advertised],
             manager' = Choosing(lists), app' = [app EXCEPT !.phase = "building"], given' = lists, live' = live
      PROVE  TrInductive'
  <2>1. manager \in Managers
    BY DEF TrInductive, TrShape
  <2>2. /\ manager' \in Managers /\ manager'.servers = manager.servers
        /\ \A t, u \in ToSet(manager'.tools) : t.name = u.name => t = u
        /\ \A s \in DOMAIN lists : \A n \in ToSet(lists[s]) :
             \/ [server |-> s, name |-> n] \in ToSet(manager'.tools)
             \/ \E x \in ToSet(manager'.skipped) : x.server = s /\ x.name = n
    BY <1>3, <2>1, ChoosingFacts
  <2>3. app' \in Apps /\ app'.phase = "building" /\ app'.cur = app.cur /\ app'.wired = app.wired
    BY <1>3 DEF TrInductive, TrShape, Apps
  <2>4. registries = <<>> /\ Len(registries) = 0
    BY <1>1 DEF TrInductive, TrShape
  <2>5. TrShape'
    BY <1>1, <1>3, <2>2, <2>3, <2>4 DEF TrInductive, TrShape
  <2>6. Running'
    BY <1>1, <1>3, <2>2, <2>3 DEF TrInductive, Running
  <2>7. OneName'
    BY <2>2 DEF OneName
  <2>8. Built' /\ TakenTold'
    BY <1>1, <2>3, <2>4 DEF Built, TakenTold
  <2>9. Told'
    <3>1. \A server, name : Skipped(server, name)' <=> \E x \in ToSet(manager'.skipped) : x.server = server /\ x.name = name
      BY DEF Skipped, ToSet
    <3>2. ASSUME NEW s \in DOMAIN lists, NEW n \in ToSet(lists[s])
          PROVE  [server |-> s, name |-> n] \in ToSet(manager'.tools) \/ Skipped(s, n)'
      <4>1. \/ [server |-> s, name |-> n] \in ToSet(manager'.tools)
            \/ \E x \in ToSet(manager'.skipped) : x.server = s /\ x.name = n
        BY <2>2
      <4> QED
        BY <3>1, <4>1
    <3>3. \A s \in DOMAIN given' : \A n \in ToSet(given'[s]) :
            [server |-> s, name |-> n] \in ToSet(manager'.tools) \/ Skipped(s, n)'
      BY <1>3, <3>2
    <3> QED
      BY <3>3 DEF Told
  <2>10. KidsNarrow'
    BY <1>1 DEF TrInductive, KidsNarrow
  <2> QED
    BY <2>5, <2>6, <2>7, <2>8, <2>9, <2>10 DEF TrInductive
<1> QED
  BY <1>2, <1>3 DEF DiscoverTools

\* A registry is built and becomes the current one.
LEMMA BuildHolds ==
  ASSUME TrInductive, app.phase \in {"building", "idle"}, NEW mode \in RunModes, Register(mode),
         registries' = Append(registries, BuildRegistry(mode)), app' \in Apps, app'.phase = "idle", app'.lsp = app.lsp,
         app'.cur = Len(registries) + 1, app'.wired <= Len(registries) + 1, UNCHANGED <<live, kids, given>>
  PROVE  TrInductive'
<1> DEFINE r == BuildRegistry(mode)
           n == Len(registries)
<1>1. TrShape /\ registries \in Seq(Registries) /\ n \in Nat
  BY LenProperties DEF TrInductive, TrShape
<1>2. /\ manager' \in Managers /\ manager'.servers = manager.servers /\ manager'.tools = manager.tools
      /\ \A server, name : Skipped(server, name) => Skipped(server, name)'
      /\ mode = "agent" =>
           /\ \A t \in ToSet(manager.tools) : t.name \in OwnNames(mode) => Skipped(t.server, t.name)'
           /\ manager'.registered = {t.name : t \in Free(mode)}
  BY <1>1, RegisterFacts
<1>3. /\ \A m : BuildRegistry(m)' = BuildRegistry(m)
      /\ \A m : OwnNames(m)' = OwnNames(m) /\ Free(m)' = Free(m)
  BY <1>2, BuildRegistrySame
<1>4. r \in Registries /\ r.mode = mode
  BY <1>1, BuildRegistryIn
<1>5. r = BuildRegistry(mode)
  OBVIOUS
<1> HIDE DEF r
<1>6. /\ registries' \in Seq(Registries) /\ Len(registries') = n + 1 /\ registries'[n + 1] = r
      /\ \A i \in 1..n : registries'[i] = registries[i]
  BY <1>1, <1>4, <1>5, AppendProperties
<1>7. TrShape'
  <2>1. \A k \in Kids : kids'[k].svc <= n + 1
    <3> SUFFICES ASSUME NEW k \in Kids PROVE kids'[k].svc <= n + 1
      OBVIOUS
    <3>1. kids[k] \in KidSet /\ kids[k].svc <= n
      BY <1>1 DEF TrShape
    <3>2. PICK svc \in Nat : svc = kids[k].svc
      BY <3>1 DEF KidSet
    <3> QED
      BY <1>1, <3>1, <3>2
  <2>2. kids' \in [Kids -> KidSet] /\ live' \subseteq ToSet(ServerNames)
    BY <1>1 DEF TrShape
  <2>3. app'.cur > 0 /\ app'.cur <= Len(registries')
    BY <1>1, <1>6
  <2> QED
    BY <1>2, <1>6, <2>1, <2>2, <2>3 DEF TrShape
<1>8. Running' /\ OneName'
  BY <1>2 DEF TrInductive, Running, OneName
<1>9. Built'
  <2>1. \A i \in 1..n : \A m \in RunModes : registries[i].mode = m => registries[i] = BuildRegistry(m)
    BY DEF TrInductive, Built
  <2>2. \A i \in 1..(n + 1) : i \in 1..n \/ i = n + 1
    BY <1>1
  <2>3. \A i \in 1..(n + 1) : \A m \in RunModes : registries'[i].mode = m => registries'[i] = BuildRegistry(m)
    BY <1>4, <1>5, <1>6, <2>1, <2>2
  <2>4. \A i \in 1..Len(registries') : \A m \in RunModes : registries'[i].mode = m => registries'[i] = BuildRegistry(m)'
    BY <1>3, <1>6, <2>3
  <2> QED
    BY <2>4 DEF Built
<1>10. Told'
  BY <1>2 DEF TrInductive, Told
<1>11. TakenTold'
  <2>1. Current' = r
    BY <1>6 DEF Current
  <2> SUFFICES ASSUME mode = "agent"
               PROVE  /\ \A t \in ToSet(manager'.tools) : t.name \in OwnNames("agent")' => Skipped(t.server, t.name)'
                      /\ manager'.registered = {t.name : t \in Free("agent")'}
    BY <1>4, <2>1 DEF TakenTold
  <2> QED
    BY <1>2, <1>3
<1>12. KidsNarrow'
  BY DEF TrInductive, KidsNarrow
<1> QED
  BY <1>7, <1>8, <1>9, <1>10, <1>11, <1>12 DEF TrInductive

\* The tools stay as they are, and so does the current registry; the runs may change.
LEMMA StaysHolds ==
  ASSUME TrInductive, UNCHANGED <<live, manager, registries, given>>, app' \in Apps, app'.lsp = app.lsp,
         app'.cur = app.cur, app'.wired = app.wired, app'.phase = app.phase
            \/ (app.phase \in {"idle", "turn"} /\ app'.phase \in {"idle", "turn"})
            \/ (app.phase \in {"building", "idle"} /\ app'.phase = "aborted"),
         kids' \in [Kids -> KidSet], \A k \in Kids : kids'[k].svc <= Len(registries), KidsNarrow'
  PROVE  TrInductive'
<1>1. \A m : BuildRegistry(m)' = BuildRegistry(m) /\ OwnNames(m)' = OwnNames(m) /\ Free(m)' = Free(m)
  BY BuildRegistrySame
<1>2. TrShape'
  BY DEF TrInductive, TrShape
<1>3. Running' /\ OneName'
  BY DEF TrInductive, Running, OneName
<1>4. Built'
  <2>1. app.phase # "over" \/ app'.phase = "over"
    OBVIOUS
  <2>2. app'.phase # "over" =>
          \A i \in 1..Len(registries') : \A m \in RunModes : registries'[i].mode = m => registries'[i] = BuildRegistry(m)'
    BY <1>1, <2>1 DEF TrInductive, Built
  <2> QED
    BY <2>2 DEF Built
<1>5. \A server, name : Skipped(server, name)' <=> Skipped(server, name)
  BY DEF Skipped
<1>6. Told'
  BY <1>5 DEF TrInductive, Told
<1>7. TakenTold'
  <2>1. Current' = Current
    BY DEF Current
  <2> SUFFICES ASSUME app'.phase \in {"idle", "turn"}, Current.mode = "agent"
               PROVE  /\ \A t \in ToSet(manager'.tools) : t.name \in OwnNames("agent")' => Skipped(t.server, t.name)'
                      /\ manager'.registered = {t.name : t \in Free("agent")'}
    BY <2>1 DEF TakenTold
  <2> QED
    BY <1>1, <1>5 DEF TrInductive, TakenTold
<1> QED
  BY <1>2, <1>3, <1>4, <1>6, <1>7 DEF TrInductive

LEMMA NewRunnerHolds == ASSUME TrInductive, NewRunner PROVE TrInductive'
<1>1. TrShape /\ app \in Apps /\ app.phase = "building" /\ registries = <<>> /\ app.mode \in RunModes
  BY DEF TrInductive, TrShape, NewRunner, Apps
<1>2. registries' = Append(registries, BuildRegistry(app.mode)) /\ Len(registries) = 0
  BY <1>1 DEF NewRunner
<1>3. /\ app' \in Apps /\ app'.phase = "idle" /\ app'.lsp = app.lsp /\ app'.cur = Len(registries) + 1
      /\ app'.wired <= Len(registries) + 1
  <2>1. PICK wired \in {0, 1} : app' = [app EXCEPT !.phase = "idle", !.cur = 1, !.wired = wired]
    BY DEF NewRunner
  <2>2. /\ app' \in Apps /\ app'.phase = "idle" /\ app'.lsp = app.lsp /\ app'.cur = 1 /\ app'.wired = wired
    <3>1. wired \in Nat /\ 1 \in Nat
      OBVIOUS
    <3> QED
      BY <1>1, <2>1, <3>1 DEF Apps
  <2> QED
    BY <1>2, <2>2
<1>4. UNCHANGED <<live, kids, given>> /\ Register(app.mode)
  BY DEF NewRunner
<1> QED
  BY <1>1, <1>2, <1>3, <1>4, BuildHolds

LEMMA SetRunModeHolds == ASSUME TrInductive, SetRunMode PROVE TrInductive'
<1>1. TrShape /\ app \in Apps /\ app.phase = "idle" /\ UNCHANGED <<live, kids, given>> /\ Len(registries) \in Nat
  BY LenProperties DEF TrInductive, TrShape, SetRunMode
<1>2. PICK mode \in RunModes :
        \/ app' = [app EXCEPT !.mode = mode] /\ UNCHANGED <<registries, manager>>
        \/ /\ registries' = Append(registries, BuildRegistry(mode)) /\ Register(mode)
           /\ app' = [app EXCEPT !.mode = mode, !.cur = Len(registries) + 1]
  BY DEF SetRunMode
<1>3. CASE app' = [app EXCEPT !.mode = mode] /\ UNCHANGED <<registries, manager>>
  <2>1. app' \in Apps /\ app'.lsp = app.lsp /\ app'.cur = app.cur /\ app'.wired = app.wired /\ app'.phase = app.phase
    BY <1>1, <1>3 DEF Apps
  <2>2. kids' \in [Kids -> KidSet] /\ (\A k \in Kids : kids'[k].svc <= Len(registries)) /\ KidsNarrow'
    BY <1>1 DEF TrInductive, TrShape, KidsNarrow
  <2> QED
    BY <1>1, <1>3, <2>1, <2>2, StaysHolds
<1>4. CASE /\ registries' = Append(registries, BuildRegistry(mode)) /\ Register(mode)
           /\ app' = [app EXCEPT !.mode = mode, !.cur = Len(registries) + 1]
  <2>0. PICK cur \in Nat : cur = Len(registries) + 1
    BY <1>1
  <2>1. /\ app' \in Apps /\ app'.lsp = app.lsp /\ app'.cur = Len(registries) + 1 /\ app'.wired = app.wired
        /\ app'.phase = "idle" /\ app.wired \in Nat /\ app.wired <= Len(registries)
    <3>1. app' = [app EXCEPT !.mode = mode, !.cur = cur]
      BY <1>4, <2>0
    <3>2. /\ app' \in Apps /\ app'.lsp = app.lsp /\ app'.cur = cur /\ app'.wired = app.wired
          /\ app'.phase = app.phase /\ app.wired \in Nat
      BY <1>1, <3>1 DEF Apps
    <3> QED
      BY <1>1, <2>0, <3>2 DEF TrShape
  <2>2. app'.wired <= Len(registries) + 1
    BY <1>1, <2>1
  <2> QED
    BY <1>1, <1>4, <2>1, <2>2, BuildHolds
<1> QED
  BY <1>2, <1>3, <1>4

\* The agent tool is never among a run's tools.
LEMMA SpawnHolds == ASSUME TrInductive, SpawnKid PROVE TrInductive'
<1>1. TrShape /\ app \in Apps /\ app.phase = "turn" /\ app.cur \in 1..Len(registries) /\ Current \in Registries
  <2>1. TrShape /\ app \in Apps /\ app.phase = "turn" /\ app.cur \in Nat /\ app.cur > 0 /\ app.cur <= Len(registries)
    BY DEF TrInductive, TrShape, SpawnKid, Apps
  <2>2. registries \in Seq(Registries) /\ Len(registries) \in Nat
    BY <2>1, LenProperties DEF TrShape
  <2>3. app.cur \in 1..Len(registries)
    BY <2>1, <2>2
  <2> QED
    BY <2>1, <2>2, <2>3 DEF Current
<1>2. PICK k \in Kids, type \in DOMAIN Disallowed, background \in BOOLEAN :
        kids' = [kids EXCEPT ![k] = [svc |-> app.cur, state |-> "running", background |-> background,
                                     tools |-> FilterToolRegistry(Current, type, background)]]
  BY DEF SpawnKid
<1>3. PICK tools : tools = FilterToolRegistry(Current, type, background)
  OBVIOUS
<1>4. tools \in SUBSET ToolNames /\ "agent" \notin tools /\ (background => tools \subseteq AsyncAllowed)
  <2>1. DOMAIN Current.owner \subseteq ToolNames
    BY <1>1 DEF Registries
  <2> QED
    BY <1>3, <2>1 DEF FilterToolRegistry
<1>5. PICK kid \in KidSet : kid = [svc |-> app.cur, state |-> "running", background |-> background, tools |-> tools]
  <2>1. app.cur \in Nat
    BY <1>1 DEF Apps
  <2> QED
    BY <1>4, <2>1 DEF KidSet
<1>6. kids' = [kids EXCEPT ![k] = kid] /\ kid.svc <= Len(registries)
      /\ "agent" \notin kid.tools /\ (kid.background => kid.tools \subseteq AsyncAllowed)
  BY <1>1, <1>2, <1>3, <1>4, <1>5
<1>7. kids' \in [Kids -> KidSet] /\ \A m \in Kids : kids'[m] = IF m = k THEN kid ELSE kids[m]
  BY <1>1, <1>6 DEF TrShape
<1>8. (\A m \in Kids : kids'[m].svc <= Len(registries)) /\ KidsNarrow'
  BY <1>1, <1>6, <1>7 DEF TrInductive, TrShape, KidsNarrow
<1>9. UNCHANGED <<live, manager, registries, given, app>>
  BY DEF SpawnKid
<1> QED
  BY <1>1, <1>7, <1>8, <1>9, StaysHolds

LEMMA EndHolds == ASSUME TrInductive, NEW k \in Kids, KidEnds(k) PROVE TrInductive'
<1>1. TrShape /\ app \in Apps /\ kids \in [Kids -> KidSet] /\ UNCHANGED <<live, manager, registries, given, app>>
  BY DEF TrInductive, TrShape, KidEnds
<1>2. PICK kid \in KidSet : kid = [kids[k] EXCEPT !.state = "finished"]
  BY <1>1 DEF KidSet
<1>3. kid.svc = kids[k].svc /\ kid.tools = kids[k].tools /\ kid.background = kids[k].background
      /\ kids' = [kids EXCEPT ![k] = kid]
  BY <1>1, <1>2 DEF KidSet, KidEnds
<1>4. kids' \in [Kids -> KidSet] /\ \A m \in Kids : kids'[m] = IF m = k THEN kid ELSE kids[m]
  BY <1>1, <1>3
<1>5. (\A m \in Kids : kids'[m].svc <= Len(registries)) /\ KidsNarrow'
  BY <1>1, <1>3, <1>4 DEF TrInductive, TrShape, KidsNarrow
<1> QED
  BY <1>1, <1>4, <1>5, StaysHolds

LEMMA TrSteps == TrInductive /\ [RgNext]_rgVars => TrInductive'
<1> SUFFICES ASSUME TrInductive, [RgNext]_rgVars PROVE TrInductive'
  OBVIOUS
<1>1. /\ app \in Apps /\ kids \in [Kids -> KidSet] /\ (\A k \in Kids : kids[k].svc <= Len(registries)) /\ KidsNarrow
  BY DEF TrInductive, TrShape
<1>2. ASSUME UNCHANGED <<live, manager, registries, given, kids>>,
             app' = app \/ \E phase \in {"idle", "turn", "aborted"} : app' = [app EXCEPT !.phase = phase],
             app'.phase = app.phase
            \/ (app.phase \in {"idle", "turn"} /\ app'.phase \in {"idle", "turn"})
            \/ (app.phase \in {"building", "idle"} /\ app'.phase = "aborted")
      PROVE  TrInductive'
  <2>1. app' \in Apps /\ app'.lsp = app.lsp /\ app'.cur = app.cur /\ app'.wired = app.wired
    BY <1>1, <1>2 DEF Apps
  <2>2. kids' \in [Kids -> KidSet] /\ (\A k \in Kids : kids'[k].svc <= Len(registries)) /\ KidsNarrow'
    BY <1>1, <1>2 DEF KidsNarrow
  <2> QED
    BY <1>2, <2>1, <2>2, StaysHolds
<1>3. CASE UNCHANGED rgVars
  BY <1>2, <1>3 DEF rgVars
<1>4. CASE StartFails \/ BeginTurn \/ TurnOver
  <2>1. UNCHANGED <<live, manager, registries, given, kids>>
    BY <1>4 DEF StartFails, BeginTurn, TurnOver
  <2>2. PICK phase \in {"idle", "turn", "aborted"} :
          /\ app' = [app EXCEPT !.phase = phase]
          /\ \/ app.phase \in {"idle", "turn"} /\ phase \in {"idle", "turn"}
             \/ app.phase \in {"building", "idle"} /\ phase = "aborted"
    BY <1>4 DEF StartFails, BeginTurn, TurnOver
  <2>3. app'.phase = phase
    BY <1>1, <2>2 DEF Apps
  <2> QED
    BY <1>2, <2>1, <2>2, <2>3
<1>5. CASE CloseApp
  BY <1>5, CloseHolds DEF CloseApp
<1> QED
  BY <1>3, <1>4, <1>5, ConnectHolds, DiscoverHolds, NewRunnerHolds, SetRunModeHolds, SpawnHolds,
     EndHolds DEF RgNext

\* The tools that the model is offered (mcp.Manager with DiscoverTools, Register and Close, BuildRegistry,
\* newRunner, SetRunMode, FilterToolRegistry): at every moment each name of a registry is one tool's and
\* a server's only if no other has it; no tool of a server is lost without a skip that says so; the
\* manager's registered names are those the registry has from servers; no server is left running when the
\* program is over; and no run has the agent tool, or in the background one that asks the user.
THEOREM RegistryHolds == RgSpec => []RegistryInv
<1>1. TrInductive => RegistryInv
  <2> SUFFICES ASSUME TrInductive PROVE RegistryInv
    OBVIOUS
  <2>1. /\ TrShape /\ registries \in Seq(Registries) /\ manager \in Managers /\ app \in Apps
        /\ DOMAIN registries = 1..Len(registries) /\ Len(registries) \in Nat
    BY LenProperties DEF TrInductive, TrShape
  <2>2. ASSUME app.phase # "over", NEW i \in DOMAIN registries
        PROVE  \E mode \in RunModes : mode = registries[i].mode /\ registries[i] = BuildRegistry(mode)
    <3>1. registries[i] \in Registries
      BY <2>1
    <3> QED
      BY <2>1, <2>2, <3>1 DEF TrInductive, Built, Registries
  <2>3. RgTypeOK
    <3>1. \A i \in DOMAIN registries : DOMAIN registries[i].owner \subseteq
            Builtins \cup {t.name : t \in ToSet(manager.tools)} \/ app.phase = "over"
      BY <2>1, <2>2, BuildRegistryIn
    <3>2. app.cur \in 0..Len(registries) /\ app.wired \in 0..Len(registries)
      BY <2>1 DEF TrShape, Apps
    <3>3. ASSUME NEW k \in Kids PROVE kids[k].svc \in 0..Len(registries)
      <4>1. kids[k].svc \in Nat /\ kids[k].svc <= Len(registries)
        BY <2>1 DEF TrShape, KidSet
      <4> QED
        BY <2>1, <4>1
    <3>4. app.phase \in {"starting", "building", "idle", "turn", "over", "aborted"}
      BY <2>1 DEF Apps
    <3>5. manager.servers \in Seq(ToSet(ServerNames)) /\ manager.tools \in Seq(Tools)
      BY <2>1 DEF Managers
    <3> QED
      BY <2>1, <3>1, <3>2, <3>3, <3>4, <3>5 DEF RgTypeOK, TrShape
  <2>4. OneOwner
    <3> SUFFICES ASSUME app.phase # "over", NEW i \in DOMAIN registries, NEW n \in DOMAIN registries[i].owner
                 PROVE  /\ registries[i].owner[n] = "builtin" <=> n \in OwnNames(registries[i].mode)
                        /\ registries[i].owner[n] # "builtin" =>
                             {t \in ToSet(manager.tools) : t.name = n} = {[server |-> registries[i].owner[n], name |-> n]}
      BY DEF OneOwner
    <3>1. PICK mode \in RunModes : mode = registries[i].mode /\ registries[i] = BuildRegistry(mode)
      BY <2>2
    <3>2. CASE n \in OwnNames(mode)
      BY <2>1, <3>1, <3>2, BuildRegistryIn
    <3>3. CASE n \notin OwnNames(mode)
      <4>1. PICK t \in ToSet(manager.tools) : t.name = n /\ registries[i].owner[n] = t.server
        BY <2>1, <3>1, <3>3, BuildRegistryIn
      <4>2. t \in Tools
        BY <2>1, LenProperties DEF Managers, ToSet
      <4>3. t = [server |-> t.server, name |-> t.name] /\ t.server # "builtin"
        BY <4>2, RegistryAssumption, LenProperties DEF Tools, RegistryAssumption, ToSet
      <4>4. \A u \in ToSet(manager.tools) : u.name = n => u = t
        BY <4>1 DEF TrInductive, OneName
      <4> QED
        BY <3>1, <3>3, <4>1, <4>3, <4>4
    <3> QED
      BY <3>2, <3>3
  <2>5. ASSUME app.phase \in {"idle", "turn"}, Current.mode = "agent"
        PROVE  /\ Current = BuildRegistry("agent")
               /\ DOMAIN Current.owner = OwnNames("agent") \cup {t.name : t \in Free("agent")}
    <3>1. app.cur \in DOMAIN registries
      BY <2>1, <2>5 DEF TrShape, Apps
    <3>2. Current = BuildRegistry("agent")
      BY <2>2, <2>5, <3>1 DEF Current
    <3> QED
      BY <2>1, <3>2, BuildRegistryIn DEF RunModes
  <2>6. NothingSilent
    <3> SUFFICES ASSUME app.phase \in {"idle", "turn"}, Current.mode = "agent",
                        NEW server \in DOMAIN given, NEW name \in ToSet(given[server]), ~Skipped(server, name)
                 PROVE  Offered(server, name)
      BY DEF NothingSilent
    <3> DEFINE t == [server |-> server, name |-> name]
    <3>1. t \in ToSet(manager.tools)
      BY DEF TrInductive, Told
    <3>2. t.server = server /\ t.name = name
      OBVIOUS
    <3> HIDE DEF t
    <3>3. name \notin OwnNames("agent")
      BY <3>1, <3>2 DEF TrInductive, TakenTold
    <3>4. t \in Free("agent")
      BY <3>1, <3>2, <3>3 DEF Free
    <3>5. Current = BuildRegistry("agent") /\ name \in DOMAIN Current.owner
      BY <2>5, <3>2, <3>4
    <3>6. PICK u \in ToSet(manager.tools) : u.name = name /\ Current.owner[name] = u.server
      BY <2>1, <3>3, <3>5, BuildRegistryIn DEF RunModes
    <3>7. u = t
      BY <3>1, <3>2, <3>6 DEF TrInductive, OneName
    <3> QED
      BY <3>2, <3>5, <3>6, <3>7 DEF Offered
  <2>7. RegisteredAreOffered
    <3> SUFFICES ASSUME app.phase \in {"idle", "turn"}, Current.mode = "agent"
                 PROVE  manager.registered = {n \in DOMAIN Current.owner : Current.owner[n] # "builtin"}
      BY DEF RegisteredAreOffered
    <3>1. manager.registered = {t.name : t \in Free("agent")}
      BY DEF TrInductive, TakenTold
    <3>2. \A n \in {t.name : t \in Free("agent")} : n \notin OwnNames("agent")
      BY DEF Free
    <3>3. app.cur \in DOMAIN registries
      BY <2>1 DEF TrShape, Apps
    <3>4. \A n \in DOMAIN Current.owner : Current.owner[n] = "builtin" <=> n \in OwnNames("agent")
      BY <2>4, <3>3 DEF OneOwner, Current
    <3> QED
      BY <2>5, <3>1, <3>2, <3>4
  <2>8. NoServerLeft
    BY DEF TrInductive, Running, NoServerLeft
  <2> QED
    BY <2>3, <2>4, <2>6, <2>7, <2>8 DEF RegistryInv, TrInductive
<1> QED
  BY <1>1, TrInits, TrSteps, PTL DEF RgSpec

(***************************************************************************)
(* ContextView. The last Keep user turns begin at the first turn that has  *)
(* no more than Keep from it on, and later as the transcript grows. The    *)
(* watermark is set to the message before that one, if at all, so it hides *)
(* nothing of them; and a view has no more than Keep turns, so the         *)
(* collapse, which takes more than Keep + 1, leaves every view as it is.   *)
(***************************************************************************)

USE ContextAssumption DEF ContextAssumption

\* Where the last n turns of a transcript of this length begin, when S are the messages that start one.
From(S, len, n) ==
  IF Cardinality(S) <= n THEN IF S = {} THEN len + 1 ELSE Min(S)
  ELSE CHOOSE i \in S : Cardinality({j \in S : j >= i}) = n
SinceIn(S, i) == {j \in S : j >= i}

LEMMA SinceFacts ==
  ASSUME NEW len \in Nat, NEW S \in SUBSET (1..len)
  PROVE  /\ IsFiniteSet(S) /\ Cardinality(S) \in Nat
         /\ \A i : IsFiniteSet(SinceIn(S, i)) /\ Cardinality(SinceIn(S, i)) \in Nat
                   /\ Cardinality(SinceIn(S, i)) <= Cardinality(S)
         /\ \A i, j \in S : i < j => Cardinality(SinceIn(S, j)) < Cardinality(SinceIn(S, i))
<1>1. S \in SUBSET (0..len)
  OBVIOUS
<1>2. IsFiniteSet(S) /\ Cardinality(S) \in Nat
  BY <1>1, IntervalFinite
<1>3. \A i : SinceIn(S, i) \subseteq S
  BY DEF SinceIn
<1>4. \A i : IsFiniteSet(SinceIn(S, i)) /\ Cardinality(SinceIn(S, i)) \in Nat
                   /\ Cardinality(SinceIn(S, i)) <= Cardinality(S)
  BY <1>2, <1>3, FS_Subset, FS_CardinalityType
<1>5. ASSUME NEW i \in S, NEW j \in S, i < j
      PROVE  Cardinality(SinceIn(S, j)) < Cardinality(SinceIn(S, i))
  <2>0. i >= i /\ ~(i >= j) /\ \A k \in S : k >= j => k >= i
    <3>1. i \in Int /\ j \in Int /\ \A k \in S : k \in Int
      OBVIOUS
    <3> QED
      BY <1>5, <3>1
  <2>1. SinceIn(S, j) \cup {i} \subseteq SinceIn(S, i) /\ i \notin SinceIn(S, j)
    BY <2>0 DEF SinceIn
  <2>2. Cardinality(SinceIn(S, j) \cup {i}) = Cardinality(SinceIn(S, j)) + 1
    BY <1>4, <2>1, FS_AddElement
  <2>3. Cardinality(SinceIn(S, j) \cup {i}) <= Cardinality(SinceIn(S, i))
    BY <1>4, <2>1, FS_Subset
  <2> QED
    BY <1>4, <2>2, <2>3
<1> QED
  BY <1>2, <1>4, <1>5

\* Where the last n turns begin: at a turn, with no more than n, and no later than need be.
Begins(S, len, n, f) ==
  /\ f = From(S, len, n)
  /\ IF S = {} THEN f = len + 1 ELSE f \in S
  /\ Cardinality(SinceIn(S, f)) <= n
  /\ \A i \in S : Cardinality(SinceIn(S, i)) <= n => f <= i

LEMMA FromFacts ==
  ASSUME NEW len \in Nat, NEW S \in SUBSET (1..len), NEW n \in Nat \ {0}
  PROVE  \E f \in 1..(len + 1) : Begins(S, len, n, f)
<1>1. CASE S = {}
  <2>1. Cardinality(S) = 0 /\ SinceIn(S, len + 1) = {}
    BY <1>1, FS_EmptySet DEF SinceIn
  <2>2. From(S, len, n) = len + 1 /\ len + 1 \in 1..(len + 1)
    BY <1>1, <2>1 DEF From
  <2>3. Cardinality(SinceIn(S, len + 1)) <= n
    BY SMTT(40), <1>1, <2>1
  <2> QED
    BY <1>1, <2>2, <2>3 DEF Begins
<1>2. CASE S # {} /\ Cardinality(S) <= n
  <2>1. S \in SUBSET Nat
    OBVIOUS
  <2>2. \E x \in S : \A y \in S : x =< y
    BY <1>2, <2>1, Least
  <2>3. Min(S) \in S /\ \A y \in S : Min(S) =< y
    BY <2>2 DEF Min
  <2>4. From(S, len, n) = Min(S)
    BY <1>2 DEF From
  <2>5. Cardinality(SinceIn(S, Min(S))) <= n
    <3>1. Cardinality(S) \in Nat
      BY SinceFacts
    <3>2. /\ Cardinality(SinceIn(S, Min(S))) \in Nat
          /\ Cardinality(SinceIn(S, Min(S))) <= Cardinality(S)
      BY SinceFacts
    <3> QED
      BY <1>2, <3>1, <3>2
  <2>6. Min(S) \in 1..(len + 1)
    <3>1. \A x \in S : x \in 1..(len + 1)
      OBVIOUS
    <3> QED
      BY <2>3, <3>1
  <2> QED
    BY <1>2, <2>3, <2>4, <2>5, <2>6 DEF Begins
<1>3. CASE S # {} /\ Cardinality(S) > n
  <2> DEFINE R == {p \in S \X S : p[1] > p[2]}
             After(i) == {j \in S : j > i}
  <2>1. \A i, j \in S : <<i, j>> \in R <=> i > j
    OBVIOUS
  <2>2. /\ \A i \in S : <<i, i>> \notin R
        /\ \A i, j \in S : i # j => <<i, j>> \in R \/ <<j, i>> \in R
        /\ \A i, j, k \in S : <<i, j>> \in R /\ <<j, k>> \in R => <<i, k>> \in R
    <3> HIDE DEF R
    <3>0. \A i \in S : i \in Int
      OBVIOUS
    <3>1. \A i \in S : <<i, i>> \notin R
      BY <2>1, <3>0
    <3>2. \A i, j \in S : i # j => <<i, j>> \in R \/ <<j, i>> \in R
      BY <2>1, <3>0
    <3>3. \A i, j, k \in S : <<i, j>> \in R /\ <<j, k>> \in R => <<i, k>> \in R
      BY <2>1, <3>0
    <3> QED
      BY <3>1, <3>2, <3>3
  <2>3. \A i \in S : {j \in S : <<j, i>> \in R} = After(i)
    BY <2>1
  <2> HIDE DEF R
  <2>4. IsFiniteSet(S) /\ Cardinality(S) \in Nat
    BY SinceFacts
  <2>5. \A k \in 1..Cardinality(S) : \E i \in S : Cardinality({j \in S : <<j, i>> \in R}) = k - 1
    <3>1. /\ Cardinality(S) \in Nat
          /\ \A k \in 1..Cardinality(S) : \E i \in S : Cardinality({j \in S : <<j, i>> \in R}) = k - 1
          /\ \A i \in S : Cardinality({j \in S : <<j, i>> \in R}) \in 0..(Cardinality(S) - 1)
          /\ \A i, k \in S : Cardinality({j \in S : <<j, i>> \in R}) = Cardinality({j \in S : <<j, k>> \in R}) => i = k
      BY <2>2, <2>4, RankedOnce
    <3> QED
      BY <3>1
  <2>6. n \in 1..Cardinality(S)
    BY <1>3, <2>4
  <2>7. PICK i \in S : Cardinality(After(i)) = n - 1
    BY <2>3, <2>5, <2>6
  <2>8. Cardinality(SinceIn(S, i)) = n
    <3>0. ~(i > i) /\ \A j \in S : j >= i <=> j > i \/ j = i
      <4>1. i \in Int /\ \A j \in S : j \in Int
        OBVIOUS
      <4> QED
        BY <4>1
    <3>1. SinceIn(S, i) = After(i) \cup {i} /\ i \notin After(i) /\ After(i) \subseteq S
      BY <3>0 DEF SinceIn
    <3> HIDE DEF After
    <3>2. IsFiniteSet(After(i))
      BY <2>4, <3>1, FS_Subset
    <3>3. Cardinality(After(i) \cup {i}) = Cardinality(After(i)) + 1
      BY <3>1, <3>2, FS_AddElement
    <3> QED
      BY <2>7, <3>1, <3>3
  <2>9. From(S, len, n) = CHOOSE k \in S : Cardinality(SinceIn(S, k)) = n
    <3>1. ~(Cardinality(S) <= n)
      BY <1>3, <2>4
    <3> QED
      BY <3>1 DEF From, SinceIn
  <2>10. From(S, len, n) \in S /\ Cardinality(SinceIn(S, From(S, len, n))) = n
    BY <2>8, <2>9
  <2>11. PICK f \in S : f = From(S, len, n)
    BY <2>10
  <2>12. ASSUME NEW k \in S, Cardinality(SinceIn(S, k)) <= n PROVE f <= k
    <3>1. CASE k < f
      <4>1. Cardinality(SinceIn(S, f)) < Cardinality(SinceIn(S, k))
        BY <3>1, SinceFacts
      <4>2. Cardinality(SinceIn(S, f)) = n /\ Cardinality(SinceIn(S, k)) \in Nat
        BY <2>10, <2>11, SinceFacts
      <4> QED
        BY <2>12, <4>1, <4>2
    <3>2. CASE ~(k < f)
      BY <3>2
    <3> QED
      BY <3>1, <3>2
  <2>13. f \in 1..(len + 1)
    OBVIOUS
  <2> QED
    BY <1>3, <2>10, <2>11, <2>12, <2>13 DEF Begins
<1>4. Cardinality(S) \in Nat
  BY SinceFacts
<1> QED
  BY <1>1, <1>2, <1>3, <1>4

\* The recent turns only move on as the transcript grows.
LEMMA FromGrows ==
  ASSUME NEW len \in Nat, NEW S \in SUBSET (1..len), NEW more \in Nat, len <= more,
         NEW T \in SUBSET (1..more), S = {i \in T : i <= len}, NEW n \in Nat \ {0}
  PROVE  From(S, len, n) <= From(T, more, n)
<1>0. S \in SUBSET (1..len)
  OBVIOUS
<1>1. PICK f \in 1..(len + 1) : Begins(S, len, n, f)
  BY <1>0, FromFacts
<1>2. PICK g \in 1..(more + 1) : Begins(T, more, n, g)
  BY FromFacts
<1>3. CASE g <= len
  <2>1. g \in S
    BY <1>2, <1>3 DEF Begins
  <2>2. SinceIn(S, g) \subseteq SinceIn(T, g)
    BY DEF SinceIn
  <2>3. Cardinality(SinceIn(S, g)) <= Cardinality(SinceIn(T, g))
    BY <2>2, SinceFacts, FS_Subset
  <2>4. Cardinality(SinceIn(S, g)) \in Nat /\ Cardinality(SinceIn(T, g)) \in Nat
    BY SinceFacts
  <2>5. Cardinality(SinceIn(S, g)) <= n
    BY <1>2, <2>3, <2>4 DEF Begins
  <2> QED
    BY <1>1, <1>2, <2>1, <2>5 DEF Begins
<1>4. CASE ~(g <= len)
  BY <1>1, <1>2, <1>4 DEF Begins
<1> QED
  BY <1>3, <1>4

LEMMA TurnsFromIs == TurnsFrom(Keep) = From(Starts, Len(transcript), Keep)
BY DEF TurnsFrom, From

\* The row of a session, and a transcript whose tool results follow their calls.
Rows == [summary : Seq(SUBSET (1..MaxLog)), watermark : 0..MaxLog, prompt : 0..CompactAt]
RowOK(row) == row \in Rows /\ Len(row.summary) <= MaxCompacts /\ row.watermark < TurnsFrom(Keep)
UserTurns == [phase : {"idle", "prepare", "chat"}, question : 0..MaxLog,
              retried : [compact : BOOLEAN, snip : BOOLEAN]]
CvShape ==
  /\ transcript \in Seq(Message) /\ Len(transcript) <= MaxLog
  /\ collapse = 0 /\ counted \in Nat /\ sent \in Seq(Item)
  /\ userTurn \in UserTurns
WholeIn(log) == \A i \in DOMAIN log : log[i].role = "tool" => i > 1 /\ log[i - 1].role = "calls"
RoundsWhole == WholeIn(transcript)
AskedStarts == userTurn.phase # "idle" => userTurn.question \in Starts

LEMMA BilledFacts ==
  ASSUME NEW row \in Rows, NEW n \in Nat
  PROVE  /\ Billed(row, n) \in Rows /\ Billed(row, n).summary = row.summary
         /\ Billed(row, n).watermark = row.watermark
<1>1. PICK a \in Nat : a = row.prompt + n
  BY DEF Rows
<1>2. \E x \in {a, CompactAt} : \A y \in {a, CompactAt} : x =< y
  <2>1. CASE a <= CompactAt
    BY <2>1
  <2>2. CASE ~(a <= CompactAt)
    BY <2>2
  <2> QED
    BY <2>1, <2>2
<1>3. Min({a, CompactAt}) \in {a, CompactAt} /\ \A y \in {a, CompactAt} : Min({a, CompactAt}) =< y
  BY <1>2 DEF Min
<1>4. PICK m \in 0..CompactAt : m = Min({a, CompactAt})
  BY <1>3
<1>5. Billed(row, n) = [row EXCEPT !.prompt = m]
  BY <1>1, <1>4 DEF Billed, Rows
<1> QED
  BY <1>5 DEF Rows

LEMMA WeightFacts ==
  ASSUME CvShape, NEW row \in Rows, NEW item \in Item, item.id <= Len(transcript)
  PROVE  Weight(item, row) \in Nat
<1>1. Len(row.summary) \in Nat
  BY DEF Rows
<1>2. ASSUME item.id # Summary
      PROVE  transcript[item.id].size \in {"short", "long", "huge"}
  <2>1. item.id \in 1..Len(transcript)
    BY <1>2 DEF Item, Summary, CvShape
  <2>2. transcript[item.id] \in Message
    BY <2>1 DEF CvShape
  <2> QED
    BY <2>2 DEF Message, Sizes
<1>3. CASE item.id = Summary
  BY <1>1, <1>3 DEF Weight
<1>4. CASE item.id # Summary /\ item.form = "whole"
  <2>1. CASE transcript[item.id].size = "short"
    BY <1>4, <2>1 DEF Weight
  <2>2. CASE transcript[item.id].size = "long"
    BY <1>4, <2>2 DEF Weight
  <2>3. CASE transcript[item.id].size = "huge"
    BY <1>4, <2>3 DEF Weight
  <2> QED
    BY <1>2, <1>4, <2>1, <2>2, <2>3
<1>5. CASE item.id # Summary /\ item.form # "whole"
  BY <1>5 DEF Weight
<1> QED
  BY <1>3, <1>4, <1>5

\* An estimate is a number: the sum satisfies its equation, as some function does.
LEMMA CountFacts ==
  ASSUME CvShape, NEW row \in Rows, NEW view \in Seq(Item), \A k \in DOMAIN view : view[k].id <= Len(transcript)
  PROVE  CountBreakdown(view, row) \in Nat
<1>1. PICK n \in Nat : n = Len(view) /\ DOMAIN view = 1..n
  OBVIOUS
<1>2. \A k \in 1..n : Weight(view[k], row) \in Nat
  BY <1>1, WeightFacts
<1> DEFINE s == [k \in 1..n |-> [size |-> Weight(view[k], row)]]
           Fix(h) == h = [k \in 0..n |-> IF k = 0 THEN 0 ELSE h[k - 1] + Weight(view[k], row)]
<1>3. \A k \in 1..n : s[k].size = Weight(view[k], row)
  OBVIOUS
<1> HIDE DEF s
<1>4. PICK f \in [0..n -> Nat] : Adds(f, s, n)
  BY <1>2, <1>3, AddsExists
<1>5. Fix(f)
  <2> DEFINE g == [k \in 0..n |-> IF k = 0 THEN 0 ELSE f[k - 1] + Weight(view[k], row)]
  <2>1. \A k \in 0..n : f[k] = g[k]
    <3>1. g[0] = 0 /\ f[0] = 0
      BY <1>4 DEF Adds
    <3>2. ASSUME NEW k \in 1..n PROVE f[k] = g[k]
      <4>1. f[k] = f[k - 1] + s[k].size
        BY <1>4 DEF Adds
      <4>2. k \in 0..n /\ k # 0
        BY <1>1
      <4> QED
        BY <1>3, <4>1, <4>2
    <3>3. \A k \in 0..n : k = 0 \/ k \in 1..n
      OBVIOUS
    <3> QED
      BY <3>1, <3>2, <3>3
  <2> QED
    BY <2>1
<1> DEFINE sum == CHOOSE h : Fix(h)
<1>6. CountBreakdown(view, row) = sum[n]
  BY <1>1 DEF CountBreakdown
<1>7. Fix(sum)
  <2> HIDE DEF Fix
  <2> QED
    BY <1>5
<1>8. sum[0] = 0 /\ \A k \in 1..n : sum[k] = sum[k - 1] + Weight(view[k], row)
  <2>1. PICK h : h = sum /\ h = [k \in 0..n |-> IF k = 0 THEN 0 ELSE h[k - 1] + Weight(view[k], row)]
    BY <1>7
  <2> HIDE DEF sum
  <2>2. \A k \in 0..n : h[k] = IF k = 0 THEN 0 ELSE h[k - 1] + Weight(view[k], row)
    BY <2>1
  <2>3. h[0] = 0
    BY <2>2
  <2>4. \A k \in 1..n : h[k] = h[k - 1] + Weight(view[k], row)
    BY <2>2
  <2> QED
    BY <2>1, <2>3, <2>4
<1> HIDE DEF sum
<1> DEFINE D == {k \in 0..n : sum[k] \notin Nat}
<1>9. CASE D # {}
  <2>0. D \in SUBSET Nat
    OBVIOUS
  <2>1. PICK k \in D : \A m \in D : k <= m
    <3> HIDE DEF D
    <3> QED
      BY <1>9, <2>0, Least
  <2>2. k # 0 /\ k \in 0..n
    BY <1>8
  <2>3. k \in 1..n /\ k - 1 \in 0..n /\ ~(k <= k - 1)
    BY <2>2
  <2>4. sum[k - 1] \in Nat
    BY <2>1, <2>3
  <2>5. sum[k] \in Nat
    BY <1>2, <1>8, <2>3, <2>4
  <2> QED
    BY <2>5
<1>10. CASE D = {}
  <2>1. n \in 0..n
    OBVIOUS
  <2> QED
    BY <1>6, <1>10, <2>1
<1> QED
  BY <1>9, <1>10

-----------------------------------------------------------------------------
(* What the view of a row shows, and what is left of it when it is sent.   *)

\* The turns of a state, and where the recent ones begin.
LEMMA TurnFacts ==
  ASSUME CvShape
  PROVE  \E n \in 0..MaxLog, f \in 1..(MaxLog + 1) :
           /\ n = Len(transcript) /\ f = TurnsFrom(Keep) /\ f <= n + 1 /\ DOMAIN transcript = 1..n
           /\ Starts \in SUBSET (1..n) /\ Begins(Starts, n, Keep, f)
           /\ \A i : i \in SplitUserTurns.recent <=> i \in f..n
           /\ OldTurns = {i \in 1..(f - 1) : \E s \in Starts : s <= i}
<1>1. PICK n \in 0..MaxLog : n = Len(transcript) /\ DOMAIN transcript = 1..n
  BY DEF CvShape
<1>2. Starts \in SUBSET (1..n)
  BY <1>1 DEF Starts
<1>3. PICK f \in 1..(n + 1) : Begins(Starts, n, Keep, f)
  <2>1. Keep \in Nat \ {0} /\ n \in Nat
    OBVIOUS
  <2> QED
    BY <1>2, <2>1, FromFacts
<1>4. f = TurnsFrom(Keep)
  BY <1>1, <1>3, TurnsFromIs DEF Begins
<1>5. SplitUserTurns.recent = f..n
  BY <1>1, <1>4 DEF SplitUserTurns
<1>6. OldTurns = {i \in 1..(f - 1) : \E s \in Starts : s <= i}
  BY <1>4 DEF OldTurns, SplitUserTurns
<1> QED
  BY <1>1, <1>2, <1>3, <1>4, <1>5, <1>6

\* What is required of the messages that a request shows.
Steady(view) == view \in Seq(Item) /\ \A k \in DOMAIN view : view[k].id <= Len(transcript)
Rising(view) == \A j, k \in DOMAIN view : j < k => view[j].id < view[k].id
ShowsRecent(view) == \A i \in SplitUserTurns.recent :
                       transcript[i].role # "system" => \E k \in DOMAIN view : view[k].id = i
ShowsCalls(view) == \A k \in DOMAIN view : view[k].id # Summary /\ transcript[view[k].id].role = "tool" =>
                      k > 1 /\ view[k - 1].id = view[k].id - 1 /\ transcript[view[k].id - 1].role = "calls"
NoneSnipped(view) == \A k \in DOMAIN view : view[k].id > Max(Starts) => view[k].form # "snipped"
OfRecent(view) == \A k \in DOMAIN view : view[k].id = Summary \/ view[k].id \in SplitUserTurns.recent
TurnsOf(view) == {k \in 1..Len(view) : view[k].id # Summary /\ UserRole(transcript[view[k].id])}

\* The watermark is behind the recent turns, so it hides none of their messages.
LEMMA InViewIs ==
  ASSUME CvShape, NEW row, RowOK(row)
  PROVE  InView(row) = {i \in SplitUserTurns.recent : transcript[i].role # "system"}
<1>1. PICK n \in 0..MaxLog, f \in 1..(MaxLog + 1) :
           f = TurnsFrom(Keep) /\ \A i : i \in SplitUserTurns.recent <=> i \in f..n
  BY TurnFacts
<1>2. PICK w \in Nat : w = row.watermark /\ w < f
  BY <1>1 DEF RowOK, Rows
<1>3. \A i \in SplitUserTurns.recent : ~(i <= row.watermark)
  BY <1>1, <1>2
<1> QED
  BY <1>3 DEF InView

LEMMA ViewItems ==
  ASSUME CvShape, NEW row, RowOK(row)
  PROVE  \E b \in {0, 1}, c \in Nat : \E s \in [1..c -> InView(row)] :
           /\ \A i \in InView(row) : \E k \in 1..c : s[k] = i
           /\ \A j, k \in 1..c : j < k => s[j] < s[k]
           /\ BuildAPIContext(row) \in Seq(Item) /\ Len(BuildAPIContext(row)) = b + c
           /\ \A k \in 1..(b + c) :
                BuildAPIContext(row)[k] = [id |-> IF k <= b THEN 0 ELSE s[k - b], form |-> "whole"]
<1>1. PICK n \in 0..MaxLog, f \in 1..(MaxLog + 1) : \A i : i \in SplitUserTurns.recent <=> i \in f..n
  BY TurnFacts
<1>2. PICK I \in SUBSET (1..n) : I = InView(row)
  <2>1. \A i \in f..n : i \in 1..n
    OBVIOUS
  <2> QED
    BY <1>1, <2>1 DEF InView
<1>3. PICK s : s = InOrder(I)
  OBVIOUS
<1>4. ByRank(s, I)
  BY <1>3 DEF InOrder, ByRank
<1>5. /\ Cardinality(I) \in Nat /\ DOMAIN s = 1..Cardinality(I)
      /\ \A k \in 1..Cardinality(I) : s[k] \in I
      /\ \A i \in I : \E k \in 1..Cardinality(I) : s[k] = i
      /\ \A j, k \in 1..Cardinality(I) : j < k => s[j] < s[k]
  <2>1. n \in Nat /\ I \in SUBSET (1..n)
    OBVIOUS
  <2>2. InOrderOf(s, I)
    BY <1>4, <2>1, OrderOf
  <2> QED
    BY <2>2 DEF InOrderOf
<1>6. PICK c \in Nat : c = Cardinality(I)
  BY <1>5
<1>7. s \in [1..c -> I]
  BY <1>4, <1>5, <1>6 DEF ByRank
<1>8. PICK post : post = [k \in 1..c |-> [id |-> s[k], form |-> "whole"]]
  OBVIOUS
<1>9. post \in Seq(Item) /\ Len(post) = c /\ \A k \in 1..c : post[k] = [id |-> s[k], form |-> "whole"]
  <2>1. \A k \in 1..c : [id |-> s[k], form |-> "whole"] \in Item
    <3>1. \A i \in I : i \in 0..MaxLog
      OBVIOUS
    <3> QED
      BY <1>7, <3>1 DEF Item, Forms
  <2>2. post \in [1..c -> Item]
    BY <1>8, <2>1
  <2> QED
    BY <1>8, <2>2
<1>10. CASE row.summary = <<>>
  <2>1. BuildAPIContext(row) = <<>> \o post
    BY <1>2, <1>3, <1>6, <1>8, <1>10 DEF BuildAPIContext
  <2>2. BuildAPIContext(row) = post
    BY <1>9, <2>1
  <2>3. \A k \in 1..(0 + c) : BuildAPIContext(row)[k] = [id |-> IF k <= 0 THEN 0 ELSE s[k - 0], form |-> "whole"]
    BY <1>9, <2>2
  <2>4. Len(BuildAPIContext(row)) = 0 + c /\ BuildAPIContext(row) \in Seq(Item)
    BY <1>9, <2>2
  <2> QED
    BY <1>2, <1>5, <1>6, <1>7, <2>3, <2>4
<1>11. CASE row.summary # <<>>
  <2> DEFINE pre == <<[id |-> Summary, form |-> "whole"]>>
  <2>1. BuildAPIContext(row) = pre \o post
    BY <1>2, <1>3, <1>6, <1>8, <1>11 DEF BuildAPIContext
  <2>2. pre \in Seq(Item) /\ Len(pre) = 1 /\ pre[1] = [id |-> 0, form |-> "whole"]
    <3>1. [id |-> Summary, form |-> "whole"] \in Item /\ Summary = 0
      BY DEF Item, Forms, Summary
    <3> QED
      BY <3>1
  <2> HIDE DEF pre
  <2>2a. /\ pre \o post \in Seq(Item) /\ Len(pre \o post) = 1 + c
         /\ \A k \in 1..(1 + c) : (pre \o post)[k] = IF k <= 1 THEN pre[k] ELSE post[k - 1]
    <3>0. pre \in Seq(Item) /\ post \in Seq(Item)
      BY <1>9, <2>2
    <3>1. pre \o post \in Seq(Item) /\ Len(pre \o post) = Len(pre) + Len(post)
      BY <3>0, ConcatProperties
    <3>2. \A k \in 1..(Len(pre) + Len(post)) :
            (pre \o post)[k] = IF k <= Len(pre) THEN pre[k] ELSE post[k - Len(pre)]
      BY <3>0, ConcatProperties
    <3> QED
      BY <1>9, <2>2, <3>1, <3>2
  <2>3. Len(BuildAPIContext(row)) = 1 + c /\ BuildAPIContext(row) \in Seq(Item)
    BY <2>1, <2>2a
  <2>4. ASSUME NEW k \in 1..(1 + c)
        PROVE  BuildAPIContext(row)[k] = [id |-> IF k <= 1 THEN 0 ELSE s[k - 1], form |-> "whole"]
    <3>1. CASE k = 1
      BY <2>1, <2>2, <2>2a, <3>1
    <3>2. CASE k # 1
      <4>1. k - 1 \in 1..c /\ ~(k <= 1)
        BY <3>2
      <4>2. BuildAPIContext(row)[k] = post[k - 1]
        BY <2>1, <2>2a, <4>1
      <4> QED
        BY <1>9, <4>1, <4>2
    <3> QED
      BY <3>1, <3>2
  <2> QED
    BY <1>2, <1>5, <1>6, <1>7, <2>3, <2>4
<1> QED
  BY <1>10, <1>11

LEMMA ViewFacts ==
  ASSUME CvShape, RoundsWhole, NEW row, RowOK(row), NEW view, view = BuildAPIContext(row)
  PROVE  /\ Steady(view) /\ Rising(view) /\ ShowsRecent(view) /\ ShowsCalls(view) /\ OfRecent(view)
         /\ \A k \in DOMAIN view : view[k].form = "whole"
<1>1. PICK n \in 0..MaxLog, f \in 1..(MaxLog + 1) :
           /\ n = Len(transcript) /\ f = TurnsFrom(Keep) /\ f <= n + 1 /\ DOMAIN transcript = 1..n
           /\ Starts \in SUBSET (1..n) /\ Begins(Starts, n, Keep, f)
           /\ \A i : i \in SplitUserTurns.recent <=> i \in f..n
  BY TurnFacts
<1>2. PICK I : I = InView(row)
  OBVIOUS
<1>3. \A i : i \in I <=> i \in f..n /\ transcript[i].role # "system"
  BY <1>1, <1>2, InViewIs
<1>4. PICK b \in {0, 1}, c \in Nat : \E s \in [1..c -> I] :
           /\ \A i \in I : \E k \in 1..c : s[k] = i
           /\ \A j, k \in 1..c : j < k => s[j] < s[k]
           /\ view \in Seq(Item) /\ Len(view) = b + c
           /\ \A k \in 1..(b + c) : view[k] = [id |-> IF k <= b THEN 0 ELSE s[k - b], form |-> "whole"]
  <2>1. \E b \in {0, 1}, c \in Nat : \E s \in [1..c -> InView(row)] :
           /\ \A i \in InView(row) : \E k \in 1..c : s[k] = i
           /\ \A j, k \in 1..c : j < k => s[j] < s[k]
           /\ BuildAPIContext(row) \in Seq(Item) /\ Len(BuildAPIContext(row)) = b + c
           /\ \A k \in 1..(b + c) :
                BuildAPIContext(row)[k] = [id |-> IF k <= b THEN 0 ELSE s[k - b], form |-> "whole"]
    BY ViewItems
  <2> QED
    BY ZenonT(60), <1>2, <2>1
<1>4a. PICK s \in [1..c -> I] :
           /\ \A i \in I : \E k \in 1..c : s[k] = i
           /\ \A j, k \in 1..c : j < k => s[j] < s[k]
           /\ view \in Seq(Item) /\ Len(view) = b + c
           /\ \A k \in 1..(b + c) : view[k] = [id |-> IF k <= b THEN 0 ELSE s[k - b], form |-> "whole"]
  BY <1>4
<1>5. DOMAIN view = 1..(b + c)
  BY <1>4a
<1>6. ASSUME NEW k \in 1..(b + c)
      PROVE  view[k].id = (IF k <= b THEN 0 ELSE s[k - b]) /\ view[k].form = "whole"
  <2>1. view[k] = [id |-> IF k <= b THEN 0 ELSE s[k - b], form |-> "whole"]
    BY <1>4a
  <2> QED
    BY <2>1
<1>7. \A k \in 1..c : s[k] \in f..n /\ s[k] \in Nat /\ s[k] >= 1 /\ s[k] <= n
  <2>1. \A i \in f..n : i \in Nat /\ i >= 1 /\ i <= n
    OBVIOUS
  <2> QED
    BY <1>3, <1>4a, <2>1
<1>8. Steady(view)
  <2>1. ASSUME NEW k \in 1..(b + c) PROVE view[k].id <= n
    <3>1. CASE k <= b
      BY <1>6, <3>1
    <3>2. CASE ~(k <= b)
      <4>1. k - b \in 1..c
        BY <3>2
      <4> QED
        BY <1>6, <1>7, <3>2, <4>1
    <3> QED
      BY <3>1, <3>2
  <2> QED
    BY <1>1, <1>4a, <1>5, <2>1 DEF Steady
<1>9. Rising(view)
  <2>1. ASSUME NEW j \in 1..(b + c), NEW k \in 1..(b + c), j < k PROVE view[j].id < view[k].id
    <3>1. ~(k <= b) /\ k - b \in 1..c
      <4>1. b = 0 \/ b = 1
        BY <1>4a
      <4> QED
        BY <2>1, <4>1
    <3>2. view[k].id = s[k - b]
      BY <1>6, <3>1
    <3>3. CASE j <= b
      BY <1>6, <1>7, <3>1, <3>2, <3>3
    <3>4. CASE ~(j <= b)
      <4>1. j - b \in 1..c /\ j - b < k - b
        BY <2>1, <3>4
      <4> QED
        BY <1>4a, <1>6, <3>1, <3>2, <3>4, <4>1
    <3> QED
      BY <3>3, <3>4
  <2> QED
    BY <1>5, <2>1 DEF Rising
<1>10. \A i \in I : \E k \in 1..(b + c) : view[k].id = i
  <2> SUFFICES ASSUME NEW i \in I PROVE \E k \in 1..(b + c) : view[k].id = i
    OBVIOUS
  <2>1. PICK k \in 1..c : s[k] = i
    BY <1>4a
  <2>2. b + k \in 1..(b + c) /\ ~(b + k <= b) /\ (b + k) - b = k
    OBVIOUS
  <2> QED
    BY <1>6, <2>1, <2>2
<1>11. ShowsRecent(view)
  BY <1>1, <1>3, <1>5, <1>10 DEF ShowsRecent
<1>11a. OfRecent(view)
  <2> SUFFICES ASSUME NEW k \in 1..(b + c) PROVE view[k].id = 0 \/ view[k].id \in f..n
    BY <1>1, <1>5 DEF OfRecent, Summary
  <2>1. CASE k <= b
    BY <1>6, <2>1
  <2>2. CASE ~(k <= b)
    <3>1. k - b \in 1..c
      BY <2>2
    <3> QED
      BY <1>6, <1>7, <2>2, <3>1
  <2> QED
    BY <2>1, <2>2
<1>12. ShowsCalls(view)
  <2> SUFFICES ASSUME NEW k \in 1..(b + c), view[k].id # Summary, transcript[view[k].id].role = "tool"
               PROVE  k > 1 /\ view[k - 1].id = view[k].id - 1 /\ transcript[view[k].id - 1].role = "calls"
    BY <1>5 DEF ShowsCalls
  <2>1. ~(k <= b) /\ k - b \in 1..c
    <3>1. ~(k <= b)
      BY <1>6 DEF Summary
    <3> QED
      BY <3>1
  <2>2. PICK i \in f..n : i = view[k].id /\ i \in Nat
    BY <1>6, <1>7, <2>1
  <2>3. i \in DOMAIN transcript
    BY <1>1, <2>2
  <2>4. i > 1 /\ transcript[i - 1].role = "calls"
    BY <2>2, <2>3 DEF RoundsWhole, WholeIn
  <2>5. i # f
    <3>1. Starts # {}
      BY <1>1, <2>2 DEF Begins
    <3>2. f \in Starts
      BY <1>1, <3>1 DEF Begins
    <3> QED
      BY <2>2, <3>2 DEF Starts, UserRole
  <2>6. i - 1 \in f..n
    BY <2>2, <2>5
  <2>7. PICK a \in 1..(b + c) : view[a].id = i - 1
    BY <1>3, <1>10, <2>4, <2>6
  <2>8. \A j \in 1..(b + c) : view[j].id \in Int
    <3>1. \A j \in 1..(b + c) : view[j] \in Item
      BY <1>4a, <1>5
    <3> QED
      BY <3>1 DEF Item
  <2>9. a < k
    <3>1. CASE k < a
      <4>1. view[k].id < view[a].id
        BY <1>5, <1>9, <3>1 DEF Rising
      <4> QED
        BY <2>2, <2>7, <4>1
    <3>2. CASE k = a
      BY <2>2, <2>7, <3>2
    <3> QED
      BY <3>1, <3>2
  <2>10. ~(a < k - 1)
    <3> SUFFICES ASSUME a < k - 1 PROVE FALSE
      OBVIOUS
    <3>1. k - 1 \in 1..(b + c) /\ k - 1 < k
      OBVIOUS
    <3>2. PICK m \in Int : m = view[k - 1].id
      BY <2>8, <3>1
    <3>3. i - 1 < m /\ m < i
      BY SMTT(40), <1>5, <1>9, <2>2, <2>7, <3>1, <3>2 DEF Rising
    <3> QED
      BY <2>2, <3>2, <3>3
  <2>11. a = k - 1 /\ k > 1
    BY <2>9, <2>10
  <2> QED
    BY <2>2, <2>4, <2>7, <2>11
<1> QED
  BY <1>5, <1>6, <1>8, <1>9, <1>11, <1>11a, <1>12

\* A view has at most Keep turns, so none is ever folded away.
LEMMA TurnsOfView ==
  ASSUME CvShape, NEW view, Steady(view), Rising(view), OfRecent(view)
  PROVE  /\ InOrderOf(splitLLMTurns(view), TurnsOf(view))
         /\ Len(splitLLMTurns(view)) \in Nat /\ Len(splitLLMTurns(view)) <= Keep
<1>1. PICK n \in 0..MaxLog, f \in 1..(MaxLog + 1) :
           /\ n = Len(transcript) /\ Starts \in SUBSET (1..n) /\ Begins(Starts, n, Keep, f)
           /\ \A i : i \in SplitUserTurns.recent <=> i \in f..n
  BY TurnFacts
<1>2. PICK m \in Nat : m = Len(view) /\ DOMAIN view = 1..m
  BY DEF Steady
<1>3. PICK U \in SUBSET (1..m) : U = TurnsOf(view)
  BY <1>2 DEF TurnsOf
<1>4. ByRank(splitLLMTurns(view), U)
  BY <1>3 DEF splitLLMTurns, InOrder, TurnsOf, ByRank
<1>5. InOrderOf(splitLLMTurns(view), U)
  BY <1>4, OrderOf
<1>6. Cardinality(U) \in Nat /\ Len(splitLLMTurns(view)) = Cardinality(U)
  <2>1. PICK c \in Nat : c = Cardinality(U)
    BY <1>5 DEF InOrderOf
  <2>2. splitLLMTurns(view) = [k \in 1..c |-> CHOOSE i \in U : Cardinality({j \in U : j < i}) = k - 1]
    BY <1>4, <2>1 DEF ByRank
  <2> QED
    BY <2>1, <2>2
<1> DEFINE h == [k \in U |-> view[k].id]
<1>7. \A k \in U : view[k].id \in SinceIn(Starts, f)
  <2> SUFFICES ASSUME NEW k \in U PROVE view[k].id \in SinceIn(Starts, f)
    OBVIOUS
  <2>1. view[k].id \in f..n /\ UserRole(transcript[view[k].id])
    BY <1>1, <1>2, <1>3 DEF OfRecent, TurnsOf
  <2>2. view[k].id \in 1..n /\ view[k].id >= f
    BY <2>1
  <2> QED
    BY <1>1, <2>1, <2>2 DEF SinceIn, Starts
<1>8. \A j, k \in U : view[j].id = view[k].id => j = k
  <2> SUFFICES ASSUME NEW j \in U, NEW k \in U, view[j].id = view[k].id, j # k PROVE FALSE
    OBVIOUS
  <2>1. PICK a \in Int : a = view[j].id
    <3>1. view[j] \in Item
      BY <1>2 DEF Steady
    <3> QED
      BY <3>1 DEF Item
  <2>2. CASE j < k
    <3>1. view[j].id < view[k].id
      BY <1>2, <2>2 DEF Rising
    <3> QED
      BY <2>1, <3>1
  <2>3. CASE k < j
    BY <1>2, <2>1, <2>3 DEF Rising
  <2> QED
    BY <2>2, <2>3
<1>9. h \in Injection(U, SinceIn(Starts, f))
  BY <1>7, <1>8 DEF Injection, IsInjective
<1>10. IsFiniteSet(SinceIn(Starts, f)) /\ Cardinality(SinceIn(Starts, f)) \in Nat
  <2>1. n \in Nat
    OBVIOUS
  <2> QED
    BY <1>1, <2>1, SinceFacts
<1>11. Cardinality(U) <= Cardinality(SinceIn(Starts, f))
  <2> HIDE DEF h
  <2> QED
    BY <1>9, <1>10, FS_Injection
<1>12. Cardinality(SinceIn(Starts, f)) <= Keep
  BY <1>1 DEF Begins
<1> QED
  BY <1>3, <1>5, <1>6, <1>10, <1>11, <1>12

LEMMA NoneFolded ==
  ASSUME CvShape, NEW view, Steady(view), Rising(view), OfRecent(view), NEW row, NEW folds
  PROVE  Folded(view, row, folds) = 0 /\ applyCollapse(view, row, folds) = view
<1>1. PICK l \in Nat : l = Len(splitLLMTurns(view)) /\ l <= Keep
  BY TurnsOfView
<1>2. ~(l - 0 > Keep + 1)
  BY <1>1
<1>3. Folded(view, row, folds) = 0
  BY <1>1, <1>2 DEF Folded
<1> QED
  BY <1>3 DEF applyCollapse

Fit(view) == Steady(view) /\ ShowsRecent(view) /\ ShowsCalls(view) /\ NoneSnipped(view)
SameItems(view, other) == /\ other \in Seq(Item) /\ DOMAIN other = DOMAIN view
                          /\ \A k \in DOMAIN view : other[k].id = view[k].id

LEMMA SameShown ==
  ASSUME NEW view, NEW other, SameItems(view, other), Steady(view), ShowsRecent(view), ShowsCalls(view)
  PROVE  Steady(other) /\ ShowsRecent(other) /\ ShowsCalls(other)
<1>1. Steady(other)
  BY DEF SameItems, Steady
<1>2. ShowsRecent(other)
  BY DEF SameItems, ShowsRecent
<1>3. ShowsCalls(other)
  <2> SUFFICES ASSUME NEW k \in DOMAIN other, other[k].id # Summary, transcript[other[k].id].role = "tool"
               PROVE  k > 1 /\ other[k - 1].id = other[k].id - 1 /\ transcript[other[k].id - 1].role = "calls"
    BY DEF ShowsCalls
  <2>1. k > 1 /\ view[k - 1].id = view[k].id - 1 /\ transcript[view[k].id - 1].role = "calls"
    BY DEF SameItems, ShowsCalls
  <2>2. k - 1 \in DOMAIN view
    <3>1. DOMAIN view = 1..Len(view) /\ Len(view) \in Nat
      BY DEF Steady
    <3> QED
      BY <2>1, <3>1 DEF SameItems
  <2> QED
    BY <2>1, <2>2 DEF SameItems
<1> QED
  BY <1>1, <1>2, <1>3

\* The snip reaches the items before the last turn of the view only.
LEMMA SnipFacts ==
  ASSUME CvShape, NEW view, Steady(view), Rising(view), OfRecent(view), NEW other,
         \A k \in DOMAIN view : view[k].form = "whole", other = SnipToolResults(view)
  PROVE  SameItems(view, other) /\ NoneSnipped(other)
<1>1. PICK m \in Nat : m = Len(view) /\ DOMAIN view = 1..m
  BY DEF Steady
<1>2. PICK last : last = Max(ToSet(splitLLMTurns(view)) \cup {0})
  OBVIOUS
<1>3. last = 0 \/ last \in TurnsOf(view)
  <2>1. InOrderOf(splitLLMTurns(view), TurnsOf(view))
    BY TurnsOfView
  <2>2. ToSet(splitLLMTurns(view)) \subseteq TurnsOf(view)
    BY <2>1 DEF InOrderOf, ToSet
  <2>3. TurnsOf(view) \subseteq 0..m
    BY <1>1 DEF TurnsOf
  <2>4. ToSet(splitLLMTurns(view)) \cup {0} \in SUBSET (0..m) /\ ToSet(splitLLMTurns(view)) \cup {0} # {}
    BY <2>2, <2>3
  <2>5. last \in ToSet(splitLLMTurns(view)) \cup {0}
    BY <1>2, <2>4, MaxFacts
  <2> QED
    BY <2>2, <2>5
<1>4. other = [k \in 1..m |->
                 IF /\ k < last /\ view[k].id # Summary
                    /\ transcript[view[k].id].role = "tool" /\ transcript[view[k].id].size # "short"
                 THEN [view[k] EXCEPT !.form = "snipped"] ELSE view[k]]
  BY <1>1, <1>2 DEF SnipToolResults
<1>5. ASSUME NEW k \in 1..m
      PROVE  other[k] \in Item /\ other[k].id = view[k].id /\ (other[k].form = "snipped" => k < last)
  <2>1. view[k] \in Item /\ view[k].form = "whole"
    BY <1>1 DEF Steady
  <2>2. other[k] = view[k] \/ (k < last /\ other[k] = [view[k] EXCEPT !.form = "snipped"])
    BY <1>4
  <2> QED
    BY <2>1, <2>2 DEF Item, Forms
<1>6. SameItems(view, other)
  <2>1. DOMAIN other = 1..m
    BY <1>4
  <2>2. other \in [1..m -> Item]
    BY <1>4, <1>5
  <2>3. other \in Seq(Item)
    BY <2>2
  <2> QED
    BY <1>1, <1>5, <2>1, <2>3 DEF SameItems
<1>7. NoneSnipped(other)
  <2> SUFFICES ASSUME NEW k \in 1..m, other[k].id > Max(Starts), other[k].form = "snipped" PROVE FALSE
    BY <1>1, <1>6 DEF NoneSnipped, SameItems
  <2>1. k < last /\ last \in TurnsOf(view)
    BY <1>3, <1>5
  <2>2. PICK i \in 1..Len(transcript) : i = view[last].id /\ i \in Starts
    <3>1. last \in 1..m /\ view[last].id # Summary /\ UserRole(transcript[view[last].id])
      BY <1>1, <2>1 DEF TurnsOf
    <3>2. view[last] \in Item /\ view[last].id <= Len(transcript)
      BY <1>1, <3>1 DEF Steady
    <3>3. view[last].id \in 1..Len(transcript)
      BY <3>1, <3>2 DEF Item, Summary, CvShape
    <3> QED
      BY <3>1, <3>3 DEF Starts
  <2>3. PICK n \in Nat : n = Len(transcript) /\ Starts \in SUBSET (0..n)
    <3>1. Len(transcript) \in Nat /\ Starts \subseteq 1..Len(transcript)
      BY DEF CvShape, Starts
    <3> QED
      BY <3>1
  <2>4. i <= Max(Starts) /\ Max(Starts) \in 0..n
    BY <2>2, <2>3, MaxFacts
  <2>5. view[k].id < i /\ last \in 1..m
    BY <1>1, <2>1, <2>2 DEF Rising, TurnsOf
  <2>6. PICK a \in Int : a = view[k].id
    <3>1. view[k] \in Item
      BY <1>1 DEF Steady
    <3> QED
      BY <3>1 DEF Item
  <2>7. a > Max(Starts) /\ a < i
    BY <1>5, <2>5, <2>6
  <2> QED
    BY <2>4, <2>6, <2>7
<1> QED
  BY <1>6, <1>7

LEMMA MicroFacts ==
  ASSUME NEW view, Steady(view), NoneSnipped(view), NEW other, other = MicroCompress(view)
  PROVE  SameItems(view, other) /\ NoneSnipped(other)
<1>1. PICK m \in Nat : m = Len(view) /\ DOMAIN view = 1..m
  BY DEF Steady
<1>2. other = [k \in 1..m |->
                 IF /\ view[k].id # Summary /\ view[k].form = "whole"
                    /\ transcript[view[k].id].role = "tool" /\ transcript[view[k].id].size = "huge"
                 THEN [view[k] EXCEPT !.form = "digest"] ELSE view[k]]
  BY <1>1 DEF MicroCompress
<1>3. ASSUME NEW k \in 1..m
      PROVE  other[k] \in Item /\ other[k].id = view[k].id /\ (other[k].form = "snipped" => view[k].form = "snipped")
  <2>1. view[k] \in Item
    BY <1>1 DEF Steady
  <2>2. other[k] = view[k] \/ other[k] = [view[k] EXCEPT !.form = "digest"]
    BY <1>2
  <2> QED
    BY <2>1, <2>2 DEF Item, Forms
<1>4. DOMAIN other = 1..m /\ other \in Seq(Item)
  <2>1. other \in [1..m -> Item]
    BY <1>2, <1>3
  <2> QED
    BY <2>1
<1> QED
  BY <1>1, <1>3, <1>4 DEF SameItems, NoneSnipped

\* What is prepared of a view.
LEMMA PreparedFits ==
  ASSUME CvShape, RoundsWhole, NEW row, RowOK(row), NEW other, NEW final,
         other = BuildAPIContext(row) \/ other = SnipToolResults(BuildAPIContext(row)), final = MicroCompress(other)
  PROVE  Fit(final)
<1>1. PICK view : view = BuildAPIContext(row)
  OBVIOUS
<1>2. /\ Steady(view) /\ Rising(view) /\ ShowsRecent(view) /\ ShowsCalls(view) /\ OfRecent(view)
      /\ \A k \in DOMAIN view : view[k].form = "whole"
  BY <1>1, ViewFacts
<1>3. Steady(other) /\ ShowsRecent(other) /\ ShowsCalls(other) /\ NoneSnipped(other)
  <2>1. CASE other = view
    BY <1>2, <2>1 DEF NoneSnipped
  <2>2. CASE other = SnipToolResults(view)
    <3>1. SameItems(view, other) /\ NoneSnipped(other)
      BY <1>2, <2>2, SnipFacts
    <3> QED
      BY <1>2, <3>1, SameShown
  <2> QED
    BY <1>1, <2>1, <2>2
<1>4. SameItems(other, final) /\ NoneSnipped(final)
  BY <1>3, MicroFacts
<1>5. Steady(final) /\ ShowsRecent(final) /\ ShowsCalls(final)
  BY <1>3, <1>4, SameShown
<1> QED
  BY <1>4, <1>5 DEF Fit

-----------------------------------------------------------------------------
(* Compaction.                                                             *)

\* What a compaction makes of a summary.
Compacted(summary, next) ==
  \/ next = summary
  \/ OldTurns # {} /\ next = Append(summary, OldTurns)
  \/ summary = <<>> /\ next = <<{}>>

\* A compaction moves the watermark to the last message before the recent turns, if at all.
LEMMA CompactFacts ==
  ASSUME CvShape, NEW row, RowOK(row), NEW next \in CompactAPIContext(row)
  PROVE  RowOK(next) /\ Compacted(row.summary, next.summary)
<1>1. PICK n \in 0..MaxLog, f \in 1..(MaxLog + 1) :
           f = TurnsFrom(Keep) /\ f <= n + 1 /\ OldTurns = {i \in 1..(f - 1) : \E s \in Starts : s <= i}
           /\ Starts \in SUBSET (1..n)
  BY TurnFacts
<1>2. CASE OldTurns = {}
  BY <1>2 DEF CompactAPIContext, Compacted
<1>3. CASE OldTurns # {}
  <2>1. PICK m \in 0..MaxLog : m = f - 1 /\ m < f
    BY <1>1
  <2>2. OldTurns \in SUBSET (1..m)
    BY <1>1, <2>1
  <2>3. m \in OldTurns
    <3>1. PICK i \in 1..m, s \in Starts : s <= i
      BY <1>1, <1>3, <2>1
    <3>2. s \in Int
      BY <1>1
    <3>3. m \in 1..m /\ s <= m
      BY <3>1, <3>2
    <3> QED
      BY <1>1, <2>1, <3>3
  <2>4. MaxMessageID(OldTurns) = m
    <3>1. OldTurns \cup {0} \in SUBSET (0..m) /\ OldTurns \cup {0} # {}
      BY <2>2
    <3>2. Max(OldTurns \cup {0}) \in OldTurns \cup {0} /\ \A y \in OldTurns \cup {0} : y <= Max(OldTurns \cup {0})
      <4>1. PICK X : X = OldTurns \cup {0}
        OBVIOUS
      <4>2. m \in Nat /\ X \in SUBSET (0..m) /\ X # {}
        BY <2>1, <3>1, <4>1
      <4>3. Max(X) \in X /\ \A y \in X : y <= Max(X)
        BY <4>2, MaxFacts
      <4> QED
        BY <4>1, <4>3
    <3>3. PICK x \in 0..m : x = Max(OldTurns \cup {0})
      BY <3>1, <3>2
    <3>4. m <= x
      BY <2>3, <3>2, <3>3
    <3> QED
      BY <3>3, <3>4 DEF MaxMessageID
  <2>5. PICK w \in 0..MaxLog : w = row.watermark /\ w <= m
    <3>1. row.watermark \in 0..MaxLog /\ row.watermark < f
      BY <1>1 DEF RowOK, Rows
    <3> QED
      BY <2>1, <3>1
  <2>6. row \in Rows /\ row.summary \in Seq(SUBSET (1..MaxLog)) /\ Len(row.summary) <= MaxCompacts
    BY DEF RowOK, Rows
  <2>7. OldTurns \in SUBSET (1..MaxLog)
    BY <2>1, <2>2
  <2>8. CASE next = compactFallback(row)
    <3>1. CASE m > w
      <4> DEFINE summary == IF row.summary = <<>> THEN <<{}>> ELSE row.summary
      <4>1. next = [row EXCEPT !.watermark = m, !.summary = summary]
        BY <2>4, <2>5, <2>6, <2>8, <3>1 DEF compactFallback, Rows
      <4>2. /\ summary \in Seq(SUBSET (1..MaxLog)) /\ Len(summary) <= MaxCompacts
            /\ Compacted(row.summary, summary)
        <5>1. CASE row.summary = <<>>
          <6>1. summary = <<{}>>
            BY <5>1
          <6>2. <<{}>> \in Seq(SUBSET (1..MaxLog)) /\ Len(<<{}>>) = 1 /\ 1 <= MaxCompacts
            OBVIOUS
          <6> QED
            BY <5>1, <6>1, <6>2 DEF Compacted
        <5>2. CASE row.summary # <<>>
          BY <2>6, <5>2 DEF Compacted
        <5> QED
          BY <5>1, <5>2
      <4> HIDE DEF summary
      <4>3. next \in Rows /\ next.summary = summary /\ next.watermark = m
        BY <2>6, <4>1, <4>2 DEF Rows
      <4> QED
        BY <1>1, <2>1, <4>2, <4>3 DEF RowOK
    <3>2. CASE ~(m > w)
      <4>1. next = row
        BY <2>4, <2>5, <2>8, <3>2 DEF compactFallback
      <4> QED
        BY <4>1 DEF Compacted
    <3> QED
      BY <3>1, <3>2
  <2>9. CASE next = Summarized(row) /\ Len(row.summary) < MaxCompacts
    <3>1. Max({row.watermark, MaxMessageID(OldTurns)}) = m
      <4>1. {w, m} \in SUBSET (0..MaxLog) /\ {w, m} # {}
        OBVIOUS
      <4>2. Max({w, m}) \in {w, m} /\ \A y \in {w, m} : y <= Max({w, m})
        BY <4>1, MaxFacts
      <4>3. Max({w, m}) = m
        BY <2>5, <4>2
      <4> QED
        BY <2>4, <2>5, <4>3
    <3> DEFINE r == [row EXCEPT !.summary = Append(row.summary, OldTurns), !.watermark = m]
    <3>2. next = Billed(r, 1)
      BY <2>9, <3>1 DEF Summarized
    <3>3. PICK summary : summary = Append(row.summary, OldTurns)
      OBVIOUS
    <3>4. summary \in Seq(SUBSET (1..MaxLog)) /\ Len(summary) <= MaxCompacts
      BY <2>6, <2>7, <2>9, <3>3
    <3>5. r \in Rows /\ r.summary = summary /\ r.watermark = m
      BY <2>6, <3>3, <3>4 DEF Rows
    <3> HIDE DEF r
    <3>6. 1 \in Nat
      OBVIOUS
    <3>7. next \in Rows /\ next.summary = summary /\ next.watermark = m
      BY <3>2, <3>5, <3>6, BilledFacts
    <3>8. Compacted(row.summary, next.summary)
      BY <1>3, <3>3, <3>7 DEF Compacted
    <3> QED
      BY <1>1, <2>1, <3>4, <3>7, <3>8 DEF RowOK
  <2> QED
    BY <1>3, <2>8, <2>9 DEF CompactAPIContext
<1> QED
  BY <1>2, <1>3

LEMMA PrepareHolds ==
  ASSUME CvShape, RoundsWhole, NEW row0, RowOK(row0), NEW aggressive, Prepare(row0, aggressive)
  PROVE  \E row, final :
           /\ sess' = row /\ RowOK(row) /\ (row = row0 \/ row \in CompactAPIContext(row0))
           /\ sent' = final /\ Fit(final) /\ collapse' = 0 /\ counted' \in Nat
<1>1. PICK view0 : view0 = BuildAPIContext(row0)
  OBVIOUS
<1>2. /\ Steady(view0) /\ Rising(view0) /\ OfRecent(view0)
  BY <1>1, ViewFacts
<1>3. /\ \A folds : Folded(view0, row0, folds) = 0 /\ applyCollapse(view0, row0, folds) = view0
      /\ collapse = 0
  BY <1>2, NoneFolded DEF CvShape
<1>4. PICK count \in Nat : count = CountBreakdown(view0, row0)
  BY <1>2, CountFacts DEF RowOK, Steady
<1>5. PICK seen \in Nat : seen = IF row0.prompt < CompactAt /\ counted = NotCounted THEN count ELSE counted
  BY DEF CvShape
<1>6. counted' = seen
  BY <1>1, <1>4, <1>5 DEF Prepare
<1>7. \/ \E row \in CompactAPIContext(row0) :
            /\ sess' = row
            /\ sent' = MicroCompress(IF aggressive THEN SnipToolResults(applyCollapse(BuildAPIContext(row), row, 0))
                                     ELSE applyCollapse(BuildAPIContext(row), row, 0))
            /\ collapse' = 0 + Folded(BuildAPIContext(row), row, 0)
      \/ /\ sess' = row0
         /\ sent' = MicroCompress(IF aggressive THEN SnipToolResults(view0) ELSE view0)
         /\ collapse' = 0
  <2>1. collapse + Folded(BuildAPIContext(row0), row0, collapse) = 0
    BY <1>1, <1>3
  <2>2. applyCollapse(BuildAPIContext(row0), row0, collapse) = view0
    BY <1>1, <1>3
  <2> QED
    BY <2>1, <2>2, <1>1, Zenon DEF Prepare
<1>8. CASE \E row \in CompactAPIContext(row0) :
            /\ sess' = row
            /\ sent' = MicroCompress(IF aggressive THEN SnipToolResults(applyCollapse(BuildAPIContext(row), row, 0))
                                     ELSE applyCollapse(BuildAPIContext(row), row, 0))
            /\ collapse' = 0 + Folded(BuildAPIContext(row), row, 0)
  <2>1. PICK row \in CompactAPIContext(row0) :
            /\ sess' = row
            /\ sent' = MicroCompress(IF aggressive THEN SnipToolResults(applyCollapse(BuildAPIContext(row), row, 0))
                                     ELSE applyCollapse(BuildAPIContext(row), row, 0))
            /\ collapse' = 0 + Folded(BuildAPIContext(row), row, 0)
    BY <1>8
  <2>2. RowOK(row)
    BY CompactFacts
  <2>3. PICK view : view = BuildAPIContext(row)
    OBVIOUS
  <2>4. Steady(view) /\ Rising(view) /\ OfRecent(view)
    BY <2>2, <2>3, ViewFacts
  <2>5. Folded(view, row, 0) = 0 /\ applyCollapse(view, row, 0) = view
    BY <2>4, NoneFolded
  <2>6. PICK other : other = IF aggressive THEN SnipToolResults(BuildAPIContext(row)) ELSE BuildAPIContext(row)
    OBVIOUS
  <2>7. PICK final : final = MicroCompress(other)
    OBVIOUS
  <2>8. Fit(final)
    BY <2>2, <2>6, <2>7, PreparedFits
  <2>9. sent' = final /\ collapse' = 0
    BY <2>1, <2>3, <2>5, <2>6, <2>7
  <2> QED
    BY <1>6, <2>1, <2>2, <2>8, <2>9
<1>9. CASE /\ sess' = row0
           /\ sent' = MicroCompress(IF aggressive THEN SnipToolResults(view0) ELSE view0)
           /\ collapse' = 0
  <2>1. PICK other : other = IF aggressive THEN SnipToolResults(BuildAPIContext(row0)) ELSE BuildAPIContext(row0)
    OBVIOUS
  <2>2. PICK final : final = MicroCompress(other)
    OBVIOUS
  <2>3. Fit(final)
    BY <2>1, <2>2, PreparedFits
  <2>4. sent' = final
    BY <1>1, <1>9, <2>1, <2>2
  <2> QED
    BY <1>6, <1>9, <2>3, <2>4
<1> QED
  BY <1>7, <1>8, <1>9

-----------------------------------------------------------------------------
(* The steps.                                                              *)

CtxInductive ==
  CvShape /\ RowOK(sess) /\ RoundsWhole /\ AskedStarts /\ (userTurn.phase = "chat" => Fit(sent))

\* A step that adds nothing to the transcript.
LEMMA SessionStays ==
  ASSUME CtxInductive, transcript' = transcript, NEW row, sess' = row, RowOK(row), NEW final \in Seq(Item), sent' = final,
         userTurn' \in UserTurns, userTurn'.phase = "chat" => Fit(final),
         userTurn'.phase # "idle" => userTurn'.question \in Starts, collapse' = 0, counted' \in Nat
  PROVE  CtxInductive'
<1>1. Starts' = Starts /\ TurnsFrom(Keep)' = TurnsFrom(Keep)
  BY DEF Starts, TurnsFrom
<1>2. SplitUserTurns' = SplitUserTurns
  BY <1>1 DEF SplitUserTurns
<1>3. CvShape'
  BY DEF CtxInductive, CvShape
<1>4. RowOK(sess)'
  BY <1>1 DEF RowOK
<1>5. RoundsWhole' /\ AskedStarts'
  BY <1>1 DEF CtxInductive, RoundsWhole, AskedStarts
<1>6. ASSUME Fit(final) PROVE Fit(sent)'
  <2>1. Steady(sent)'
    BY <1>6 DEF Fit, Steady
  <2>2. ShowsRecent(sent)'
    BY <1>2, <1>6 DEF Fit, ShowsRecent
  <2>3. ShowsCalls(sent)'
    BY <1>6 DEF Fit, ShowsCalls
  <2>4. NoneSnipped(sent)'
    BY <1>1, <1>6 DEF Fit, NoneSnipped
  <2> QED
    BY <2>1, <2>2, <2>3, <2>4 DEF Fit
<1> QED
  BY <1>3, <1>4, <1>5, <1>6 DEF CtxInductive

Longer(log, more) ==
  more \in Seq(Message) /\ Len(log) <= Len(more) /\ \A i \in 1..Len(log) : more[i] = log[i]

LEMMA OneMore ==
  ASSUME NEW log \in Seq(Message), WholeIn(log), NEW m \in Message,
         m.role = "tool" => Len(log) > 0 /\ log[Len(log)].role = "calls"
  PROVE  /\ Longer(log, Append(log, m)) /\ WholeIn(Append(log, m))
         /\ Len(Append(log, m)) = Len(log) + 1 /\ Append(log, m)[Len(log) + 1] = m
<1>1. PICK n \in Nat : n = Len(log) /\ DOMAIN log = 1..n
  OBVIOUS
<1>2. PICK more : more = Append(log, m)
  OBVIOUS
<1>3. /\ more \in Seq(Message) /\ Len(more) = n + 1 /\ DOMAIN more = 1..(n + 1) /\ more[n + 1] = m
      /\ \A i \in 1..n : more[i] = log[i]
  BY <1>1, <1>2
<1>4. WholeIn(more)
  <2> SUFFICES ASSUME NEW i \in 1..(n + 1), more[i].role = "tool" PROVE i > 1 /\ more[i - 1].role = "calls"
    BY <1>3 DEF WholeIn
  <2>1. CASE i = n + 1
    <3>1. n > 0 /\ log[n].role = "calls"
      BY <1>1, <1>3, <2>1
    <3> QED
      BY <1>3, <2>1, <3>1
  <2>2. CASE i # n + 1
    <3>1. i \in 1..n
      BY <2>2
    <3>2. log[i].role = "tool"
      BY <1>3, <3>1
    <3>3. i > 1 /\ log[i - 1].role = "calls"
      BY <1>1, <3>1, <3>2 DEF WholeIn
    <3>4. i - 1 \in 1..n
      BY <3>1, <3>3
    <3> QED
      BY <1>3, <3>3, <3>4
  <2> QED
    BY <2>1, <2>2
<1> QED
  BY <1>1, <1>2, <1>3, <1>4 DEF Longer

\* A step that adds to the transcript, and after which no request stands.
LEMMA GrownHolds ==
  ASSUME CtxInductive, NEW log, transcript' = log, Longer(transcript, log), WholeIn(log), Len(log) <= MaxLog,
         NEW row \in Rows, sess' = row, row.summary = sess.summary, row.watermark = sess.watermark,
         userTurn' \in UserTurns, userTurn'.phase # "chat", sent' \in Seq(Item), collapse' = 0, counted' \in Nat,
         userTurn'.phase # "idle" => userTurn'.question \in {i \in 1..Len(log) : UserRole(log[i])}
  PROVE  CtxInductive'
<1> DEFINE more == {i \in 1..Len(log) : UserRole(log[i])}
<1>1. PICK n \in Nat, m \in Nat : n = Len(transcript) /\ m = Len(log) /\ n <= m
  <2>1. Len(transcript) \in Nat
    BY DEF CtxInductive, CvShape
  <2>2. Len(log) \in Nat /\ Len(transcript) <= Len(log)
    BY DEF Longer
  <2> QED
    BY <2>1, <2>2
<1>2. PICK S \in SUBSET (1..n) : S = Starts
  BY <1>1 DEF Starts
<1>3. PICK T \in SUBSET (1..m) : T = more
  BY <1>1
<1>4. S = {i \in T : i <= n}
  <2>1. \A i \in 1..n : UserRole(log[i]) <=> UserRole(transcript[i])
    BY <1>1 DEF Longer
  <2>2. \A i : i \in S <=> i \in 1..n /\ UserRole(log[i])
    BY <1>1, <1>2, <2>1 DEF Starts
  <2>3. \A i \in 1..m : i \in 1..n <=> i <= n
    BY <1>1
  <2>4. \A i \in 1..n : i \in 1..m
    BY <1>1
  <2>5. \A i : i \in T <=> i \in 1..m /\ UserRole(log[i])
    BY <1>1, <1>3
  <2> QED
    BY <2>2, <2>3, <2>4, <2>5
<1>5. Starts' = T
  BY <1>3 DEF Starts
<1>6. TurnsFrom(Keep) = From(S, n, Keep) /\ TurnsFrom(Keep)' = From(T, m, Keep)
  BY <1>1, <1>2, <1>5 DEF TurnsFrom, From
<1>7. From(S, n, Keep) <= From(T, m, Keep)
  BY <1>1, <1>4, FromGrows
<1>8. RowOK(sess)'
  <2>1. PICK f \in Nat, g \in Nat : f = From(S, n, Keep) /\ g = From(T, m, Keep)
    <3>1. Keep \in Nat \ {0}
      OBVIOUS
    <3>2. (\E f \in 1..(n + 1) : Begins(S, n, Keep, f)) /\ (\E g \in 1..(m + 1) : Begins(T, m, Keep, g))
      BY <3>1, FromFacts
    <3> QED
      BY <3>2 DEF Begins
  <2>2. PICK w \in Nat : w = row.watermark
    BY DEF Rows
  <2>3. w < f
    BY <1>6, <2>1, <2>2 DEF CtxInductive, RowOK
  <2>4. w < g
    BY <1>7, <2>1, <2>3
  <2> QED
    BY <1>6, <2>1, <2>2, <2>4 DEF CtxInductive, RowOK
<1>9. CvShape'
  BY DEF CvShape, Longer
<1>10. RoundsWhole' /\ AskedStarts'
  BY <1>3, <1>5 DEF RoundsWhole, AskedStarts
<1> QED
  BY <1>8, <1>9, <1>10 DEF CtxInductive

LEMMA CtxInits == CtxInit => CtxInductive
<1> SUFFICES ASSUME CtxInit PROVE CtxInductive
  OBVIOUS
<1>1. Starts = {}
  BY DEF CtxInit, Starts
<1>2. TurnsFrom(Keep) = 1
  <2>1. Cardinality(Starts) <= Keep
    BY <1>1, FS_EmptySet
  <2> QED
    BY <1>1, <2>1 DEF CtxInit, TurnsFrom
<1>3. CvShape
  BY DEF CtxInit, CvShape, UserTurns, NoRetries, NotCounted
<1>4. RowOK(sess)
  <2>1. /\ sess.summary = <<>> /\ sess.watermark = 0 /\ sess \in Rows
    BY DEF CtxInit, Rows
  <2>2. Len(sess.summary) = 0 /\ 0 <= MaxCompacts /\ 0 < 1
    BY <2>1
  <2> QED
    BY <1>2, <2>1, <2>2 DEF RowOK
<1>5. RoundsWhole /\ AskedStarts /\ userTurn.phase # "chat"
  BY DEF CtxInit, RoundsWhole, WholeIn, AskedStarts
<1> QED
  BY <1>3, <1>4, <1>5 DEF CtxInductive

\* What the actions make of a user turn.
LEMMA IdleTurn ==
  \E turn \in UserTurns : /\ turn = [phase |-> "idle", question |-> 0, retried |-> NoRetries]
                          /\ turn.phase = "idle"
<1>1. PICK retried \in [compact : BOOLEAN, snip : BOOLEAN] : retried = NoRetries
  BY DEF NoRetries
<1>2. PICK turn : turn = [phase |-> "idle", question |-> 0, retried |-> retried]
  OBVIOUS
<1>3. 0 \in 0..MaxLog
  OBVIOUS
<1>4. turn \in UserTurns
  BY <1>1, <1>2, <1>3 DEF UserTurns
<1> QED
  BY <1>1, <1>2, <1>4

LEMMA PhaseTurn ==
  ASSUME NEW turn \in UserTurns, NEW phase \in {"idle", "prepare", "chat"}
  PROVE  \E next \in UserTurns : /\ next = [turn EXCEPT !.phase = phase]
                                 /\ next.phase = phase /\ next.question = turn.question
<1>1. PICK next : next = [turn EXCEPT !.phase = phase]
  OBVIOUS
<1>2. next \in UserTurns /\ next.phase = phase /\ next.question = turn.question
  BY <1>1 DEF UserTurns
<1> QED
  BY <1>1, <1>2

LEMMA RetriedTurn ==
  ASSUME NEW turn \in UserTurns
  PROVE  /\ \E next \in UserTurns : /\ next = [turn EXCEPT !.retried.compact = TRUE]
                                    /\ next.phase = turn.phase /\ next.question = turn.question
         /\ \E next \in UserTurns : /\ next = [turn EXCEPT !.retried.snip = TRUE]
                                    /\ next.phase = turn.phase /\ next.question = turn.question
<1>1. PICK retried \in [compact : BOOLEAN, snip : BOOLEAN] : retried = turn.retried
  BY DEF UserTurns
<1>2. PICK c \in [compact : BOOLEAN, snip : BOOLEAN] : c = [retried EXCEPT !.compact = TRUE]
  BY <1>1
<1>3. PICK s \in [compact : BOOLEAN, snip : BOOLEAN] : s = [retried EXCEPT !.snip = TRUE]
  BY <1>1
<1>4. [turn EXCEPT !.retried.compact = TRUE] = [turn EXCEPT !.retried = c]
  BY <1>1, <1>2
<1>5. [turn EXCEPT !.retried.snip = TRUE] = [turn EXCEPT !.retried = s]
  BY <1>1, <1>3
<1>6. PICK a : a = [turn EXCEPT !.retried = c]
  OBVIOUS
<1>7. PICK b : b = [turn EXCEPT !.retried = s]
  OBVIOUS
<1>8. a \in UserTurns /\ a.phase = turn.phase /\ a.question = turn.question
  BY <1>6 DEF UserTurns
<1>9. b \in UserTurns /\ b.phase = turn.phase /\ b.question = turn.question
  BY <1>7 DEF UserTurns
<1> QED
  BY <1>4, <1>5, <1>6, <1>7, <1>8, <1>9

\* What the actions append is a message.
LEMMA Said ==
  ASSUME NEW role \in Roles, NEW size \in Sizes
  PROVE  \E m \in Message : m = Say(role, size) /\ m.role = role
<1>1. PICK m : m = [role |-> role, size |-> size]
  OBVIOUS
<1>2. m \in Message /\ m.role = role
  BY <1>1 DEF Message
<1> QED
  BY <1>1, <1>2 DEF Say

LEMMA RolesAndSizes ==
  /\ "user" \in Roles /\ "notice" \in Roles /\ "assistant" \in Roles
  /\ "calls" \in Roles /\ "tool" \in Roles /\ "system" \in Roles
  /\ "short" \in Sizes
BY DEF Roles, Sizes

\* A request is built of the row that the last step left, or of one compacted first.
LEMMA RequestHolds ==
  ASSUME CtxInductive, NEW row0, RowOK(row0), NEW aggressive, Prepare(row0, aggressive),
         transcript' = transcript, userTurn' \in UserTurns, userTurn'.phase = "chat",
         userTurn.phase # "idle", userTurn'.question = userTurn.question
  PROVE  CtxInductive'
<1>1. PICK row, final :
           /\ sess' = row /\ RowOK(row) /\ sent' = final /\ Fit(final) /\ collapse' = 0 /\ counted' \in Nat
  <2>1. CvShape /\ RoundsWhole
    BY DEF CtxInductive
  <2> QED
    BY <2>1, PrepareHolds
<1>2. final \in Seq(Item) /\ userTurn'.question \in Starts
  BY <1>1 DEF Fit, Steady, CtxInductive, AskedStarts
<1> QED
  BY <1>1, <1>2, SessionStays

\* A notice after what a round appended.
LEMMA DrainedLog ==
  ASSUME NEW log \in Seq(Message), WholeIn(log), Len(log) <= MaxLog, NEW more \in DrainNotificationsLater(log)
  PROVE  Longer(log, more) /\ WholeIn(more) /\ Len(more) <= MaxLog
<1>1. CASE more = log
  BY <1>1 DEF Longer
<1>2. CASE more = Append(log, Say("notice", "short")) /\ Len(log) < MaxLog
  <2>1. PICK m \in Message : m = Say("notice", "short") /\ m.role # "tool"
    BY Said, RolesAndSizes
  <2>2. Longer(log, more) /\ WholeIn(more) /\ Len(more) = Len(log) + 1
    BY <1>2, <2>1, OneMore
  <2>3. Len(log) \in Nat
    OBVIOUS
  <2> QED
    BY <1>2, <2>2, <2>3
<1> QED
  BY <1>1, <1>2 DEF DrainNotificationsLater

LEMMA LongerTwice ==
  ASSUME NEW a \in Seq(Message), NEW b, NEW c, Longer(a, b), Longer(b, c)
  PROVE  Longer(a, c)
<1>1. PICK n \in Nat, m \in Nat : n = Len(a) /\ m = Len(b) /\ n <= m
  BY DEF Longer
<1>2. Len(c) \in Nat /\ m <= Len(c) /\ \A i \in 1..m : c[i] = b[i]
  BY <1>1 DEF Longer
<1>3. \A i \in 1..n : b[i] = a[i] /\ i \in 1..m
  BY <1>1 DEF Longer
<1> QED
  BY <1>1, <1>2, <1>3 DEF Longer

\* The turn is over when a round has been billed and written.
LEMMA BilledSent ==
  ASSUME CtxInductive, userTurn.phase = "chat"
  PROVE  \E row \in Rows : /\ row = Billed(sess, CountBreakdown(sent, sess))
                           /\ row.summary = sess.summary /\ row.watermark = sess.watermark
<1>1. CvShape /\ sess \in Rows /\ sent \in Seq(Item) /\ \A k \in DOMAIN sent : sent[k].id <= Len(transcript)
  BY DEF CtxInductive, RowOK, Fit, Steady
<1>2. PICK n \in Nat : n = CountBreakdown(sent, sess)
  BY <1>1, CountFacts
<1> QED
  BY <1>1, <1>2, BilledFacts

LEMMA RunTurnHolds == ASSUME CtxInductive, RunTurn PROVE CtxInductive'
<1>1. PICK m \in Message : m = Say("user", "short") /\ m.role = "user"
  BY Said, RolesAndSizes
<1>2. PICK log : log = Append(transcript, m)
  OBVIOUS
<1>3. transcript \in Seq(Message) /\ WholeIn(transcript) /\ Len(transcript) \in Nat
  BY DEF CtxInductive, CvShape, RoundsWhole
<1>4. Longer(transcript, log) /\ WholeIn(log) /\ Len(log) = Len(transcript) + 1 /\ log[Len(transcript) + 1] = m
  BY <1>1, <1>2, <1>3, OneMore
<1>5. transcript' = log /\ Len(log) <= MaxLog
  BY <1>1, <1>2, <1>3, <1>4 DEF RunTurn, Room
<1>6. PICK turn : turn = userTurn /\ turn \in UserTurns /\ turn.phase = "idle"
  BY DEF RunTurn, CtxInductive, CvShape
<1>7. userTurn' \in UserTurns /\ userTurn'.phase = "prepare" /\ userTurn'.question \in {i \in 1..Len(log) : UserRole(log[i])}
  <2>1. PICK q \in 1..Len(log) : q = Len(transcript) + 1
    BY <1>3, <1>4
  <2>2. UserRole(log[q]) /\ q \in 0..MaxLog
    BY <1>1, <1>3, <1>4, <1>5, <2>1 DEF UserRole
  <2>3. userTurn' = [turn EXCEPT !.phase = "prepare", !.question = q]
    BY <1>6, <2>1 DEF RunTurn
  <2> QED
    BY <1>6, <2>2, <2>3 DEF UserTurns
<1>8. PICK row \in Rows : row = sess /\ sess' = row
  BY DEF CtxInductive, RowOK, RunTurn
<1>9. collapse' = 0 /\ counted' \in Nat /\ sent' \in Seq(Item)
  BY DEF CtxInductive, CvShape, RunTurn, NotCounted
<1> QED
  BY <1>4, <1>5, <1>7, <1>8, <1>9, GrownHolds

LEMMA FinalAnswerHolds == ASSUME CtxInductive, FinalAnswer PROVE CtxInductive'
<1>1. PICK m \in Message : m = Say("assistant", "short") /\ m.role # "tool"
  BY Said, RolesAndSizes
<1>2. PICK log0 : log0 = Append(transcript, m)
  OBVIOUS
<1>3. transcript \in Seq(Message) /\ WholeIn(transcript) /\ Len(transcript) \in Nat
  BY DEF CtxInductive, CvShape, RoundsWhole
<1>4. Longer(transcript, log0) /\ WholeIn(log0) /\ Len(log0) = Len(transcript) + 1 /\ log0 \in Seq(Message)
  BY <1>1, <1>2, <1>3, OneMore DEF Longer
<1>5. PICK log \in DrainNotificationsLater(log0) : transcript' = log
  BY <1>1, <1>2 DEF FinalAnswer
<1>6. Len(log0) <= MaxLog
  BY <1>3, <1>4 DEF FinalAnswer, Room
<1>7. Longer(log0, log) /\ WholeIn(log) /\ Len(log) <= MaxLog
  BY <1>4, <1>5, <1>6, DrainedLog
<1>8. Longer(transcript, log)
  BY <1>3, <1>4, <1>7, LongerTwice
<1>9. PICK row \in Rows : sess' = row /\ row.summary = sess.summary /\ row.watermark = sess.watermark
  BY BilledSent DEF FinalAnswer
<1>10. userTurn' \in UserTurns /\ userTurn'.phase = "idle" /\ collapse' = 0 /\ counted' \in Nat /\ sent' \in Seq(Item)
  <2>1. userTurn' = [phase |-> "idle", question |-> 0, retried |-> NoRetries] /\ counted' = 999
    BY DEF FinalAnswer, EndTurn, NotCounted
  <2>2. userTurn' \in UserTurns /\ userTurn'.phase = "idle"
    BY <2>1, IdleTurn
  <2>3. collapse' = 0 /\ sent' \in Seq(Item)
    BY DEF FinalAnswer, CtxInductive, CvShape
  <2> QED
    BY <2>1, <2>2, <2>3
<1> QED
  BY <1>5, <1>7, <1>8, <1>9, <1>10, GrownHolds

LEMMA ToolRoundHolds == ASSUME CtxInductive, ToolRound PROVE CtxInductive'
<1>1. PICK size \in Sizes :
           \E log \in DrainNotificationsLater(transcript \o <<Say("calls", "short"), Say("tool", size)>>) : transcript' = log
  BY DEF ToolRound
<1>2. PICK c \in Message, t \in Message : c = Say("calls", "short") /\ t = Say("tool", size) /\ c.role = "calls"
  BY Said, RolesAndSizes
<1>3. transcript \in Seq(Message) /\ WholeIn(transcript) /\ Len(transcript) \in Nat
  BY DEF CtxInductive, CvShape, RoundsWhole
<1>4. PICK log1 : log1 = Append(transcript, c)
  OBVIOUS
<1>5. /\ Longer(transcript, log1) /\ WholeIn(log1) /\ Len(log1) = Len(transcript) + 1 /\ log1 \in Seq(Message)
      /\ log1[Len(log1)].role = "calls"
  BY <1>2, <1>3, <1>4, OneMore DEF Longer
<1>6. PICK log2 : log2 = Append(log1, t)
  OBVIOUS
<1>7. Longer(log1, log2) /\ WholeIn(log2) /\ Len(log2) = Len(log1) + 1 /\ log2 \in Seq(Message)
  <2>1. Len(log1) > 0
    BY <1>3, <1>5
  <2> QED
    BY <1>5, <1>6, <2>1, OneMore DEF Longer
<1>8. transcript \o <<c, t>> = log2
  BY <1>3, <1>4, <1>6
<1>9. PICK log \in DrainNotificationsLater(log2) : transcript' = log
  BY <1>1, <1>2, <1>8
<1>10. Len(log2) <= MaxLog
  BY <1>3, <1>5, <1>7 DEF ToolRound, Room
<1>11. Longer(log2, log) /\ WholeIn(log) /\ Len(log) <= MaxLog
  BY <1>7, <1>9, <1>10, DrainedLog
<1>12. Longer(transcript, log)
  BY <1>3, <1>5, <1>7, <1>11, LongerTwice
<1>13. PICK row \in Rows : sess' = row /\ row.summary = sess.summary /\ row.watermark = sess.watermark
  BY BilledSent DEF ToolRound
<1>14. userTurn' \in UserTurns /\ userTurn'.phase = "prepare" /\ userTurn'.question = userTurn.question
  <2>1. PICK turn \in UserTurns : turn = userTurn
    BY DEF CtxInductive, CvShape
  <2>2. userTurn' = [turn EXCEPT !.phase = "prepare"]
    BY <2>1 DEF ToolRound
  <2>3. PICK next \in UserTurns : next = [turn EXCEPT !.phase = "prepare"] /\ next.phase = "prepare" /\ next.question = turn.question
    BY PhaseTurn
  <2> QED
    BY <2>1, <2>2, <2>3
<1>15. collapse' = 0 /\ counted' \in Nat /\ sent' \in Seq(Item)
  BY DEF ToolRound, CtxInductive, CvShape
<1>16. userTurn'.question \in {i \in 1..Len(log) : UserRole(log[i])}
  <2>1. PICK q \in Starts : q = userTurn'.question
    BY <1>14 DEF CtxInductive, AskedStarts, ToolRound
  <2>2. q \in 1..Len(transcript) /\ UserRole(transcript[q])
    BY <2>1 DEF Starts
  <2>3. Len(log) \in Nat /\ Len(transcript) <= Len(log) /\ log[q] = transcript[q]
    BY <1>12, <2>2 DEF Longer
  <2> QED
    BY <1>3, <2>1, <2>2, <2>3
<1> QED
  BY <1>9, <1>11, <1>12, <1>13, <1>14, <1>15, <1>16, GrownHolds

LEMMA CancelHolds == ASSUME CtxInductive, CancelInTools PROVE CtxInductive'
<1>1. PICK m \in Message : m = Say("calls", "short") /\ m.role # "tool"
  BY Said, RolesAndSizes
<1>2. PICK log : log = Append(transcript, m)
  OBVIOUS
<1>3. transcript \in Seq(Message) /\ WholeIn(transcript) /\ Len(transcript) \in Nat
  BY DEF CtxInductive, CvShape, RoundsWhole
<1>4. Longer(transcript, log) /\ WholeIn(log) /\ Len(log) = Len(transcript) + 1
  BY <1>1, <1>2, <1>3, OneMore
<1>5. transcript' = log /\ Len(log) <= MaxLog
  BY <1>1, <1>2, <1>3, <1>4 DEF CancelInTools, Room
<1>6. PICK row \in Rows : sess' = row /\ row.summary = sess.summary /\ row.watermark = sess.watermark
  BY BilledSent DEF CancelInTools
<1>7. userTurn' \in UserTurns /\ userTurn'.phase = "idle" /\ collapse' = 0 /\ counted' \in Nat /\ sent' \in Seq(Item)
  <2>1. userTurn' = [phase |-> "idle", question |-> 0, retried |-> NoRetries] /\ counted' = 999
    BY DEF CancelInTools, EndTurn, NotCounted
  <2>2. userTurn' \in UserTurns /\ userTurn'.phase = "idle"
    BY <2>1, IdleTurn
  <2>3. collapse' = 0 /\ sent' \in Seq(Item)
    BY DEF CancelInTools, CtxInductive, CvShape
  <2> QED
    BY <2>1, <2>2, <2>3
<1> QED
  BY <1>4, <1>5, <1>6, <1>7, GrownHolds

LEMMA RewindNoteHolds == ASSUME CtxInductive, RewindNote PROVE CtxInductive'
<1>1. PICK m \in Message : m = Say("system", "short") /\ m.role # "tool"
  BY Said, RolesAndSizes
<1>2. PICK log : log = Append(transcript, m)
  OBVIOUS
<1>3. transcript \in Seq(Message) /\ WholeIn(transcript) /\ Len(transcript) \in Nat
  BY DEF CtxInductive, CvShape, RoundsWhole
<1>4. Longer(transcript, log) /\ WholeIn(log) /\ Len(log) = Len(transcript) + 1
  BY <1>1, <1>2, <1>3, OneMore
<1>5. transcript' = log /\ Len(log) <= MaxLog
  BY <1>1, <1>2, <1>3, <1>4 DEF RewindNote, Room
<1>6. PICK row \in Rows : sess' = row /\ row = sess
  BY DEF CtxInductive, RowOK, RewindNote
<1>7. userTurn' \in UserTurns /\ userTurn'.phase = "idle" /\ collapse' = 0 /\ counted' \in Nat /\ sent' \in Seq(Item)
  BY DEF RewindNote, CtxInductive, CvShape
<1> QED
  BY <1>4, <1>5, <1>6, <1>7, GrownHolds

LEMMA CtxSteps == CtxInductive /\ [CtxNext]_ctxVars => CtxInductive'
<1> SUFFICES ASSUME CtxInductive, [CtxNext]_ctxVars PROVE CtxInductive'
  OBVIOUS
<1>0. CvShape /\ RowOK(sess) /\ userTurn \in UserTurns
  BY DEF CtxInductive, CvShape
<1>1. CASE RunTurn
  BY <1>1, RunTurnHolds
<1>2. CASE PrepareRequest
  <2>1. userTurn' \in UserTurns /\ userTurn'.phase = "chat" /\ userTurn'.question = userTurn.question
    <3>1. PICK turn \in UserTurns : turn = userTurn
      BY <1>0
    <3>2. userTurn' = [turn EXCEPT !.phase = "chat"]
      BY <1>2, <3>1 DEF PrepareRequest
    <3>3. PICK next \in UserTurns : next = [turn EXCEPT !.phase = "chat"] /\ next.phase = "chat" /\ next.question = turn.question
      BY PhaseTurn
    <3>4. next.phase = "chat"
      BY <1>2, <3>1, <3>3 DEF PrepareRequest
    <3> QED
      BY <3>1, <3>2, <3>3, <3>4
  <2>2. Prepare(sess, FALSE) /\ transcript' = transcript /\ userTurn.phase # "idle"
    BY <1>2 DEF PrepareRequest
  <2>3. PICK row0 : row0 = sess /\ RowOK(row0) /\ Prepare(row0, FALSE)
    BY <1>0, <2>2
  <2> QED
    BY <2>1, <2>2, <2>3, RequestHolds
<1>3. CASE CompactRetry
  <2>1. userTurn' \in UserTurns /\ userTurn'.phase = "chat" /\ userTurn'.question = userTurn.question
    <3>1. PICK turn \in UserTurns : turn = userTurn
      BY <1>0
    <3>2. userTurn' = [turn EXCEPT !.retried.compact = TRUE]
      BY <1>3, <3>1 DEF CompactRetry
    <3>3. PICK next \in UserTurns : next = [turn EXCEPT !.retried.compact = TRUE] /\ next.phase = turn.phase /\ next.question = turn.question
      BY RetriedTurn
    <3>4. next.phase = "chat"
      BY <1>3, <3>1, <3>3 DEF CompactRetry
    <3> QED
      BY <3>1, <3>2, <3>3, <3>4
  <2>2. PICK row0 \in CompactAPIContext(sess) : Prepare(row0, FALSE)
    BY <1>3 DEF CompactRetry
  <2>3. RowOK(row0)
    <3>1. PICK row : row = sess
      OBVIOUS
    <3> QED
      BY <1>0, <2>2, <3>1, CompactFacts
  <2>4. transcript' = transcript /\ userTurn.phase # "idle"
    BY <1>3 DEF CompactRetry
  <2> QED
    BY <2>1, <2>2, <2>3, <2>4, RequestHolds
<1>4. CASE SnipRetry
  <2>1. userTurn' \in UserTurns /\ userTurn'.phase = "chat" /\ userTurn'.question = userTurn.question
    <3>1. PICK turn \in UserTurns : turn = userTurn
      BY <1>0
    <3>2. userTurn' = [turn EXCEPT !.retried.snip = TRUE]
      BY <1>4, <3>1 DEF SnipRetry
    <3>3. PICK next \in UserTurns : next = [turn EXCEPT !.retried.snip = TRUE] /\ next.phase = turn.phase /\ next.question = turn.question
      BY RetriedTurn
    <3>4. next.phase = "chat"
      BY <1>4, <3>1, <3>3 DEF SnipRetry
    <3> QED
      BY <3>1, <3>2, <3>3, <3>4
  <2>2. Prepare(sess, TRUE) /\ transcript' = transcript /\ userTurn.phase # "idle"
    BY <1>4 DEF SnipRetry
  <2>3. PICK row0 : row0 = sess /\ RowOK(row0) /\ Prepare(row0, TRUE)
    BY <1>0, <2>2
  <2> QED
    BY <2>1, <2>2, <2>3, RequestHolds
<1>5. CASE FinalAnswer
  BY <1>5, FinalAnswerHolds
<1>6. CASE ToolRound
  BY <1>6, ToolRoundHolds
<1>7. CASE CancelInTools
  BY <1>7, CancelHolds
<1>8. CASE TurnFails
  <2>1. PICK row : row = sess /\ sess' = row /\ RowOK(row)
    BY <1>0, <1>8 DEF TurnFails
  <2>2. PICK final \in Seq(Item) : sent' = final
    BY <1>0, <1>8 DEF TurnFails, CvShape
  <2>3. /\ userTurn' \in UserTurns /\ userTurn'.phase = "idle" /\ collapse' = 0 /\ counted' \in Nat
        /\ transcript' = transcript
    <3>1. userTurn' = [phase |-> "idle", question |-> 0, retried |-> NoRetries] /\ counted' = 999
      BY <1>8 DEF TurnFails, EndTurn, NotCounted
    <3>2. userTurn' \in UserTurns /\ userTurn'.phase = "idle"
      BY <3>1, IdleTurn
    <3>3. collapse' = 0 /\ transcript' = transcript
      BY <1>0, <1>8 DEF TurnFails, CvShape
    <3> QED
      BY <3>1, <3>2, <3>3
  <2> QED
    BY <2>1, <2>2, <2>3, SessionStays
<1>9. CASE SlashCompact
  <2>1. PICK row0 : row0 = sess /\ RowOK(row0)
    BY <1>0
  <2>2. PICK row \in CompactAPIContext(row0) : sess' = row
    BY <1>9, <2>1 DEF SlashCompact
  <2>3. RowOK(row)
    BY <1>0, <2>1, <2>2, CompactFacts
  <2>4. PICK final \in Seq(Item) : sent' = final
    BY <1>0, <1>9 DEF SlashCompact, CvShape
  <2>5. /\ userTurn' \in UserTurns /\ userTurn'.phase = "idle" /\ collapse' = 0 /\ counted' \in Nat
        /\ transcript' = transcript
    BY <1>0, <1>9 DEF SlashCompact, CvShape
  <2> QED
    BY <2>2, <2>3, <2>4, <2>5, SessionStays
<1>10. CASE RewindNote
  BY <1>10, RewindNoteHolds
<1>11. CASE SubagentUsage
  <2>1. PICK row0 \in Rows : row0 = sess /\ RowOK(row0)
    BY <1>0 DEF RowOK
  <2>2. PICK row : row = Billed(row0, CompactAt) /\ sess' = row
    BY <1>11, <2>1 DEF SubagentUsage
  <2>3. RowOK(row)
    <3>1. CompactAt \in Nat
      OBVIOUS
    <3> QED
      BY <2>1, <2>2, <3>1, BilledFacts DEF RowOK
  <2>4. PICK final \in Seq(Item) : sent' = final /\ final = sent
    BY <1>0, <1>11 DEF SubagentUsage, CvShape
  <2>5. userTurn' = userTurn /\ collapse' = 0 /\ counted' \in Nat /\ transcript' = transcript
    BY <1>0, <1>11 DEF SubagentUsage, CvShape
  <2>6. (userTurn.phase = "chat" => Fit(final)) /\ (userTurn.phase # "idle" => userTurn.question \in Starts)
    BY <2>4 DEF CtxInductive, AskedStarts
  <2> QED
    BY <1>0, <2>2, <2>3, <2>4, <2>5, <2>6, SessionStays
<1>12. CASE UNCHANGED ctxVars
  <2>1. PICK row : row = sess /\ sess' = row /\ RowOK(row)
    BY <1>0, <1>12 DEF ctxVars
  <2>2. PICK final \in Seq(Item) : sent' = final /\ final = sent
    BY <1>0, <1>12 DEF ctxVars, CvShape
  <2>3. userTurn' = userTurn /\ collapse' = 0 /\ counted' \in Nat /\ transcript' = transcript
    BY <1>0, <1>12 DEF ctxVars, CvShape
  <2>4. (userTurn.phase = "chat" => Fit(final)) /\ (userTurn.phase # "idle" => userTurn.question \in Starts)
    BY <2>2 DEF CtxInductive, AskedStarts
  <2> QED
    BY <1>0, <2>1, <2>2, <2>3, <2>4, SessionStays
<1> QED
  BY <1>1, <1>2, <1>3, <1>4, <1>5, <1>6, <1>7, <1>8, <1>9, <1>10, <1>11, <1>12 DEF CtxNext

\* While no more than Keep notices came in behind it, a question is among the recent turns.
LEMMA QuestionRecent ==
  ASSUME CvShape, NEW q \in Starts, Cardinality({i \in Starts : i > q}) < Keep
  PROVE  q \in SplitUserTurns.recent /\ UserRole(transcript[q])
<1>1. PICK n \in 0..MaxLog, f \in 1..(MaxLog + 1) :
           /\ n = Len(transcript) /\ Starts \in SUBSET (1..n) /\ Begins(Starts, n, Keep, f)
           /\ \A i : i \in SplitUserTurns.recent <=> i \in f..n
  BY TurnFacts
<1>2. PICK S \in SUBSET (1..n) : S = Starts /\ q \in S
  BY <1>1
<1> DEFINE After == {i \in S : i > q}
<1>3. Cardinality(SinceIn(S, q)) <= Keep
  <2>1. \A i \in S : i >= q <=> i > q \/ i = q
    BY <1>2
  <2>2. ~(q > q)
    BY <1>2
  <2>3. SinceIn(S, q) = After \cup {q} /\ q \notin After /\ After \subseteq S
    BY <1>2, <2>1, <2>2 DEF SinceIn
  <2>4. After = {i \in Starts : i > q}
    BY <1>2
  <2> HIDE DEF After
  <2>5. IsFiniteSet(S)
    BY SinceFacts
  <2>6. IsFiniteSet(After)
    BY <2>3, <2>5, FS_Subset
  <2>7. Cardinality(After \cup {q}) = Cardinality(After) + 1 /\ Cardinality(After) \in Nat
    BY <2>3, <2>6, FS_AddElement, FS_CardinalityType
  <2>8. Cardinality(After) < Keep
    BY <2>4
  <2> QED
    BY <2>3, <2>7, <2>8
<1>4. f <= q
  BY <1>1, <1>2, <1>3 DEF Begins
<1>5. q \in f..n
  BY <1>2, <1>4
<1> QED
  BY <1>1, <1>5 DEF Starts

LEMMA CtxImplies == CtxInductive => ContextInv
<1> SUFFICES ASSUME CtxInductive PROVE ContextInv
  OBVIOUS
<1>1. CvShape /\ RowOK(sess) /\ AskedStarts
  BY DEF CtxInductive
<1>2. PICK n \in 0..MaxLog, f \in 1..(MaxLog + 1) :
           /\ n = Len(transcript) /\ f = TurnsFrom(Keep)
           /\ \A i : i \in SplitUserTurns.recent <=> i \in f..n
  BY <1>1, TurnFacts
<1>3. CtxTypeOK
  BY <1>1 DEF CvShape, RowOK, Rows, UserTurns, CtxTypeOK
<1>4. WatermarkBehind /\ CollapseUnused
  BY <1>1 DEF RowOK, CvShape, WatermarkBehind, CollapseUnused
<1>5. ASSUME userTurn.phase = "chat"
      PROVE  RecentKept /\ CallsShown /\ CurrentTurnWhole /\ QuestionKept
  <2>1. ShowsRecent(sent) /\ ShowsCalls(sent) /\ NoneSnipped(sent)
    BY <1>5 DEF CtxInductive, Fit
  <2>2. DOMAIN sent = 1..Len(sent)
    BY <1>1 DEF CvShape
  <2>3. \A i \in SplitUserTurns.recent : transcript[i].role # "system" => i \in Sent
    BY <2>1, <2>2 DEF ShowsRecent, Sent
  <2>4. CallsShown
    BY <2>1, <2>2 DEF ShowsCalls, CallsShown
  <2>5. CurrentTurnWhole
    BY <2>1, <2>2 DEF NoneSnipped, CurrentTurnWhole
  <2>6. ASSUME Cardinality({i \in Starts : i > userTurn.question}) < Keep PROVE userTurn.question \in Sent
    <3>1. PICK q \in Starts : q = userTurn.question
      BY <1>1, <1>5 DEF AskedStarts
    <3>2. Cardinality({i \in Starts : i > q}) < Keep
      BY <2>6, <3>1
    <3>3. q \in SplitUserTurns.recent /\ UserRole(transcript[q])
      BY <1>1, <3>2, QuestionRecent
    <3>4. transcript[q].role # "system"
      BY <3>3 DEF UserRole
    <3> QED
      BY <2>3, <3>1, <3>3, <3>4
  <2> QED
    BY <2>3, <2>4, <2>5, <2>6 DEF RecentKept, QuestionKept
<1>6. ASSUME userTurn.phase # "chat"
      PROVE  RecentKept /\ CallsShown /\ CurrentTurnWhole /\ QuestionKept
  BY <1>6 DEF RecentKept, CallsShown, CurrentTurnWhole, QuestionKept
<1> QED
  BY <1>3, <1>4, <1>5, <1>6 DEF ContextInv

\* A session and its requests (Service.PrepareRequest, BuildAPIContext, CompactAPIContext, SnipToolResults,
\* chatWithRecovery and the rounds): whatever was compacted, cut or snipped before, a request shows the last
\* Keep user turns whole, the calls of each result it shows and the results of the current turn, and the
\* question too while fewer than Keep notices came in; the watermark never reaches the turns that are kept,
\* and the collapse of the view is never used.
THEOREM ContextHolds == CtxSpec => []ContextInv
<1>1. CtxInductive /\ [CtxNext]_ctxVars => CtxInductive'
  BY CtxSteps
<1> QED
  BY <1>1, CtxInits, CtxImplies, PTL DEF CtxSpec

\* Of two compactions in one step, the last that wrote a piece wrote it of the old turns.
LEMMA CompactedTwice ==
  ASSUME NEW s, NEW t, NEW u, s \in Seq(SUBSET (1..MaxLog)), t \in Seq(SUBSET (1..MaxLog)),
         u \in Seq(SUBSET (1..MaxLog)), Compacted(s, t), Compacted(t, u), Len(u) > Len(s), Last(u) # {}
  PROVE  OldTurns \in ToSet(u)
<1>1. ASSUME NEW r \in Seq(SUBSET (1..MaxLog)), u = Append(r, OldTurns) PROVE OldTurns \in ToSet(u)
  <2>1. Len(r) + 1 \in DOMAIN u /\ u[Len(r) + 1] = OldTurns
    BY <1>1
  <2> QED
    BY <2>1 DEF ToSet
<1>2. u # <<{}>>
  BY DEF Last
<1>3. ~(u = s)
  OBVIOUS
<1> QED
  BY <1>1, <1>2, <1>3 DEF Compacted

LEMMA OldCovered ==
  ASSUME CvShape, transcript' = transcript, NEW t, RowOK(t), Compacted(sess.summary, t.summary),
         NEW u, RowOK(u), Compacted(t.summary, u.summary), sess' = u, sess \in Rows
  PROVE  CompactCovers
<1> SUFFICES ASSUME Len(u.summary) > Len(sess.summary), Last(u.summary) # {},
                    NEW i \in 1..Len(transcript), NEW s \in Starts, s <= i
             PROVE  i \in SplitUserTurns.recent \cup UNION ToSet(u.summary)
  BY DEF CompactCovers
<1>1. PICK n \in 0..MaxLog, f \in 1..(MaxLog + 1) :
           /\ n = Len(transcript)
           /\ \A j : j \in SplitUserTurns.recent <=> j \in f..n
           /\ OldTurns = {j \in 1..(f - 1) : \E k \in Starts : k <= j}
  BY TurnFacts
<1>2. OldTurns \in ToSet(u.summary)
  BY CompactedTwice DEF RowOK, Rows
<1>3. CASE i >= f
  BY <1>1, <1>3
<1>4. CASE ~(i >= f)
  <2>1. i \in 1..(f - 1)
    BY <1>1, <1>4
  <2>2. i \in OldTurns
    BY <1>1, <2>1
  <2> QED
    BY <1>2, <2>2
<1>5. i \in Int /\ f \in Int
  BY <1>1
<1> QED
  BY <1>3, <1>4

\* A request compacts the row that it starts from once, or not at all.
LEMMA RequestCovers ==
  ASSUME CtxInductive, transcript' = transcript, NEW row0, RowOK(row0), Compacted(sess.summary, row0.summary),
         NEW aggressive, Prepare(row0, aggressive)
  PROVE  CompactCovers
<1>1. CvShape /\ RoundsWhole /\ sess \in Rows
  BY DEF CtxInductive, RowOK
<1>2. PICK row : sess' = row /\ RowOK(row) /\ (row = row0 \/ row \in CompactAPIContext(row0))
  BY <1>1, PrepareHolds
<1>3. Compacted(row0.summary, row.summary)
  <2>1. CASE row = row0
    BY <2>1 DEF Compacted
  <2>2. CASE row \in CompactAPIContext(row0)
    BY <1>1, <2>2, CompactFacts
  <2> QED
    BY <1>2, <2>1, <2>2
<1> QED
  BY <1>1, <1>2, <1>3, OldCovered

LEMMA SameSummary ==
  ASSUME CtxInductive, sess'.summary = sess.summary
  PROVE  CompactCovers
<1>1. Len(sess.summary) \in Nat
  BY DEF CtxInductive, RowOK, Rows
<1> QED
  BY <1>1 DEF CompactCovers

LEMMA CoversSteps == CtxInductive /\ [CtxNext]_ctxVars => CompactCovers
<1> SUFFICES ASSUME CtxInductive, [CtxNext]_ctxVars PROVE CompactCovers
  OBVIOUS
<1>0. CvShape /\ RowOK(sess) /\ sess \in Rows
  BY DEF CtxInductive, RowOK
<1>1. CASE RunTurn \/ TurnFails \/ RewindNote \/ UNCHANGED ctxVars
  <2>1. sess' = sess
    BY <1>1 DEF RunTurn, TurnFails, RewindNote, ctxVars
  <2> QED
    BY <2>1, SameSummary
<1>2. CASE PrepareRequest
  <2>1. PICK row0 : row0 = sess /\ RowOK(row0) /\ Prepare(row0, FALSE) /\ transcript' = transcript
    BY <1>0, <1>2 DEF PrepareRequest
  <2>2. Compacted(sess.summary, row0.summary)
    BY <2>1 DEF Compacted
  <2> QED
    BY <2>1, <2>2, RequestCovers
<1>3. CASE CompactRetry
  <2>1. PICK row0 \in CompactAPIContext(sess) : Prepare(row0, FALSE) /\ transcript' = transcript
    BY <1>3 DEF CompactRetry
  <2>2. PICK row : row = sess /\ RowOK(row) /\ row0 \in CompactAPIContext(row)
    BY <1>0, <2>1
  <2>3. RowOK(row0) /\ Compacted(row.summary, row0.summary)
    BY <1>0, <2>2, CompactFacts
  <2> QED
    BY <2>1, <2>2, <2>3, RequestCovers
<1>4. CASE SnipRetry
  <2>1. PICK row0 : row0 = sess /\ RowOK(row0) /\ Prepare(row0, TRUE) /\ transcript' = transcript
    BY <1>0, <1>4 DEF SnipRetry
  <2>2. Compacted(sess.summary, row0.summary)
    BY <2>1 DEF Compacted
  <2> QED
    BY <2>1, <2>2, RequestCovers
<1>5. CASE FinalAnswer \/ ToolRound \/ CancelInTools
  <2>1. userTurn.phase = "chat" /\ sess' = Billed(sess, CountBreakdown(sent, sess))
    BY <1>5 DEF FinalAnswer, ToolRound, CancelInTools
  <2>2. sess'.summary = sess.summary
    BY <2>1, BilledSent
  <2> QED
    BY <2>2, SameSummary
<1>6. CASE SlashCompact
  <2>1. PICK row : row = sess /\ RowOK(row)
    BY <1>0
  <2>2. PICK next \in CompactAPIContext(row) : sess' = next /\ transcript' = transcript
    BY <1>6, <2>1 DEF SlashCompact
  <2>3. RowOK(next) /\ Compacted(row.summary, next.summary)
    BY <1>0, <2>1, <2>2, CompactFacts
  <2>4. Compacted(row.summary, row.summary)
    BY DEF Compacted
  <2> QED
    BY <1>0, <2>1, <2>2, <2>3, <2>4, OldCovered
<1>7. CASE SubagentUsage
  <2>1. PICK row \in Rows : row = sess
    BY <1>0
  <2>2. PICK next : next = Billed(row, CompactAt) /\ sess' = next
    BY <1>7, <2>1 DEF SubagentUsage
  <2>3. CompactAt \in Nat
    OBVIOUS
  <2>4. next.summary = row.summary
    BY <2>2, <2>3, BilledFacts
  <2> QED
    BY <2>1, <2>2, <2>4, SameSummary
<1> QED
  BY <1>1, <1>2, <1>3, <1>4, <1>5, <1>6, <1>7 DEF CtxNext

\* A compaction that succeeds (CompactAPIContext): every message of a user turn is among the recent turns or
\* in the merged summary, also those that a failed compaction before it had cut.
THEOREM CompactionCovers == CtxSpec => [][CompactCovers]_ctxVars
<1>1. CtxInductive /\ [CtxNext]_ctxVars => CtxInductive'
  BY CtxSteps
<1>2. CtxInductive /\ [CtxNext]_ctxVars => CompactCovers
  BY CoversSteps
<1> QED
  BY <1>1, <1>2, CtxInits, PTL DEF CtxSpec

HIDE ContextAssumption DEF ContextAssumption

USE RgAssumption DEF RgAssumption

(***************************************************************************)
(* RgBinary. A call that nobody disturbs knows what the copy holds at each *)
(* place of its code; a stamp once known stands for one ripgrep for good.  *)
(***************************************************************************)

Places == {"rest", "stat", "verify", "write", "remove", "rename", "mark", "exec", "ended", "failed"}
Held == {"nothing", "other"} \cup RgVersions
CallSet == [at : Places, ran : Held, alone : BOOLEAN]
CopySet == [holds : Held, stamp : 0 .. MaxStamp]

RgShape ==
  /\ copy \in CopySet /\ stamps \in 0 .. MaxStamp
  /\ validated \in [Processes -> 0 .. MaxStamp] /\ blind \subseteq Processes
  /\ resolve \in [RgCalls -> CallSet]

\* Every change of the copy has a stamp of its own.
StampsOnce ==
  /\ copy.stamp <= stamps /\ (copy.holds = "nothing" <=> copy.stamp = 0)
  /\ \A p \in Processes : validated[p] <= stamps

\* A process that is not blind knows the stamp of its own ripgrep, or of none.
Knows == \A p \in Processes \ blind : validated[p] > 0 /\ copy.stamp = validated[p] => copy.holds = RgVersion[p]

\* What the copy holds for a call that nobody disturbed.
Undisturbed ==
  \A c \in RgCalls : resolve[c].alone =>
    /\ resolve[c].at = "mark" => copy.holds = Own(c)
    /\ resolve[c].at \in {"exec", "ended"} =>
         copy.holds # "nothing" /\ (RgProcess[c] \notin blind => copy.holds = Own(c))
    /\ resolve[c].at = "ended" => resolve[c].ran = copy.holds

RgInductive == RgShape /\ StampsOnce /\ Knows /\ Undisturbed


LEMMA OwnIn == ASSUME NEW c \in RgCalls PROVE RgProcess[c] \in Processes /\ Own(c) \in RgVersions /\ Own(c) \in Held
BY DEF Processes, Own, RgVersions, Held

\* A call goes from place to place; the others stay where they are.
Going(c, where, ran, alone) ==
  /\ resolve' \in [RgCalls -> CallSet]
  /\ \A d \in RgCalls : d # c => resolve'[d] = resolve[d]
  /\ resolve'[c].at = where /\ resolve'[c].ran = ran /\ resolve'[c].alone = alone

LEMMA GoesOn ==
  ASSUME RgShape, NEW c \in RgCalls, NEW where \in Places, Goes(c, where)
  PROVE  Going(c, where, resolve[c].ran, resolve[c].alone)
<1>1. resolve[c] \in CallSet /\ resolve' = [resolve EXCEPT ![c] = [resolve[c] EXCEPT !.at = where]]
  BY DEF RgShape, Goes
<1>2. [resolve[c] EXCEPT !.at = where] \in CallSet
  BY <1>1 DEF CallSet
<1>3. resolve'[c] = [resolve[c] EXCEPT !.at = where] /\ \A d \in RgCalls : d # c => resolve'[d] = resolve[d]
  BY <1>1 DEF RgShape
<1>4. resolve' \in [RgCalls -> CallSet]
  BY <1>1, <1>2 DEF RgShape
<1> QED
  BY <1>1, <1>3, <1>4 DEF Going, CallSet

LEMMA RestingIn == Resting \in CallSet /\ Resting.at = "rest" /\ Resting.ran = "nothing" /\ Resting.alone = TRUE
<1>1. Resting \in CallSet
  BY TRUE \in BOOLEAN DEF Resting, CallSet, Places, Held
<1>2. Resting.alone = TRUE
  BY Zenon DEF Resting
<1> QED
  BY <1>1, <1>2 DEF Resting

LEMMA RestsAt ==
  ASSUME RgShape, NEW c \in RgCalls, NEW where \in Places, resolve' = [resolve EXCEPT ![c] = [Resting EXCEPT !.at = where]]
  PROVE  Going(c, where, "nothing", TRUE)
<1>1. Resting \in CallSet /\ Resting.ran = "nothing" /\ Resting.alone = TRUE
  BY RestingIn
<1>2. [Resting EXCEPT !.at = where] \in CallSet
  BY <1>1 DEF CallSet
<1>3. /\ resolve'[c] = [Resting EXCEPT !.at = where] /\ \A d \in RgCalls : d # c => resolve'[d] = resolve[d]
      /\ resolve' \in [RgCalls -> CallSet]
  BY <1>2 DEF RgShape
<1> QED
  BY <1>1, <1>3 DEF Going, CallSet

LEMMA RunsIt ==
  ASSUME RgShape, NEW c \in RgCalls, resolve' = [resolve EXCEPT ![c].at = "ended", ![c].ran = copy.holds]
  PROVE  Going(c, "ended", copy.holds, resolve[c].alone)
<1>1. /\ resolve[c] \in CallSet /\ copy.holds \in Held
      /\ resolve' = [resolve EXCEPT ![c] = [resolve[c] EXCEPT !.at = "ended", !.ran = copy.holds]]
  BY DEF RgShape, CopySet
<1>2. [resolve[c] EXCEPT !.at = "ended", !.ran = copy.holds] \in CallSet
  BY <1>1 DEF CallSet, Places
<1>3. /\ resolve'[c] = [resolve[c] EXCEPT !.at = "ended", !.ran = copy.holds]
      /\ \A d \in RgCalls : d # c => resolve'[d] = resolve[d]
  BY <1>1 DEF RgShape
<1>4. resolve' \in [RgCalls -> CallSet]
  BY <1>1, <1>2 DEF RgShape
<1> QED
  BY <1>1, <1>3, <1>4 DEF Going, CallSet

\* The copy is changed by c, or by no call: whoever else is under way is disturbed.
Disturbs(calls) ==
  /\ resolve' \in [RgCalls -> CallSet] /\ stamps < MaxStamp /\ stamps' = stamps + 1
  /\ \A d \in calls : ~resolve'[d].alone /\ resolve'[d].at = resolve[d].at /\ resolve'[d].ran = resolve[d].ran
Holds(holds) == copy' \in CopySet /\ copy'.holds = holds /\ copy'.stamp = IF holds = "nothing" THEN 0 ELSE stamps + 1

LEMMA CopyChanges ==
  ASSUME RgShape, stamps < MaxStamp, NEW holds \in Held,
         copy' = IF holds = "nothing" THEN NoCopy ELSE [holds |-> holds, stamp |-> stamps + 1]
  PROVE  Holds(holds)
BY DEF RgShape, CopySet, Holds, NoCopy, Held

LEMMA ChangeDisturbs ==
  ASSUME RgShape, NEW c \in RgCalls, NEW holds \in Held, NEW where \in Places, Changes(c, holds, where)
  PROVE  /\ Disturbs(RgCalls \ {c}) /\ Holds(holds)
         /\ resolve'[c].at = where /\ resolve'[c].ran = resolve[c].ran /\ resolve'[c].alone = resolve[c].alone
<1>1. Holds(holds) /\ stamps < MaxStamp /\ stamps' = stamps + 1
  BY CopyChanges DEF Changes
<1>2. \A d \in RgCalls : resolve[d] \in CallSet
  BY DEF RgShape
<1>3. \A d \in RgCalls : resolve'[d] = IF d = c THEN [resolve[c] EXCEPT !.at = where] ELSE [resolve[d] EXCEPT !.alone = FALSE]
  BY DEF Changes
<1>4. \A d \in RgCalls : resolve'[d] \in CallSet
  BY <1>2, <1>3, FALSE \in BOOLEAN DEF CallSet
<1>5. resolve' = [d \in RgCalls |-> resolve'[d]]
  BY DEF Changes
<1>6. resolve' \in [RgCalls -> CallSet]
  BY <1>4, <1>5
<1> QED
  BY <1>1, <1>2, <1>3, <1>6 DEF Disturbs, CallSet

LEMMA TamperDisturbs ==
  ASSUME RgShape, Tamper
  PROVE  Disturbs(RgCalls) /\ \E holds \in Held : Holds(holds)
<1>1. \A d \in RgCalls : resolve[d] \in CallSet /\ resolve'[d] = [resolve[d] EXCEPT !.alone = FALSE]
  BY DEF RgShape, Tamper
<1>2. \A d \in RgCalls : resolve'[d] \in CallSet
  BY <1>1, FALSE \in BOOLEAN DEF CallSet
<1>3. resolve' = [d \in RgCalls |-> resolve'[d]]
  BY DEF Tamper
<1>4. resolve' \in [RgCalls -> CallSet]
  BY <1>2, <1>3
<1>5. Disturbs(RgCalls)
  BY <1>1, <1>4 DEF Disturbs, CallSet, Tamper
<1>6. Holds("nothing") \/ Holds("other")
  BY CopyChanges DEF Tamper, Held
<1> QED
  BY <1>5, <1>6 DEF Held

\* The steps, as far as the invariant tells them apart.
Looks(c) ==
  /\ UNCHANGED <<copy, stamps, validated, blind>>
  /\ \E where \in Places : Goes(c, where) /\
       \/ resolve[c].at = "stat" /\ (where = "verify" \/ (where = "exec" /\ CachedPathIfValid(c)))
       \/ resolve[c].at = "verify" /\ (where \in {"write", "failed"} \/ (where = "mark" /\ copy.holds = Own(c)))
       \/ resolve[c].at = "write" /\ where \in {"remove", "failed"}
       \/ resolve[c].at = "remove" /\ where = "rename"
       \/ resolve[c].at = "exec" /\ copy.holds = "nothing" /\ where = "failed"
Rests(c) ==
  /\ UNCHANGED <<copy, stamps, validated, blind>>
  /\ \E where \in {"stat", "rest"} : Going(c, where, "nothing", TRUE)
Ends(c) ==
  /\ UNCHANGED <<copy, stamps, validated, blind>>
  /\ resolve[c].at = "exec" /\ copy.holds # "nothing" /\ Going(c, "ended", copy.holds, resolve[c].alone)
Replaces(c) ==
  /\ UNCHANGED <<validated, blind>> /\ Disturbs(RgCalls \ {c})
  /\ resolve'[c].ran = resolve[c].ran /\ resolve'[c].alone = resolve[c].alone
  /\ \/ Holds("nothing") /\ resolve'[c].at = "rename"
     \/ Holds(Own(c)) /\ resolve'[c].at = "mark"
Marks(c) ==
  /\ resolve[c].at = "mark" /\ Goes(c, "exec") /\ UNCHANGED <<copy, stamps>>
  /\ validated' = [validated EXCEPT ![RgProcess[c]] = copy.stamp]
  /\ blind' = IF copy.holds \in {"nothing", Own(c)} THEN blind \ {RgProcess[c]} ELSE blind \cup {RgProcess[c]}

LEMMA RgSteps ==
  ASSUME RgShape, [RbNext]_rbVars
  PROVE  \/ \E c \in RgCalls : Looks(c) \/ Rests(c) \/ Ends(c) \/ Replaces(c) \/ Marks(c)
         \/ \E p \in Processes : CrashOf(p)
         \/ Tamper
         \/ UNCHANGED rbVars
<1> USE DEF StandsAt
<1>1. ASSUME NEW c \in RgCalls, Path(c) \/ CallOver(c) PROVE Rests(c)
  <2>1. CASE Path(c)
    BY <2>1, RestsAt DEF Path, Rests, Places
  <2>2. CASE CallOver(c)
    <3>1. Resting = [Resting EXCEPT !.at = "rest"]
      BY DEF Resting
    <3> QED
      BY <2>2, <3>1, RestsAt DEF CallOver, Rests, Places
  <2> QED
    BY <1>1, <2>1, <2>2
<1>2. ASSUME NEW c \in RgCalls, Stat(c) PROVE Looks(c)
  BY <1>2 DEF Stat, Looks, Places
<1>3. ASSUME NEW c \in RgCalls, VerifyOnDisk(c) PROVE Looks(c)
  BY <1>3 DEF VerifyOnDisk, Looks, Places, ResolveFails, Goes
<1>4. ASSUME NEW c \in RgCalls, WriteTemp(c) PROVE Looks(c)
  BY <1>4 DEF WriteTemp, Looks, Places, ResolveFails, Goes
<1>5. ASSUME NEW c \in RgCalls, RemoveOld(c) PROVE Looks(c) \/ Replaces(c)
  <2>1. CASE copy.holds = "nothing"
    BY <1>5, <2>1 DEF RemoveOld, Looks, Places
  <2>2. CASE copy.holds # "nothing"
    BY <1>5, <2>2, ChangeDisturbs DEF RemoveOld, Replaces, Places, Held
  <2> QED
    BY <2>1, <2>2
<1>6. ASSUME NEW c \in RgCalls, Rename(c) PROVE Replaces(c)
  BY <1>6, ChangeDisturbs, OwnIn DEF Rename, Replaces, Places
<1>7. ASSUME NEW c \in RgCalls, SetValidated(c) PROVE Marks(c)
  BY <1>7 DEF SetValidated, Marks
<1>8. ASSUME NEW c \in RgCalls, Run(c) PROVE Looks(c) \/ Ends(c)
  <2>1. CASE copy.holds = "nothing"
    BY <1>8, <2>1 DEF Run, Looks, Places, ResolveFails, Goes
  <2>2. CASE copy.holds # "nothing"
    BY <1>8, <2>2, RunsIt DEF Run, Ends
  <2> QED
    BY <2>1, <2>2
<1> QED
  BY <1>1, <1>2, <1>3, <1>4, <1>5, <1>6, <1>7, <1>8 DEF RbNext

LEMMA CrashRests ==
  ASSUME RgShape, NEW p \in Processes, CrashOf(p)
  PROVE  /\ resolve' \in [RgCalls -> CallSet]
         /\ \A c \in RgCalls : IF RgProcess[c] = p THEN resolve'[c].at = "rest" /\ resolve'[c].ran = "nothing"
                               ELSE resolve'[c] = resolve[c]
<1>1. Resting \in CallSet
  BY TRUE \in BOOLEAN DEF Resting, CallSet, Places, Held
<1> QED
  BY <1>1 DEF CrashOf, RgShape, Resting

LEMMA RbHolds == RgInductive /\ [RbNext]_rbVars => RgInductive'
<1> SUFFICES ASSUME RgInductive, [RbNext]_rbVars PROVE RgInductive'
  OBVIOUS
<1> USE DEF RgInductive
<1>1. ASSUME NEW c \in RgCalls, Looks(c) PROVE RgInductive'
  <2>1. PICK where \in Places : Goes(c, where) /\
       \/ resolve[c].at = "stat" /\ (where = "verify" \/ (where = "exec" /\ CachedPathIfValid(c)))
       \/ resolve[c].at = "verify" /\ (where \in {"write", "failed"} \/ (where = "mark" /\ copy.holds = Own(c)))
       \/ resolve[c].at = "write" /\ where \in {"remove", "failed"}
       \/ resolve[c].at = "remove" /\ where = "rename"
       \/ resolve[c].at = "exec" /\ copy.holds = "nothing" /\ where = "failed"
    BY <1>1 DEF Looks
  <2>2. Going(c, where, resolve[c].ran, resolve[c].alone) /\ UNCHANGED <<copy, stamps, validated, blind>>
    BY <1>1, <2>1, GoesOn DEF Looks
  <2>3. where = "exec" => copy.holds # "nothing" /\ (RgProcess[c] \notin blind => copy.holds = Own(c))
    <3> SUFFICES ASSUME where = "exec" PROVE copy.holds # "nothing" /\ (RgProcess[c] \notin blind => copy.holds = Own(c))
      OBVIOUS
    <3>1. CachedPathIfValid(c)
      BY <2>1
    <3>2. validated[RgProcess[c]] \in Nat /\ RgProcess[c] \in Processes
      BY OwnIn DEF RgShape
    <3> QED
      BY <3>1, <3>2 DEF CachedPathIfValid, StampsOnce, Knows, Own
  <2>4. Undisturbed'
    BY <2>1, <2>2, <2>3 DEF Undisturbed, Going, Own
  <2> QED
    BY <2>2, <2>4 DEF RgShape, StampsOnce, Knows, Going
<1>2. ASSUME NEW c \in RgCalls, Rests(c) \/ Ends(c) PROVE RgInductive'
  <2>1. Undisturbed'
    BY <1>2 DEF Undisturbed, Rests, Ends, Going, Own
  <2> QED
    BY <1>2, <2>1 DEF RgShape, StampsOnce, Knows, Going, Rests, Ends
<1>3. ASSUME NEW c \in RgCalls, Replaces(c) PROVE RgInductive'
  <2>1. PICK holds \in {"nothing", Own(c)} : Holds(holds) /\ (resolve'[c].at = "rename" \/ (holds = Own(c) /\ resolve'[c].at = "mark"))
    BY <1>3 DEF Replaces
  <2>2. Undisturbed'
    BY <1>3, <2>1 DEF Undisturbed, Replaces, Disturbs, Holds, Own
  <2>3. RgShape' /\ StampsOnce'
    BY <1>3, <2>1 DEF Replaces, RgShape, StampsOnce, Disturbs, Holds
  <2>4. Knows'
    BY <1>3, <2>1 DEF Replaces, RgShape, StampsOnce, Disturbs, Holds, Knows
  <2> QED
    BY <2>2, <2>3, <2>4
<1>4. ASSUME NEW c \in RgCalls, Marks(c) PROVE RgInductive'
  <2>1. Going(c, "exec", resolve[c].ran, resolve[c].alone)
    BY <1>4, GoesOn DEF Marks, Places
  <2>2. Undisturbed'
    <3> SUFFICES ASSUME NEW d \in RgCalls, resolve'[d].alone
                 PROVE  /\ resolve'[d].at = "mark" => copy.holds = Own(d)
                        /\ resolve'[d].at \in {"exec", "ended"} =>
                             copy.holds # "nothing" /\ (RgProcess[d] \notin blind' => copy.holds = Own(d))
                        /\ resolve'[d].at = "ended" => resolve'[d].ran = copy.holds
      BY <1>4 DEF Undisturbed, Marks, Own
    <3>1. CASE d = c
      <4>1. copy.holds = Own(c) /\ Own(c) # "nothing" /\ resolve'[c].at = "exec"
        BY <1>4, <2>1, <3>1, OwnIn DEF Undisturbed, Marks, Going
      <4> QED
        BY <3>1, <4>1
    <3>2. CASE d # c
      <4>1. resolve'[d] = resolve[d]
        BY <2>1, <3>2 DEF Going
      <4>2. copy.holds # "nothing" /\ RgProcess[d] \notin blind' /\ RgProcess[d] \in blind => copy.holds = Own(d)
        BY <1>4 DEF Marks, Own
      <4> QED
        BY <4>1, <4>2 DEF Undisturbed
    <3> QED
      BY <3>1, <3>2
  <2>3. RgShape' /\ StampsOnce'
    BY <1>4, <2>1, OwnIn DEF Marks, RgShape, StampsOnce, Going, CopySet
  <2>4. Knows'
    BY <1>4, <2>1, OwnIn DEF Marks, RgShape, StampsOnce, Knows, Going, Own
  <2> QED
    BY <2>2, <2>3, <2>4
<1>5. ASSUME NEW p \in Processes, CrashOf(p) PROVE RgInductive'
  <2>1. Undisturbed'
    BY ZenonT(60), <1>5, CrashRests DEF CrashOf, Undisturbed, Own
  <2>2. RgShape' /\ StampsOnce'
    <3>1. UNCHANGED <<copy, stamps>> /\ validated' = [validated EXCEPT ![p] = 0] /\ blind' = blind \ {p}
      BY <1>5 DEF CrashOf
    <3>2. validated' \in [Processes -> 0 .. MaxStamp] /\ \A q \in Processes : validated'[q] <= stamps
      BY <3>1 DEF RgShape, StampsOnce
    <3> QED
      BY <1>5, <3>1, <3>2, CrashRests DEF RgShape, StampsOnce
  <2>3. Knows'
    BY <1>5 DEF CrashOf, RgShape, Knows
  <2> QED
    BY <2>1, <2>2, <2>3
<1>6. CASE Tamper
  <2>1. PICK holds \in Held : Holds(holds)
    BY <1>6, TamperDisturbs
  <2>2. Disturbs(RgCalls)
    BY <1>6, TamperDisturbs
  <2>3. Undisturbed'
    BY <2>2 DEF Undisturbed, Disturbs
  <2>4. RgShape' /\ StampsOnce'
    BY <1>6, <2>1, <2>2 DEF Tamper, RgShape, StampsOnce, Disturbs, Holds
  <2>5. Knows'
    BY <1>6, <2>1, <2>2 DEF Tamper, RgShape, StampsOnce, Disturbs, Holds, Knows
  <2> QED
    BY <2>3, <2>4, <2>5
<1>7. CASE UNCHANGED rbVars
  BY <1>7 DEF rbVars, RgShape, StampsOnce, Knows, Undisturbed, Own
<1> QED
  BY <1>1, <1>2, <1>3, <1>4, <1>5, <1>6, <1>7, RgSteps

LEMMA RbInits == RbInit => RgInductive
<1> SUFFICES ASSUME RbInit PROVE RgInductive
  OBVIOUS
<1> USE DEF RbInit
<1>1. Resting \in CallSet /\ NoCopy \in CopySet
  BY TRUE \in BOOLEAN DEF Resting, CallSet, Places, Held, NoCopy, CopySet
<1>2. RgShape
  BY <1>1 DEF RgShape
<1>3. Undisturbed
  BY DEF Undisturbed, Resting
<1> QED
  BY <1>2, <1>3 DEF RgInductive, StampsOnce, Knows, NoCopy

\* The copy of ripgrep (Path, verifyOnDisk, writeAtomic, setValidated): a call runs nothing but a whole
\* ripgrep, and undisturbed the one of its own version, for any processes, versions and crashes.
THEOREM RgHolds == RbSpec => []RgInv
<1>1. RgInductive => RgInv
  <2> SUFFICES ASSUME RgInductive PROVE RgInv
    OBVIOUS
  <2>1. RbTypeOK
    BY DEF RgInductive, RgShape, StampsOnce, RbTypeOK, CopySet, Held, CallSet
  <2>2. RunsOwn
    BY DEF RgInductive, Undisturbed, RunsOwn
  <2>3. RunsWhole
    BY DEF RgInductive, RgShape, RunsWhole, CallSet, Held
  <2> QED
    BY <2>1, <2>2, <2>3 DEF RgInv
<1> QED
  BY <1>1, RbInits, RbHolds, PTL DEF RbSpec

\* A call finds no copy to run only when another removed it meanwhile, never of itself.
THEOREM RgFound == RbSpec => [][FoundAlone]_rbVars
<1>1. RgInductive /\ [RbNext]_rbVars => [FoundAlone]_rbVars
  <2> SUFFICES ASSUME RgInductive, [RbNext]_rbVars PROVE FoundAlone
    OBVIOUS
  <2> SUFFICES ASSUME NEW c \in RgCalls, resolve[c].at = "exec", resolve'[c].at = "failed"
               PROVE  ~resolve[c].alone
    BY DEF FoundAlone
  <2> SUFFICES ASSUME resolve[c].alone PROVE FALSE
    OBVIOUS
  <2> USE DEF RgInductive
  <2>1. ASSUME NEW d \in RgCalls, Looks(d) PROVE FALSE
    <3>1. PICK where \in Places : Goes(d, where) /\ (where = "failed" /\ resolve[d].at = "exec" => copy.holds = "nothing")
      BY <2>1 DEF Looks
    <3>2. Going(d, where, resolve[d].ran, resolve[d].alone)
      BY <3>1, GoesOn
    <3>3. c = d
      BY <3>2 DEF Going
    <3> QED
      BY <3>1, <3>2, <3>3 DEF Going, Undisturbed
  <2>2. ASSUME NEW d \in RgCalls, Rests(d) \/ Ends(d) \/ Marks(d) PROVE FALSE
    BY <2>2, GoesOn DEF Rests, Ends, Marks, Going, Places
  <2>3. ASSUME NEW d \in RgCalls, Replaces(d) PROVE FALSE
    BY <2>3 DEF Replaces, Disturbs
  <2>4. CASE Tamper
    BY <2>4, TamperDisturbs DEF Disturbs
  <2>5. ASSUME NEW p \in Processes, CrashOf(p) PROVE FALSE
    BY <2>5, CrashRests
  <2>6. CASE UNCHANGED rbVars
    BY <2>6 DEF rbVars
  <2> QED
    BY <2>1, <2>2, <2>3, <2>4, <2>5, <2>6, RgSteps
<1> QED
  BY <1>1, RbInits, RbHolds, PTL DEF RbSpec

-----------------------------------------------------------------------------
HIDE RgAssumption DEF RgAssumption
USE PatchFilesAssumption DEF PatchFilesAssumption

(***************************************************************************)
(* PatchFiles. What a patch backed up is what it found, unless it is       *)
(* excused; and what the records captured is what a later undo needs.      *)
(***************************************************************************)

Texts == Contents \cup {Absent}
Partial == UNION {[D -> Texts] : D \in SUBSET Files}
EditSet == [pc : {"idle", "patch", "write", "rollback"}, left : Seq(Names), backups : Partial, written : Seq(Files),
            before : [Files -> Texts] \cup {<<>>}, foreign : SUBSET Files,
            excused : SUBSET (Files \X {"twice", "empty", "torn"})]
RecordSet == [torn : BOOLEAN, files : Partial]
SpotSet == [disk : [Files -> Texts], loose : SUBSET Files]

PfShape ==
  /\ disk \in [Files -> Texts] /\ edit \in [Agents -> EditSet]
  /\ records \in Seq(RecordSet) /\ spot \in Seq(SpotSet) /\ Len(spot) = Len(records)

\* What a call has written it has backed up before.
Backed(e) ==
  /\ ToSet(e.written) \subseteq DOMAIN e.backups
  /\ e.pc # "idle" => e.before \in [Files -> Texts]
  /\ e.pc = "write" => e.left # <<>>

\* Where a patch has not written the file is as it was, and its backups are what was there.
Restores(e, files) ==
  e.pc \in {"patch", "rollback"} => \A f \in Files \ e.foreign :
    /\ f \notin ToSet(e.written) => files[f] = e.before[f] \/ (<<f, "torn">> \in e.excused /\ e.pc = "rollback")
    /\ f \in DOMAIN e.backups => e.backups[f] = e.before[f] \/ <<f, "empty">> \in e.excused \/ <<f, "twice">> \in e.excused

\* The files that a call may yet change, or change back.
Taken(e) == {File(name) : name \in ToSet(e.left)} \cup ToSet(e.written)

Calls == \A a \in Agents : Backed(edit[a]) /\ Restores(edit[a], disk)

\* The call of the main agent has its record, the last one.
Captured ==
  edit["main"].pc # "idle" => Len(records) > 0 /\ Taken(edit["main"]) \subseteq DOMAIN records[Len(records)].files

\* Undoing from the newest record to record n gives file f its text of that time.
Saved(n, f) == {k \in n .. Len(records) : f \in DOMAIN records[k].files}
Undoes(n, f) ==
  \/ Saved(n, f) = {} /\ disk[f] = spot[n].disk[f]
  \/ \E k \in Saved(n, f) : (\A j \in Saved(n, f) : k <= j) /\ records[k].files[f] = spot[n].disk[f]
Undoable == \A n \in DOMAIN records : \A f \in Files \ spot[n].loose : Undoes(n, f)

PfInductive == PfShape /\ Calls /\ Captured /\ Undoable

LEMMA NothingIn == <<>> \in Partial /\ DOMAIN <<>> = {}
<1>1. <<>> \in [{} -> Texts] /\ {} \in SUBSET Files
  OBVIOUS
<1> QED
  BY <1>1 DEF Partial

LEMMA NoEditIn ==
  /\ NoEdit \in EditSet /\ NoEdit.pc = "idle" /\ Taken(NoEdit) = {} /\ Backed(NoEdit)
  /\ \A files : Restores(NoEdit, files)
<1>1. <<>> \in Partial /\ DOMAIN <<>> = {}
  BY NothingIn
<1>2. NoEdit \in EditSet
  BY <1>1, SetOfNone DEF NoEdit, EditSet
<1>3. NoEdit.pc = "idle" /\ NoEdit.left = <<>> /\ NoEdit.written = <<>> /\ NoEdit.backups = <<>>
  BY DEF NoEdit
<1> QED
  BY <1>1, <1>2, <1>3, SetOfNone DEF Taken, Backed, Restores

LEMMA PartialFacts ==
  ASSUME NEW p \in Partial
  PROVE  DOMAIN p \subseteq Files /\ p \in [DOMAIN p -> Texts] /\ \A f \in DOMAIN p : p[f] \in Texts
BY DEF Partial

LEMMA FileIn == \A name \in Names : File(name) \in Files
BY DEF Names, File

(***************************************************************************)
(* The call of an agent takes a path and backs up its file.                *)
(***************************************************************************)

\* What BackedUp leaves of a call, and what it adds.
LEMMA BackedUpFacts ==
  ASSUME disk \in [Files -> Texts], NEW e \in EditSet, NEW f \in Files, NEW op \in {"add", "delete", "update"}
  PROVE  LET b == BackedUp(e, f, op) IN
         /\ b \in EditSet /\ b.pc = e.pc /\ b.left = e.left /\ b.written = e.written /\ b.before = e.before
         /\ b.foreign = e.foreign /\ e.excused \subseteq b.excused
         /\ DOMAIN b.backups = DOMAIN e.backups \cup {f}
         /\ \A g \in DOMAIN e.backups : g # f => b.backups[g] = e.backups[g]
         /\ b.backups[f] = disk[f] \/ <<f, "empty">> \in b.excused
         /\ f \in DOMAIN e.backups => <<f, "twice">> \in b.excused
<1> DEFINE saved == [g \in DOMAIN e.backups \cup {f} |-> IF g = f THEN Backup(f, op) ELSE e.backups[g]]
           why == e.excused \cup (IF f \in DOMAIN e.backups THEN {<<f, "twice">>} ELSE {})
                            \cup (IF Backup(f, op) # disk[f] THEN {<<f, "empty">>} ELSE {})
           b == BackedUp(e, f, op)
<1>1. b = [e EXCEPT !.backups = saved, !.excused = why]
  BY DEF BackedUp, EditSet
<1>2. e.backups \in Partial /\ e.excused \subseteq Files \X {"twice", "empty", "torn"}
  BY DEF EditSet
<1>3. saved \in Partial
  <2>1. Backup(f, op) \in Texts
    BY DEF Backup, Texts
  <2>2. saved \in [DOMAIN e.backups \cup {f} -> Texts]
    BY <1>2, <2>1, PartialFacts
  <2>3. DOMAIN e.backups \cup {f} \in SUBSET Files
    BY <1>2, PartialFacts
  <2> QED
    BY <2>2, <2>3 DEF Partial
<1>4. why \subseteq Files \X {"twice", "empty", "torn"}
  BY <1>2
<1> HIDE DEF saved, why
<1>5. [e EXCEPT !.backups = saved, !.excused = why] \in EditSet
  BY <1>3, <1>4 DEF EditSet
<1>6. b \in EditSet /\ b.backups = saved /\ b.excused = why
  BY <1>1, <1>5 DEF EditSet
<1>7. /\ b.pc = e.pc /\ b.left = e.left /\ b.written = e.written /\ b.before = e.before /\ b.foreign = e.foreign
  BY <1>1 DEF EditSet
<1> QED
  BY <1>6, <1>7 DEF saved, why

\* The call e of the agent is under way: what it did is on the disk, and it does no more than it may.
Ready(agent, e) ==
  /\ e \in EditSet /\ e.pc = "patch" /\ Backed(e) /\ Restores(e, disk)
  /\ Taken(e) \subseteq Taken(edit[agent])

LEMMA ReadyAtFirst ==
  ASSUME PfShape, Calls, NEW agent \in Agents, edit[agent].pc = "patch"
  PROVE  Ready(agent, edit[agent])
BY DEF Ready, PfShape, Calls

LEMMA RestoresSame ==
  ASSUME NEW e, NEW t, NEW files, t.pc = e.pc, t.backups = e.backups, t.written = e.written,
         t.before = e.before, t.foreign = e.foreign, t.excused = e.excused, Restores(e, files)
  PROVE  Restores(t, files)
<1> SUFFICES ASSUME t.pc \in {"patch", "rollback"}, NEW f \in Files \ t.foreign
             PROVE  /\ f \notin ToSet(t.written) => files[f] = t.before[f] \/ (<<f, "torn">> \in t.excused /\ t.pc = "rollback")
                    /\ f \in DOMAIN t.backups =>
                         t.backups[f] = t.before[f] \/ <<f, "empty">> \in t.excused \/ <<f, "twice">> \in t.excused
  BY DEF Restores
<1>1. /\ f \notin ToSet(e.written) => files[f] = e.before[f] \/ (<<f, "torn">> \in e.excused /\ e.pc = "rollback")
      /\ f \in DOMAIN e.backups => e.backups[f] = e.before[f] \/ <<f, "empty">> \in e.excused \/ <<f, "twice">> \in e.excused
  BY DEF Restores
<1> QED
  BY <1>1

LEMMA ReadyTaken ==
  ASSUME PfShape, Calls, NEW agent \in Agents, edit[agent].pc = "patch", NEW n \in 1 .. 2, Len(edit[agent].left) >= n
  PROVE  Ready(agent, PathsTaken(agent, n)) /\ \A i \in 1 .. n : File(edit[agent].left[i]) \in Files \cap Taken(edit[agent])
<1> DEFINE e == edit[agent]
           rest == SubSeq(e.left, n + 1, Len(e.left))
           t == PathsTaken(agent, n)
<1>1. e \in EditSet /\ e.left \in Seq(Names)
  BY DEF PfShape, EditSet
<1>2. rest \in Seq(Names) /\ ToSet(rest) \subseteq ToSet(e.left)
  BY <1>1, SetOfRest
<1>3. t = [e EXCEPT !.left = rest]
  BY <1>1 DEF PathsTaken, EditSet
<1> HIDE DEF rest
<1>4. [e EXCEPT !.left = rest] \in EditSet
  BY <1>1, <1>2 DEF EditSet
<1>5. /\ t \in EditSet /\ t.left = rest /\ t.pc = e.pc /\ t.backups = e.backups /\ t.written = e.written
      /\ t.before = e.before /\ t.foreign = e.foreign /\ t.excused = e.excused
  BY <1>1, <1>3, <1>4 DEF EditSet
<1> HIDE DEF t
<1>6. Ready(agent, t)
  <2>0. Backed(e) /\ Restores(e, disk)
    BY DEF Calls
  <2>1. Backed(t)
    BY <1>5, <2>0 DEF Backed
  <2>2. Restores(t, disk)
    BY <1>5, <2>0, RestoresSame
  <2>3. Backed(t) /\ Restores(t, disk)
    BY <2>1, <2>2
  <2>4. Taken(t) \subseteq Taken(e)
    BY <1>2, <1>5 DEF Taken
  <2> QED
    BY <1>5, <2>3, <2>4 DEF Ready
<1>7. \A i \in 1 .. n : e.left[i] \in ToSet(e.left) /\ e.left[i] \in Names
  BY <1>1, FirstIn
<1> QED
  BY <1>6, <1>7, FileIn DEF Taken, t

LEMMA ReadyBackedUp ==
  ASSUME PfShape, NEW agent \in Agents, NEW e, Ready(agent, e), NEW f \in Files, NEW op \in {"add", "delete", "update"}
  PROVE  LET b == BackedUp(e, f, op) IN
         /\ Ready(agent, b) /\ b.foreign = e.foreign /\ b.written = e.written /\ b.before = e.before /\ b.left = e.left
         /\ DOMAIN b.backups = DOMAIN e.backups \cup {f}
<1> DEFINE b == BackedUp(e, f, op)
<1>1. /\ b \in EditSet /\ b.pc = e.pc /\ b.left = e.left /\ b.written = e.written /\ b.before = e.before
      /\ b.foreign = e.foreign /\ e.excused \subseteq b.excused
      /\ DOMAIN b.backups = DOMAIN e.backups \cup {f}
      /\ \A g \in DOMAIN e.backups : g # f => b.backups[g] = e.backups[g]
      /\ b.backups[f] = disk[f] \/ <<f, "empty">> \in b.excused
      /\ f \in DOMAIN e.backups => <<f, "twice">> \in b.excused
  BY BackedUpFacts DEF Ready, PfShape
<1> HIDE DEF b
<1>2. Backed(b) /\ Taken(b) = Taken(e)
  BY <1>1 DEF Ready, Backed, Taken
<1>3. Restores(b, disk)
  <2> SUFFICES ASSUME NEW g \in Files \ b.foreign
               PROVE  /\ g \notin ToSet(b.written) => disk[g] = b.before[g] \/ (<<g, "torn">> \in b.excused /\ b.pc = "rollback")
                      /\ g \in DOMAIN b.backups =>
                           b.backups[g] = b.before[g] \/ <<g, "empty">> \in b.excused \/ <<g, "twice">> \in b.excused
    BY DEF Restores
  <2>1. /\ g \notin ToSet(e.written) => disk[g] = e.before[g]
        /\ g \in DOMAIN e.backups => e.backups[g] = e.before[g] \/ <<g, "empty">> \in e.excused \/ <<g, "twice">> \in e.excused
    BY <1>1 DEF Ready, Restores
  <2>2. CASE g = f /\ f \notin DOMAIN e.backups
    <3>1. g \notin ToSet(e.written)
      BY <2>2 DEF Ready, Backed
    <3> QED
      BY <1>1, <2>1, <2>2, <3>1
  <2>3. CASE g # f \/ f \in DOMAIN e.backups
    BY <1>1, <2>1, <2>3
  <2> QED
    BY <2>2, <2>3
<1> QED
  BY <1>1, <1>2, <1>3 DEF Ready, b

(***************************************************************************)
(* A change of files, and what the calls and the records learn of it.      *)
(***************************************************************************)

Learns(a, files) ==
  IF edit[a].pc = "idle" THEN edit'[a] = edit[a]
  ELSE /\ edit'[a].pc = edit[a].pc /\ edit'[a].left = edit[a].left /\ edit'[a].backups = edit[a].backups
       /\ edit'[a].written = edit[a].written /\ edit'[a].before = edit[a].before
       /\ edit'[a].excused = edit[a].excused /\ edit'[a].foreign = edit[a].foreign \cup files
Loosens(files, from) ==
  /\ spot' \in Seq(SpotSet) /\ Len(spot') = Len(spot)
  /\ \A i \in 1 .. Len(spot) :
       /\ spot'[i].disk = spot[i].disk
       /\ spot'[i].loose = IF i > from THEN spot[i].loose \cup files ELSE spot[i].loose
Others(files) == disk' \in [Files -> Texts] /\ \A f \in Files \ files : disk'[f] = disk[f]
Wrote(agent, files, e) ==
  /\ files \subseteq Files /\ Others(files)
  /\ edit' \in [Agents -> EditSet] /\ edit'[agent] = e /\ \A a \in Agents \ {agent} : Learns(a, files)
  /\ records' = records
  /\ IF agent = "main" THEN spot' = spot ELSE Loosens(files, 0)

LEMMA OverwrittenLearns ==
  ASSUME PfShape, NEW agent, NEW files \in SUBSET Files
  PROVE  /\ Overwritten(agent, files) \in [Agents -> EditSet]
         /\ \A a \in Agents \ {agent} : edit' = Overwritten(agent, files) => Learns(a, files)
<1>1. \A a \in Agents : edit[a] \in EditSet /\ [edit[a] EXCEPT !.foreign = @ \cup files] \in EditSet
  <2> SUFFICES ASSUME NEW a \in Agents
               PROVE  edit[a] \in EditSet /\ [edit[a] EXCEPT !.foreign = @ \cup files] \in EditSet
    OBVIOUS
  <2>1. edit[a] \in EditSet
    BY DEF PfShape
  <2>2. edit[a].foreign \cup files \in SUBSET Files
    BY <2>1 DEF EditSet
  <2> QED
    BY <2>1, <2>2 DEF EditSet
<1>2. Overwritten(agent, files) \in [Agents -> EditSet]
  BY <1>1 DEF Overwritten
<1>3. ASSUME NEW a \in Agents \ {agent}, edit' = Overwritten(agent, files) PROVE Learns(a, files)
  <2>1. CASE edit[a].pc = "idle"
    BY <1>3, <2>1 DEF Overwritten, Learns
  <2>2. CASE edit[a].pc # "idle"
    <3>1. edit'[a] = [edit[a] EXCEPT !.foreign = @ \cup files]
      BY <1>3, <2>2 DEF Overwritten
    <3> QED
      BY <1>1, <2>2, <3>1 DEF Learns, EditSet
  <2> QED
    BY <2>1, <2>2
<1> QED
  BY <1>2, <1>3

LEMMA LoosenedLoosens ==
  ASSUME PfShape, NEW files \in SUBSET Files, NEW from \in Nat,
         spot' = [i \in DOMAIN spot |-> IF i > from THEN [spot[i] EXCEPT !.loose = @ \cup files] ELSE spot[i]]
  PROVE  Loosens(files, from)
<1>1. Len(spot) \in Nat /\ DOMAIN spot = 1 .. Len(spot) /\ \A i \in 1 .. Len(spot) : spot[i] \in SpotSet
  BY DEF PfShape
<1>2. ASSUME NEW i \in 1 .. Len(spot)
      PROVE  /\ spot'[i] \in SpotSet /\ spot'[i].disk = spot[i].disk
             /\ spot'[i].loose = IF i > from THEN spot[i].loose \cup files ELSE spot[i].loose
  <2>1. spot[i] \in SpotSet /\ spot[i].loose \cup files \in SUBSET Files
    BY <1>1, <1>2 DEF SpotSet
  <2>2. [spot[i] EXCEPT !.loose = @ \cup files] \in SpotSet
    BY <2>1 DEF SpotSet
  <2>3. spot'[i] = IF i > from THEN [spot[i] EXCEPT !.loose = @ \cup files] ELSE spot[i]
    BY <1>1, <1>2
  <2>4. CASE i > from
    BY <2>1, <2>2, <2>3, <2>4 DEF SpotSet
  <2>5. CASE ~(i > from)
    BY <2>1, <2>3, <2>5
  <2> QED
    BY <2>4, <2>5
<1>3. spot' \in [1 .. Len(spot) -> SpotSet]
  BY <1>1, <1>2
<1>4. spot' \in Seq(SpotSet) /\ Len(spot') = Len(spot)
  BY <1>1, <1>3
<1> QED
  BY <1>2, <1>4 DEF Loosens

LEMMA ChangeWrites ==
  ASSUME PfShape, NEW agent \in Agents, NEW texts, DOMAIN texts \subseteq Files,
         \A f \in DOMAIN texts : texts[f] \in Texts, NEW e \in EditSet, Change(agent, texts, e)
  PROVE  Wrote(agent, DOMAIN texts, e) /\ \A f \in DOMAIN texts : disk'[f] = texts[f]
<1> DEFINE files == DOMAIN texts
<1>1. Others(files) /\ \A f \in files : disk'[f] = texts[f]
  BY DEF Change, Others, PfShape
<1>2. edit' = [Overwritten(agent, files) EXCEPT ![agent] = e]
  BY DEF Change
<1>3. Overwritten(agent, files) \in [Agents -> EditSet]
  BY OverwrittenLearns
<1>4. edit' \in [Agents -> EditSet] /\ edit'[agent] = e
  BY <1>2, <1>3
<1>5. ASSUME NEW a \in Agents \ {agent} PROVE Learns(a, files)
  <2>1. edit'[a] = IF edit[a].pc = "idle" THEN edit[a] ELSE [edit[a] EXCEPT !.foreign = @ \cup files]
    BY <1>2, <1>3, <1>5 DEF Overwritten
  <2>2. edit[a] \in EditSet
    BY <1>5 DEF PfShape
  <2> QED
    BY <2>1, <2>2 DEF Learns, EditSet
<1>6. records' = records /\ IF agent = "main" THEN spot' = spot ELSE Loosens(files, 0)
  <2>1. records' = records /\ (agent = "main" => spot' = spot)
    BY DEF Change
  <2>2. ASSUME agent # "main" PROVE Loosens(files, 0)
    <3>1. spot' = [i \in DOMAIN spot |-> [spot[i] EXCEPT !.loose = @ \cup files]]
      BY <2>2 DEF Change, Loosened
    <3>2. \A i \in DOMAIN spot : i > 0
      BY DEF PfShape
    <3>3. spot' = [i \in DOMAIN spot |-> IF i > 0 THEN [spot[i] EXCEPT !.loose = @ \cup files] ELSE spot[i]]
      BY <3>1, <3>2
    <3> QED
      BY <3>3, LoosenedLoosens
  <2> QED
    BY <2>1, <2>2
<1> QED
  BY <1>1, <1>4, <1>5, <1>6 DEF Wrote

\* The records stay good for an undo: a file that is written is in a later record, or on nobody's account.
LEMMA UndoKept ==
  ASSUME PfShape, Undoable, records' = records, NEW files, \A f \in Files \ files : disk'[f] = disk[f],
         \A n \in 1 .. Len(records) :
           /\ spot'[n].disk = spot[n].disk /\ spot[n].loose \subseteq spot'[n].loose
           /\ \A f \in files : f \in spot'[n].loose \/ Saved(n, f) # {}
  PROVE  Undoable'
<1>1. DOMAIN records = 1 .. Len(records)
  BY DEF PfShape
<1> SUFFICES ASSUME NEW n \in 1 .. Len(records), NEW f \in Files \ spot'[n].loose PROVE Undoes(n, f)'
  BY <1>1 DEF Undoable
<1>2. Saved(n, f)' = Saved(n, f) /\ spot'[n].disk = spot[n].disk
  BY DEF Saved
<1>3. Undoes(n, f)
  BY <1>1 DEF Undoable
<1>4. CASE Saved(n, f) = {}
  <2>1. disk'[f] = disk[f]
    BY <1>4
  <2> QED
    BY <1>2, <1>3, <1>4, <2>1 DEF Undoes
<1>5. CASE Saved(n, f) # {}
  BY <1>2, <1>3, <1>5 DEF Undoes
<1> QED
  BY <1>4, <1>5

\* What the other calls learn changes nothing of what they have to restore.
LEMMA LearnsKeeps ==
  ASSUME PfShape, NEW a \in Agents, NEW files, Learns(a, files), Others(files), Backed(edit[a]), Restores(edit[a], disk)
  PROVE  /\ Backed(edit'[a]) /\ Restores(edit'[a], disk') /\ edit'[a].pc = edit[a].pc /\ Taken(edit'[a]) = Taken(edit[a])
<1>1. CASE edit[a].pc = "idle"
  <2>1. edit'[a] = edit[a]
    BY <1>1 DEF Learns
  <2> QED
    BY <1>1, <2>1 DEF Restores
<1>2. CASE edit[a].pc # "idle"
  <2>1. /\ edit'[a].pc = edit[a].pc /\ edit'[a].left = edit[a].left /\ edit'[a].backups = edit[a].backups
        /\ edit'[a].written = edit[a].written /\ edit'[a].before = edit[a].before
        /\ edit'[a].excused = edit[a].excused /\ edit'[a].foreign = edit[a].foreign \cup files
    BY <1>2 DEF Learns
  <2>2. Backed(edit'[a]) /\ Taken(edit'[a]) = Taken(edit[a])
    BY <2>1 DEF Backed, Taken
  <2>3. Restores(edit'[a], disk')
    <3> SUFFICES ASSUME edit[a].pc \in {"patch", "rollback"}, NEW f \in Files \ edit'[a].foreign
                 PROVE  /\ f \notin ToSet(edit'[a].written) =>
                             disk'[f] = edit'[a].before[f] \/ (<<f, "torn">> \in edit'[a].excused /\ edit'[a].pc = "rollback")
                        /\ f \in DOMAIN edit'[a].backups =>
                             edit'[a].backups[f] = edit'[a].before[f]
                             \/ <<f, "empty">> \in edit'[a].excused \/ <<f, "twice">> \in edit'[a].excused
      BY <2>1 DEF Restores
    <3>1. f \notin edit[a].foreign /\ f \notin files /\ disk'[f] = disk[f]
      BY <2>1 DEF Others
    <3>2. /\ f \notin ToSet(edit[a].written) =>
               disk[f] = edit[a].before[f] \/ (<<f, "torn">> \in edit[a].excused /\ edit[a].pc = "rollback")
          /\ f \in DOMAIN edit[a].backups =>
               edit[a].backups[f] = edit[a].before[f]
               \/ <<f, "empty">> \in edit[a].excused \/ <<f, "twice">> \in edit[a].excused
      BY <3>1 DEF Restores
    <3> QED
      BY <2>1, <3>1, <3>2
  <2> QED
    BY <2>1, <2>2, <2>3
<1> QED
  BY <1>1, <1>2

LEMMA LastRecord ==
  ASSUME PfShape, Captured, edit["main"].pc # "idle", NEW n \in 1 .. Len(records), NEW f \in Taken(edit["main"])
  PROVE  Saved(n, f) # {}
<1>1. Len(records) \in n .. Len(records) /\ f \in DOMAIN records[Len(records)].files
  BY DEF Captured, PfShape
<1> QED
  BY <1>1 DEF Saved

LEMMA WroteKeeps ==
  ASSUME PfInductive, NEW agent \in Agents, NEW files, NEW e, Wrote(agent, files, e), edit[agent].pc # "idle",
         Backed(e), Restores(e, disk'), files \subseteq Taken(edit[agent]),
         e.pc # "idle" => Taken(e) \subseteq Taken(edit[agent])
  PROVE  PfInductive'
<1> USE DEF PfInductive
<1>1. PfShape'
  BY DEF PfShape, Wrote, Others, Loosens
<1>2. Calls'
  <2> SUFFICES ASSUME NEW a \in Agents PROVE Backed(edit'[a]) /\ Restores(edit'[a], disk')
    BY DEF Calls
  <2>1. CASE a = agent
    BY <2>1 DEF Wrote
  <2>2. CASE a # agent
    BY <2>2, LearnsKeeps DEF Wrote, Calls
  <2> QED
    BY <2>1, <2>2
<1>3. Captured'
  <2>1. CASE agent = "main"
    BY <2>1 DEF Wrote, Captured
  <2>2. CASE agent # "main"
    <3>1. "main" \in Agents \ {agent}
      BY <2>2 DEF Agents
    <3>2. edit'["main"].pc = edit["main"].pc /\ Taken(edit'["main"]) = Taken(edit["main"])
      BY <3>1, LearnsKeeps DEF Wrote, Calls
    <3> QED
      BY <3>2 DEF Wrote, Captured
  <2> QED
    BY <2>1, <2>2
<1>4. Undoable'
  <2>1. CASE agent = "main"
    <3>1. \A n \in 1 .. Len(records) : \A f \in files : Saved(n, f) # {}
      BY <2>1, LastRecord
    <3> QED
      BY <2>1, <3>1, UndoKept DEF Wrote, Others
  <2>2. CASE agent # "main"
    <3>1. \A n \in 1 .. Len(records) : /\ spot'[n].disk = spot[n].disk /\ spot[n].loose \subseteq spot'[n].loose
                                       /\ files \subseteq spot'[n].loose
      <4>1. Loosens(files, 0) /\ Len(spot) = Len(records) /\ Len(records) \in Nat
        BY <2>2 DEF Wrote, PfShape
      <4>2. \A n \in 1 .. Len(records) : n > 0
        BY <4>1
      <4> QED
        BY <4>1, <4>2 DEF Loosens
    <3>2. records' = records /\ \A f \in Files \ files : disk'[f] = disk[f]
      BY DEF Wrote, Others
    <3>3. \A n \in 1 .. Len(records) :
            /\ spot'[n].disk = spot[n].disk /\ spot[n].loose \subseteq spot'[n].loose
            /\ \A f \in files : f \in spot'[n].loose \/ Saved(n, f) # {}
      BY <3>1
    <3> QED
      BY <3>2, <3>3, UndoKept
  <2> QED
    BY <2>1, <2>2
<1> QED
  BY <1>1, <1>2, <1>3, <1>4

(***************************************************************************)
(* A change of a patch, and its end.                                       *)
(***************************************************************************)

\* A call in which only the place and the files written differ.
LEMMA WrittenFacts ==
  ASSUME NEW e \in EditSet, NEW s \in Seq(Files), NEW w,
         w \in {[e EXCEPT !.written = s], [e EXCEPT !.pc = "rollback", !.written = s]}
  PROVE  /\ w \in EditSet /\ w.pc \in {e.pc, "rollback"} /\ w.left = e.left /\ w.written = s /\ w.backups = e.backups
         /\ w.before = e.before /\ w.foreign = e.foreign /\ w.excused = e.excused
BY DEF EditSet

LEMMA PatchFails ==
  ASSUME PfInductive, NEW agent \in Agents, NEW e, Ready(agent, e), edit[agent].pc = "patch", Fail(agent, e)
  PROVE  PfInductive'
<1> DEFINE w == [e EXCEPT !.pc = "rollback"]
<1>1. /\ w \in EditSet /\ w.pc = "rollback" /\ w.left = e.left /\ w.written = e.written /\ w.backups = e.backups
      /\ w.before = e.before /\ w.foreign = e.foreign /\ w.excused = e.excused
  BY DEF Ready, EditSet
<1>2. DOMAIN <<>> = {} /\ Change(agent, <<>>, w)
  BY DEF Fail
<1> HIDE DEF w
<1>3. Wrote(agent, {}, w)
  BY <1>1, <1>2, ChangeWrites DEF PfInductive
<1>4. Backed(w) /\ Taken(w) = Taken(e)
  BY <1>1 DEF Ready, Backed, Taken
<1>5. Restores(w, disk')
  <2>1. \A f \in Files : disk'[f] = disk[f]
    BY <1>3 DEF Wrote, Others
  <2> QED
    BY <1>1, <2>1 DEF Ready, Restores
<1> QED
  BY <1>3, <1>4, <1>5, WroteKeeps DEF Ready

LEMMA PatchTears ==
  ASSUME PfInductive, NEW agent \in Agents, NEW e, Ready(agent, e), edit[agent].pc = "patch",
         NEW f \in Files \cap Taken(edit[agent]),
         Change(agent, [g \in {f} |-> Torn], [e EXCEPT !.pc = "rollback", !.excused = @ \cup {<<f, "torn">>}])
  PROVE  PfInductive'
<1> DEFINE w == [e EXCEPT !.pc = "rollback", !.excused = @ \cup {<<f, "torn">>}]
<1>0. e \in EditSet /\ e.excused \cup {<<f, "torn">>} \in SUBSET (Files \X {"twice", "empty", "torn"})
  BY DEF Ready, EditSet
<1>1. /\ w \in EditSet /\ w.pc = "rollback" /\ w.left = e.left /\ w.written = e.written /\ w.backups = e.backups
      /\ w.before = e.before /\ w.foreign = e.foreign /\ w.excused = e.excused \cup {<<f, "torn">>}
  BY <1>0 DEF EditSet
<1> DEFINE texts == [g \in {f} |-> Torn]
<1>2. DOMAIN texts = {f} /\ Change(agent, texts, w) /\ \A g \in DOMAIN texts : texts[g] \in Texts
  BY DEF Texts, Contents
<1> HIDE DEF w, texts
<1>3. Wrote(agent, {f}, w)
  BY <1>1, <1>2, ChangeWrites DEF PfInductive
<1>4. Backed(w) /\ Taken(w) = Taken(e)
  BY <1>1 DEF Ready, Backed, Taken
<1>5. Restores(w, disk')
  <2>1. \A g \in Files : g # f => disk'[g] = disk[g]
    BY <1>3 DEF Wrote, Others
  <2> QED
    BY <1>1, <2>1 DEF Ready, Restores
<1> QED
  BY <1>3, <1>4, <1>5, WroteKeeps DEF Ready

LEMMA PatchWrites ==
  ASSUME PfInductive, NEW agent \in Agents, NEW e, Ready(agent, e), edit[agent].pc = "patch",
         NEW texts, DOMAIN texts \subseteq DOMAIN e.backups \cap Taken(edit[agent]),
         \A f \in DOMAIN texts : texts[f] \in Texts, NEW s \in Seq(Files), ToSet(s) = ToSet(e.written) \cup DOMAIN texts,
         NEW w, w \in {[e EXCEPT !.written = s], [e EXCEPT !.pc = "rollback", !.written = s]}, Change(agent, texts, w)
  PROVE  PfInductive'
<1>1. e \in EditSet
  BY DEF Ready
<1>2. /\ w \in EditSet /\ w.pc \in {e.pc, "rollback"} /\ w.left = e.left /\ w.written = s /\ w.backups = e.backups
      /\ w.before = e.before /\ w.foreign = e.foreign /\ w.excused = e.excused
  BY <1>1 DEF EditSet
<1>3. DOMAIN texts \subseteq Files
  BY <1>1, PartialFacts DEF EditSet
<1>4. Wrote(agent, DOMAIN texts, w)
  BY <1>2, <1>3, ChangeWrites DEF PfInductive
<1>5. Backed(w) /\ Taken(w) \subseteq Taken(edit[agent])
  BY <1>2 DEF Ready, Backed, Taken
<1>6. Restores(w, disk')
  <2> SUFFICES ASSUME NEW f \in Files \ w.foreign
               PROVE  /\ f \notin ToSet(w.written) => disk'[f] = w.before[f] \/ (<<f, "torn">> \in w.excused /\ w.pc = "rollback")
                      /\ f \in DOMAIN w.backups =>
                           w.backups[f] = w.before[f] \/ <<f, "empty">> \in w.excused \/ <<f, "twice">> \in w.excused
    BY DEF Restores
  <2>1. /\ f \notin ToSet(e.written) => disk[f] = e.before[f]
        /\ f \in DOMAIN e.backups => e.backups[f] = e.before[f] \/ <<f, "empty">> \in e.excused \/ <<f, "twice">> \in e.excused
    BY <1>2 DEF Ready, Restores
  <2>2. f \notin ToSet(s) => f \notin ToSet(e.written) /\ disk'[f] = disk[f]
    BY <1>4 DEF Wrote, Others
  <2> QED
    BY <1>2, <2>1, <2>2
<1> QED
  BY <1>4, <1>5, <1>6, WroteKeeps

LEMMA PatchEnds ==
  ASSUME PfInductive, NEW agent \in Agents, edit[agent].pc # "idle", NEW texts,
         DOMAIN texts \subseteq Files \cap Taken(edit[agent]),
         \A f \in DOMAIN texts : texts[f] \in Texts, Change(agent, texts, NoEdit)
  PROVE  PfInductive'
<1>1. Wrote(agent, DOMAIN texts, NoEdit)
  BY NoEditIn, ChangeWrites DEF PfInductive
<1> QED
  BY <1>1, NoEditIn, WroteKeeps

\* Each change of a patch: the path it takes is backed up before it is written.
LEMMA PatchStep ==
  ASSUME PfInductive, NEW agent \in Agents,
         ChangeAdd(agent) \/ ChangeDelete(agent) \/ ChangeUpdate(agent) \/ ChangeMove(agent)
  PROVE  PfInductive'
<1> DEFINE f == Target(agent)
<1>1. /\ edit[agent].pc = "patch" /\ edit[agent] \in EditSet /\ Len(edit[agent].left) >= 1
      /\ disk \in [Files -> Texts] /\ PfShape /\ Calls
  BY DEF ChangeAdd, ChangeDelete, ChangeUpdate, ChangeMove, Patching, PfInductive, PfShape, EditSet
<1>2. Ready(agent, edit[agent]) /\ Ready(agent, PathsTaken(agent, 1)) /\ f \in Files \cap Taken(edit[agent])
  BY <1>1, ReadyAtFirst, ReadyTaken DEF Target
<1>3. ASSUME Fail(agent, edit[agent]) PROVE PfInductive'
  BY <1>1, <1>2, <1>3, PatchFails
<1> HIDE DEF f
<1>4. ASSUME NEW op \in {"add", "delete", "update"}, NEW e, e = BackedUp(PathsTaken(agent, 1), f, op),
             \/ Fail(agent, e)
             \/ \E text \in Texts : Change(agent, [g \in {f} |-> text], [e EXCEPT !.written = Append(@, f)])
             \/ WriteFails(agent, e, f)
      PROVE  PfInductive'
  <2>1. Ready(agent, e) /\ f \in DOMAIN e.backups /\ e \in EditSet
    BY <1>1, <1>2, <1>4, ReadyBackedUp DEF Ready
  <2>2. CASE Fail(agent, e)
    BY <1>1, <2>1, <2>2, PatchFails
  <2>3. ASSUME NEW text \in Texts, Change(agent, [g \in {f} |-> text], [e EXCEPT !.written = Append(@, f)])
        PROVE  PfInductive'
    <3> DEFINE texts == [g \in {f} |-> text]
               s == Append(e.written, f)
               w == [e EXCEPT !.written = s]
    <3>1. s \in Seq(Files) /\ ToSet(s) = ToSet(e.written) \cup {f}
      BY <1>2, <2>1, SetOfAppend DEF EditSet
    <3>2. [e EXCEPT !.written = Append(@, f)] = w
      BY <2>1 DEF EditSet
    <3>3. DOMAIN texts = {f} /\ (\A g \in DOMAIN texts : texts[g] \in Texts) /\ Change(agent, texts, w)
      BY <2>3, <3>2
    <3>4. w \in {w, [e EXCEPT !.pc = "rollback", !.written = s]}
      OBVIOUS
    <3> HIDE DEF texts, s
    <3> QED
      BY <1>1, <1>2, <2>1, <3>1, <3>3, <3>4, PatchWrites
  <2>4. CASE WriteFails(agent, e, f)
    BY <1>1, <1>2, <2>1, <2>2, <2>4, PatchTears DEF WriteFails
  <2> QED
    BY <1>4, <2>2, <2>3, <2>4
<1>5. Written \subseteq Texts /\ Absent \in Texts /\ disk[f] \in Texts
  BY <1>1, <1>2 DEF Texts, Contents
<1>6. CASE ChangeAdd(agent)
  BY <1>3, <1>4, <1>5, <1>6 DEF ChangeAdd, f
<1>7. CASE ChangeDelete(agent)
  BY <1>3, <1>4, <1>5, <1>7 DEF ChangeDelete, f
<1>8. CASE ChangeUpdate(agent)
  BY <1>3, <1>4, <1>5, <1>8 DEF ChangeUpdate, f
<1>9. CASE ChangeMove(agent)
  <2> DEFINE dest == File(edit[agent].left[2])
             b == BackedUp(PathsTaken(agent, 2), f, "update")
             e == BackedUp(b, dest, "add")
  <2>1. Len(edit[agent].left) >= 2
    BY <1>1, <1>9 DEF ChangeMove, EditSet
  <2>2. Ready(agent, PathsTaken(agent, 2)) /\ dest \in Files \cap Taken(edit[agent])
    BY <1>1, <2>1, ReadyTaken
  <2>3. CASE Fail(agent, edit[agent])
    BY <1>3, <2>3
  <2>4. CASE ~Fail(agent, edit[agent])
    <3>1. /\ disk[f] # Absent /\ disk[dest] = Absent
          /\ \/ \E text \in Written \cup {disk[f]} :
                  \/ Change(agent, [g \in {f, dest} |-> IF g = f THEN Absent ELSE text], Moved(e, f, dest))
                  \/ Change(agent, [g \in {dest} |-> text],
                            [e EXCEPT !.pc = "rollback", !.written = Append(@, dest)])
             \/ WriteFails(agent, e, dest)
      BY <1>9, <2>4 DEF ChangeMove, f
    <3> HIDE DEF dest
    <3> DEFINE taken == PathsTaken(agent, 2)
    <3>2. Ready(agent, b) /\ f \in DOMAIN b.backups
      <4>1. Ready(agent, taken) /\ f \in Files
        BY <1>2, <2>2
      <4> HIDE DEF taken
      <4>2. /\ Ready(agent, BackedUp(taken, f, "update"))
            /\ DOMAIN BackedUp(taken, f, "update").backups = DOMAIN taken.backups \cup {f}
        BY <1>1, <4>1, ReadyBackedUp
      <4> QED
        BY <4>2 DEF taken
    <3> HIDE DEF b
    <3>3. Ready(agent, e) /\ {f, dest} \subseteq DOMAIN e.backups /\ e \in EditSet
      BY <1>1, <2>2, <3>2, ReadyBackedUp DEF Ready
    <3> HIDE DEF e
    <3>4. ASSUME NEW text \in Texts, Change(agent, [g \in {f, dest} |-> IF g = f THEN Absent ELSE text], Moved(e, f, dest))
          PROVE  PfInductive'
      <4> DEFINE texts == [g \in {f, dest} |-> IF g = f THEN Absent ELSE text]
                 s == e.written \o <<dest, f>>
                 w == [e EXCEPT !.written = s]
      <4>1. s \in Seq(Files) /\ ToSet(s) = ToSet(e.written) \cup {dest, f}
        BY <1>2, <2>2, <3>3, SetOfPair DEF EditSet
      <4>2. Moved(e, f, dest) = w
        BY <3>3 DEF EditSet, Moved
      <4>3. DOMAIN texts = {f, dest} /\ (\A g \in DOMAIN texts : texts[g] \in Texts) /\ Change(agent, texts, w)
        BY <1>5, <3>4, <4>2
      <4>4. w \in {w, [e EXCEPT !.pc = "rollback", !.written = s]}
        OBVIOUS
      <4> HIDE DEF texts, s
      <4> QED
        BY <1>1, <1>2, <2>2, <3>3, <4>1, <4>3, <4>4, PatchWrites
    <3>5. ASSUME NEW text \in Texts,
                 Change(agent, [g \in {dest} |-> text], [e EXCEPT !.pc = "rollback", !.written = Append(@, dest)])
          PROVE  PfInductive'
      <4> DEFINE texts == [g \in {dest} |-> text]
                 s == Append(e.written, dest)
                 w == [e EXCEPT !.pc = "rollback", !.written = s]
      <4>1. s \in Seq(Files) /\ ToSet(s) = ToSet(e.written) \cup {dest}
        BY <2>2, <3>3, SetOfAppend DEF EditSet
      <4>2. [e EXCEPT !.pc = "rollback", !.written = Append(@, dest)] = w
        BY <3>3 DEF EditSet
      <4>3. DOMAIN texts = {dest} /\ (\A g \in DOMAIN texts : texts[g] \in Texts) /\ Change(agent, texts, w)
        BY <3>5, <4>2
      <4>4. w \in {[e EXCEPT !.written = s], w}
        OBVIOUS
      <4> HIDE DEF texts, s
      <4> QED
        BY <1>1, <2>2, <3>3, <4>1, <4>3, <4>4, PatchWrites
    <3>6. CASE WriteFails(agent, e, dest)
      BY <1>1, <2>2, <3>3, <3>6, PatchFails, PatchTears DEF WriteFails
    <3> QED
      BY <1>5, <3>1, <3>4, <3>5, <3>6
  <2> QED
    BY <2>3, <2>4
<1> QED
  BY <1>6, <1>7, <1>8, <1>9

LEMMA EndStep ==
  ASSUME PfInductive, NEW agent \in Agents, PatchApplied(agent) \/ Rollback(agent) \/ WriteFile(agent)
  PROVE  PfInductive'
<1>1. edit[agent] \in EditSet /\ Backed(edit[agent]) /\ DOMAIN <<>> = {}
  BY DEF PfInductive, PfShape, Calls
<1>2. CASE PatchApplied(agent)
  BY <1>1, <1>2, PatchEnds DEF PatchApplied
<1>3. CASE Rollback(agent)
  <2> DEFINE e == edit[agent]
             texts == [f \in ToSet(e.written) |-> e.backups[f]]
  <2>1. /\ DOMAIN texts \subseteq DOMAIN e.backups \cap Taken(e) /\ DOMAIN e.backups \subseteq Files
        /\ \A f \in DOMAIN e.backups : e.backups[f] \in Texts
    BY <1>1, PartialFacts DEF Backed, Taken, EditSet
  <2>2. (\A f \in DOMAIN texts : texts[f] \in Texts) /\ Change(agent, texts, NoEdit) /\ e.pc # "idle"
    BY <1>3, <2>1 DEF Rollback
  <2> HIDE DEF texts
  <2> QED
    BY <2>1, <2>2, PatchEnds
<1>4. CASE WriteFile(agent)
  <2>1. Target(agent) \in Files \cap Taken(edit[agent]) /\ edit[agent].pc # "idle"
    <3>1. edit[agent].left \in Seq(Names) /\ edit[agent].left # <<>>
      BY <1>1, <1>4 DEF Backed, WriteFile, EditSet
    <3>2. 1 \in 1 .. Len(edit[agent].left)
      BY <3>1
    <3>3. edit[agent].left[1] \in ToSet(edit[agent].left) /\ edit[agent].left[1] \in Names
      BY <3>1, <3>2, FirstIn
    <3> QED
      BY <1>4, <3>3, FileIn DEF Target, Taken, WriteFile
  <2>2. CASE Change(agent, <<>>, NoEdit)
    BY <1>1, <2>1, <2>2, PatchEnds
  <2>3. ASSUME NEW text \in Texts, Change(agent, [g \in {Target(agent)} |-> text], NoEdit) PROVE PfInductive'
    <3> DEFINE texts == [g \in {Target(agent)} |-> text]
    <3>1. DOMAIN texts = {Target(agent)} /\ (\A f \in DOMAIN texts : texts[f] \in Texts) /\ Change(agent, texts, NoEdit)
      BY <2>3
    <3> HIDE DEF texts
    <3> QED
      BY <2>1, <3>1, PatchEnds
  <2> QED
    BY <1>4, <2>2, <2>3 DEF WriteFile, Texts, Contents
<1> QED
  BY <1>2, <1>3, <1>4

(***************************************************************************)
(* A new record, of a call or of a crash.                                  *)
(***************************************************************************)

Grows(files) ==
  /\ records' \in Seq(RecordSet) /\ spot' \in Seq(SpotSet) /\ Len(spot') = Len(records')
  /\ Len(records') = Len(records) + 1
  /\ \A i \in 1 .. Len(records) : records'[i] = records[i] /\ spot'[i] = spot[i]
  /\ DOMAIN records'[Len(records) + 1].files = files
  /\ \A f \in files : records'[Len(records) + 1].files[f] = disk[f]
  /\ spot'[Len(records) + 1].disk = disk /\ spot'[Len(records) + 1].loose = {}

LEMMA RecordAdded ==
  ASSUME PfShape, NEW torn \in BOOLEAN, NEW p \in Partial, \A f \in DOMAIN p : p[f] = disk[f],
         records' = Append(records, [torn |-> torn, files |-> p]), spot' = Append(spot, [disk |-> disk, loose |-> {}])
  PROVE  Grows(DOMAIN p)
<1> DEFINE r == [torn |-> torn, files |-> p]
           s == [disk |-> disk, loose |-> {}]
<1>1. r \in RecordSet /\ r.files = p /\ s \in SpotSet /\ s.disk = disk /\ s.loose = {}
  BY DEF RecordSet, SpotSet, PfShape
<1>2. records' = Append(records, r) /\ spot' = Append(spot, s)
  OBVIOUS
<1>3. records \in Seq(RecordSet) /\ spot \in Seq(SpotSet) /\ Len(spot) = Len(records) /\ Len(records) \in Nat
  BY DEF PfShape
<1> HIDE DEF r, s
<1>4. /\ records' \in Seq(RecordSet) /\ Len(records') = Len(records) + 1 /\ records'[Len(records) + 1] = r
      /\ \A i \in 1 .. Len(records) : records'[i] = records[i]
  BY <1>1, <1>2, <1>3
<1>5. /\ spot' \in Seq(SpotSet) /\ Len(spot') = Len(spot) + 1 /\ spot'[Len(spot) + 1] = s
      /\ \A i \in 1 .. Len(spot) : spot'[i] = spot[i]
  BY <1>1, <1>2, <1>3
<1> QED
  BY <1>1, <1>3, <1>4, <1>5 DEF Grows

LEMMA UndoGrows ==
  ASSUME PfShape, Undoable, NEW files, Grows(files), disk' = disk
  PROVE  Undoable'
<1>0. /\ Len(records) \in Nat /\ DOMAIN records = 1 .. Len(records) /\ DOMAIN records' = 1 .. (Len(records) + 1)
      /\ Len(records') = Len(records) + 1
  BY DEF PfShape, Grows
<1> DEFINE m == Len(records) + 1
<1> SUFFICES ASSUME NEW n \in 1 .. m, NEW f \in Files \ spot'[n].loose PROVE Undoes(n, f)'
  BY <1>0 DEF Undoable
<1>1. records'[m].files[f] = disk[f] \/ f \notin DOMAIN records'[m].files
  BY DEF Grows
<1>2. CASE n = m
  <2>1. Saved(n, f)' = IF f \in DOMAIN records'[m].files THEN {m} ELSE {}
    BY <1>0, <1>2 DEF Saved
  <2>2. spot'[n].disk = disk
    BY <1>2 DEF Grows
  <2> QED
    BY <1>0, <1>1, <1>2, <2>1, <2>2 DEF Undoes
<1>3. CASE n \in 1 .. Len(records)
  <2>1. spot'[n] = spot[n] /\ Undoes(n, f)
    BY <1>0, <1>3 DEF Grows, Undoable
  <2>2. Saved(n, f)' = Saved(n, f) \cup (IF f \in DOMAIN records'[m].files THEN {m} ELSE {})
    BY <1>0, <1>3 DEF Saved, Grows
  <2>3. CASE Saved(n, f) = {}
    BY <1>0, <1>1, <2>1, <2>2, <2>3 DEF Undoes
  <2>4. CASE Saved(n, f) # {}
    <3>1. PICK k \in Saved(n, f) : (\A j \in Saved(n, f) : k <= j) /\ records[k].files[f] = spot[n].disk[f]
      BY <2>1, <2>4 DEF Undoes
    <3>2. k \in 1 .. Len(records) /\ k <= m
      BY <1>0, <1>3 DEF Saved
    <3>3. records'[k] = records[k]
      BY <3>2 DEF Grows
    <3>4. k \in Saved(n, f)' /\ \A j \in Saved(n, f)' : k <= j
      BY <2>2, <3>1, <3>2
    <3> QED
      BY <2>1, <3>1, <3>3, <3>4 DEF Undoes
  <2> QED
    BY <2>3, <2>4
<1> QED
  BY <1>0, <1>2, <1>3

LEMMA BeginStep ==
  ASSUME PfInductive, NEW agent \in Agents, NEW names \in Seq(Names), names # <<>>, NEW pc \in {"patch", "write"},
         Begin(agent, names, pc)
  PROVE  PfInductive'
<1> DEFINE e == [NoEdit EXCEPT !.pc = pc, !.left = names, !.before = disk]
           files == {File(name) : name \in ToSet(names)}
<1>0. PfShape /\ Calls /\ Captured /\ Undoable
  BY DEF PfInductive
<1>1. /\ e \in EditSet /\ e.pc = pc /\ e.left = names /\ e.before = disk /\ e.written = <<>> /\ e.backups = <<>>
  <2>1. NoEdit \in EditSet /\ NoEdit.written = <<>> /\ NoEdit.backups = <<>>
    BY NoEditIn DEF NoEdit
  <2>2. disk \in [Files -> Texts]
    BY <1>0 DEF PfShape
  <2> QED
    BY <2>1, <2>2 DEF EditSet
<1>2. edit' = [edit EXCEPT ![agent] = e] /\ disk' = disk /\ edit[agent].pc = "idle"
  BY DEF Begin, NotEditing
<1> HIDE DEF e
<1>3. Backed(e) /\ Restores(e, disk) /\ Taken(e) = files
  <2>1. ToSet(e.written) = {} /\ DOMAIN e.backups = {}
    BY <1>1, SetOfNone
  <2>2. disk \in [Files -> Texts]
    BY <1>0 DEF PfShape
  <2> QED
    BY <1>1, <2>1, <2>2 DEF Backed, Restores, Taken
<1>4. edit' \in [Agents -> EditSet] /\ edit'[agent] = e /\ \A a \in Agents \ {agent} : edit'[a] = edit[a]
  BY <1>0, <1>1, <1>2 DEF PfShape
<1>5. Calls'
  BY <1>0, <1>2, <1>3, <1>4 DEF Calls
<1>6. files \subseteq Files
  BY FileIn DEF ToSet
<1>7. CASE agent # "main"
  <2>1. records' = records /\ spot' = spot
    BY <1>7 DEF Begin, recordCheckpoint
  <2>2. Captured'
    <3>1. "main" \in Agents \ {agent}
      BY <1>7 DEF Agents
    <3> QED
      BY <1>0, <1>4, <2>1, <3>1 DEF Captured
  <2>3. Undoable'
    BY <1>0, <1>2, <2>1 DEF Undoable, Undoes, Saved
  <2> QED
    BY <1>0, <1>2, <1>4, <1>5, <2>1, <2>2, <2>3 DEF PfInductive, PfShape
<1>8. CASE agent = "main"
  <2> DEFINE p == CapturePaths(PathsFromTool(names))
  <2>1. DOMAIN p = files /\ p \in Partial /\ \A f \in files : p[f] = disk[f]
    <3>1. p = [f \in files |-> disk[f]]
      BY DEF CapturePaths, PathsFromTool
    <3>2. p \in [files -> Texts]
      BY <1>0, <1>6, <3>1 DEF PfShape
    <3> QED
      BY <1>6, <3>1, <3>2 DEF Partial
  <2>2. records' = Append(records, [torn |-> FALSE, files |-> p]) /\ spot' = Append(spot, [disk |-> disk, loose |-> {}])
    BY <1>8 DEF Begin, recordCheckpoint
  <2> HIDE DEF p
  <2>3. Grows(files)
    BY <1>0, <2>1, <2>2, RecordAdded
  <2>4. Undoable'
    BY <1>0, <1>2, <2>3, UndoGrows
  <2>5. Captured'
    BY <1>0, <1>3, <1>4, <1>8, <2>3 DEF Captured, Grows, PfShape
  <2> QED
    BY <1>0, <1>2, <1>4, <1>5, <2>3, <2>4, <2>5 DEF PfInductive, PfShape, Grows
<1> QED
  BY <1>7, <1>8

LEMMA CrashStep ==
  ASSUME PfInductive, CrashInPatch
  PROVE  PfInductive'
<1>0. PfShape /\ Calls /\ Captured /\ Undoable
  BY DEF PfInductive
<1>1. disk' = disk /\ \A a \in Agents : edit'[a] = NoEdit
  BY DEF CrashInPatch
<1>2. edit' \in [Agents -> EditSet] /\ Calls' /\ Captured'
  <2>1. edit' \in [Agents -> EditSet]
    BY NoEditIn DEF CrashInPatch
  <2>2. Calls'
    BY <1>1, NoEditIn DEF Calls
  <2>3. "main" \in Agents
    BY DEF Agents
  <2> QED
    BY <1>1, <2>1, <2>2, <2>3, NoEditIn DEF Captured
<1>3. CASE records' = records /\ spot' = spot
  <2>1. Undoable'
    BY <1>0, <1>1, <1>3 DEF Undoable, Undoes, Saved
  <2> QED
    BY <1>0, <1>1, <1>2, <1>3, <2>1 DEF PfInductive, PfShape
<1>4. CASE ~(records' = records /\ spot' = spot)
  <2>1. records' = Append(records, [torn |-> TRUE, files |-> <<>>]) /\ spot' = Append(spot, [disk |-> disk, loose |-> {}])
    BY <1>4 DEF CrashInPatch
  <2>2. <<>> \in Partial /\ DOMAIN <<>> = {} /\ TRUE \in BOOLEAN
    BY NothingIn
  <2>3. Grows({})
    BY <1>0, <2>1, <2>2, RecordAdded
  <2>4. Undoable'
    BY <1>0, <1>1, <2>3, UndoGrows
  <2> QED
    BY <1>0, <1>1, <1>2, <2>3, <2>4 DEF PfInductive, PfShape, Grows
<1> QED
  BY <1>3, <1>4

\* A write of the user, or of a rewind to the record from: it loosens the later records.
LEMMA OutsideStep ==
  ASSUME PfInductive, NEW files \in SUBSET Files, NEW from \in 0 .. Len(records), Others(files),
         edit' = Overwritten("user", files), records' = records, Loosens(files, from),
         from > 0 => files = DOMAIN records[from].files
  PROVE  PfInductive'
<1>0. PfShape /\ Calls /\ Captured /\ Undoable /\ Len(records) \in Nat
  BY DEF PfInductive, PfShape
<1>1. edit' \in [Agents -> EditSet] /\ \A a \in Agents : Learns(a, files)
  <2>1. \A a \in Agents : a # "user"
    BY DEF Agents
  <2> QED
    BY <1>0, <2>1, OverwrittenLearns
<1>2. \A a \in Agents : /\ Backed(edit'[a]) /\ Restores(edit'[a], disk')
                        /\ edit'[a].pc = edit[a].pc /\ Taken(edit'[a]) = Taken(edit[a])
  BY <1>0, <1>1, LearnsKeeps DEF Calls
<1>3. Calls' /\ Captured'
  <2>1. "main" \in Agents
    BY DEF Agents
  <2> QED
    BY <1>0, <1>2, <2>1 DEF Calls, Captured
<1>4. \A n \in 1 .. Len(records) :
        /\ spot'[n].disk = spot[n].disk /\ spot[n].loose \subseteq spot'[n].loose
        /\ \A f \in files : f \in spot'[n].loose \/ Saved(n, f) # {}
  <2> SUFFICES ASSUME NEW n \in 1 .. Len(records)
               PROVE  /\ spot'[n].disk = spot[n].disk /\ spot[n].loose \subseteq spot'[n].loose
                      /\ \A f \in files : f \in spot'[n].loose \/ Saved(n, f) # {}
    OBVIOUS
  <2>1. n \in 1 .. Len(spot)
    BY <1>0 DEF PfShape
  <2>2. CASE n > from
    BY <2>1, <2>2 DEF Loosens
  <2>3. CASE ~(n > from)
    <3>1. from \in n .. Len(records) /\ from > 0
      BY <1>0, <2>3
    <3> QED
      BY <2>1, <2>3, <3>1 DEF Loosens, Saved
  <2> QED
    BY <2>2, <2>3
<1>5. Undoable'
  BY <1>0, <1>4, UndoKept DEF Others
<1> QED
  BY <1>0, <1>1, <1>3, <1>5 DEF PfInductive, PfShape, Others, Loosens

LEMMA UserStep ==
  ASSUME PfInductive, NEW f \in Files, UserEdit(f)
  PROVE  PfInductive'
<1>1. Others({f}) /\ records' = records /\ edit' = Overwritten("user", {f}) /\ PfShape
  BY DEF UserEdit, Others, PfInductive, PfShape, Texts, Contents
<1>2. Loosens({f}, 0)
  <2>1. spot' = [i \in DOMAIN spot |-> [spot[i] EXCEPT !.loose = @ \cup {f}]]
    BY DEF UserEdit, Loosened
  <2>2. \A i \in DOMAIN spot : i > 0
    BY <1>1 DEF PfShape
  <2>3. spot' = [i \in DOMAIN spot |-> IF i > 0 THEN [spot[i] EXCEPT !.loose = @ \cup {f}] ELSE spot[i]]
    BY <2>1, <2>2
  <2> QED
    BY <1>1, <2>3, LoosenedLoosens
<1> DEFINE files == {f}
<1>3. files \in SUBSET Files /\ Others(files) /\ edit' = Overwritten("user", files) /\ Loosens(files, 0)
  BY <1>1, <1>2
<1>4. 0 \in 0 .. Len(records) /\ (0 > 0 => files = DOMAIN records[0].files)
  BY <1>1 DEF PfShape
<1> HIDE DEF files
<1> QED
  BY <1>1, <1>3, <1>4, OutsideStep

LEMMA RewindStep ==
  ASSUME PfInductive, NEW id \in 1 .. Len(records), Rewind(id)
  PROVE  PfInductive'
<1> DEFINE files == DOMAIN records[id].files
<1>0. PfShape
  BY DEF PfInductive
<1>1. files \subseteq Files /\ \A f \in files : records[id].files[f] \in Texts
  <2>1. records[id] \in RecordSet
    BY <1>0 DEF PfShape
  <2> QED
    BY <2>1, PartialFacts DEF RecordSet
<1>2. /\ disk' = [f \in Files |-> IF f \in files THEN records[id].files[f] ELSE disk[f]]
      /\ edit' = Overwritten("user", files) /\ records' = records
      /\ spot' = [i \in DOMAIN spot |-> IF id < i THEN [spot[i] EXCEPT !.loose = @ \cup files] ELSE spot[i]]
  BY DEF Rewind
<1>3. Others(files)
  BY <1>0, <1>1, <1>2 DEF Others, PfShape
<1>4. Loosens(files, id)
  <2>1. \A i \in DOMAIN spot : id < i <=> i > id
    BY <1>0 DEF PfShape
  <2>2. spot' = [i \in DOMAIN spot |-> IF i > id THEN [spot[i] EXCEPT !.loose = @ \cup files] ELSE spot[i]]
    BY <1>2, <2>1
  <2>3. id \in Nat
    BY <1>0 DEF PfShape
  <2> QED
    BY <1>0, <1>1, <2>2, <2>3, LoosenedLoosens
<1>5. id \in 0 .. Len(records)
  BY <1>0 DEF PfShape
<1> HIDE DEF files
<1>6. id > 0 => files = DOMAIN records[id].files
  BY DEF files
<1> QED
  BY <1>1, <1>2, <1>3, <1>4, <1>5, <1>6, OutsideStep

LEMMA PfInits == PfInit => PfInductive
<1> SUFFICES ASSUME PfInit PROVE PfInductive
  OBVIOUS
<1>1. PfShape
  BY NoEditIn DEF PfInit, PfShape, Texts
<1>2. Calls
  BY NoEditIn DEF PfInit, Calls
<1>3. "main" \in Agents
  BY DEF Agents
<1>4. Captured /\ Undoable
  BY <1>3, NoEditIn DEF PfInit, Captured, Undoable
<1> QED
  BY <1>1, <1>2, <1>4 DEF PfInductive

LEMMA PfSteps == PfInductive /\ [PfNext]_pfVars => PfInductive'
<1> SUFFICES ASSUME PfInductive, [PfNext]_pfVars PROVE PfInductive'
  OBVIOUS
<1>1. ASSUME NEW agent \in Agents, NEW names \in {s \in SeqOf(Names, MaxNames[agent]) : s # <<>> /\ IsInjective(s)},
             BeginPatch(agent, names)
      PROVE  PfInductive'
  <2>1. names \in Seq(Names) /\ names # <<>>
    <3>1. names \in SeqOf(Names, MaxNames[agent]) /\ names # <<>>
      OBVIOUS
    <3>2. MaxNames[agent] \in Nat
      OBVIOUS
    <3> QED
      BY <3>1, <3>2 DEF SeqOf
  <2> QED
    BY <1>1, <2>1, BeginStep DEF BeginPatch
<1>2. ASSUME NEW agent \in Agents, NEW name \in Names, BeginWrite(agent, name) PROVE PfInductive'
  <2>1. <<name>> \in Seq(Names) /\ <<name>> # <<>>
    OBVIOUS
  <2> QED
    BY <1>2, <2>1, BeginStep DEF BeginWrite
<1>3. CASE UNCHANGED pfVars
  BY <1>3 DEF pfVars, PfInductive, PfShape, Calls, Captured, Undoable, Undoes, Saved
<1> QED
  BY <1>1, <1>2, <1>3, PatchStep, EndStep, UserStep, CrashStep, RewindStep DEF PfNext

\* The records of the checkpoints (recordCheckpoint, ApplyRewind): undoing them from the newest back
\* gives each file the text of that time, for any files, calls, failures and crashes, unless it was
\* written since by something that makes no record.
THEOREM UndoHolds == PfSpec => []UndoInv
<1>1. PfInductive => UndoInv
  <2> SUFFICES ASSUME PfInductive PROVE UndoInv
    OBVIOUS
  <2>1. PfTypeOK
    BY DEF PfInductive, PfShape, Calls, Backed, PfTypeOK, EditSet, Texts
  <2>2. UndoComplete
    <3> SUFFICES ASSUME NEW n \in DOMAIN records, NEW f \in Files \ spot[n].loose
                 PROVE  (IF Saved(n, f) = {} THEN disk[f]
                         ELSE records[CHOOSE k \in Saved(n, f) : \A j \in Saved(n, f) : k <= j].files[f]) = spot[n].disk[f]
      BY DEF UndoComplete, Saved
    <3>1. Undoes(n, f)
      BY DEF PfInductive, Undoable
    <3>2. ASSUME Saved(n, f) # {}
          PROVE  records[CHOOSE k \in Saved(n, f) : \A j \in Saved(n, f) : k <= j].files[f] = spot[n].disk[f]
      <4>1. PICK k \in Saved(n, f) : (\A j \in Saved(n, f) : k <= j) /\ records[k].files[f] = spot[n].disk[f]
        BY <3>1, <3>2 DEF Undoes
      <4> DEFINE first == CHOOSE i \in Saved(n, f) : \A j \in Saved(n, f) : i <= j
      <4>2. first \in Saved(n, f) /\ \A j \in Saved(n, f) : first <= j
        BY <4>1
      <4>3. Saved(n, f) \subseteq Int
        BY DEF Saved, PfInductive, PfShape
      <4>4. first = k
        BY <4>1, <4>2, <4>3
      <4> QED
        BY <4>1, <4>4
    <3> QED
      BY <3>1, <3>2 DEF Undoes
  <2> QED
    BY <2>1, <2>2 DEF UndoInv
<1> QED
  BY <1>1, PfInits, PfSteps, PTL DEF PfSpec

\* A patch that fails leaves every file as it was before it, but for the three ways in which the code
\* does not (Rollback, backup): an empty file, a write cut short, a file with two names.
THEOREM PatchTakenBack == PfSpec => [][PatchRollsBack]_pfVars
<1>1. PfInductive => PatchRollsBack
  <2> SUFFICES ASSUME PfInductive, NEW a \in Agents, Rollback(a), NEW f \in Files \ edit[a].foreign
               PROVE  disk'[f] = edit[a].before[f] \/ \E why \in {"empty", "torn", "twice"} : <<f, why>> \in edit[a].excused
    BY DEF PatchRollsBack
  <2>1. /\ f \notin ToSet(edit[a].written) => disk[f] = edit[a].before[f] \/ <<f, "torn">> \in edit[a].excused
        /\ f \in DOMAIN edit[a].backups =>
             edit[a].backups[f] = edit[a].before[f]
             \/ <<f, "empty">> \in edit[a].excused \/ <<f, "twice">> \in edit[a].excused
    <3>1. Restores(edit[a], disk) /\ edit[a].pc = "rollback"
      BY DEF PfInductive, Calls, Rollback
    <3> QED
      BY <3>1 DEF Restores
  <2>2. disk'[f] = IF f \in ToSet(edit[a].written) THEN edit[a].backups[f] ELSE disk[f]
    BY DEF Rollback, Change
  <2>3. ToSet(edit[a].written) \subseteq DOMAIN edit[a].backups
    BY DEF PfInductive, Calls, Backed
  <2> QED
    BY <2>1, <2>2, <2>3
<1> QED
  BY <1>1, PfInits, PfSteps, PTL DEF PfSpec
=============================================================================
