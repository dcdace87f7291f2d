----------------------------- MODULE RangesProofs -----------------------------
(***************************************************************************)
(* What the definitions of KeyOrder and DCPRanges compute, for every list  *)
(* of ranges, and how numbers fall into classes: lemmas that the proofs    *)
(* about the datasets, the algorithms, the loads and the reader of a       *)
(* checkpoint share.                                                       *)
(***************************************************************************)
EXTENDS DCPRanges, FiniteSetTheorems, FunctionTheorems, SequenceTheorems,
        WellFoundedInduction, TLAPS

-----------------------------------------------------------------------------
(* Induction, and loops as recursive functions.                            *)

(* Every non-empty set of naturals has a least element: the form of        *)
(* induction the proofs use.                                               *)
LEMMA LeastNat ==
  ASSUME NEW T \in SUBSET Nat, T # {}
  PROVE  \E x \in T : \A y \in T : x <= y
<1> DEFINE R == {ss \in Nat \X Nat : ss[1] < ss[2]}
<1>1. IsWellFoundedOn(R, Nat)
  BY NatLessThanWellFounded, Zenon DEF OpToRel
<1>2. PICK x \in T : \A y \in T : <<y, x>> \notin R
  <2> HIDE DEF R
  <2> QED BY <1>1, WFMin
<1>3. \A y \in T : x <= y
  <2> TAKE y \in T
  <2>1. <<y, x>> \in Nat \X Nat /\ <<y, x>> \notin R
    BY <1>2
  <2>2. ~(<<y, x>>[1] < <<y, x>>[2])
    BY <2>1
  <2> QED BY <2>2
<1> QED BY <1>3

(* A loop over the positions 1..n, whose step never leaves S, has values:  *)
(* what the recursive function of a loop must satisfy can be satisfied.    *)
IsLoop(f, n, base, step) ==
  f[1] = base /\ \A i \in 2..n : f[i] = step[<<i, f[i-1]>>]

LEMMA LoopHasValues ==
  ASSUME NEW n \in Nat \ {0}, NEW S, NEW base \in S, NEW step \in [(2..n) \X S -> S]
  PROVE  \E f \in [1..n -> S] : IsLoop(f, n, base, step)
<1> DEFINE Values(m, f) == f[1] = base /\ \A i \in 2..m : f[i] = step[<<i, f[i-1]>>]
           Bad == {m \in 1..n : ~\E f \in [1..m -> S] : Values(m, f)}
<1> SUFFICES ASSUME Bad # {} PROVE FALSE
  <2>1. n \in 1..n
    OBVIOUS
  <2>2. \E f \in [1..n -> S] : Values(n, f)
    BY <2>1
  <2> QED
    BY <2>2 DEF IsLoop
<1>1. PICK m \in Bad : \A k \in Bad : m <= k
  <2>1. Bad \in SUBSET Nat
    OBVIOUS
  <2> HIDE DEF Bad
  <2> QED
    BY <2>1, LeastNat
<1>2. m \in 1..n /\ ~\E f \in [1..m -> S] : Values(m, f)
  BY <1>1
<1>3. CASE m = 1
  <2> DEFINE f == [i \in 1..m |-> base]
  <2>1. f \in [1..m -> S] /\ f[1] = base /\ 2..m = {}
    BY <1>3
  <2> QED
    BY <1>2, <2>1
<1>4. CASE m # 1
  <2>1. m - 1 \in 1..n /\ m \in 2..n /\ ~(m <= m - 1)
    BY <1>2, <1>4
  <2>2. m - 1 \notin Bad
    BY <1>1, <2>1
  <2>3. PICK g \in [1..(m-1) -> S] : Values(m - 1, g)
    BY <2>1, <2>2
  <2> DEFINE f == [i \in 1..m |-> IF i = m THEN step[<<m, g[m-1]>>] ELSE g[i]]
  <2>4. g[m-1] \in S /\ step[<<m, g[m-1]>>] \in S
    <3>1. g[m-1] \in S
      BY <2>1
    <3>2. <<m, g[m-1]>> \in (2..n) \X S
      BY <2>1, <3>1
    <3> QED
      BY <3>1, <3>2
  <2>5. f \in [1..m -> S]
    <3> SUFFICES ASSUME NEW i \in 1..m, i # m PROVE g[i] \in S
      BY <2>4
    <3>1. i \in 1..(m-1)
      BY <2>1
    <3> QED
      BY <3>1
  <2>6. \A i \in 1..(m-1) : f[i] = g[i] /\ i \in 1..m
    BY <2>1
  <2>7. f[m] = step[<<m, g[m-1]>>]
    BY <1>2
  <2> HIDE DEF f
  <2>8. f[1] = base
    BY <2>1, <2>3, <2>6
  <2>9. ASSUME NEW i \in 2..m
        PROVE  f[i] = step[<<i, f[i-1]>>]
    <3>1. i - 1 \in 1..(m-1)
      BY <2>1
    <3>2. f[i-1] = g[i-1]
      BY <2>6, <3>1
    <3>3. CASE i = m
      BY <2>7, <3>2, <3>3
    <3>4. CASE i # m
      <4>1. i \in 2..(m-1) /\ i \in 1..(m-1)
        BY <2>1, <3>4
      <4>2. g[i] = step[<<i, g[i-1]>>]
        BY <2>3, <4>1
      <4> QED
        BY <2>6, <3>2, <4>1, <4>2
    <3> QED
      BY <3>3, <3>4
  <2> QED
    BY <1>2, <2>5, <2>8, <2>9
<1> QED
  BY <1>3, <1>4

-----------------------------------------------------------------------------
(* Order.                                                                  *)

(* A finite set that R orders strictly can be written down in that order.  *)
LEMMA OrderedList ==
  ASSUME NEW S, IsFiniteSet(S), NEW R,
         \A x \in S : <<x, x>> \notin R,
         \A x, y, z \in S : <<x, y>> \in R /\ <<y, z>> \in R => <<x, z>> \in R,
         \A x, y \in S : x # y => <<x, y>> \in R \/ <<y, x>> \in R
  PROVE  \E s \in [1..Cardinality(S) -> S] :
           \A i, j \in 1..Cardinality(S) : i < j => <<s[i], s[j]>> \in R
<1> DEFINE n == Cardinality(S)
           UpTo(x) == {y \in S : y = x \/ <<y, x>> \in R}
           rank == [x \in S |-> Cardinality(UpTo(x))]
<1>1. n \in Nat /\ IsFiniteSet(1..n) /\ Cardinality(1..n) = n
  BY FS_CardinalityType, FS_Interval
<1>2. ASSUME NEW x \in S
      PROVE  IsFiniteSet(UpTo(x)) /\ Cardinality(UpTo(x)) \in 1..n
  <2>1. IsFiniteSet(UpTo(x)) /\ Cardinality(UpTo(x)) <= n
    BY FS_Subset
  <2>2. x \in UpTo(x)
    OBVIOUS
  <2>3. Cardinality(UpTo(x)) # 0
    BY <2>1, <2>2, FS_EmptySet
  <2>4. Cardinality(UpTo(x)) \in Nat
    BY <2>1, FS_CardinalityType
  <2> QED
    BY <1>1, <2>1, <2>3, <2>4
<1>3. ASSUME NEW x \in S, NEW y \in S, <<x, y>> \in R
      PROVE  rank[x] < rank[y]
  <2>1. UpTo(x) \in SUBSET UpTo(y) /\ y \in UpTo(y) /\ y \notin UpTo(x)
    <3>1. <<y, x>> \notin R /\ x # y
      BY <1>3
    <3>2. \A z \in UpTo(x) : z \in UpTo(y)
      BY <1>3
    <3> QED
      BY <3>1, <3>2
  <2>2. IsFiniteSet(UpTo(y))
    BY <1>2
  <2>3. Cardinality(UpTo(x)) \in 1..n /\ Cardinality(UpTo(y)) \in 1..n
    BY <1>2
  <2>4. rank[x] = Cardinality(UpTo(x)) /\ rank[y] = Cardinality(UpTo(y))
    OBVIOUS
  <2> HIDE DEF UpTo, rank
  <2>5. Cardinality(UpTo(x)) <= Cardinality(UpTo(y))
        /\ Cardinality(UpTo(x)) # Cardinality(UpTo(y))
    BY <2>1, <2>2, FS_Subset
  <2> QED
    BY <1>1, <2>3, <2>4, <2>5
<1>4. rank \in [S -> 1..n]
  BY <1>2
<1> HIDE DEF n, rank
<1>5. \A x, y \in S : rank[x] = rank[y] => x = y
  <2> SUFFICES ASSUME NEW x \in S, NEW y \in S, rank[x] = rank[y], x # y PROVE FALSE
    OBVIOUS
  <2>1. rank[x] < rank[y] \/ rank[y] < rank[x]
    BY <1>3
  <2> QED
    BY <1>1, <1>4, <2>1
<1>6. rank \in Surjection(S, 1..n)
  <2>1. rank \in Injection(S, 1..n)
    BY <1>4, <1>5, Fun_IsInj
  <2> QED
    BY <1>1, <2>1, FS_Injection DEF n
<1>7. \A i \in 1..n : \E x \in S : rank[x] = i
  BY <1>6, Fun_SurjectionProperties
<1> DEFINE s == [i \in 1..n |-> CHOOSE x \in S : rank[x] = i]
<1>8. \A i \in 1..n : s[i] \in S /\ rank[s[i]] = i
  BY <1>7
<1>9. s \in [1..n -> S]
  BY <1>8
<1> HIDE DEF s
<1>10. ASSUME NEW i \in 1..n, NEW j \in 1..n, i < j
       PROVE  <<s[i], s[j]>> \in R
  <2>1. s[i] \in S /\ s[j] \in S /\ rank[s[i]] = i /\ rank[s[j]] = j
    BY <1>8
  <2>2. s[i] # s[j]
    BY <1>10, <2>1
  <2>3. <<s[j], s[i]>> \notin R
    <3> SUFFICES ASSUME <<s[j], s[i]>> \in R PROVE FALSE
      OBVIOUS
    <3>1. rank[s[j]] < rank[s[i]]
      BY <1>3, <2>1
    <3> QED
      BY <1>1, <1>10, <2>1, <3>1
  <2> QED
    BY <2>1, <2>2, <2>3
<1> QED
  BY <1>9, <1>10 DEF n

(* A list without duplicates of as many elements of a finite set as it has *)
(* is a list of them all.                                                  *)
LEMMA ListIsOnto ==
  ASSUME NEW S, IsFiniteSet(S), NEW s \in [1..Cardinality(S) -> S],
         \A i, j \in 1..Cardinality(S) : i < j => s[i] # s[j]
  PROVE  \A x \in S : \E i \in 1..Cardinality(S) : s[i] = x
<1> DEFINE n == Cardinality(S)
<1>1. n \in Nat /\ IsFiniteSet(1..n) /\ Cardinality(1..n) = n
  BY FS_CardinalityType, FS_Interval
<1> HIDE DEF n
<1>2. \A i, j \in 1..n : s[i] = s[j] => i = j
  <2> SUFFICES ASSUME NEW i \in 1..n, NEW j \in 1..n, s[i] = s[j], i # j
               PROVE  FALSE
    OBVIOUS
  <2>1. i < j \/ j < i
    BY <1>1
  <2> QED
    BY <2>1 DEF n
<1>3. s \in Injection(1..n, S)
  BY <1>2, Fun_IsInj DEF n
<1>4. s \in Surjection(1..n, S)
  BY <1>1, <1>3, FS_Injection DEF n
<1> QED
  BY <1>4 DEF Surjection, n

(* Listed lists.                                                           *)
LEMMA ListedFacts ==
  ASSUME NEW S, S \subseteq Nat, IsFiniteSet(S)
  PROVE  /\ Cardinality(S) \in Nat /\ Listed(S) \in [1..Cardinality(S) -> S]
         /\ \A i, j \in 1..Cardinality(S) : i < j => Listed(S)[i] < Listed(S)[j]
         /\ \A x \in S : \E i \in 1..Cardinality(S) : Listed(S)[i] = x
<1> DEFINE n == Cardinality(S)
           R == {p \in S \X S : p[1] < p[2]}
           InOrder(s) == \A i, j \in 1..n : i < j => s[i] < s[j]
<1>0. n \in Nat /\ \A x \in S : x \in Nat
  BY FS_CardinalityType
<1>1. \A x, y \in S : <<x, y>> \in R <=> x < y
  OBVIOUS
<1> HIDE DEF R
<1>2. /\ \A x \in S : <<x, x>> \notin R
      /\ \A x, y, z \in S : <<x, y>> \in R /\ <<y, z>> \in R => <<x, z>> \in R
      /\ \A x, y \in S : x # y => <<x, y>> \in R \/ <<y, x>> \in R
  BY <1>0, <1>1
<1>3. PICK s \in [1..n -> S] : \A i, j \in 1..n : i < j => <<s[i], s[j]>> \in R
  <2> HIDE DEF n
  <2> QED
    BY <1>2, OrderedList DEF n
<1>4. InOrder(s)
  <2> SUFFICES ASSUME NEW i \in 1..n, NEW j \in 1..n, i < j PROVE s[i] < s[j]
    OBVIOUS
  <2>1. s[i] \in S /\ s[j] \in S
    OBVIOUS
  <2> QED
    BY <1>1, <1>3, <2>1
<1>5. Listed(S) = CHOOSE t \in [1..n -> S] : InOrder(t)
  BY DEF Listed
<1>6. Listed(S) \in [1..n -> S] /\ InOrder(Listed(S))
  <2> HIDE DEF InOrder, n
  <2> QED
    BY <1>4, <1>5
<1>7. ASSUME NEW i \in 1..n, NEW j \in 1..n, i < j
      PROVE  Listed(S)[i] # Listed(S)[j]
  <2>1. Listed(S)[i] < Listed(S)[j] /\ Listed(S)[i] \in S /\ Listed(S)[j] \in S
    BY <1>6, <1>7
  <2>2. Listed(S)[i] \in Nat
    BY <1>0, <2>1
  <2> QED
    BY <2>1, <2>2
<1>8. \A x \in S : \E i \in 1..n : Listed(S)[i] = x
  <2> HIDE DEF n
  <2> QED
    BY <1>6, <1>7, ListIsOnto DEF n
<1> QED
  BY <1>0, <1>6, <1>8

(* A strictly increasing list of n numbers up to n counts.                 *)
LEMMA IncreasingCounts ==
  ASSUME NEW n \in Nat, NEW at \in [1..n -> 1..n],
         \A i, j \in 1..n : i < j => at[i] < at[j]
  PROVE  \A k \in 1..n : at[k] = k
<1>1. ASSUME NEW m \in 1..n, at[m] < m PROVE FALSE
  <2> DEFINE Low == {k \in 1..n : at[k] < k}
  <2>1. Low \in SUBSET Nat /\ Low # {}
    BY <1>1
  <2>2. PICK k \in Low : \A y \in Low : k <= y
    <3> HIDE DEF Low
    <3> QED
      BY <2>1, LeastNat
  <2>3. k \in 1..n /\ at[k] < k /\ at[k] \in 1..n
    BY <2>2
  <2>4. k - 1 \in 1..n /\ ~(k <= k - 1) /\ k - 1 < k
    BY <2>3
  <2>5. at[k-1] < at[k] /\ at[k-1] \in 1..n
    BY <2>3, <2>4
  <2>6. k - 1 \notin Low
    BY <2>2, <2>4
  <2> QED
    BY <2>3, <2>4, <2>5, <2>6
<1>2. ASSUME NEW m \in 1..n, at[m] > m PROVE FALSE
  <2> DEFINE High == {d \in 0..n : n - d \in 1..n /\ at[n-d] > n - d}
  <2>1. High \in SUBSET Nat /\ High # {}
    <3>1. n - m \in 0..n /\ n - (n - m) = m
      OBVIOUS
    <3> DEFINE d == n - m
    <3>2. d \in 0..n /\ n - d = m
      BY <3>1
    <3> HIDE DEF d
    <3>3. d \in High
      BY <1>2, <3>2
    <3>4. High \in SUBSET Nat
      OBVIOUS
    <3> HIDE DEF High
    <3> QED
      BY <3>3, <3>4
  <2>2. PICK d \in High : \A y \in High : d <= y
    <3> HIDE DEF High
    <3> QED
      BY <2>1, LeastNat
  <2> DEFINE k == n - d
  <2>3. k \in 1..n /\ at[k] > k /\ at[k] \in 1..n /\ d \in 0..n
    BY <2>2
  <2>4. k + 1 \in 1..n /\ d - 1 \in 0..n /\ n - (d - 1) = k + 1 /\ ~(d <= d - 1)
    BY <2>3
  <2>5. d - 1 \notin High
    BY <2>2, <2>4
  <2>6. ~(at[k+1] > k + 1)
    <3>1. n - (d - 1) \in 1..n
      BY <2>4
    <3>2. ~(at[n - (d - 1)] > n - (d - 1))
      BY <2>4, <2>5, <3>1
    <3> QED
      BY <2>4, <3>2
  <2>7. at[k] < at[k+1] /\ at[k+1] \in 1..n
    <3>1. k < k + 1
      BY <2>3
    <3> QED
      BY <2>3, <2>4, <3>1
  <2> HIDE DEF k
  <2> QED
    BY <2>3, <2>6, <2>7
<1> SUFFICES ASSUME NEW k \in 1..n PROVE at[k] = k
  OBVIOUS
<1>3. at[k] \in 1..n
  OBVIOUS
<1> QED
  BY <1>1, <1>2, <1>3

(* u has the elements of s at the positions of I, in their order.          *)
Selects(u, s, I) ==
  /\ Len(u) = Cardinality(I) /\ Cardinality(I) \in Nat
  /\ \E at \in [1..Cardinality(I) -> I] :
       /\ \A j, k \in 1..Cardinality(I) : j < k => at[j] < at[k]
       /\ \A i \in I : \E k \in 1..Cardinality(I) : at[k] = i
       /\ \A k \in 1..Cardinality(I) : u[k] = s[at[k]]

LEMMA SubsequenceFacts ==
  ASSUME NEW T, NEW s \in Seq(T), NEW I \in SUBSET (1..Len(s))
  PROVE  Subsequence(s, I) \in Seq(T) /\ Selects(Subsequence(s, I), s, I)
<1> DEFINE n == Cardinality(I)
           at == Listed(I)
<1>1. IsFiniteSet(I) /\ I \subseteq Nat
  <2>1. Len(s) \in Nat
    OBVIOUS
  <2>2. IsFiniteSet(1..Len(s))
    BY <2>1, FS_Interval
  <2>3. IsFiniteSet(I)
    BY <2>2, FS_Subset
  <2> QED
    BY <2>1, <2>3
<1>2. /\ n \in Nat /\ at \in [1..n -> I]
      /\ \A j, k \in 1..n : j < k => at[j] < at[k]
      /\ \A i \in I : \E k \in 1..n : at[k] = i
  BY <1>1, ListedFacts
<1>3. Subsequence(s, I) = [k \in 1..n |-> s[at[k]]]
  BY DEF Subsequence
<1> HIDE DEF at, n
<1>4. \A k \in 1..n : s[at[k]] \in T
  <2> SUFFICES ASSUME NEW k \in 1..n PROVE s[at[k]] \in T
    OBVIOUS
  <2>1. at[k] \in 1..Len(s)
    BY <1>2
  <2> QED
    BY <2>1, ElementOfSeq
<1>5. Subsequence(s, I) \in Seq(T) /\ Len(Subsequence(s, I)) = n
  BY <1>2, <1>3, <1>4
<1>6. \A k \in 1..n : Subsequence(s, I)[k] = s[at[k]]
  BY <1>3
<1> QED
  BY <1>2, <1>5, <1>6 DEF Selects, n

LEMMA SubsequenceOfAll ==
  ASSUME NEW T, NEW s \in Seq(T)
  PROVE  Subsequence(s, 1..Len(s)) = s
<1> DEFINE I == 1..Len(s)
           n == Cardinality(I)
           u == Subsequence(s, I)
<1>1. Len(s) \in Nat /\ n = Len(s)
  <2>1. Len(s) \in Nat
    OBVIOUS
  <2>2. Cardinality(1..Len(s)) = IF 1 > Len(s) THEN 0 ELSE Len(s) - 1 + 1
    BY <2>1, FS_Interval
  <2> QED
    BY <2>1, <2>2
<1>2. I \in SUBSET (1..Len(s)) /\ I = 1..Len(s)
  OBVIOUS
<1> HIDE DEF I
<1>3. u \in Seq(T) /\ Selects(u, s, I)
  BY <1>2, SubsequenceFacts
<1>4. PICK at \in [1..n -> I] :
        /\ \A j, k \in 1..n : j < k => at[j] < at[k]
        /\ \A k \in 1..n : u[k] = s[at[k]]
  BY <1>3 DEF Selects
<1> HIDE DEF n, u
<1>5. \A k \in 1..Len(s) : at[k] = k
  BY <1>1, <1>2, <1>4, IncreasingCounts
<1>6. \A k \in 1..Len(s) : u[k] = s[k]
  BY <1>1, <1>4, <1>5
<1>7. u = s
  <2>1. Len(u) = n
    BY <1>3 DEF Selects, n
  <2> QED
    BY <1>1, <1>3, <1>6, <2>1, SeqEqual
<1> QED
  BY <1>2, <1>7 DEF u

-----------------------------------------------------------------------------
(* Ranges.                                                                 *)

ByteRanges == [start : Int, end : Int]

(* What the constructor keeps is not empty, and all of it if nothing is.   *)
LEMMA NonEmptyFacts ==
  ASSUME NEW r \in Seq(ByteRanges)
  PROVE  /\ NonEmptyRanges(r) \in Seq(ByteRanges)
         /\ \A k \in 1..Len(NonEmptyRanges(r)) :
              NonEmptyRanges(r)[k].end # NonEmptyRanges(r)[k].start
         /\ (\A i \in 1..Len(r) : r[i].end # r[i].start) => NonEmptyRanges(r) = r
<1> DEFINE I == {i \in 1..Len(r) : r[i].end # r[i].start}
           s == NonEmptyRanges(r)
<1>1. s = Subsequence(r, I) /\ I \in SUBSET (1..Len(r))
  BY DEF NonEmptyRanges
<1>2. (\A i \in 1..Len(r) : r[i].end # r[i].start) => I = 1..Len(r)
  OBVIOUS
<1>3. \A i \in I : r[i].end # r[i].start
  OBVIOUS
<1> HIDE DEF I, s
<1>4. s \in Seq(ByteRanges) /\ Selects(s, r, I)
  BY <1>1, SubsequenceFacts
<1>5. \A k \in 1..Len(s) : s[k].end # s[k].start
  BY <1>3, <1>4 DEF Selects
<1>6. I = 1..Len(r) => s = r
  BY <1>1, SubsequenceOfAll
<1> QED
  BY <1>2, <1>4, <1>5, <1>6 DEF s

(* Sorted and not overlapping: every range ends before those after it.     *)
InOrder(r) ==
  /\ \A i \in 1..Len(r) : 0 <= r[i].start /\ r[i].start < r[i].end
  /\ \A i, j \in 1..Len(r) : i < j => r[i].end <= r[j].start

(* The comparison of neighbours in _validate_and_coalesce_ranges orders    *)
(* all of them.                                                            *)
LEMMA AcceptedInOrder ==
  ASSUME NEW r \in Seq(ByteRanges), Accepted(r), r[1].end # r[1].start
  PROVE  Len(r) \in Nat \ {0} /\ InOrder(r)
<1> DEFINE n == Len(r)
<1>1. n \in Nat \ {0}
  BY DEF Accepted
<1>2. \A i \in 1..n : r[i].start \in Int /\ r[i].end \in Int
  <2> SUFFICES ASSUME NEW i \in 1..n PROVE r[i].start \in Int /\ r[i].end \in Int
    OBVIOUS
  <2>1. r[i] \in ByteRanges
    BY ElementOfSeq
  <2> QED
    BY <2>1 DEF ByteRanges
<1>3. /\ 0 <= r[1].start /\ r[1].start < r[1].end
      /\ \A i \in 2..n : r[i].start < r[i].end /\ r[i-1].end <= r[i].start
  BY <1>1, <1>2 DEF Accepted, FollowOk
<1> DEFINE Bad == {k \in 1..n : ~(/\ 0 <= r[k].start /\ r[k].start < r[k].end
                                 /\ \A i \in 1..(k-1) : r[i].end <= r[k].start)}
<1> HIDE DEF n
<1>4. Bad = {}
  <2> SUFFICES ASSUME Bad # {} PROVE FALSE
    OBVIOUS
  <2>1. PICK k \in Bad : \A y \in Bad : k <= y
    <3>1. Bad \in SUBSET Nat
      BY <1>1
    <3> HIDE DEF Bad
    <3> QED
      BY <3>1, LeastNat
  <2>2. k \in 1..n /\ k # 1
    BY <1>3, <2>1
  <2>3. k - 1 \in 1..n /\ k \in 2..n /\ ~(k <= k - 1)
    BY <1>1, <2>2
  <2>4. k - 1 \notin Bad
    BY <2>1, <2>3
  <2>5. /\ 0 <= r[k-1].start /\ r[k-1].start < r[k-1].end
        /\ \A i \in 1..(k-2) : r[i].end <= r[k-1].start
    BY <2>3, <2>4
  <2>6. r[k].start < r[k].end /\ r[k-1].end <= r[k].start
    BY <1>3, <2>3
  <2>7. 0 <= r[k].start
    BY <1>2, <2>3, <2>2, <2>5, <2>6
  <2>8. ASSUME NEW i \in 1..(k-1) PROVE r[i].end <= r[k].start
    <3>1. i \in 1..n /\ (i = k - 1 \/ i \in 1..(k-2))
      BY <1>1, <2>2
    <3> QED
      BY <1>2, <2>2, <2>3, <2>5, <2>6, <3>1
  <2> QED
    BY <2>1, <2>6, <2>7, <2>8
<1>5. ASSUME NEW i \in 1..n, NEW j \in 1..n, i < j
      PROVE  r[i].end <= r[j].start
  <2>1. i \in 1..(j-1) /\ j \notin Bad
    BY <1>1, <1>4, <1>5
  <2> QED
    BY <2>1
<1> QED
  BY <1>1, <1>4, <1>5 DEF InOrder, n

LEMMA RangeType ==
  ASSUME NEW r \in Seq(ByteRanges), NEW i \in 1..Len(r)
  PROVE  r[i] \in ByteRanges /\ r[i].start \in Int /\ r[i].end \in Int
<1>1. r[i] \in ByteRanges
  BY ElementOfSeq
<1> QED
  BY <1>1 DEF ByteRanges

(* The bytes of the streams up to the end of each range: what the range    *)
(* adds, with the gap before it when that is coalesced.                    *)
RunningTotal(T, r, gap) ==
  /\ T \in [1..Len(r) -> Int] /\ T[1] = Length(r[1])
  /\ \A i \in 2..Len(r) :
       T[i] = T[i-1] + IF FirstOfGroup(r, gap, i) THEN Length(r[i])
                       ELSE r[i].end - r[i-1].end

LEMMA StreamTotalFacts ==
  ASSUME NEW r \in Seq(ByteRanges), Len(r) # 0, NEW gap \in Int,
         \A i \in 1..Len(r) : r[i].end # r[i].start
  PROVE  \E T : RunningTotal(T, r, gap) /\ StreamTotal(r, gap) = T[Len(r)]
<1> DEFINE n == Len(r)
           Acc == [total : Int, start : Int, end : Int]
           base == [total |-> 0, start |-> r[1].start, end |-> r[1].end]
           Loop(g) == g = [i \in 1..n |-> IF i = 1 THEN base
                                         ELSE StreamTotalStep(g[i-1], r[i], gap)]
           after == CHOOSE g : Loop(g)
<1>1. n \in Nat \ {0} /\ NonEmptyRanges(r) = r /\ r # <<>>
  BY NonEmptyFacts
<1>2. StreamTotal(r, gap) = after[n].total + after[n].end - after[n].start
  BY <1>1 DEF StreamTotal
<1>3. \A i \in 1..n : r[i].start \in Int /\ r[i].end \in Int
  BY RangeType
<1>4. base \in Acc /\ \A i \in 1..n, a \in Acc : StreamTotalStep(a, r[i], gap) \in Acc
  <2>1. base \in Acc
    BY <1>1, <1>3
  <2>2. ASSUME NEW i \in 1..n, NEW a \in Acc
        PROVE  StreamTotalStep(a, r[i], gap) \in Acc
    BY <1>3 DEF StreamTotalStep
  <2> QED
    BY <2>1, <2>2
<1> HIDE DEF Acc, base, n
<1>5. \E g : Loop(g)
  <2> DEFINE step == [p \in (2..n) \X Acc |-> StreamTotalStep(p[2], r[p[1]], gap)]
  <2>1. step \in [(2..n) \X Acc -> Acc]
    <3>1. \A p \in (2..n) \X Acc : p[1] \in 1..n /\ p[2] \in Acc
      BY <1>1
    <3> QED
      BY <1>4, <3>1
  <2>2. \A i \in 2..n, a \in Acc : step[<<i, a>>] = StreamTotalStep(a, r[i], gap)
    OBVIOUS
  <2> HIDE DEF step
  <2>3. PICK f \in [1..n -> Acc] : f[1] = base /\ \A i \in 2..n : f[i] = step[<<i, f[i-1]>>]
    <3>1. \E f \in [1..n -> Acc] : IsLoop(f, n, base, step)
      BY <1>1, <1>4, <2>1, LoopHasValues
    <3> QED
      BY <3>1 DEF IsLoop
  <2>4. \A i \in 1..n : f[i] = IF i = 1 THEN base ELSE StreamTotalStep(f[i-1], r[i], gap)
    <3> SUFFICES ASSUME NEW i \in 1..n, i # 1
                 PROVE  f[i] = StreamTotalStep(f[i-1], r[i], gap)
      BY <2>3
    <3>1. i \in 2..n /\ i - 1 \in 1..n
      BY <1>1
    <3> QED
      BY <2>2, <2>3, <3>1
  <2> QED
    BY <2>4
<1>6. /\ after[1] = base /\ DOMAIN after = 1..n
      /\ \A i \in 2..n : after[i] = StreamTotalStep(after[i-1], r[i], gap)
  <2>1. Loop(after)
    <3> HIDE DEF Loop
    <3> QED
      BY <1>5
  <2> HIDE DEF after
  <2>2. after[1] = base /\ DOMAIN after = 1..n
    BY <1>1, <2>1
  <2>3. ASSUME NEW i \in 2..n PROVE after[i] = StreamTotalStep(after[i-1], r[i], gap)
    BY <1>1, <2>1
  <2> QED
    BY <2>2, <2>3
<1> HIDE DEF after
<1> DEFINE Good(i) == after[i] \in Acc /\ after[i].end = r[i].end
           Bad == {i \in 1..n : ~Good(i)}
<1>7. ASSUME NEW i \in 1..n PROVE Good(i)
  <2> SUFFICES ASSUME Bad # {} PROVE FALSE
    OBVIOUS
  <2>1. PICK k \in Bad : \A y \in Bad : k <= y
    <3>1. Bad \in SUBSET Nat
      BY <1>1
    <3> HIDE DEF Bad
    <3> QED
      BY <3>1, LeastNat
  <2>2. k # 1
    BY <1>4, <1>6, <2>1 DEF base
  <2>3. k - 1 \in 1..n /\ k \in 2..n /\ ~(k <= k - 1)
    BY <1>1, <2>1, <2>2
  <2>4. Good(k - 1)
    BY <2>1, <2>3
  <2>5. Good(k)
    <3>1. after[k] = StreamTotalStep(after[k-1], r[k], gap)
      BY <1>6, <2>3
    <3>2. after[k] \in Acc
      BY <1>4, <2>3, <2>4, <3>1
    <3>3. after[k].end = r[k].end
      BY <2>4, <3>1 DEF StreamTotalStep, Acc
    <3> QED
      BY <3>2, <3>3
  <2> QED
    BY <2>1, <2>5
<1> DEFINE T == [i \in 1..n |-> after[i].total + after[i].end - after[i].start]
<1>8. T \in [1..n -> Int]
  BY <1>7 DEF Acc
<1>9. T[1] = Length(r[1])
  BY <1>1, <1>3, <1>6 DEF base, Length
<1>10. ASSUME NEW i \in 2..n
       PROVE  T[i] = T[i-1] + IF FirstOfGroup(r, gap, i) THEN Length(r[i])
                              ELSE r[i].end - r[i-1].end
  <2>1. i \in 1..n /\ i - 1 \in 1..n /\ i > 1
    BY <1>1
  <2> DEFINE a == after[i-1]
  <2>2. /\ T[i-1] = a.total + a.end - a.start
        /\ T[i] = after[i].total + after[i].end - after[i].start
        /\ after[i] = StreamTotalStep(a, r[i], gap)
    BY <1>6, <2>1
  <2>3. /\ a \in Acc /\ a.total \in Int /\ a.start \in Int /\ a.end \in Int
        /\ a.end = r[i-1].end
    BY <1>7, <2>1 DEF Acc
  <2>4. r[i].start \in Int /\ r[i].end \in Int
    BY <1>3, <2>1
  <2> HIDE DEF T, a
  <2>5. CASE r[i].start - a.end <= gap
    <3>1. after[i] = [a EXCEPT !.end = r[i].end]
      BY <2>2, <2>5 DEF StreamTotalStep
    <3>2. /\ after[i].total = a.total /\ after[i].start = a.start
          /\ after[i].end = r[i].end
      BY <2>3, <3>1 DEF Acc
    <3>3. ~FirstOfGroup(r, gap, i)
      BY <2>1, <2>3, <2>4, <2>5 DEF FirstOfGroup
    <3> QED
      BY <2>2, <2>3, <2>4, <3>2, <3>3
  <2>6. CASE ~(r[i].start - a.end <= gap)
    <3>1. after[i] = [total |-> a.total + a.end - a.start,
                      start |-> r[i].start, end |-> r[i].end]
      BY <2>2, <2>6 DEF StreamTotalStep
    <3>2. FirstOfGroup(r, gap, i)
      BY <2>1, <2>3, <2>4, <2>6 DEF FirstOfGroup
    <3> QED
      BY <2>2, <2>3, <2>4, <3>1, <3>2 DEF Length
  <2> QED
    BY <2>5, <2>6
<1>11. StreamTotal(r, gap) = T[n]
  BY <1>1, <1>2
<1> HIDE DEF T
<1> QED
  BY <1>8, <1>9, <1>10, <1>11 DEF RunningTotal, n

(* j is the last range of the group that range i belongs to.               *)
LastOfGroup(r, gap, i, j) ==
  /\ j \in i..Len(r)
  /\ j = Len(r) \/ FirstOfGroup(r, gap, j + 1)
  /\ \A k \in (i+1)..j : ~FirstOfGroup(r, gap, k)

(* The group of a range has an end: the ranged GET of the group is well    *)
(* defined.                                                                *)
LEMMA GroupEndFacts ==
  ASSUME NEW r, Len(r) \in Nat, NEW gap, NEW i \in 1..Len(r)
  PROVE  \E j \in i..Len(r) :
           LastOfGroup(r, gap, i, j) /\ GroupEnd(r, gap, i) = r[j].end
<1> DEFINE n == Len(r)
           Ends == {j \in i..n : j = n \/ FirstOfGroup(r, gap, j + 1)}
           IsLast(j) == LastOfGroup(r, gap, i, j)
<1>1. n \in Ends /\ Ends \in SUBSET Nat
  OBVIOUS
<1>2. PICK j \in Ends : \A y \in Ends : j <= y
  <2> HIDE DEF Ends
  <2> QED
    BY <1>1, LeastNat
<1>3. j \in i..n /\ (j = n \/ FirstOfGroup(r, gap, j + 1))
  BY <1>2
<1>4. \A k \in (i+1)..j : ~FirstOfGroup(r, gap, k)
  <2> SUFFICES ASSUME NEW k \in (i+1)..j, FirstOfGroup(r, gap, k) PROVE FALSE
    OBVIOUS
  <2>1. k - 1 \in i..n /\ k - 1 < j /\ (k - 1) + 1 = k
    BY <1>3
  <2>2. k - 1 \in Ends
    BY <2>1
  <2>3. j <= k - 1
    BY <1>2, <2>2
  <2> QED
    BY <1>3, <2>1, <2>3
<1>5. IsLast(j)
  BY <1>3, <1>4 DEF LastOfGroup
<1>6. GroupEnd(r, gap, i) = r[CHOOSE m \in i..n : IsLast(m)].end
  <2>1. \A m \in i..n : IsLast(m) <=>
          /\ m = Len(r) \/ FirstOfGroup(r, gap, m + 1)
          /\ \A k \in (i+1)..m : ~FirstOfGroup(r, gap, k)
    BY DEF LastOfGroup
  <2>2. (CHOOSE m \in i..n : IsLast(m))
        = CHOOSE m \in i..Len(r) :
            /\ m = Len(r) \/ FirstOfGroup(r, gap, m + 1)
            /\ \A k \in (i+1)..m : ~FirstOfGroup(r, gap, k)
    <3> HIDE DEF IsLast
    <3> QED
      BY <2>1
  <2> QED
    BY <2>2 DEF GroupEnd
<1> DEFINE m == CHOOSE m \in i..n : IsLast(m)
<1>7. m \in i..n /\ IsLast(m)
  <2> HIDE DEF IsLast
  <2> QED
    BY <1>3, <1>5
<1> HIDE DEF m
<1> QED
  BY <1>6, <1>7 DEF m

(* There is only one last range of a group.                                *)
LEMMA LastOfGroupUnique ==
  ASSUME NEW r, Len(r) \in Nat, NEW gap, NEW i \in 1..Len(r),
         NEW j, LastOfGroup(r, gap, i, j), NEW m, LastOfGroup(r, gap, i, m)
  PROVE  j = m
<1>1. j \in i..Len(r) /\ m \in i..Len(r)
  BY DEF LastOfGroup
<1>2. ASSUME NEW k, LastOfGroup(r, gap, i, k), NEW l, LastOfGroup(r, gap, i, l), k < l
      PROVE  FALSE
  <2>1. k \in i..Len(r) /\ l \in i..Len(r) /\ k # Len(r)
    BY <1>2 DEF LastOfGroup
  <2>2. k + 1 \in (i+1)..l /\ FirstOfGroup(r, gap, k + 1)
    BY <1>2, <2>1 DEF LastOfGroup
  <2> QED
    BY <1>2, <2>2 DEF LastOfGroup
<1>3. ~(j < m) /\ ~(m < j)
  BY <1>2
<1> QED
  BY <1>1, <1>3

(* The end of a group is the end of its last range, and its ranges share   *)
(* it.                                                                     *)
LEMMA GroupEndSteps ==
  ASSUME NEW r, Len(r) \in Nat, NEW gap, NEW i \in 1..Len(r)
  PROVE  /\ i = Len(r) \/ FirstOfGroup(r, gap, i + 1) => GroupEnd(r, gap, i) = r[i].end
         /\ i < Len(r) /\ ~FirstOfGroup(r, gap, i + 1)
              => GroupEnd(r, gap, i) = GroupEnd(r, gap, i + 1)
<1>1. PICK j \in i..Len(r) : LastOfGroup(r, gap, i, j) /\ GroupEnd(r, gap, i) = r[j].end
  BY GroupEndFacts
<1>2. ASSUME i = Len(r) \/ FirstOfGroup(r, gap, i + 1)
      PROVE  GroupEnd(r, gap, i) = r[i].end
  <2>1. LastOfGroup(r, gap, i, i)
    BY <1>2 DEF LastOfGroup
  <2>2. j = i
    BY <1>1, <2>1, LastOfGroupUnique
  <2> QED
    BY <1>1, <2>2
<1>3. ASSUME i < Len(r), ~FirstOfGroup(r, gap, i + 1)
      PROVE  GroupEnd(r, gap, i) = GroupEnd(r, gap, i + 1)
  <2>1. i + 1 \in 1..Len(r)
    BY <1>3
  <2>2. PICK m \in (i+1)..Len(r) :
          LastOfGroup(r, gap, i + 1, m) /\ GroupEnd(r, gap, i + 1) = r[m].end
    BY <2>1, GroupEndFacts
  <2>3. LastOfGroup(r, gap, i, m)
    <3>1. m \in i..Len(r) /\ (m = Len(r) \/ FirstOfGroup(r, gap, m + 1))
      BY <2>2 DEF LastOfGroup
    <3>2. \A k \in (i+1)..m : k = i + 1 \/ k \in ((i+1)+1)..m
      OBVIOUS
    <3>3. \A k \in (i+1)..m : ~FirstOfGroup(r, gap, k)
      BY <1>3, <2>2, <3>2 DEF LastOfGroup
    <3> QED
      BY <3>1, <3>3 DEF LastOfGroup
  <2>4. j = m
    BY <1>1, <2>3, LastOfGroupUnique
  <2> QED
    BY <1>1, <2>2, <2>4
<1> QED
  BY <1>2, <1>3

(* The total grows by what the stream delivers between two ranges of a     *)
(* group, and never shrinks.                                               *)
LEMMA RunningTotalFacts ==
  ASSUME NEW r \in Seq(ByteRanges), InOrder(r), NEW gap \in Int,
         NEW T, RunningTotal(T, r, gap), NEW i \in 1..Len(r)
  PROVE  /\ \A j \in i..Len(r) : T[i] <= T[j]
         /\ \A j \in i..Len(r) :
              (\A k \in (i+1)..j : ~FirstOfGroup(r, gap, k)) => T[j] - T[i] = r[j].end - r[i].end
<1> DEFINE n == Len(r)
           Together(j) == \A k \in (i+1)..j : ~FirstOfGroup(r, gap, k)
           Good(j) == T[i] <= T[j] /\ (Together(j) => T[j] - T[i] = r[j].end - r[i].end)
           Bad == {j \in i..n : ~Good(j)}
<1>1. n \in Nat /\ \A k \in 1..n : T[k] \in Int /\ r[k].start \in Int /\ r[k].end \in Int
  BY RangeType DEF RunningTotal
<1>2. \A k \in 1..n : r[k].start < r[k].end
  BY DEF InOrder
<1>3. \A k \in 2..n : T[k] = T[k-1] + IF FirstOfGroup(r, gap, k) THEN Length(r[k])
                                        ELSE r[k].end - r[k-1].end
  BY DEF RunningTotal
<1>4. \A k \in 2..n : r[k-1].end <= r[k].start
  <2> SUFFICES ASSUME NEW k \in 2..n PROVE r[k-1].end <= r[k].start
    OBVIOUS
  <2>1. k - 1 \in 1..n /\ k \in 1..n /\ k - 1 < k
    BY <1>1
  <2> QED
    BY <2>1 DEF InOrder
<1> HIDE DEF n
<1>5. Bad = {}
  <2> SUFFICES ASSUME Bad # {} PROVE FALSE
    OBVIOUS
  <2>1. PICK j \in Bad : \A y \in Bad : j <= y
    <3>1. Bad \in SUBSET Nat
      BY <1>1
    <3> HIDE DEF Bad
    <3> QED
      BY <3>1, LeastNat
  <2>2. i \in 1..n /\ j \in i..n
    BY <2>1 DEF n
  <2>3. j # i
    BY <1>1, <2>1, <2>2
  <2>4. j - 1 \in i..n /\ j - 1 \in 1..n /\ j \in 2..n /\ j \in 1..n /\ ~(j <= j - 1)
    BY <1>1, <2>2, <2>3
  <2>5. Good(j - 1)
    <3> HIDE DEF Good
    <3> QED
      BY <2>1, <2>4
  <2>6. T[i] <= T[j-1]
    BY <2>5
  <2>7. Together(j - 1) => T[j-1] - T[i] = r[j-1].end - r[i].end
    BY <2>5
  <2>8. /\ T[i] \in Int /\ T[j] \in Int /\ T[j-1] \in Int /\ r[j].start \in Int
        /\ r[j].end \in Int /\ r[j-1].end \in Int /\ r[i].end \in Int
        /\ r[j].start < r[j].end /\ r[j-1].end <= r[j].start
        /\ T[j] = T[j-1] + IF FirstOfGroup(r, gap, j) THEN Length(r[j])
                           ELSE r[j].end - r[j-1].end
    BY <1>1, <1>2, <1>3, <1>4, <2>2, <2>4
  <2> DEFINE t == T[j]
             u == T[j-1]
             before == r[j-1].end
             from == r[j].start
             to == r[j].end
  <2>9. T[i] <= t
    <3>1. /\ T[i] \in Int /\ t \in Int /\ u \in Int /\ from \in Int /\ to \in Int
          /\ before \in Int /\ from < to /\ before <= from /\ T[i] <= u
          /\ t = u + (to - from) \/ t = u + (to - before)
      BY <2>6, <2>8 DEF Length
    <3> HIDE DEF t, u, before, from, to
    <3> QED
      BY <3>1
  <2>10. ASSUME Together(j)
         PROVE  T[j] - T[i] = r[j].end - r[i].end
    <3>1. \A k \in (i+1)..(j-1) : k \in (i+1)..j
      BY <2>2, <2>4
    <3>2. ~FirstOfGroup(r, gap, j)
      <4>1. j \in (i+1)..j
        BY <2>2, <2>3
      <4> QED
        BY <2>10, <4>1
    <3>3. Together(j - 1)
      BY <2>10, <3>1
    <3>4. T[j-1] - T[i] = r[j-1].end - r[i].end
      BY <2>7, <3>3
    <3>5. T[j] = T[j-1] + (r[j].end - r[j-1].end)
      BY <2>8, <3>2
    <3> DEFINE v == T[i]
               last == r[i].end
    <3>6. /\ v \in Int /\ t \in Int /\ u \in Int /\ to \in Int /\ before \in Int
          /\ last \in Int
      BY <2>8
    <3>7. u - v = before - last
      BY <3>4
    <3>8. t = u + (to - before)
      BY <3>5
    <3> HIDE DEF t, u, v, before, to, last
    <3>9. t - v = to - last
      BY <3>6, <3>7, <3>8
    <3> QED
      BY <3>9 DEF t, v, to, last
  <2>11. Good(j)
    BY <2>9, <2>10
  <2> HIDE DEF Good
  <2> QED
    BY <2>1, <2>11
<1>6. ASSUME NEW j \in i..n PROVE Good(j)
  BY <1>5
<1> QED
  BY <1>6 DEF n

(* With the rest of its group, the total of a range does not exceed that   *)
(* of the list.                                                            *)
LEMMA TotalOfGroup ==
  ASSUME NEW r \in Seq(ByteRanges), InOrder(r), NEW gap \in Int,
         NEW T, RunningTotal(T, r, gap), NEW i \in 1..Len(r)
  PROVE  /\ T[i] \in Int /\ T[Len(r)] \in Int /\ r[i].end \in Int
         /\ GroupEnd(r, gap, i) \in Int /\ r[i].end <= GroupEnd(r, gap, i)
         /\ T[i] + GroupEnd(r, gap, i) - r[i].end <= T[Len(r)]
<1>1. Len(r) \in Nat /\ i \in Nat
  OBVIOUS
<1>2. PICK j \in i..Len(r) : LastOfGroup(r, gap, i, j) /\ GroupEnd(r, gap, i) = r[j].end
  BY <1>1, GroupEndFacts
<1>3. \A k \in (i+1)..j : ~FirstOfGroup(r, gap, k)
  BY <1>2 DEF LastOfGroup
<1>4. T[j] - T[i] = r[j].end - r[i].end
  BY <1>3, RunningTotalFacts
<1>5. j \in 1..Len(r) /\ Len(r) \in j..Len(r)
  BY <1>1
<1>6. T[j] <= T[Len(r)]
  BY <1>5, RunningTotalFacts
<1>7. T[i] <= T[j]
  BY RunningTotalFacts
<1>8. \A k \in {i, j, Len(r)} : T[k] \in Int /\ r[k].end \in Int
  <2> SUFFICES ASSUME NEW k \in {i, j, Len(r)} PROVE T[k] \in Int /\ r[k].end \in Int
    OBVIOUS
  <2>1. k \in 1..Len(r)
    BY <1>1, <1>5
  <2>2. T[k] \in Int
    BY <2>1 DEF RunningTotal
  <2> QED
    BY <2>1, <2>2, RangeType
<1> QED
  BY <1>2, <1>4, <1>6, <1>7, <1>8

(* What the streams of ranges that begin one after the other deliver is    *)
(* not nothing, even if the ranges overlap.                                *)
LEMMA TotalIsPositive ==
  ASSUME NEW r \in Seq(ByteRanges), Len(r) # 0, NEW gap \in Int,
         \A i \in 1..Len(r) : r[i].start < r[i].end,
         \A i, j \in 1..Len(r) : i < j => r[i].start <= r[j].start,
         NEW T, RunningTotal(T, r, gap)
  PROVE  T[Len(r)] \in Int /\ T[Len(r)] > 0
<1> DEFINE n == Len(r)
           Good(i) == T[i] >= r[i].end - r[i].start
           Bad == {i \in 1..n : ~Good(i)}
<1>1. n \in Nat \ {0}
  OBVIOUS
<1>2. \A i \in 1..n : /\ T[i] \in Int /\ r[i].start \in Int /\ r[i].end \in Int
                      /\ r[i].start < r[i].end
  BY RangeType DEF RunningTotal
<1>3. T[1] = r[1].end - r[1].start
  BY DEF RunningTotal, Length
<1>4. \A i \in 2..n : T[i] = T[i-1] + IF FirstOfGroup(r, gap, i) THEN r[i].end - r[i].start
                                     ELSE r[i].end - r[i-1].end
  BY DEF RunningTotal, Length
<1> HIDE DEF n
<1>5. Bad = {}
  <2> SUFFICES ASSUME Bad # {} PROVE FALSE
    OBVIOUS
  <2>1. PICK i \in Bad : \A y \in Bad : i <= y
    <3>1. Bad \in SUBSET Nat
      BY <1>1
    <3> HIDE DEF Bad
    <3> QED
      BY <3>1, LeastNat
  <2>2. i \in 1..n /\ ~Good(i)
    BY <2>1
  <2>3. i # 1
    BY <1>1, <1>2, <1>3, <2>2
  <2>4. PICK h \in 1..n : i = h + 1
    <3>1. i - 1 \in 1..n /\ i = (i - 1) + 1
      BY <1>1, <2>2, <2>3
    <3> QED
      BY <3>1
  <2>5. Good(h)
    <3>1. h \notin Bad
      BY <2>1, <2>4
    <3> QED
      BY <3>1
  <2>6. T[i] = T[h] + IF FirstOfGroup(r, gap, i) THEN r[i].end - r[i].start
                      ELSE r[i].end - r[h].end
    <3>1. i \in 2..n /\ i - 1 = h
      BY <1>1, <2>2, <2>4
    <3> QED
      BY <1>4, <3>1
  <2>7. r[h].start <= r[i].start
    BY <1>1, <2>2, <2>4 DEF n
  <2>8. /\ T[h] \in Int /\ r[h].start \in Int /\ r[h].end \in Int /\ r[h].start < r[h].end
        /\ T[i] \in Int /\ r[i].start \in Int /\ r[i].end \in Int
    BY <1>2, <2>2
  <2>9. T[h] >= r[h].end - r[h].start /\ ~(T[i] >= r[i].end - r[i].start)
    BY <2>2, <2>5
  <2>10. T[i] = T[h] + (r[i].end - r[i].start) \/ T[i] = T[h] + (r[i].end - r[h].end)
    BY <2>6
  <2> HIDE DEF Good, Bad
  <2>11. \A th, ti, hs, he, is, ie \in Int :
           /\ hs < he /\ hs <= is /\ th >= he - hs
           /\ ti = th + (ie - is) \/ ti = th + (ie - he)
           => ti >= ie - is
    OBVIOUS
  <2> QED
    BY <2>7, <2>8, <2>9, <2>10, <2>11
<1>6. n \in 1..n /\ Good(n)
  BY <1>1, <1>5
<1>7. T[n] > 0 /\ T[n] \in Int
  BY <1>2, <1>6
<1> QED
  BY <1>7 DEF n
-----------------------------------------------------------------------------
(* Groups.                                                                 *)

(* at writes down the positions of I in their order.                       *)
Enumerates(at, C, I) ==
  /\ C \in Nat /\ at \in [1..C -> I]
  /\ \A j, k \in 1..C : j < k => at[j] < at[k]
  /\ \A i \in I : \E k \in 1..C : at[k] = i

(* at[c] is the last of those positions that is not beyond i.              *)
Current(at, C, i, c) ==
  c \in 1..C /\ at[c] <= i /\ (c = C \/ i < at[c+1])

LEMMA EnumerationFacts ==
  ASSUME NEW n \in Nat, NEW I \in SUBSET (1..n), NEW C, NEW at, Enumerates(at, C, I)
  PROVE  /\ C \in Nat /\ \A k \in 1..C : at[k] \in I /\ at[k] \in 1..n
         /\ \A j, k \in 1..C : at[j] < at[k] => j < k
         /\ \A j, k \in 1..C : j <= k => at[j] <= at[k]
<1>1. C \in Nat /\ \A k \in 1..C : at[k] \in I /\ at[k] \in 1..n
  BY DEF Enumerates
<1>2. \A j, k \in 1..C : j < k => at[j] < at[k]
  BY DEF Enumerates
<1>3. \A j, k \in 1..C : j <= k => at[j] <= at[k]
  <2> SUFFICES ASSUME NEW j \in 1..C, NEW k \in 1..C, j <= k PROVE at[j] <= at[k]
    OBVIOUS
  <2>1. at[j] \in 1..n /\ at[k] \in 1..n
    BY <1>1
  <2>2. j = k \/ j < k
    BY <1>1
  <2> QED
    BY <1>2, <2>1, <2>2
<1>4. \A j, k \in 1..C : at[j] < at[k] => j < k
  <2> SUFFICES ASSUME NEW j \in 1..C, NEW k \in 1..C, at[j] < at[k], ~(j < k) PROVE FALSE
    OBVIOUS
  <2>1. at[k] <= at[j] /\ at[j] \in 1..n /\ at[k] \in 1..n
    BY <1>1, <1>3
  <2> QED
    BY <2>1
<1> QED
  BY <1>1, <1>3, <1>4

(* Every position from the first on has one of them as its current one.    *)
LEMMA CurrentExists ==
  ASSUME NEW n \in Nat, NEW I \in SUBSET (1..n), 1 \in I, NEW C, NEW at,
         Enumerates(at, C, I), NEW i \in 1..n
  PROVE  \E c : Current(at, C, i, c)
<1> DEFINE Beyond == {k \in 1..C : i < at[k]}
<1>1. C \in Nat /\ \A k \in 1..C : at[k] \in 1..n
  BY EnumerationFacts
<1>2. PICK o \in 1..C : at[o] = 1
  BY DEF Enumerates
<1>3. CASE Beyond = {}
  <2>1. C \in 1..C /\ ~(i < at[C])
    BY <1>1, <1>2, <1>3
  <2>2. at[C] <= i
    BY <1>1, <2>1
  <2> QED
    BY <2>1, <2>2 DEF Current
<1>4. CASE Beyond # {}
  <2>1. PICK k \in Beyond : \A y \in Beyond : k <= y
    <3>1. Beyond \in SUBSET Nat
      OBVIOUS
    <3> HIDE DEF Beyond
    <3> QED
      BY <1>4, <3>1, LeastNat
  <2>2. k \in 1..C /\ i < at[k]
    BY <2>1
  <2>3. at[o] < at[k]
    BY <1>1, <1>2, <2>2
  <2>4. o < k
    BY <2>2, <2>3, EnumerationFacts
  <2>5. k - 1 \in 1..C /\ (k - 1) + 1 = k /\ ~(k <= k - 1)
    BY <1>1, <2>2, <2>4
  <2>6. ~(i < at[k-1])
    BY <2>1, <2>5
  <2>7. at[k-1] <= i
    BY <1>1, <2>5, <2>6
  <2> QED
    BY <2>2, <2>5, <2>7 DEF Current
<1> QED
  BY <1>3, <1>4

(* How the current one moves with i.                                       *)
CurrentMoves(at, C, I, n, i, c) ==
  /\ \A k \in (at[c]+1)..i : k \notin I
  /\ i = n => c = C
  /\ i < n /\ i + 1 \notin I => Current(at, C, i + 1, c)
  /\ i < n /\ i + 1 \in I =>
       c + 1 \in 1..C /\ at[c+1] = i + 1 /\ Current(at, C, i + 1, c + 1)

LEMMA CurrentSteps ==
  ASSUME NEW n \in Nat, NEW I \in SUBSET (1..n), NEW C, NEW at,
         Enumerates(at, C, I), NEW i \in 1..n, NEW c, Current(at, C, i, c)
  PROVE  CurrentMoves(at, C, I, n, i, c)
<1>1. /\ C \in Nat /\ \A k \in 1..C : at[k] \in I /\ at[k] \in 1..n
      /\ \A j, k \in 1..C : at[j] < at[k] => j < k
      /\ \A j, k \in 1..C : j <= k => at[j] <= at[k]
  BY EnumerationFacts
<1>2. c \in 1..C /\ at[c] <= i /\ at[c] \in 1..n
  BY <1>1 DEF Current
<1>3. c # C => c + 1 \in 1..C /\ at[c+1] \in I /\ at[c+1] \in 1..n /\ i < at[c+1]
  <2> SUFFICES ASSUME c # C
               PROVE  c + 1 \in 1..C /\ at[c+1] \in I /\ at[c+1] \in 1..n /\ i < at[c+1]
    OBVIOUS
  <2>1. c + 1 \in 1..C
    BY <1>1, <1>2
  <2> QED
    BY <1>1, <2>1 DEF Current
<1>4. ASSUME NEW k \in I, at[c] < k
      PROVE  c # C /\ at[c+1] <= k
  <2>1. PICK d \in 1..C : at[d] = k
    BY DEF Enumerates
  <2>2. c < d
    BY <1>1, <1>2, <1>4, <2>1
  <2>3. c # C /\ c + 1 \in 1..C /\ c + 1 <= d
    BY <1>1, <1>2, <2>1, <2>2
  <2> QED
    BY <1>1, <2>1, <2>3
<1>5. \A k \in (at[c]+1)..i : k \notin I
  <2> SUFFICES ASSUME NEW k \in (at[c]+1)..i, k \in I PROVE FALSE
    OBVIOUS
  <2>1. at[c] < k /\ k <= i /\ k \in Int
    BY <1>2
  <2>2. c # C /\ at[c+1] <= k
    BY <1>4, <2>1
  <2> QED
    BY <1>2, <1>3, <2>1, <2>2
<1>6. i = n => c = C
  BY <1>3
<1>7. i < n /\ i + 1 \notin I => Current(at, C, i + 1, c)
  <2> SUFFICES ASSUME i < n, i + 1 \notin I PROVE Current(at, C, i + 1, c)
    OBVIOUS
  <2>1. at[c] <= i + 1
    BY <1>2
  <2>2. c # C => i + 1 < at[c+1]
    <3> SUFFICES ASSUME c # C PROVE i + 1 < at[c+1]
      OBVIOUS
    <3>1. at[c+1] # i + 1
      BY <1>3
    <3> QED
      BY <1>3, <3>1
  <2> QED
    BY <1>2, <2>1, <2>2 DEF Current
<1>8. i < n /\ i + 1 \in I =>
        c + 1 \in 1..C /\ at[c+1] = i + 1 /\ Current(at, C, i + 1, c + 1)
  <2> SUFFICES ASSUME i < n, i + 1 \in I
               PROVE  c + 1 \in 1..C /\ at[c+1] = i + 1 /\ Current(at, C, i + 1, c + 1)
    OBVIOUS
  <2>1. c # C /\ at[c+1] <= i + 1
    BY <1>2, <1>4
  <2>2. c + 1 \in 1..C /\ at[c+1] = i + 1
    BY <1>3, <2>1
  <2>3. c + 1 # C => i + 1 < at[(c+1)+1]
    <3> SUFFICES ASSUME c + 1 # C PROVE i + 1 < at[(c+1)+1]
      OBVIOUS
    <3>1. (c + 1) + 1 \in 1..C /\ c + 1 < (c + 1) + 1
      BY <1>1, <2>2
    <3>2. at[c+1] < at[(c+1)+1]
      BY <2>2, <3>1 DEF Enumerates
    <3> QED
      BY <2>2, <3>2
  <2> QED
    BY <2>2, <2>3 DEF Current
<1> QED
  BY <1>5, <1>6, <1>7, <1>8 DEF CurrentMoves

(* The groups of a list begin at its first range.                          *)
LEMMA StartsFacts ==
  ASSUME NEW r \in Seq(ByteRanges), Len(r) # 0, NEW gap
  PROVE  /\ Len(r) \in Nat \ {0} /\ 1 \in GroupStarts(r, gap)
         /\ GroupStarts(r, gap) \in SUBSET (1..Len(r))
         /\ Enumerates(Listed(GroupStarts(r, gap)), Cardinality(GroupStarts(r, gap)),
                       GroupStarts(r, gap))
<1> DEFINE n == Len(r)
           I == GroupStarts(r, gap)
<1>1. n \in Nat \ {0}
  OBVIOUS
<1>2. 1 \in I /\ I \in SUBSET (1..n)
  BY <1>1 DEF GroupStarts, FirstOfGroup
<1> HIDE DEF I, n
<1>3. IsFiniteSet(I) /\ I \subseteq Nat
  <2>1. IsFiniteSet(1..n) /\ n \in Nat
    BY <1>1, FS_Interval
  <2>2. IsFiniteSet(I)
    BY <1>2, <2>1, FS_Subset
  <2> QED
    BY <1>2, <2>1, <2>2
<1>4. Enumerates(Listed(I), Cardinality(I), I)
  BY <1>3, ListedFacts DEF Enumerates
<1> QED
  BY <1>1, <1>2, <1>4 DEF I, n

(* A range belongs to the group that begins at the current start.          *)
LEMMA CurrentGroup ==
  ASSUME NEW r \in Seq(ByteRanges), Len(r) # 0, NEW gap, NEW C, NEW at,
         Enumerates(at, C, GroupStarts(r, gap)),
         NEW i \in 1..Len(r), NEW c, Current(at, C, i, c)
  PROVE  \E j \in i..Len(r) :
           /\ LastOfGroup(r, gap, at[c], j) /\ GroupEnd(r, gap, at[c]) = r[j].end
           /\ i = Len(r) \/ FirstOfGroup(r, gap, i + 1) => j = i
<1> DEFINE n == Len(r)
           I == GroupStarts(r, gap)
<1>1. n \in Nat \ {0} /\ 1 \in I /\ I \in SUBSET (1..n)
  BY StartsFacts
<1>2. \A k \in 1..n : k \in I <=> FirstOfGroup(r, gap, k)
  BY DEF GroupStarts
<1>3. c \in 1..C /\ at[c] <= i /\ at[c] \in 1..n
  BY <1>1, EnumerationFacts DEF Current
<1>4. PICK j \in at[c]..n : LastOfGroup(r, gap, at[c], j) /\ GroupEnd(r, gap, at[c]) = r[j].end
  BY <1>1, <1>3, GroupEndFacts
<1> HIDE DEF I
<1>5. \A k \in (at[c]+1)..i : k \notin I
  <2>1. n \in Nat /\ Enumerates(at, C, I)
    BY <1>1 DEF I
  <2>2. CurrentMoves(at, C, I, n, i, c)
    BY <1>1, <2>1, CurrentSteps
  <2> QED
    BY <2>2 DEF CurrentMoves
<1>6. i <= j
  <2> SUFFICES ASSUME j < i PROVE FALSE
    BY <1>1, <1>3, <1>4
  <2>1. j # n /\ j + 1 \in (at[c]+1)..i /\ j + 1 \in 1..n
    BY <1>1, <1>3, <1>4
  <2>2. FirstOfGroup(r, gap, j + 1)
    BY <1>4, <2>1 DEF LastOfGroup
  <2> QED
    BY <1>2, <1>5, <2>1, <2>2
<1>7. j \in i..n
  BY <1>1, <1>3, <1>4, <1>6
<1>8. ASSUME i = n \/ FirstOfGroup(r, gap, i + 1)
      PROVE  j = i
  <2>1. \A k \in (at[c]+1)..i : ~FirstOfGroup(r, gap, k)
    <3> SUFFICES ASSUME NEW k \in (at[c]+1)..i PROVE ~FirstOfGroup(r, gap, k)
      OBVIOUS
    <3>1. k \in 1..n
      BY <1>1, <1>3
    <3> QED
      BY <1>2, <1>5, <3>1
  <2>2. LastOfGroup(r, gap, at[c], i)
    BY <1>1, <1>3, <1>8, <2>1 DEF LastOfGroup
  <2> QED
    BY <1>1, <1>3, <1>4, <2>2, LastOfGroupUnique
<1> QED
  BY <1>4, <1>7, <1>8

(* The loop of _validate_and_coalesce_ranges: it has collected the ranges  *)
(* of the current group up to i, and closed the groups before it.          *)
Collected(a, r, gap, at, C, i) ==
  /\ a.groups \in Seq(ByteRanges) /\ a.items \in Seq(ByteRanges) /\ a.items # <<>>
  /\ Last(a.items) = r[i]
  /\ \E c : /\ Current(at, C, i, c) /\ Head(a.items) = r[at[c]]
            /\ Len(a.groups) = c - 1
            /\ \A k \in 1..(c-1) :
                 a.groups[k] = Span(r[at[k]].start, GroupEnd(r, gap, at[k]))

Accs == [groups : Seq(ByteRanges), items : Seq(ByteRanges) \ {<<>>}]

LEMMA ItemsFacts ==
  ASSUME NEW s \in Seq(ByteRanges), s # <<>>
  PROVE  /\ Head(s) \in ByteRanges /\ Last(s) \in ByteRanges
         /\ Span(Head(s).start, Last(s).end) \in ByteRanges
         /\ \A e \in ByteRanges : /\ Append(s, e) \in Seq(ByteRanges) /\ Append(s, e) # <<>>
                                  /\ Head(Append(s, e)) = Head(s) /\ Last(Append(s, e)) = e
<1>1. Len(s) \in Nat \ {0}
  BY EmptySeq
<1>2. Head(s) = s[1] /\ Last(s) = s[Len(s)]
  BY <1>1 DEF Last
<1>3. Head(s) \in ByteRanges /\ Last(s) \in ByteRanges
  BY <1>1, <1>2, ElementOfSeq
<1>4. Span(Head(s).start, Last(s).end) \in ByteRanges
  BY <1>3 DEF Span, ByteRanges
<1>5. ASSUME NEW e \in ByteRanges
      PROVE  /\ Append(s, e) \in Seq(ByteRanges) /\ Append(s, e) # <<>>
             /\ Head(Append(s, e)) = Head(s) /\ Last(Append(s, e)) = e
  <2> DEFINE t == Append(s, e)
  <2>1. /\ t \in Seq(ByteRanges) /\ Len(t) = Len(s) + 1 /\ t[1] = s[1] /\ t[Len(s) + 1] = e
    BY <1>1, AppendProperties
  <2> HIDE DEF t
  <2>2. t # <<>> /\ Head(t) = t[1] /\ Last(t) = t[Len(t)]
    BY <1>1, <2>1 DEF Last
  <2> QED
    BY <1>2, <2>1, <2>2 DEF t
<1> QED
  BY <1>3, <1>4, <1>5

LEMMA StepType ==
  ASSUME NEW a \in Accs, NEW e \in ByteRanges, NEW gap
  PROVE  CoalesceStep(a, e, gap) \in Accs
<1>1. a.groups \in Seq(ByteRanges) /\ a.items \in Seq(ByteRanges) /\ a.items # <<>>
  BY DEF Accs
<1> DEFINE span == Span(Head(a.items).start, Last(a.items).end)
           more == Append(a.items, e)
<1>2. span \in ByteRanges /\ more \in Seq(ByteRanges) \ {<<>>}
  BY <1>1, ItemsFacts
<1>3. CoalesceStep(a, e, gap) = [a EXCEPT !.items = more]
      \/ CoalesceStep(a, e, gap) = [groups |-> Append(a.groups, span), items |-> <<e>>]
  BY DEF CoalesceStep
<1> HIDE DEF span, more
<1>4. [a EXCEPT !.items = more] \in Accs
  BY <1>2 DEF Accs
<1>5. Append(a.groups, span) \in Seq(ByteRanges)
  BY <1>1, <1>2
<1>6. <<e>> \in Seq(ByteRanges) \ {<<>>}
  OBVIOUS
<1> DEFINE gs == Append(a.groups, span)
           is == <<e>>
<1> HIDE DEF gs, is
<1>7. [groups |-> gs, items |-> is] \in Accs
  BY <1>5, <1>6 DEF Accs, gs, is
<1> QED
  BY <1>3, <1>4, <1>7 DEF gs, is

LEMMA CollectedStep ==
  ASSUME NEW r \in Seq(ByteRanges), Len(r) # 0, NEW gap \in Int, NEW C, NEW at,
         Enumerates(at, C, GroupStarts(r, gap)),
         NEW h \in 1..Len(r), NEW i \in 2..Len(r), i = h + 1,
         NEW a \in Accs, Collected(a, r, gap, at, C, h)
  PROVE  Collected(CoalesceStep(a, r[i], gap), r, gap, at, C, i)
<1> DEFINE n == Len(r)
           I == GroupStarts(r, gap)
           G(k) == Span(r[at[k]].start, GroupEnd(r, gap, at[k]))
           b == CoalesceStep(a, r[i], gap)
<1>1. n \in Nat /\ 1 \in I /\ I \in SUBSET (1..n)
  BY StartsFacts
<1>2. i \in 1..n /\ h \in 1..n /\ i - 1 = h /\ h < n /\ i > 1
  BY <1>1
<1>3. /\ r[i] \in ByteRanges /\ r[i].start \in Int /\ r[i].end \in Int
      /\ r[h] \in ByteRanges /\ r[h].end \in Int
  BY <1>2, RangeType
<1>4. /\ a.groups \in Seq(ByteRanges) /\ a.items \in Seq(ByteRanges) /\ a.items # <<>>
      /\ Last(a.items) = r[h]
  BY DEF Collected
<1>5. PICK c : /\ Current(at, C, h, c) /\ Head(a.items) = r[at[c]]
               /\ Len(a.groups) = c - 1 /\ \A k \in 1..(c-1) : a.groups[k] = G(k)
  BY DEF Collected
<1>6. i \in I <=> r[i].start - r[h].end > gap
  BY <1>2 DEF GroupStarts, FirstOfGroup
<1>7. CASE i \notin I
  <2>1. r[i].start - Last(a.items).end <= gap
    BY <1>3, <1>4, <1>6, <1>7
  <2> DEFINE more == Append(a.items, r[i])
  <2>2. b = [a EXCEPT !.items = more]
    BY <2>1 DEF CoalesceStep
  <2>3. /\ more \in Seq(ByteRanges) /\ more # <<>>
        /\ Head(more) = Head(a.items) /\ Last(more) = r[i]
    BY <1>3, <1>4, ItemsFacts
  <2> HIDE DEF more, b
  <2>4. b.items = more /\ b.groups = a.groups
    BY <2>2 DEF Accs
  <2> HIDE DEF I, n
  <2>5. Current(at, C, i, c)
    <3>1. Enumerates(at, C, I)
      BY DEF I
    <3>2. CurrentMoves(at, C, I, n, h, c)
      BY <1>1, <1>2, <1>5, <3>1, CurrentSteps
    <3> QED
      BY <1>2, <1>7, <3>2 DEF CurrentMoves
  <2> QED
    BY <1>4, <1>5, <2>3, <2>4, <2>5 DEF Collected, b
<1>8. CASE i \in I
  <2>1. ~(r[i].start - Last(a.items).end <= gap)
    BY <1>3, <1>4, <1>6, <1>8
  <2> DEFINE span == Span(Head(a.items).start, Last(a.items).end)
             closed == Append(a.groups, span)
             is == <<r[i]>>
  <2>2. b = [groups |-> closed, items |-> is]
    BY <2>1 DEF CoalesceStep
  <2>3. span \in ByteRanges
    BY <1>4, ItemsFacts
  <2>4. span = G(c)
    <3>1. FirstOfGroup(r, gap, h + 1)
      BY <1>2, <1>8 DEF GroupStarts
    <3>2. GroupEnd(r, gap, at[c]) = r[h].end
      BY <1>2, <1>5, <3>1, CurrentGroup
    <3> QED
      BY <1>4, <1>5, <3>2
  <2>5. c + 1 \in 1..C /\ at[c+1] = i /\ Current(at, C, i, c + 1) /\ c \in 1..C /\ C \in Nat
    <3> HIDE DEF I, n
    <3>1. Enumerates(at, C, I)
      BY DEF I
    <3>2. CurrentMoves(at, C, I, n, h, c)
      BY <1>1, <1>2, <1>5, <3>1, CurrentSteps
    <3>3. c + 1 \in 1..C /\ at[c+1] = h + 1 /\ Current(at, C, h + 1, c + 1)
      BY <1>2, <1>8, <3>2 DEF CurrentMoves
    <3> QED
      BY <1>2, <1>5, <3>1, <3>3 DEF Current, Enumerates
  <2> HIDE DEF span, G
  <2>6. /\ closed \in Seq(ByteRanges) /\ Len(closed) = c
        /\ \A k \in 1..c : closed[k] = G(k)
    <3>1. /\ closed \in Seq(ByteRanges) /\ Len(closed) = Len(a.groups) + 1
          /\ \A k \in 1..Len(a.groups) : closed[k] = a.groups[k]
          /\ closed[Len(a.groups) + 1] = span
      BY <1>4, <2>3, AppendProperties
    <3> HIDE DEF closed
    <3>2. Len(a.groups) = c - 1 /\ c \in Nat \ {0} /\ (c - 1) + 1 = c
      BY <1>5, <2>5
    <3>3. ASSUME NEW k \in 1..c PROVE closed[k] = G(k)
      <4>1. k = c \/ k \in 1..(c-1)
        BY <3>2
      <4> QED
        BY <1>5, <2>4, <3>1, <3>2, <4>1
    <3> QED
      BY <3>1, <3>2, <3>3
  <2>7. is \in Seq(ByteRanges) /\ is # <<>> /\ Head(is) = r[i] /\ Last(is) = r[i]
    <3>1. is \in Seq(ByteRanges) /\ is # <<>> /\ Len(is) = 1 /\ is[1] = r[i]
      BY <1>3
    <3> HIDE DEF is
    <3> QED
      BY <3>1 DEF Last
  <2> HIDE DEF closed, is, b, I, n
  <2>8. b.groups = closed /\ b.items = is
    BY <2>2
  <2> DEFINE d == c + 1
  <2>9. d - 1 = c /\ at[d] = i /\ Current(at, C, i, d)
    BY <2>5
  <2> HIDE DEF d
  <2>10. \E e : /\ Current(at, C, i, e) /\ Head(b.items) = r[at[e]] /\ Len(b.groups) = e - 1
                /\ \A k \in 1..(e-1) : b.groups[k] = G(k)
    BY <2>6, <2>7, <2>8, <2>9
  <2> QED
    BY <2>6, <2>7, <2>8, <2>10 DEF Collected, b, G
<1> QED
  BY <1>7, <1>8

(* The loop gives the groups of FirstOfGroup and GroupEnd, in their order. *)
LEMMA CoalesceFacts ==
  ASSUME NEW r \in Seq(ByteRanges), Len(r) # 0, NEW gap \in Int
  PROVE  Coalesce(r, gap) = Grouping(r, gap)
<1> DEFINE n == Len(r)
           I == GroupStarts(r, gap)
           C == Cardinality(I)
           at == Listed(I)
           G(k) == Span(r[at[k]].start, GroupEnd(r, gap, at[k]))
           base == [groups |-> <<>>, items |-> <<r[1]>>]
           Loop(g) == g = [i \in 1..n |-> IF i = 1 THEN base
                                         ELSE CoalesceStep(g[i-1], r[i], gap)]
           after == CHOOSE g : Loop(g)
<1>1. n \in Nat \ {0} /\ 1 \in I /\ I \in SUBSET (1..n) /\ Enumerates(at, C, I)
  BY StartsFacts
<1>2. /\ Coalesce(r, gap) = Append(after[n].groups,
                                   Span(Head(after[n].items).start, Last(after[n].items).end))
      /\ Grouping(r, gap) = [k \in 1..C |-> G(k)]
  BY DEF Coalesce, Grouping
<1>3. \A i \in 1..n : r[i] \in ByteRanges
  BY RangeType
<1>4. base \in Accs /\ \A i \in 1..n, a \in Accs : CoalesceStep(a, r[i], gap) \in Accs
  <2> DEFINE is == <<r[1]>>
             gs == <<>>
  <2>1. is \in Seq(ByteRanges) \ {<<>>} /\ gs \in Seq(ByteRanges)
    BY <1>1, <1>3
  <2> HIDE DEF is, gs
  <2>2. [groups |-> gs, items |-> is] \in Accs
    BY <2>1 DEF Accs
  <2> QED
    BY <1>3, <2>2, StepType DEF is, gs
<1> HIDE DEF base, n, I, at, C
<1>5. \E g : Loop(g)
  <2> DEFINE step == [p \in (2..n) \X Accs |-> CoalesceStep(p[2], r[p[1]], gap)]
  <2>1. step \in [(2..n) \X Accs -> Accs]
    <3>1. \A p \in (2..n) \X Accs : p[1] \in 1..n /\ p[2] \in Accs
      BY <1>1
    <3> QED
      BY <1>4, <3>1
  <2>2. \A i \in 2..n, a \in Accs : step[<<i, a>>] = CoalesceStep(a, r[i], gap)
    OBVIOUS
  <2> HIDE DEF step
  <2>3. PICK f \in [1..n -> Accs] : f[1] = base /\ \A i \in 2..n : f[i] = step[<<i, f[i-1]>>]
    <3>1. \E f \in [1..n -> Accs] : IsLoop(f, n, base, step)
      BY <1>1, <1>4, <2>1, LoopHasValues
    <3> QED
      BY <3>1 DEF IsLoop
  <2>4. \A i \in 1..n : f[i] = IF i = 1 THEN base ELSE CoalesceStep(f[i-1], r[i], gap)
    <3> SUFFICES ASSUME NEW i \in 1..n, i # 1
                 PROVE  f[i] = CoalesceStep(f[i-1], r[i], gap)
      BY <2>3
    <3>1. i \in 2..n /\ i - 1 \in 1..n
      BY <1>1
    <3> QED
      BY <2>2, <2>3, <3>1
  <2> QED
    BY <2>4
<1>6. after[1] = base /\ \A i \in 2..n : after[i] = CoalesceStep(after[i-1], r[i], gap)
  <2>1. Loop(after)
    <3> HIDE DEF Loop
    <3> QED
      BY <1>5
  <2> HIDE DEF after
  <2>2. after[1] = base
    BY <1>1, <2>1
  <2>3. ASSUME NEW i \in 2..n PROVE after[i] = CoalesceStep(after[i-1], r[i], gap)
    BY <1>1, <2>1
  <2> QED
    BY <2>2, <2>3
<1> HIDE DEF after
<1>7. Collected(base, r, gap, at, C, 1)
  <2>1. PICK c : Current(at, C, 1, c)
    BY <1>1, CurrentExists
  <2>2. c \in 1..C /\ C \in Nat /\ at[c] = 1
    <3>1. c \in 1..C /\ at[c] <= 1
      BY <2>1 DEF Current
    <3>2. C \in Nat /\ at[c] \in 1..n
      BY <1>1, <3>1 DEF Enumerates
    <3> QED
      BY <3>1, <3>2
  <2>3. c = 1
    <3> SUFFICES ASSUME c # 1 PROVE FALSE
      OBVIOUS
    <3>1. 1 \in 1..C /\ 1 < c
      BY <2>2
    <3>2. at[1] < at[c] /\ at[1] \in 1..n
      BY <1>1, <2>2, <3>1 DEF Enumerates
    <3> QED
      BY <2>2, <3>2
  <2> DEFINE is == <<r[1]>>
             gs == <<>>
  <2>4. /\ is \in Seq(ByteRanges) /\ is # <<>> /\ Len(is) = 1 /\ is[1] = r[1]
        /\ gs \in Seq(ByteRanges) /\ Len(gs) = 0 /\ base.groups = gs /\ base.items = is
    BY <1>1, <1>3 DEF base
  <2> HIDE DEF is, gs
  <2>5. Head(is) = r[1] /\ Last(is) = r[1]
    BY <2>4 DEF Last
  <2>6. c - 1 = 0 /\ \A k \in 1..(c-1) : FALSE
    BY <2>3
  <2> QED
    BY <2>1, <2>2, <2>4, <2>5, <2>6 DEF Collected
<1> DEFINE Good(i) == after[i] \in Accs /\ Collected(after[i], r, gap, at, C, i)
           Bad == {i \in 1..n : ~Good(i)}
<1>8. Good(n)
  <2> SUFFICES ASSUME Bad # {} PROVE FALSE
    BY <1>1
  <2>1. PICK k \in Bad : \A y \in Bad : k <= y
    <3>1. Bad \in SUBSET Nat
      BY <1>1
    <3> HIDE DEF Bad
    <3> QED
      BY <3>1, LeastNat
  <2>2. k # 1
    BY <1>4, <1>6, <1>7, <2>1
  <2>3. k - 1 \in 1..n /\ k \in 1..n /\ k \in 2..n /\ ~(k <= k - 1)
    BY <1>1, <2>1, <2>2
  <2>4. Good(k - 1)
    BY <2>1, <2>3
  <2>5. after[k] = CoalesceStep(after[k-1], r[k], gap) /\ after[k] \in Accs
    BY <1>4, <1>6, <2>3, <2>4
  <2>6. Collected(after[k], r, gap, at, C, k)
    <3>1. k = (k - 1) + 1 /\ n # 0
      BY <1>1, <2>3
    <3> QED
      BY <1>1, <2>3, <2>4, <2>5, <3>1, CollectedStep DEF n, I
  <2> QED
    BY <2>1, <2>5, <2>6
<1> DEFINE end == after[n]
           span == Span(Head(end.items).start, Last(end.items).end)
           all == Append(end.groups, span)
<1>9. /\ end.groups \in Seq(ByteRanges) /\ end.items \in Seq(ByteRanges) /\ end.items # <<>>
      /\ Last(end.items) = r[n]
  BY <1>8 DEF Collected
<1>10. PICK c : /\ Current(at, C, n, c) /\ Head(end.items) = r[at[c]]
                /\ Len(end.groups) = c - 1 /\ \A k \in 1..(c-1) : end.groups[k] = G(k)
  BY <1>8 DEF Collected
<1>11. n \in 1..n /\ c = C /\ C \in 1..C /\ C \in Nat
  <2>1. n \in Nat /\ n \in 1..n
    BY <1>1
  <2>2. CurrentMoves(at, C, I, n, n, c)
    BY <1>1, <1>10, <2>1, CurrentSteps
  <2> QED
    BY <1>1, <1>10, <2>1, <2>2 DEF Current, CurrentMoves, Enumerates
<1>12. span = G(C) /\ span \in ByteRanges
  <2>1. GroupEnd(r, gap, at[c]) = r[n].end
    BY <1>1, <1>10, <1>11, CurrentGroup DEF n, I
  <2> QED
    BY <1>9, <1>10, <1>11, <2>1, ItemsFacts
<1> HIDE DEF span, end, G
<1>13. /\ all \in Seq(ByteRanges) /\ Len(all) = Len(end.groups) + 1
       /\ \A k \in 1..Len(end.groups) : all[k] = end.groups[k]
       /\ all[Len(end.groups) + 1] = span
  BY <1>9, <1>12, AppendProperties
<1>14. Len(end.groups) = C - 1 /\ (C - 1) + 1 = C
  BY <1>10, <1>11
<1>15. Len(all) = C /\ \A k \in 1..C : all[k] = G(k)
  <2>1. ASSUME NEW k \in 1..C PROVE all[k] = G(k)
    <3>1. k = C \/ k \in 1..(C-1)
      BY <1>11
    <3> HIDE DEF all
    <3> QED
      BY <1>10, <1>11, <1>12, <1>13, <1>14, <3>1
  <2> HIDE DEF all
  <2> QED
    BY <1>13, <1>14, <2>1
<1>16. all = [k \in 1..C |-> G(k)]
  <2> HIDE DEF all
  <2>1. all = [k \in 1..Len(all) |-> all[k]]
    BY <1>13
  <2> QED
    BY <1>15, <2>1
<1> QED
  BY <1>2, <1>16 DEF span, end, G

-----------------------------------------------------------------------------
(* Sums.                                                                   *)

(* Induction over the subsets of a finite set: one of the bad ones is not  *)
(* bad when an element is taken from it.                                   *)
LEMMA SmallestSet ==
  ASSUME NEW D, IsFiniteSet(D), NEW Bad \in SUBSET SUBSET D, Bad # {}
  PROVE  \E s \in Bad : \A x \in s : s \ {x} \notin Bad
<1> DEFINE Sizes == {Cardinality(s) : s \in Bad}
<1>1. \A s \in Bad : IsFiniteSet(s) /\ Cardinality(s) \in Nat
  BY FS_Subset, FS_CardinalityType
<1>2. PICK m \in Sizes : \A y \in Sizes : m <= y
  <2>1. Sizes \in SUBSET Nat /\ Sizes # {}
    BY <1>1
  <2> HIDE DEF Sizes
  <2> QED
    BY <2>1, LeastNat
<1>3. PICK s \in Bad : Cardinality(s) = m
  BY <1>2
<1>4. ASSUME NEW x \in s, s \ {x} \in Bad PROVE FALSE
  <2>1. Cardinality(s \ {x}) = Cardinality(s) - 1 /\ Cardinality(s) \in Nat
    BY <1>1, <1>4, FS_RemoveElement
  <2>2. m <= Cardinality(s \ {x})
    BY <1>2, <1>4
  <2> QED
    BY <1>3, <2>1, <2>2
<1> QED
  BY <1>4

(* S sums up the values of F over the subsets of D, in whatever order.     *)
IsSum(S, F, D) ==
  /\ S \in [SUBSET D -> Int] /\ S[{}] = 0
  /\ \A s \in SUBSET D : \A x \in s : S[s] = F[x] + S[s \ {x}]

LEMMA SumFacts ==
  ASSUME NEW D, IsFiniteSet(D), NEW F \in [D -> Int]
  PROVE  \E S : IsSum(S, F, D) /\ SumFunction(F) = S[D]
<1> DEFINE Some(s) == CHOOSE x \in s : TRUE
           Loop(g) == g = [s \in SUBSET D |->
                             IF s = {} THEN 0 ELSE F[Some(s)] + g[s \ {Some(s)}]]
           iter == CHOOSE g : Loop(g)
           n == Cardinality(D)
           UpTo(m, g) == g[{}] = 0 /\ \A s \in SUBSET D :
                           s # {} /\ Cardinality(s) <= m =>
                             g[s] = F[Some(s)] + g[s \ {Some(s)}]
           Bad == {m \in Nat : ~\E g \in [SUBSET D -> Int] : UpTo(m, g)}
<1>1. SumFunction(F) = iter[D]
  <2>1. DOMAIN F = D
    OBVIOUS
  <2> QED
    BY <2>1 DEF SumFunction, SumFunctionOnSet, FoldFunctionOnSet, MapThenFoldSet
<1>2. \A s \in SUBSET D : s # {} => Some(s) \in s /\ s \ {Some(s)} \in SUBSET D
  OBVIOUS
<1>3. \A s \in SUBSET D : IsFiniteSet(s) /\ Cardinality(s) \in Nat /\ Cardinality(s) <= n
  BY FS_Subset, FS_CardinalityType
<1>4. \A s \in SUBSET D : s # {} => /\ Cardinality(s) # 0
                                    /\ Cardinality(s \ {Some(s)}) = Cardinality(s) - 1
  <2> SUFFICES ASSUME NEW s \in SUBSET D, s # {}
               PROVE  /\ Cardinality(s) # 0
                      /\ Cardinality(s \ {Some(s)}) = Cardinality(s) - 1
    OBVIOUS
  <2>1. IsFiniteSet(s) /\ Some(s) \in s
    BY <1>2, <1>3
  <2> HIDE DEF Some
  <2> QED
    BY <2>1, FS_EmptySet, FS_RemoveElement
<1>5. n \in Nat
  BY FS_CardinalityType
<1> HIDE DEF Some, n
<1>6. Bad = {}
  <2> SUFFICES ASSUME Bad # {} PROVE FALSE
    OBVIOUS
  <2>1. PICK m \in Bad : \A y \in Bad : m <= y
    <3>1. Bad \in SUBSET Nat
      OBVIOUS
    <3> HIDE DEF Bad
    <3> QED
      BY <3>1, LeastNat
  <2>2. CASE m = 0
    <3> DEFINE g == [s \in SUBSET D |-> 0]
    <3>1. g \in [SUBSET D -> Int] /\ g[{}] = 0
      OBVIOUS
    <3>2. ASSUME NEW s \in SUBSET D, s # {} PROVE ~(Cardinality(s) <= 0)
      <4>1. Cardinality(s) \in Nat /\ Cardinality(s) # 0
        BY <1>3, <1>4, <3>2
      <4> QED
        BY <4>1
    <3> HIDE DEF g
    <3>3. UpTo(m, g)
      BY <2>2, <3>1, <3>2
    <3> QED
      BY <2>1, <3>1, <3>3
  <2>3. CASE m # 0
    <3>1. m - 1 \in Nat /\ ~(m <= m - 1) /\ m \in Nat
      BY <2>1, <2>3
    <3>2. m - 1 \notin Bad
      BY <2>1, <3>1
    <3>3. PICK g \in [SUBSET D -> Int] : UpTo(m - 1, g)
      BY <3>1, <3>2
    <3> DEFINE h == [s \in SUBSET D |-> IF Cardinality(s) = m THEN F[Some(s)] + g[s \ {Some(s)}]
                                        ELSE g[s]]
    <3>4. \A s \in SUBSET D : s # {} => F[Some(s)] + g[s \ {Some(s)}] \in Int
      <4> SUFFICES ASSUME NEW s \in SUBSET D, s # {} PROVE F[Some(s)] + g[s \ {Some(s)}] \in Int
        OBVIOUS
      <4>1. Some(s) \in D /\ s \ {Some(s)} \in SUBSET D
        BY <1>2
      <4>2. F[Some(s)] \in Int /\ g[s \ {Some(s)}] \in Int
        BY <4>1
      <4> QED
        BY <4>2
    <3>5. Cardinality({}) = 0
      BY FS_EmptySet
    <3>6. h \in [SUBSET D -> Int]
      <4>1. \A s \in SUBSET D : Cardinality(s) = m => s # {}
        BY <2>3, <3>5
      <4> QED
        BY <3>4, <4>1
    <3>7. /\ h[{}] = g[{}]
          /\ \A s \in SUBSET D : Cardinality(s) = m => h[s] = F[Some(s)] + g[s \ {Some(s)}]
          /\ \A s \in SUBSET D : Cardinality(s) # m => h[s] = g[s]
      BY <2>3, <3>5
    <3> HIDE DEF h
    <3>8. ASSUME NEW s \in SUBSET D, s # {}, Cardinality(s) <= m
          PROVE  h[s] = F[Some(s)] + h[s \ {Some(s)}]
      <4>1. /\ s \ {Some(s)} \in SUBSET D /\ Cardinality(s) \in Nat
            /\ Cardinality(s \ {Some(s)}) = Cardinality(s) - 1
        BY <1>2, <1>3, <1>4, <3>8
      <4>2. Cardinality(s \ {Some(s)}) # m
        BY <3>1, <3>8, <4>1
      <4>3. h[s \ {Some(s)}] = g[s \ {Some(s)}]
        BY <3>7, <4>1, <4>2
      <4>4. CASE Cardinality(s) = m
        BY <3>7, <4>3, <4>4
      <4>5. CASE Cardinality(s) # m
        <5>1. Cardinality(s) <= m - 1
          BY <3>1, <3>8, <4>1, <4>5
        <5>2. g[s] = F[Some(s)] + g[s \ {Some(s)}]
          BY <3>3, <3>8, <5>1
        <5> QED
          BY <3>7, <4>3, <4>5, <5>2
      <4> QED
        BY <4>4, <4>5
    <3>9. UpTo(m, h)
      BY <3>3, <3>7, <3>8
    <3> QED
      BY <2>1, <3>6, <3>9
  <2> QED
    BY <2>2, <2>3
<1>7. PICK g \in [SUBSET D -> Int] : UpTo(n, g)
  BY <1>5, <1>6
<1>8. Loop(g)
  <2>1. \A s \in SUBSET D : g[s] = IF s = {} THEN 0 ELSE F[Some(s)] + g[s \ {Some(s)}]
    BY <1>3, <1>7
  <2> QED
    BY <2>1
<1>9. Loop(iter)
  <2> HIDE DEF Loop
  <2> QED
    BY <1>8
<1> HIDE DEF iter
<1>10. /\ DOMAIN iter = SUBSET D /\ iter[{}] = 0
       /\ \A s \in SUBSET D : s # {} => iter[s] = F[Some(s)] + iter[s \ {Some(s)}]
  <2>1. DOMAIN iter = SUBSET D
    BY <1>9
  <2>2. \A s \in SUBSET D : iter[s] = IF s = {} THEN 0 ELSE F[Some(s)] + iter[s \ {Some(s)}]
    BY <1>9
  <2> QED
    BY <2>1, <2>2
<1>11. iter \in [SUBSET D -> Int]
  <2> DEFINE Odd == {s \in SUBSET D : iter[s] \notin Int}
  <2>1. Odd = {}
    <3> SUFFICES ASSUME Odd # {} PROVE FALSE
      OBVIOUS
    <3>1. PICK s \in Odd : \A x \in s : s \ {x} \notin Odd
      <4>1. Odd \in SUBSET SUBSET D
        OBVIOUS
      <4> HIDE DEF Odd
      <4> QED
        BY <4>1, SmallestSet
    <3>2. s # {}
      <4>1. s \in Odd
        BY <3>1
      <4>2. iter[s] \notin Int
        BY <4>1
      <4>3. iter[{}] \in Int
        BY <1>10
      <4> HIDE DEF Odd
      <4> QED
        BY <4>2, <4>3
    <3>3. Some(s) \in s /\ Some(s) \in D /\ s \ {Some(s)} \in SUBSET D
      BY <1>2, <3>1, <3>2
    <3>4. iter[s \ {Some(s)}] \in Int /\ F[Some(s)] \in Int
      BY <3>1, <3>3
    <3>5. iter[s] = F[Some(s)] + iter[s \ {Some(s)}]
      BY <1>10, <3>1, <3>2
    <3> QED
      BY <3>1, <3>4, <3>5
  <2>2. iter = [s \in SUBSET D |-> iter[s]]
    BY <1>9
  <2> QED
    BY <2>1, <2>2
<1>12. \A s \in SUBSET D : \A x \in s : iter[s] = F[x] + iter[s \ {x}]
  <2> DEFINE Odd == {s \in SUBSET D : \E x \in s : iter[s] # F[x] + iter[s \ {x}]}
  <2> SUFFICES ASSUME Odd # {} PROVE FALSE
    OBVIOUS
  <2>1. PICK s \in Odd : \A x \in s : s \ {x} \notin Odd
    <3>1. Odd \in SUBSET SUBSET D
      OBVIOUS
    <3> HIDE DEF Odd
    <3> QED
      BY <3>1, SmallestSet
  <2>2. PICK x \in s : iter[s] # F[x] + iter[s \ {x}]
    BY <2>1
  <2> DEFINE y == Some(s)
             both == (s \ {x}) \ {y}
  <2>3. /\ s \in SUBSET D /\ y \in s /\ x \in D /\ y \in D
        /\ s \ {y} \in SUBSET D /\ s \ {x} \in SUBSET D /\ both \in SUBSET D
        /\ both = (s \ {y}) \ {x}
    BY <1>2, <2>1, <2>2
  <2>4. iter[s] = F[y] + iter[s \ {y}] /\ x # y
    BY <1>10, <2>2, <2>3
  <2>5. s \ {y} \notin Odd /\ s \ {x} \notin Odd
    BY <2>1, <2>2, <2>3
  <2>6. x \in s \ {y} /\ y \in s \ {x}
    BY <2>2, <2>3, <2>4
  <2> HIDE DEF y, both
  <2>7. iter[s \ {y}] = F[x] + iter[both]
    BY <2>3, <2>5, <2>6
  <2>8. iter[s \ {x}] = F[y] + iter[both]
    BY <2>3, <2>5, <2>6 DEF both
  <2>9. F[x] \in Int /\ F[y] \in Int /\ iter[both] \in Int
    BY <1>11, <2>3
  <2> QED
    BY <2>2, <2>4, <2>7, <2>8, <2>9
<1>13. IsSum(iter, F, D)
  BY <1>10, <1>11, <1>12 DEF IsSum
<1> QED
  BY <1>1, <1>13

(* The sum of positive values is positive, but for the empty one.          *)
LEMMA PositiveSum ==
  ASSUME NEW D, IsFiniteSet(D), NEW F \in [D -> Int], NEW S, IsSum(S, F, D),
         \A x \in D : F[x] > 0, NEW s \in SUBSET D
  PROVE  S[s] \in Int /\ S[s] >= 0 /\ (s # {} => S[s] > 0)
<1> DEFINE Good(t) == S[t] >= 0 /\ (t # {} => S[t] > 0)
           Bad == {t \in SUBSET D : ~Good(t)}
<1>1. \A t \in SUBSET D : S[t] \in Int
  BY DEF IsSum
<1>2. Bad = {}
  <2> SUFFICES ASSUME Bad # {} PROVE FALSE
    OBVIOUS
  <2>1. PICK t \in Bad : \A x \in t : t \ {x} \notin Bad
    <3>1. Bad \in SUBSET SUBSET D
      OBVIOUS
    <3> HIDE DEF Bad
    <3> QED
      BY <3>1, SmallestSet
  <2>2. t # {}
    <3>1. t \in Bad
      BY <2>1
    <3>2. ~Good(t)
      BY <3>1
    <3>3. S[{}] = 0
      BY DEF IsSum
    <3>4. Good({})
      BY <3>3
    <3> HIDE DEF Good
    <3> QED
      BY <3>2, <3>4
  <2>3. PICK x \in t : x \in D
    BY <2>1, <2>2
  <2>4. t \in SUBSET D /\ t \ {x} \in SUBSET D
    BY <2>1
  <2>5. Good(t \ {x})
    BY <2>1, <2>3, <2>4
  <2>6. S[t] = F[x] + S[t \ {x}]
    BY <2>3, <2>4 DEF IsSum
  <2>7. F[x] \in Int /\ S[t \ {x}] \in Int /\ F[x] > 0 /\ S[t \ {x}] >= 0
    BY <1>1, <2>3, <2>4, <2>5
  <2> HIDE DEF Good
  <2>8. S[t] > 0
    BY <2>6, <2>7
  <2> QED
    BY <1>1, <2>1, <2>4, <2>8 DEF Good
<1> QED
  BY <1>1, <1>2

-----------------------------------------------------------------------------
(* Shares.  How many of the numbers 0 .. n - 1 have remainder r by d.      *)

Share(n, d, r) == IF n % d > r THEN (n \div d) + 1 ELSE n \div d

LEMMA Divided ==
  ASSUME NEW n \in Nat, NEW d \in Nat \ {0}
  PROVE  n \div d \in Nat /\ n % d \in 0..(d - 1) /\ n = d * (n \div d) + (n % d)
OBVIOUS

LEMMA DividedOnce ==
  ASSUME NEW d \in Nat \ {0}, NEW p \in Nat, NEW q \in Nat,
         NEW r \in 0..(d - 1), NEW s \in 0..(d - 1), d * p + r = d * q + s
  PROVE  p = q /\ r = s
<1>1. ASSUME NEW a \in Nat, NEW b \in Nat, a < b
      PROVE  d * a + d <= d * b
  <2>1. d * (a + 1) <= d * b
    BY <1>1
  <2>2. d * (a + 1) = d * a + d
    OBVIOUS
  <2> QED
    BY <2>1, <2>2
<1>2. d * p \in Nat /\ d * q \in Nat
  OBVIOUS
<1>3. ~(p < q)
  BY <1>1, <1>2
<1>4. ~(q < p)
  BY <1>1, <1>2
<1> QED
  BY <1>3, <1>4

(* A number below d is its own remainder.                                  *)
LEMMA OwnRemainder ==
  ASSUME NEW d \in Nat \ {0}, NEW r \in 0..(d - 1)
  PROVE  r % d = r
<1> DEFINE q == r \div d
           m == r % d
<1>1. q \in Nat /\ m \in 0..(d - 1) /\ r = d * q + m
  <2>1. r \in Nat
    OBVIOUS
  <2> QED
    BY <2>1, Divided
<1>2. d * 0 + r = r
  OBVIOUS
<1> HIDE DEF q, m
<1>3. m = r
  BY <1>1, <1>2, DividedOnce
<1> QED
  BY <1>3 DEF m

(* Where the quotient goes on to the next one.                             *)
LEMMA DividedNext ==
  ASSUME NEW n \in Nat, NEW d \in Nat \ {0}
  PROVE  IF n % d = d - 1
         THEN (n + 1) \div d = (n \div d) + 1 /\ (n + 1) % d = 0
         ELSE (n + 1) \div d = n \div d /\ (n + 1) % d = (n % d) + 1
<1> DEFINE q == n \div d
           r == n % d
           p == (n + 1) \div d
           s == (n + 1) % d
<1>1. q \in Nat /\ r \in 0..(d - 1) /\ n = d * q + r
  BY Divided
<1>2. p \in Nat /\ s \in 0..(d - 1) /\ n + 1 = d * p + s
  <2> DEFINE m == n + 1
  <2>1. m \in Nat
    OBVIOUS
  <2> HIDE DEF m
  <2>2. m \div d \in Nat /\ m % d \in 0..(d - 1) /\ m = d * (m \div d) + (m % d)
    BY <2>1, Divided
  <2> QED
    BY <2>2 DEF m
<1> HIDE DEF q, r, p, s
<1>3. CASE r = d - 1
  <2>1. d * (q + 1) = d * q + d
    BY <1>1
  <2>2. d * p + s = d * (q + 1) + 0
    BY <1>1, <1>2, <1>3, <2>1
  <2>3. p = q + 1 /\ s = 0
    BY <1>1, <1>2, <2>2, DividedOnce
  <2> QED
    BY <1>3, <2>3 DEF q, r, p, s
<1>4. CASE r # d - 1
  <2>1. r + 1 \in 0..(d - 1)
    BY <1>1, <1>4
  <2>2. d * p + s = d * q + (r + 1)
    BY <1>1, <1>2
  <2>3. p = q /\ s = r + 1
    BY <1>1, <1>2, <2>1, <2>2, DividedOnce
  <2> QED
    BY <1>4, <2>3 DEF q, r, p, s
<1> QED
  BY <1>3, <1>4

LEMMA ShareFacts ==
  ASSUME NEW n \in Nat, NEW d \in Nat \ {0}, NEW r \in 0..(d - 1)
  PROVE  /\ Share(n, d, r) \in Nat /\ Share(0, d, r) = 0
         /\ Share(n + 1, d, r) = IF n % d = r THEN Share(n, d, r) + 1 ELSE Share(n, d, r)
         /\ n % d = r => Share(n, d, r) = n \div d
         /\ Share(n, d, r) \in {n \div d, (n \div d) + 1}
         /\ Share(n + 1, d, r) \in {n \div d, (n \div d) + 1}
<1>1. n \div d \in Nat /\ n % d \in 0..(d - 1)
  BY Divided
<1>2. 0 % d = 0 /\ 0 \div d = 0
  <2>1. 0 \div d \in Nat /\ 0 % d \in 0..(d - 1) /\ d * 0 + 0 = d * (0 \div d) + (0 % d)
    BY Divided
  <2>2. 0 \in 0..(d - 1)
    OBVIOUS
  <2> QED
    BY <2>1, <2>2, DividedOnce
<1> DEFINE q == n \div d
           m == n % d
           p == (n + 1) \div d
           s == (n + 1) % d
<1>5. Share(n, d, r) = IF m > r THEN q + 1 ELSE q
  BY DEF Share
<1>6. Share(n + 1, d, r) = IF s > r THEN p + 1 ELSE p
  BY DEF Share
<1>7. Share(0, d, r) = 0
  BY <1>2 DEF Share
<1>8. IF m = d - 1 THEN p = q + 1 /\ s = 0 ELSE p = q /\ s = m + 1
  BY DividedNext
<1> HIDE DEF q, m, p, s
<1>9. q \in Nat /\ m \in 0..(d - 1)
  BY <1>1 DEF q, m
<1>3. CASE m = d - 1
  <2>1. p = q + 1 /\ s = 0
    BY <1>3, <1>8
  <2>2. Share(n + 1, d, r) = q + 1
    BY <1>6, <2>1
  <2> QED
    BY <1>3, <1>5, <1>7, <1>9, <2>2 DEF q, m
<1>4. CASE m # d - 1
  <2>1. p = q /\ s = m + 1
    BY <1>4, <1>8
  <2>2. Share(n + 1, d, r) = IF m >= r THEN q + 1 ELSE q
    BY <1>6, <1>9, <2>1
  <2> QED
    BY <1>4, <1>5, <1>7, <1>9, <2>2 DEF q, m
<1> QED
  BY <1>3, <1>4

(* A number below another has the lesser quotient, and one class below a   *)
(* multiple of the divisor stays below it.                                 *)
LEMMA QuotientInBounds ==
  ASSUME NEW n \in Nat, NEW d \in Nat \ {0}, NEW m \in 0..(n - 1)
  PROVE  m \div d \in 0..(((n + d - 1) \div d) - 1)
<1> DEFINE k == n + d - 1
           h == k \div d
           q == m \div d
<1>1. k \in Nat
  OBVIOUS
<1>2. h \in Nat /\ k % d \in 0..(d - 1) /\ k = d * h + (k % d)
  <2> HIDE DEF k
  <2> QED
    BY <1>1, Divided
<1>3. q \in Nat /\ m % d \in 0..(d - 1) /\ m = d * q + (m % d)
  <2>1. m \in Nat
    OBVIOUS
  <2> QED
    BY <2>1, Divided
<1>4. m <= k - d
  OBVIOUS
<1>5. q < h
  <2> SUFFICES ASSUME h <= q PROVE FALSE
    BY <1>2, <1>3
  <2> HIDE DEF h, q
  <2>1. d * h <= d * q
    BY <1>2, <1>3
  <2> QED
    BY <1>1, <1>2, <1>3, <1>4, <2>1
<1>6. q \in 0..(h - 1)
  <2> HIDE DEF h, q
  <2> QED
    BY <1>2, <1>3, <1>5
<1> QED
  BY <1>6

LEMMA ProductBelow ==
  ASSUME NEW n \in Nat, NEW d \in Nat \ {0}, NEW q \in 0..((n \div d) - 1), NEW k \in 1..d
  PROVE  d * q + k \in 1..n
<1> DEFINE f == n \div d
<1>1. f \in Nat /\ n % d \in 0..(d - 1) /\ n = d * f + (n % d)
  BY Divided
<1>2. q \in Nat /\ q + 1 <= f
  BY <1>1
<1> HIDE DEF f
<1>3. d * (q + 1) <= d * f /\ d * (q + 1) = d * q + d /\ d * q \in Nat
  BY <1>1, <1>2
<1> QED
  BY <1>1, <1>3

(* Of the first n numbers, dealt to d places in turn, a set of places gets *)
(* for each of them one per round that is complete, and at most one per    *)
(* round that was begun.                                                   *)
LEMMA SharesOfPlaces ==
  ASSUME NEW n \in Nat, NEW d \in Nat \ {0}, NEW K \in SUBSET (1..d)
  PROVE  LET dealt == {i \in 1..n : ((i - 1) % d) + 1 \in K}
         IN  /\ Cardinality(K) * (n \div d) <= Cardinality(dealt)
             /\ Cardinality(dealt) <= Cardinality(K) * ((n + d - 1) \div d)
<1> DEFINE dealt == {i \in 1..n : ((i - 1) % d) + 1 \in K}
           low == n \div d
           high == (n + d - 1) \div d
           up == [i \in dealt |-> <<((i - 1) % d) + 1, (i - 1) \div d>>]
           down == [x \in K \X (0..(low - 1)) |-> d * x[2] + x[1]]
<1>1. low \in Nat /\ high \in Nat
  <2>1. n + d - 1 \in Nat
    OBVIOUS
  <2> QED
    BY <2>1, Divided
<1>2. /\ IsFiniteSet(K) /\ Cardinality(K) \in Nat
      /\ IsFiniteSet(dealt) /\ Cardinality(dealt) \in Nat
  <2>1. IsFiniteSet(1..d) /\ IsFiniteSet(1..n)
    BY FS_Interval
  <2>2. IsFiniteSet(K) /\ IsFiniteSet(dealt)
    BY <2>1, FS_Subset
  <2> QED
    BY <2>2, FS_CardinalityType
<1>3. ASSUME NEW m \in Nat
      PROVE  /\ IsFiniteSet(K \X (0..(m - 1)))
             /\ Cardinality(K \X (0..(m - 1))) = Cardinality(K) * m
  <2>1. IsFiniteSet(0..(m - 1)) /\ Cardinality(0..(m - 1)) = m
    BY FS_Interval
  <2> QED
    BY <1>2, <2>1, FS_Product
<1>4. \A i \in dealt : /\ i \in 1..n /\ i - 1 \in 0..(n - 1)
                       /\ ((i - 1) % d) + 1 \in K /\ (i - 1) % d \in 0..(d - 1)
                       /\ (i - 1) \div d \in Nat
                       /\ i - 1 = d * ((i - 1) \div d) + ((i - 1) % d)
  <2> SUFFICES ASSUME NEW i \in dealt
               PROVE  /\ i \in 1..n /\ i - 1 \in 0..(n - 1)
                      /\ ((i - 1) % d) + 1 \in K /\ (i - 1) % d \in 0..(d - 1)
                      /\ (i - 1) \div d \in Nat
                      /\ i - 1 = d * ((i - 1) \div d) + ((i - 1) % d)
    OBVIOUS
  <2> DEFINE m == i - 1
  <2>1. i \in 1..n /\ m \in 0..(n - 1) /\ m \in Nat /\ (m % d) + 1 \in K
    OBVIOUS
  <2> HIDE DEF m
  <2>2. m % d \in 0..(d - 1) /\ m \div d \in Nat /\ m = d * (m \div d) + (m % d)
    BY <2>1, Divided
  <2> QED
    BY <2>1, <2>2 DEF m
<1>5. Cardinality(dealt) <= Cardinality(K) * high
  <2>1. \A i \in dealt : (i - 1) \div d \in 0..(high - 1)
    BY <1>4, QuotientInBounds
  <2>2. up \in [dealt -> K \X (0..(high - 1))]
    BY <1>4, <2>1
  <2>3. ASSUME NEW i \in dealt, NEW j \in dealt, up[i] = up[j] PROVE i = j
    <3> DEFINE q == (i - 1) \div d
               r == (i - 1) % d
               p == (j - 1) \div d
               s == (j - 1) % d
    <3>1. up[i] = <<r + 1, q>> /\ up[j] = <<s + 1, p>>
      OBVIOUS
    <3>2. i - 1 = d * q + r /\ j - 1 = d * p + s /\ r \in Int /\ s \in Int
          /\ i \in Int /\ j \in Int
      BY <1>4
    <3> HIDE DEF q, r, p, s, up
    <3>3. r + 1 = s + 1 /\ q = p
      <4>1. <<r + 1, q>> = <<s + 1, p>>
        BY <2>3, <3>1
      <4> QED
        BY <4>1
    <3>4. r = s
      BY <3>2, <3>3
    <3>5. i - 1 = j - 1
      BY <3>2, <3>3, <3>4
    <3> QED
      BY <3>2, <3>5
  <2> HIDE DEF up
  <2>4. up \in Injection(dealt, K \X (0..(high - 1)))
    BY <2>2, <2>3, Fun_IsInj
  <2> HIDE DEF dealt, high
  <2>5. IsFiniteSet(K \X (0..(high - 1)))
        /\ Cardinality(K \X (0..(high - 1))) = Cardinality(K) * high
    BY <1>1, <1>3
  <2> QED
    BY <2>4, <2>5, FS_Injection
<1>7. \A k \in K : k \in Int
  OBVIOUS
<1>6. Cardinality(K) * low <= Cardinality(dealt)
  <2>1. ASSUME NEW k \in K, NEW q \in 0..(low - 1)
        PROVE  /\ d * q + k \in dealt /\ q \in Nat /\ k - 1 \in 0..(d - 1)
               /\ d * q + k = (d * q + (k - 1)) + 1
    <3>1. k \in 1..d /\ q \in Nat /\ d * q \in Nat
      BY <1>1
    <3>2. d * q + k \in 1..n
      BY <3>1, ProductBelow
    <3> DEFINE m == (d * q + k) - 1
    <3>3. m \in Nat /\ m = d * q + (k - 1) /\ k - 1 \in 0..(d - 1) /\ (k - 1) + 1 = k
      BY <3>1, <3>2
    <3> HIDE DEF m
    <3>4. m % d \in 0..(d - 1) /\ m \div d \in Nat /\ m = d * (m \div d) + (m % d)
      BY <3>3, Divided
    <3>5. m % d = k - 1
      BY <3>1, <3>3, <3>4, DividedOnce
    <3> QED
      BY <3>1, <3>2, <3>3, <3>5 DEF m
  <2>2. down \in [K \X (0..(low - 1)) -> dealt]
    BY <2>1
  <2>3. ASSUME NEW x \in K \X (0..(low - 1)), NEW y \in K \X (0..(low - 1)), down[x] = down[y]
        PROVE  x = y
    <3> DEFINE k == x[1]
               q == x[2]
               j == y[1]
               p == y[2]
    <3>1. k \in K /\ q \in 0..(low - 1) /\ j \in K /\ p \in 0..(low - 1)
      OBVIOUS
    <3>2. x = <<k, q>> /\ y = <<j, p>>
      OBVIOUS
    <3>3. down[x] = d * q + k /\ down[y] = d * p + j
      OBVIOUS
    <3> HIDE DEF k, q, j, p
    <3>4. /\ q \in Nat /\ k - 1 \in 0..(d - 1) /\ d * q + k = (d * q + (k - 1)) + 1
          /\ p \in Nat /\ j - 1 \in 0..(d - 1) /\ d * p + j = (d * p + (j - 1)) + 1
      BY <2>1, <3>1
    <3> HIDE DEF down, dealt, low
    <3> DEFINE v == d * q + (k - 1)
               w == d * p + (j - 1)
    <3>9. v \in Int /\ w \in Int
      BY <3>4
    <3>10. d * q + k = d * p + j
      <4> HIDE DEF v, w
      <4> QED
        BY <2>3, <3>3, Zenon
    <3>8. v \in Int /\ w \in Int /\ v + 1 = w + 1
      <4>1. d * q + k = v + 1 /\ d * p + j = w + 1
        BY <3>4
      <4> HIDE DEF v, w
      <4> QED
        BY <3>9, <3>10, <4>1, Zenon
    <3>5. v = w
      <4> HIDE DEF v, w
      <4> QED
        BY <3>8
    <3>6. q = p /\ k - 1 = j - 1
      BY <3>4, <3>5, DividedOnce
    <3>7. k = j
      BY <3>6, <1>7, <3>1
    <3> QED
      BY <3>2, <3>6, <3>7
  <2> HIDE DEF down
  <2>4. down \in Injection(K \X (0..(low - 1)), dealt)
    BY <2>2, <2>3, Fun_IsInj
  <2> HIDE DEF dealt, low
  <2>5. Cardinality(K \X (0..(low - 1))) = Cardinality(K) * low
    BY <1>1, <1>3
  <2> QED
    BY <1>2, <2>4, <2>5, FS_Injection
<1> QED
  BY <1>5, <1>6
=============================================================================
