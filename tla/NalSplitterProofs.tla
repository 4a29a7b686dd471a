-------------------------- MODULE NalSplitterProofs --------------------------
(***************************************************************************)
(* The splitter, for every stream and every way to cut it into chunks: the *)
(* NAL units it hands over chunk by chunk are those of the whole stream.   *)
(***************************************************************************)
EXTENDS NalSplitter, Integers, Functions, SequenceTheorems, FiniteSetTheorems, TLAPS

-----------------------------------------------------------------------------
(* Numbers in order.                                                       *)

\* How many numbers of S there are up to i.
Rank(S, i) == Cardinality({j \in S : j <= i})

Increasing(f) == \A j, k \in DOMAIN f : j < k => f[j] < f[k]

\* Larger elements have larger ranks, and no rank is left out.
LEMMA RankOrders ==
  ASSUME NEW S \in SUBSET Nat, IsFiniteSet(S)
  PROVE  /\ Cardinality(S) \in Nat
         /\ \A i \in S : Rank(S, i) \in 1..Cardinality(S)
         /\ \A i, j \in S : i < j => Rank(S, i) < Rank(S, j)
         /\ \A k \in 1..Cardinality(S) : \E i \in S : Rank(S, i) = k
<1>1. Cardinality(S) \in Nat
  BY FS_CardinalityType
<1>2. ASSUME NEW i \in S
      PROVE  Rank(S, i) \in 1..Cardinality(S)
  <2> DEFINE T == {j \in S : j <= i}
  <2>1. T \in SUBSET S /\ i \in T
    OBVIOUS
  <2>2. IsFiniteSet(T) /\ Cardinality(T) <= Cardinality(S)
    BY <2>1, FS_Subset
  <2>3. Cardinality(T) \in Nat /\ Cardinality(T) # 0
    BY <2>1, <2>2, FS_CardinalityType, FS_EmptySet
  <2> QED
    BY <2>2, <2>3, <1>1 DEF Rank
<1>3. ASSUME NEW i \in S, NEW j \in S, i < j
      PROVE  Rank(S, i) < Rank(S, j)
  <2> DEFINE T == {l \in S : l <= i}
             U == {l \in S : l <= j}
  <2>1. U \in SUBSET S /\ T \in SUBSET U /\ j \in U /\ j \notin T
    <3>1. i \in Nat /\ j \in Nat /\ \A l \in S : l \in Nat
      OBVIOUS
    <3>2. \A l \in Nat : l <= i => l <= j
      BY <1>3, <3>1
    <3>3. j <= j /\ ~(j <= i)
      BY <1>3, <3>1
    <3> QED
      BY <3>1, <3>2, <3>3
  <2>2. IsFiniteSet(U)
    BY <2>1, FS_Subset
  <2>3. Cardinality(T) <= Cardinality(U) /\ Cardinality(T) # Cardinality(U) /\ IsFiniteSet(T)
    BY <2>1, <2>2, FS_Subset
  <2>4. Cardinality(T) \in Nat /\ Cardinality(U) \in Nat
    BY <2>2, <2>3, FS_CardinalityType
  <2> QED
    BY <2>3, <2>4 DEF Rank
<1>4. ASSUME NEW k \in 1..Cardinality(S)
      PROVE  \E i \in S : Rank(S, i) = k
  <2> DEFINE f == [i \in S |-> Rank(S, i)]
             n == Cardinality(S)
  <2>1. f \in [S -> 1..n]
    BY <1>2
  <2>2. \A i, j \in S : f[i] = f[j] => i = j
    <3>1. \A i \in S : Rank(S, i) \in Int
      BY <1>2
    <3>2. \A i, j \in S : Rank(S, i) = Rank(S, j) => ~(i < j) /\ ~(j < i)
      BY <1>3, <3>1
    <3>3. \A i, j \in S : i < j \/ j < i \/ i = j
      OBVIOUS
    <3> QED
      BY <3>2, <3>3
  <2>3. f \in Injection(S, 1..n)
    BY <2>1, <2>2 DEF Injection, IsInjective
  <2>4. IsFiniteSet(1..n) /\ Cardinality(1..n) = n
    BY <1>1, FS_Interval
  <2>5. f \in Surjection(S, 1..n)
    BY <2>3, <2>4, FS_Injection
  <2> QED
    BY <2>5 DEF Surjection
<1> QED
  BY <1>1, <1>2, <1>3, <1>4

\* Sorted lists the set, in order.
LEMMA SortedIs ==
  ASSUME NEW S \in SUBSET Nat, IsFiniteSet(S)
  PROVE  /\ Cardinality(S) \in Nat
         /\ Sorted(S) \in [1..Cardinality(S) -> S]
         /\ Increasing(Sorted(S))
         /\ \A i \in S : \E k \in 1..Cardinality(S) : Sorted(S)[k] = i
<1> DEFINE n == Cardinality(S)
<1>0. n \in Nat
  BY RankOrders
<1>1. ASSUME NEW k \in 1..n
      PROVE  Sorted(S)[k] \in S /\ Rank(S, Sorted(S)[k]) = k
  <2>1. \E i \in S : Rank(S, i) = k
    BY RankOrders
  <2>2. Sorted(S)[k] = CHOOSE i \in S : Rank(S, i) = k
    BY DEF Sorted, Rank
  <2> QED
    BY <2>1, <2>2
<1>2. Sorted(S) \in [1..n -> S]
  BY <1>1 DEF Sorted
<1>3. ASSUME NEW i \in S, NEW j \in S, Rank(S, i) = Rank(S, j)
      PROVE  i = j
  <2>1. Rank(S, i) \in Int /\ Rank(S, j) \in Int
    BY RankOrders
  <2>2. ~(i < j) /\ ~(j < i)
    BY <1>3, <2>1, RankOrders
  <2>3. i \in Nat /\ j \in Nat
    OBVIOUS
  <2> QED
    BY <2>2, <2>3
<1>4. Increasing(Sorted(S))
  <2> SUFFICES ASSUME NEW j \in 1..n, NEW k \in 1..n, j < k
               PROVE  Sorted(S)[j] < Sorted(S)[k]
    BY <1>2 DEF Increasing
  <2> DEFINE a == Sorted(S)[j]
             b == Sorted(S)[k]
  <2>1. a \in S /\ b \in S /\ Rank(S, a) = j /\ Rank(S, b) = k
    BY <1>1
  <2>2. ~(b < a) /\ b # a
    <3> HIDE DEF a, b
    <3>1. ~(k < j) /\ j # k
      OBVIOUS
    <3>2. b < a => Rank(S, b) < Rank(S, a)
      BY <2>1, RankOrders
    <3> QED
      BY <2>1, <3>1, <3>2
  <2>3. a \in Nat /\ b \in Nat
    BY <2>1
  <2> QED
    BY <2>2, <2>3
<1>5. ASSUME NEW i \in S
      PROVE  \E k \in 1..n : Sorted(S)[k] = i
  <2>1. Rank(S, i) \in 1..n
    BY RankOrders
  <2>2. Sorted(S)[Rank(S, i)] \in S /\ Rank(S, Sorted(S)[Rank(S, i)]) = Rank(S, i)
    BY <1>1, <2>1
  <2>3. Sorted(S)[Rank(S, i)] = i
    BY <1>3, <2>2
  <2> QED
    BY <2>1, <2>3
<1> QED
  BY <1>0, <1>2, <1>4, <1>5

\* It is the only one that does.
LEMMA SortedOnly ==
  ASSUME NEW S \in SUBSET Nat, NEW n \in Nat, NEW f \in [1..n -> S], Increasing(f),
         \A i \in S : \E k \in 1..n : f[k] = i
  PROVE  IsFiniteSet(S) /\ n = Cardinality(S) /\ f = Sorted(S)
<1>1. \A j, k \in 1..n : f[j] = f[k] => j = k
  <2>1. \A j, k \in 1..n : f[j] \in Nat /\ f[k] \in Nat
    OBVIOUS
  <2>2. \A j, k \in 1..n : j < k => f[j] < f[k]
    BY DEF Increasing
  <2>3. \A j, k \in 1..n : f[j] = f[k] => ~(j < k) /\ ~(k < j)
    BY <2>1, <2>2
  <2> QED
    BY <2>3
<1>2. f \in Bijection(1..n, S)
  BY <1>1 DEF Bijection, Injection, Surjection, IsInjective
<1>3. IsFiniteSet(S) /\ Cardinality(S) = n
  <2>1. IsFiniteSet(1..n) /\ Cardinality(1..n) = n
    BY FS_Interval
  <2> QED
    BY <1>2, <2>1, FS_Bijection DEF ExistsBijection
<1>4. ASSUME NEW k \in 1..n
      PROVE  Rank(S, f[k]) = k
  <2> DEFINE T == {j \in S : j <= f[k]}
             g == [l \in 1..k |-> f[l]]
  <2>1. \A l \in 1..k : l \in 1..n
    OBVIOUS
  <2>2. ASSUME NEW l \in 1..k
        PROVE  f[l] \in T
    <3>1. l \in 1..n /\ (l < k \/ l = k)
      BY <2>1
    <3>2. f[l] \in S /\ f[l] \in Nat /\ f[k] \in Nat
      BY <3>1
    <3>3. f[l] <= f[k]
      BY <3>1, <3>2 DEF Increasing
    <3> QED
      BY <3>2, <3>3
  <2>3. ASSUME NEW j \in T
        PROVE  \E l \in 1..k : f[l] = j
    <3>1. PICK l \in 1..n : f[l] = j
      OBVIOUS
    <3>2. ~(k < l)
      <4>1. f[l] \in Nat /\ f[k] \in Nat /\ f[l] <= f[k]
        BY <3>1
      <4> QED
        BY <4>1 DEF Increasing
    <3> QED
      BY <3>1, <3>2
  <2>4. g \in Bijection(1..k, T)
    <3> HIDE DEF T
    <3>1. g \in [1..k -> T]
      BY <2>2
    <3>2. \A l, m \in 1..k : g[l] = g[m] => l = m
      BY <1>1, <2>1
    <3> QED
      BY <3>1, <3>2, <2>3 DEF Bijection, Injection, Surjection, IsInjective
  <2>5. Cardinality(T) = k
    <3> HIDE DEF T, g
    <3>1. k \in Nat
      OBVIOUS
    <3>2. ExistsBijection(1..k, T)
      BY <2>4 DEF ExistsBijection
    <3> QED
      BY <3>1, <3>2, FS_CountingElements
  <2> QED
    BY <2>5 DEF Rank
<1>5. ASSUME NEW k \in 1..n
      PROVE  Sorted(S)[k] = f[k]
  <2>1. Sorted(S)[k] \in S
    BY <1>3, SortedIs
  <2>2. PICK l \in 1..n : f[l] = Sorted(S)[k]
    BY <2>1
  <2>3. Rank(S, Sorted(S)[k]) = k
    <3>1. Sorted(S)[k] = CHOOSE i \in S : Rank(S, i) = k
      BY <1>3 DEF Sorted, Rank
    <3>2. f[k] \in S /\ Rank(S, f[k]) = k
      BY <1>4
    <3> QED
      BY <3>1, <3>2
  <2> QED
    BY <2>2, <2>3, <1>4
<1>6. Sorted(S) \in [1..n -> S]
  BY <1>3, SortedIs
<1> QED
  BY <1>3, <1>5, <1>6

\* What keeps the order of a set keeps its list.
LEMMA SortedMaps ==
  ASSUME NEW S \in SUBSET Nat, IsFiniteSet(S), NEW g \in [S -> Nat],
         \A i, j \in S : i < j => g[i] < g[j]
  PROVE  LET T == {g[i] : i \in S}
         IN  /\ IsFiniteSet(T) /\ Cardinality(T) = Cardinality(S)
             /\ Sorted(T) = [k \in 1..Cardinality(S) |-> g[Sorted(S)[k]]]
<1> DEFINE T == {g[i] : i \in S}
           n == Cardinality(S)
           f == [k \in 1..n |-> g[Sorted(S)[k]]]
<1>1. /\ n \in Nat /\ Sorted(S) \in [1..n -> S] /\ Increasing(Sorted(S))
      /\ \A i \in S : \E k \in 1..n : Sorted(S)[k] = i
  BY SortedIs
<1> HIDE DEF n
<1>2. T \in SUBSET Nat
  OBVIOUS
<1>3. f \in [1..n -> T]
  BY <1>1
<1>4. Increasing(f)
  <2> SUFFICES ASSUME NEW j \in 1..n, NEW k \in 1..n, j < k
               PROVE  f[j] < f[k]
    BY <1>3 DEF Increasing
  <2>1. Sorted(S)[j] < Sorted(S)[k] /\ Sorted(S)[j] \in S /\ Sorted(S)[k] \in S
    BY <1>1 DEF Increasing
  <2> QED
    BY <2>1
<1>5. \A t \in T : \E k \in 1..n : f[k] = t
  BY <1>1
<1> HIDE DEF f, T
<1>6. IsFiniteSet(T) /\ n = Cardinality(T) /\ f = Sorted(T)
  BY <1>1, <1>2, <1>3, <1>4, <1>5, SortedOnly
<1> QED
  BY <1>6 DEF T, f, n

-----------------------------------------------------------------------------
(* Start codes.                                                            *)

\* Where a start code ends, whether three bytes or four, and where it begins.
Ones(data) == {i \in 3..Len(data) : data[i - 2] = 0 /\ data[i - 1] = 0 /\ data[i] = 1}
Start(data, i) == IF i > 3 /\ data[i - 3] = 0 THEN i - 3 ELSE i - 2

\* A stream has finitely many codes.
LEMMA OnesFinite ==
  ASSUME NEW B, NEW data \in Seq(B)
  PROVE  /\ Len(data) \in Nat
         /\ Ones(data) \in SUBSET Nat /\ IsFiniteSet(Ones(data))
         /\ \A i \in Ones(data) : i \in 3..Len(data) /\ i \in Int
<1>1. Len(data) \in Nat
  OBVIOUS
<1>2. Ones(data) \in SUBSET (3..Len(data)) /\ Ones(data) \in SUBSET Nat
  BY <1>1 DEF Ones
<1>3. IsFiniteSet(3..Len(data))
  BY <1>1, FS_Interval
<1> QED
  BY <1>1, <1>2, <1>3, FS_Subset

\* The bytes of a part of a sequence.
LEMMA Part ==
  ASSUME NEW B, NEW data \in Seq(B), NEW m \in Int, NEW n \in Int,
         1 <= m, n <= Len(data), m <= n + 1
  PROVE  /\ SubSeq(data, m, n) \in Seq(B) /\ Len(SubSeq(data, m, n)) = n - m + 1
         /\ \A i \in 1..n - m + 1 : SubSeq(data, m, n)[i] = data[m + i - 1]
<1>1. Len(data) \in Nat
  OBVIOUS
<1>2. m \in 1..Len(data) + 1 /\ n \in m - 1..Len(data)
  BY <1>1
<1> QED
  BY <1>1, <1>2, SubSeqProperties

\* A three byte code at i ends at i + 2.
LEMMA ShortCode ==
  ASSUME NEW B, NEW data \in Seq(B), NEW i \in Nat \ {0}, i + 2 <= Len(data)
  PROVE  SubSeq(data, i, i + 2) = <<0, 0, 1>> <=> i + 2 \in Ones(data)
<1> DEFINE s == SubSeq(data, i, i + 2)
<1>0. i + 2 - i + 1 = 3 /\ i + 1 - 1 = i /\ i + 2 - 1 = i + 1 /\ i + 3 - 1 = i + 2
  OBVIOUS
<1>1. s \in Seq(B) /\ Len(s) = 3 /\ \A k \in 1..3 : s[k] = data[i + k - 1]
  BY <1>0, Part
<1>2. s[1] = data[i] /\ s[2] = data[i + 1] /\ s[3] = data[i + 2]
  BY <1>0, <1>1
<1> HIDE DEF s
<1>3. s = <<s[1], s[2], s[3]>>
  BY <1>1
<1>4. s = <<0, 0, 1>> <=> s[1] = 0 /\ s[2] = 0 /\ s[3] = 1
  BY <1>3
<1>5. i + 2 \in Ones(data) <=> data[i] = 0 /\ data[i + 1] = 0 /\ data[i + 2] = 1
  <2>1. i + 2 \in 3..Len(data) /\ (i + 2) - 2 = i /\ (i + 2) - 1 = i + 1
    BY OnesFinite
  <2> QED
    BY <2>1 DEF Ones
<1> QED
  BY <1>2, <1>4, <1>5 DEF s

\* A four byte code at i ends at i + 3.
LEMMA LongCode ==
  ASSUME NEW B, NEW data \in Seq(B), NEW i \in Nat \ {0}, i + 3 <= Len(data)
  PROVE  SubSeq(data, i, i + 3) = <<0, 0, 0, 1>> <=> data[i] = 0 /\ i + 3 \in Ones(data)
<1> DEFINE s == SubSeq(data, i, i + 3)
<1>0. i + 3 - i + 1 = 4 /\ i + 1 - 1 = i /\ i + 2 - 1 = i + 1 /\ i + 3 - 1 = i + 2
      /\ i + 4 - 1 = i + 3
  OBVIOUS
<1>1. s \in Seq(B) /\ Len(s) = 4 /\ \A k \in 1..4 : s[k] = data[i + k - 1]
  BY <1>0, Part
<1>2. s[1] = data[i] /\ s[2] = data[i + 1] /\ s[3] = data[i + 2] /\ s[4] = data[i + 3]
  BY <1>0, <1>1
<1> HIDE DEF s
<1>3. s = <<s[1], s[2], s[3], s[4]>>
  BY <1>1
<1>4. s = <<0, 0, 0, 1>> <=> s[1] = 0 /\ s[2] = 0 /\ s[3] = 0 /\ s[4] = 1
  BY <1>3
<1>5. i + 3 \in Ones(data) <=> data[i + 1] = 0 /\ data[i + 2] = 0 /\ data[i + 3] = 1
  <2>1. i + 3 \in 3..Len(data) /\ (i + 3) - 2 = i + 1 /\ (i + 3) - 1 = i + 2
    BY OnesFinite
  <2> QED
    BY <2>1 DEF Ones
<1> QED
  BY <1>2, <1>4, <1>5 DEF s

\* Two codes do not share a byte but for a zero before the second.
LEMMA OnesApart ==
  ASSUME NEW B, NEW data \in Seq(B), NEW i \in Ones(data), NEW j \in Ones(data), i < j
  PROVE  i + 3 <= j /\ Start(data, i) < Start(data, j)
<1>1. i \in Int /\ j \in Int /\ 3 <= i
  BY OnesFinite
<1>2. data[i] = 1 /\ data[j - 1] = 0 /\ data[j - 2] = 0
  BY DEF Ones
<1>3. i # j - 1 /\ i # j - 2
  BY <1>2
<1>4. i + 3 <= j
  BY <1>1, <1>3
<1> QED
  BY <1>1, <1>4 DEF Start

\* A code begins inside the stream.
LEMMA StartType ==
  ASSUME NEW B, NEW data \in Seq(B), NEW i \in Ones(data)
  PROVE  /\ Start(data, i) \in Nat \ {0} /\ Start(data, i) \in {i - 3, i - 2}
         /\ Start(data, i) = i - 3 => data[i - 3] = 0 /\ i > 3
<1>1. i \in Int /\ 3 <= i
  BY OnesFinite
<1> QED
  BY <1>1 DEF Start

\* CodeLength in terms of where the code ends.
LEMMA CodeLengthIs ==
  ASSUME NEW B, NEW data \in Seq(B), NEW i \in Nat \ {0}
  PROVE  CodeLength(data, i) =
           IF i + 2 \in Ones(data) THEN 3
           ELSE IF i + 3 \in Ones(data) /\ data[i] = 0 THEN 4 ELSE 0
<1>1. i + 2 \in Ones(data) <=> i + 2 <= Len(data) /\ SubSeq(data, i, i + 2) = <<0, 0, 1>>
  BY ShortCode, OnesFinite
<1>2. i + 3 \in Ones(data) /\ data[i] = 0
        <=> i + 3 <= Len(data) /\ SubSeq(data, i, i + 3) = <<0, 0, 0, 1>>
  BY LongCode, OnesFinite
<1> DEFINE short == i + 2 <= Len(data) /\ SubSeq(data, i, i + 2) = <<0, 0, 1>>
           long == i + 3 <= Len(data) /\ SubSeq(data, i, i + 3) = <<0, 0, 0, 1>>
<1>3. ~(short /\ long)
  <2>1. \A l \in Ones(data) : l - 1 \notin Ones(data)
    BY OnesFinite DEF Ones
  <2>2. (i + 3) - 1 = i + 2
    OBVIOUS
  <2> QED
    BY <1>1, <1>2, <2>1, <2>2
<1>4. CodeLength(data, i) = CASE short -> 3 [] long -> 4 [] OTHER -> 0
  BY DEF CodeLength
<1> HIDE DEF short, long
<1>5. CodeLength(data, i) = IF short THEN 3 ELSE IF long THEN 4 ELSE 0
  BY <1>3, <1>4
<1> QED
  BY <1>1, <1>2, <1>5 DEF short, long

\* A code of the stream is as long as it is said to be.
LEMMA StartsCode ==
  ASSUME NEW B, NEW data \in Seq(B), NEW j \in Ones(data)
  PROVE  /\ Start(data, j) \in DOMAIN data
         /\ Start(data, j) + CodeLength(data, Start(data, j)) = j + 1
         /\ CodeLength(data, Start(data, j)) # 0
         /\ Start(data, j) = 1 \/ CodeLength(data, Start(data, j) - 1) = 0
<1> DEFINE i == Start(data, j)
<1>1. j \in 3..Len(data) /\ j \in Int /\ Len(data) \in Nat /\ DOMAIN data = 1..Len(data)
  BY OnesFinite
<1>2. data[j] = 1 /\ data[j - 1] = 0 /\ data[j - 2] = 0
  BY DEF Ones
<1>3. i \in Nat \ {0} /\ i \in {j - 3, j - 2} /\ (i = j - 3 => data[j - 3] = 0 /\ j > 3)
  BY StartType
<1>4. j - 1 \notin Ones(data) /\ j - 2 \notin Ones(data)
  BY <1>2 DEF Ones
<1>5. CASE i = j - 3
  <2>1. i + 2 = j - 1 /\ i + 3 = j
    BY <1>1, <1>5
  <2>2. CodeLength(data, i) = 4
    BY <1>3, <1>4, <1>5, <2>1, CodeLengthIs
  <2>3. i = 1 \/ CodeLength(data, i - 1) = 0
    <3>1. i # 1 => i - 1 \in Nat \ {0} /\ (i - 1) + 2 = j - 2 /\ (i - 1) + 3 = j - 1
      BY <1>1, <1>3, <1>5
    <3> QED
      BY <1>4, <3>1, CodeLengthIs
  <2> QED
    BY <1>1, <1>3, <1>5, <2>2, <2>3
<1>6. CASE i = j - 2
  <2>1. i + 2 = j
    BY <1>1, <1>6
  <2>2. CodeLength(data, i) = 3
    BY <1>3, <2>1, CodeLengthIs
  <2>3. i = 1 \/ CodeLength(data, i - 1) = 0
    <3>1. i # 1 => /\ i - 1 \in Nat \ {0} /\ (i - 1) + 2 = j - 1 /\ (i - 1) + 3 = j
                   /\ i - 1 = j - 3 /\ j > 3
      BY <1>1, <1>3, <1>6
    <3>2. j > 3 => data[j - 3] # 0
      BY <1>1, <1>6 DEF Start
    <3> QED
      BY <1>4, <3>1, <3>2, CodeLengthIs
  <2> QED
    BY <1>1, <1>3, <1>6, <2>2, <2>3
<1> QED
  BY <1>3, <1>5, <1>6

\* findStartCode, from code to code, finds each one where it begins.
LEMMA CodesAre ==
  ASSUME NEW B, NEW data \in Seq(B)
  PROVE  LET at == {i \in DOMAIN data : CodeLength(data, i) # 0}
         IN  {i \in at : i = 1 \/ i - 1 \notin at} = {Start(data, j) : j \in Ones(data)}
<1> DEFINE at == {i \in DOMAIN data : CodeLength(data, i) # 0}
<1>0. DOMAIN data = 1..Len(data) /\ Len(data) \in Nat
  OBVIOUS
<1>1. ASSUME NEW j \in Ones(data)
      PROVE  Start(data, j) \in at /\ (Start(data, j) = 1 \/ Start(data, j) - 1 \notin at)
  BY StartsCode
<1>2. ASSUME NEW i \in at, i = 1 \/ i - 1 \notin at
      PROVE  \E j \in Ones(data) : Start(data, j) = i
  <2>1. i \in 1..Len(data) /\ i \in Nat \ {0} /\ CodeLength(data, i) # 0
    BY <1>0
  <2>2. CASE i + 2 \in Ones(data)
    <3>1. i + 2 > 3 => i - 1 \in DOMAIN data /\ i - 1 \in Nat \ {0}
      BY <1>0, <2>1
    <3>2. (i + 2) - 3 = i - 1 /\ (i + 2) - 2 = i /\ (i - 1) + 3 = i + 2 /\ (i - 1) + 2 = i + 1
      BY <2>1
    <3>3. i + 2 > 3 => data[i - 1] # 0
      <4>1. ASSUME i + 2 > 3, data[i - 1] = 0 PROVE FALSE
        <5>1. CodeLength(data, i - 1) # 0
          BY <2>2, <3>1, <3>2, <4>1, CodeLengthIs
        <5>2. i # 1
          BY <2>1, <4>1
        <5> QED
          BY <1>2, <3>1, <4>1, <5>1, <5>2
      <4> QED
        BY <4>1
    <3>4. Start(data, i + 2) = i
      BY <2>1, <3>2, <3>3 DEF Start
    <3> QED
      BY <2>2, <3>4
  <2>3. CASE i + 2 \notin Ones(data)
    <3>1. i + 3 \in Ones(data) /\ data[i] = 0
      BY <2>1, <2>3, CodeLengthIs
    <3>2. Start(data, i + 3) = i
      BY <2>1, <3>1 DEF Start
    <3> QED
      BY <3>1, <3>2
  <2> QED
    BY <2>2, <2>3
<1> HIDE DEF at
<1>3. {i \in at : i = 1 \/ i - 1 \notin at} = {Start(data, j) : j \in Ones(data)}
  BY <1>1, <1>2
<1> QED
  BY <1>3 DEF at

\* The k-th start code begins where the k-th occurrence of 0 0 1, and a zero
\* before it, begins.
LEMMA StartCodesAre ==
  ASSUME NEW B, NEW data \in Seq(B)
  PROVE  LET ones == Sorted(Ones(data))
             n == Cardinality(Ones(data))
         IN  /\ n \in Nat /\ ones \in [1..n -> Ones(data)] /\ Len(ones) = n
             /\ Increasing(ones)
             /\ \A i \in Ones(data) : \E k \in 1..n : ones[k] = i
             /\ StartCodes(data) = [k \in 1..n |-> Start(data, ones[k])]
<1> DEFINE ones == Sorted(Ones(data))
           n == Cardinality(Ones(data))
           g == [i \in Ones(data) |-> Start(data, i)]
           at == {i \in DOMAIN data : CodeLength(data, i) # 0}
<1>1. /\ n \in Nat /\ ones \in [1..n -> Ones(data)] /\ Increasing(ones)
      /\ \A i \in Ones(data) : \E k \in 1..n : ones[k] = i
  BY OnesFinite, SortedIs
<1>2. Len(ones) = n
  <2> HIDE DEF ones, n
  <2>1. DOMAIN ones = 1..n /\ ones \in Seq(Ones(data))
    BY <1>1
  <2> QED
    BY <1>1, <2>1
<1>3. g \in [Ones(data) -> Nat] /\ \A i, j \in Ones(data) : i < j => g[i] < g[j]
  BY StartType, OnesApart
<1>4. Sorted({g[i] : i \in Ones(data)}) = [k \in 1..n |-> g[ones[k]]]
  <2> HIDE DEF g
  <2> QED
    BY <1>3, OnesFinite, SortedMaps
<1>5. {g[i] : i \in Ones(data)} = {Start(data, i) : i \in Ones(data)}
  OBVIOUS
<1>6. StartCodes(data) = Sorted({g[i] : i \in Ones(data)})
  <2>1. {i \in at : i = 1 \/ i - 1 \notin at} = {Start(data, i) : i \in Ones(data)}
    BY CodesAre
  <2>2. StartCodes(data) = Sorted({i \in at : i = 1 \/ i - 1 \notin at})
    BY DEF StartCodes
  <2> QED
    BY <1>5, <2>1, <2>2
<1>7. [k \in 1..n |-> g[ones[k]]] = [k \in 1..n |-> Start(data, ones[k])]
  <2> HIDE DEF n, ones
  <2> QED
    BY <1>1
<1> QED
  BY <1>1, <1>2, <1>4, <1>6, <1>7

-----------------------------------------------------------------------------
(* A push is the NAL units of what is there, and keeps the last code.      *)

\* The NAL unit between the codes that end at i and at j.
Between(data, i, j) == SubSeq(data, i + 1, Start(data, j) - 1)

\* What is left of the bytes when the NAL units in them are taken out.
Keep(data) ==
  IF Ones(data) = {} THEN data
  ELSE SubSeq(data, Start(data, Sorted(Ones(data))[Cardinality(Ones(data))]), Len(data))

\* NalsOf reads a stream in one pass.
LEMMA NalsAre ==
  ASSUME NEW B, NEW data \in Seq(B)
  PROVE  LET ones == Sorted(Ones(data))
             n == Cardinality(Ones(data))
         IN  NalsOf(data) = [k \in 1..(IF n = 0 THEN 0 ELSE n - 1) |->
                               Between(data, ones[k], ones[k + 1])]
<1> DEFINE ones == Sorted(Ones(data))
           n == Cardinality(Ones(data))
           End(i) == IF i > 3 /\ data[i - 3] = 0 THEN i - 4 ELSE i - 3
<1>1. {i \in 3..Len(data) : SubSeq(data, i - 2, i) = <<0, 0, 1>>} = Ones(data)
  <2>1. ASSUME NEW i \in 3..Len(data)
        PROVE  SubSeq(data, i - 2, i) = <<0, 0, 1>> <=> i \in Ones(data)
    <3>1. i - 2 \in Nat \ {0} /\ (i - 2) + 2 = i /\ i <= Len(data)
      BY OnesFinite
    <3> QED
      BY <3>1, ShortCode
  <2>2. Ones(data) \subseteq 3..Len(data)
    BY DEF Ones
  <2> QED
    BY <2>1, <2>2
<1>2. n \in Nat /\ ones \in [1..n -> Ones(data)] /\ Len(ones) = n
  BY StartCodesAre
<1>3. NalsOf(data) = [k \in 1..(IF ones = <<>> THEN 0 ELSE Len(ones) - 1) |->
                        SubSeq(data, ones[k] + 1, End(ones[k + 1]))]
  BY <1>1 DEF NalsOf
<1>4. ones = <<>> <=> n = 0
  <2> HIDE DEF ones, n
  <2> QED
    BY <1>2
<1>5. \A i \in Ones(data) : End(i) = Start(data, i) - 1
  BY OnesFinite DEF Start
<1>6. \A k \in 1..(IF n = 0 THEN 0 ELSE n - 1) : k + 1 \in 1..n
  <2> HIDE DEF n
  <2> QED
    BY <1>2
<1> HIDE DEF ones, n, End
<1>7. \A k \in 1..(IF n = 0 THEN 0 ELSE n - 1) :
        SubSeq(data, ones[k] + 1, End(ones[k + 1])) = Between(data, ones[k], ones[k + 1])
  <2> SUFFICES ASSUME NEW k \in 1..(IF n = 0 THEN 0 ELSE n - 1)
               PROVE  SubSeq(data, ones[k] + 1, End(ones[k + 1]))
                        = Between(data, ones[k], ones[k + 1])
    OBVIOUS
  <2>1. ones[k + 1] \in Ones(data)
    BY <1>2, <1>6
  <2>2. End(ones[k + 1]) = Start(data, ones[k + 1]) - 1
    BY <1>5, <2>1
  <2> QED
    BY <2>2 DEF Between
<1>8. (IF ones = <<>> THEN 0 ELSE Len(ones) - 1) = (IF n = 0 THEN 0 ELSE n - 1)
  BY <1>2, <1>4
<1> QED
  BY <1>3, <1>7, <1>8 DEF ones, n

\* push(): findStartCode and extractCompleteNal, whose codes are of three bytes or
\* four, find the NAL units that lie between the occurrences of 0 0 1, and leave
\* the bytes from the last code on.
THEOREM PushIs ==
  ASSUME NEW B, NEW pending \in Seq(B), NEW chunk \in Seq(B)
  PROVE  Push(pending, chunk) = [nals |-> NalsOf(pending \o chunk),
                                 pending |-> Keep(pending \o chunk)]
<1> DEFINE data == pending \o chunk
           ones == Sorted(Ones(data))
           n == Cardinality(Ones(data))
           codes == StartCodes(data)
<1>0. data \in Seq(B)
  OBVIOUS
<1> HIDE DEF data
<1>1. /\ n \in Nat /\ ones \in [1..n -> Ones(data)]
      /\ \A i \in Ones(data) : \E k \in 1..n : ones[k] = i
      /\ codes = [k \in 1..n |-> Start(data, ones[k])]
  BY <1>0, StartCodesAre
<1>2. \A i \in Ones(data) :
        /\ i \in Int /\ Start(data, i) \in Int
        /\ Start(data, i) + CodeLength(data, Start(data, i)) = i + 1
  BY <1>0, StartsCode, StartType, OnesFinite
<1>3. NalsOf(data) = [k \in 1..(IF n = 0 THEN 0 ELSE n - 1) |->
                        Between(data, ones[k], ones[k + 1])]
  BY <1>0, NalsAre
<1>4. n = 0 <=> Ones(data) = {}
  <2> HIDE DEF ones
  <2> QED
    BY <1>0, OnesFinite, FS_EmptySet
<1> HIDE DEF ones, n, codes
<1>5. Len(codes) = n /\ (codes = <<>> <=> n = 0)
  <2>1. codes \in [1..n -> {Start(data, i) : i \in Ones(data)}]
    BY <1>1
  <2> QED
    BY <1>1, <2>1
<1>6. CompleteNals(data, codes) = NalsOf(data)
  <2>1. ASSUME NEW k \in 1..(IF n = 0 THEN 0 ELSE n - 1)
        PROVE  SubSeq(data, codes[k] + CodeLength(data, codes[k]), codes[k + 1] - 1)
                 = Between(data, ones[k], ones[k + 1])
    <3>1. k \in 1..n /\ k + 1 \in 1..n
      BY <1>1
    <3>2. codes[k] = Start(data, ones[k]) /\ codes[k + 1] = Start(data, ones[k + 1])
      BY <1>1, <3>1
    <3>3. ones[k] \in Ones(data)
      BY <1>1, <3>1
    <3>4. codes[k] + CodeLength(data, codes[k]) = ones[k] + 1
      BY <1>2, <3>2, <3>3
    <3> QED
      BY <3>2, <3>4 DEF Between
  <2>2. (IF codes = <<>> THEN 0 ELSE Len(codes) - 1) = (IF n = 0 THEN 0 ELSE n - 1)
    BY <1>5
  <2> QED
    BY <1>3, <2>1, <2>2 DEF CompleteNals
<1>7. (IF codes = <<>> THEN data ELSE SubSeq(data, codes[Len(codes)], Len(data))) = Keep(data)
  <2>1. CASE n = 0
    BY <1>4, <1>5, <2>1 DEF Keep
  <2>2. CASE n # 0
    <3>1. n \in 1..n
      BY <1>1, <2>2
    <3>2. codes[Len(codes)] = Start(data, ones[n])
      BY <1>1, <1>5, <3>1
    <3> QED
      BY <1>4, <1>5, <2>2, <3>2 DEF Keep, ones, n
  <2> QED
    BY <2>1, <2>2
<1>8. Push(pending, chunk) =
        [nals |-> CompleteNals(data, codes),
         pending |-> IF codes = <<>> THEN data
                     ELSE SubSeq(data, codes[Len(codes)], Len(data))]
  BY DEF Push, data, codes
<1> QED
  BY <1>6, <1>7, <1>8 DEF data

-----------------------------------------------------------------------------
(* A stream that is cut in two: a, and c after it.                         *)

\* The bytes of a come first.
LEMMA Joined ==
  ASSUME NEW B, NEW a \in Seq(B), NEW c \in Seq(B)
  PROVE  /\ a \o c \in Seq(B) /\ Len(a) \in Nat /\ Len(c) \in Nat
         /\ Len(a \o c) = Len(a) + Len(c)
         /\ \A i \in 1..Len(a) : (a \o c)[i] = a[i]
         /\ \A i \in 1..Len(c) : (a \o c)[i + Len(a)] = c[i]
<1>1. /\ a \o c \in Seq(B) /\ Len(a \o c) = Len(a) + Len(c)
      /\ \A i \in 1..Len(a) + Len(c) :
           (a \o c)[i] = IF i <= Len(a) THEN a[i] ELSE c[i - Len(a)]
  BY ConcatProperties
<1>2. Len(a) \in Nat /\ Len(c) \in Nat
  OBVIOUS
<1>3. ASSUME NEW i \in 1..Len(c)
      PROVE  (a \o c)[i + Len(a)] = c[i]
  <2>1. i + Len(a) \in 1..Len(a) + Len(c) /\ ~(i + Len(a) <= Len(a)) /\ i + Len(a) - Len(a) = i
    BY <1>2
  <2> QED
    BY <1>1, <2>1
<1> QED
  BY <1>1, <1>2, <1>3

\* Without its first s bytes d is e, which begins with the code that ends at first.
Rest(d, e, s, first) ==
  /\ s \in Nat /\ first \in Ones(d) /\ s = Start(d, first) - 1
  /\ Len(e) = Len(d) - s /\ \A i \in 1..Len(e) : e[i] = d[i + s]

\* The codes of e are those of d from the one at first on.
LEMMA CodesOfRest ==
  ASSUME NEW B, NEW d \in Seq(B), NEW e \in Seq(B), NEW s, NEW first, Rest(d, e, s, first)
  PROVE  /\ \A j \in Ones(d) : j >= first => j - s \in Ones(e) /\ Start(e, j - s) = Start(d, j) - s
         /\ \A i \in Ones(e) : i + s \in Ones(d) /\ i + s >= first
<1> USE DEF Rest
<1>1. /\ Len(d) \in Nat /\ Len(e) \in Nat
      /\ \A j \in Ones(d) : j \in 3..Len(d) /\ j \in Int
      /\ \A j \in Ones(e) : j \in 3..Len(e) /\ j \in Int
  BY OnesFinite
<1>2. /\ s = first - 4 \/ s = first - 3
      /\ first - 2 \in Nat /\ first \in Int /\ first <= Len(d)
  <2>1. first \in Ones(d) /\ s = Start(d, first) - 1
    OBVIOUS
  <2>2. Start(d, first) \in {first - 3, first - 2} /\ first \in 3..Len(d) /\ first \in Int
    BY <1>1, <2>1, StartType
  <2> QED
    BY <1>1, <2>1, <2>2
<1>3. ASSUME NEW j \in Ones(d), j >= first
      PROVE  j - s \in Ones(e) /\ Start(e, j - s) = Start(d, j) - s
  <2>1. j - s \in 3..Len(e)
    BY <1>1, <1>2, <1>3
  <2>2. j - s - 2 + s = j - 2 /\ j - s - 1 + s = j - 1 /\ j - s + s = j /\ j - s - 3 + s = j - 3
    BY <1>1
  <2>3. j - s - 2 \in 1..Len(e) /\ j - s - 1 \in 1..Len(e) /\ j - s \in 1..Len(e)
    <3>1. \A n \in Nat : \A i \in 3..n : i - 2 \in 1..n /\ i - 1 \in 1..n /\ i \in 1..n
      OBVIOUS
    <3> QED
      BY <2>1, <3>1, <1>1
  <2>4. e[j - s - 2] = d[j - 2] /\ e[j - s - 1] = d[j - 1] /\ e[j - s] = d[j]
    BY <2>2, <2>3
  <2>5. j - s \in Ones(e)
    BY <2>1, <2>4 DEF Ones
  <2>6. CASE j - s > 3
    <3>1. j - s - 3 \in 1..Len(e) /\ j > 3
      BY <2>1, <2>6, <1>1
    <3>2. e[j - s - 3] = d[j - 3]
      BY <2>2, <3>1
    <3>3. Start(e, j - s) = IF d[j - 3] = 0 THEN j - s - 3 ELSE j - s - 2
      BY <2>6, <3>2 DEF Start
    <3>4. Start(d, j) = IF d[j - 3] = 0 THEN j - 3 ELSE j - 2
      BY <3>1 DEF Start
    <3>5. j - s - 3 = j - 3 - s /\ j - s - 2 = j - 2 - s
      BY <1>1
    <3> QED
      BY <2>5, <3>3, <3>4, <3>5
  <2>7. CASE ~(j - s > 3)
    <3>1. j - s = 3 /\ j = first /\ s = first - 3
      BY <2>1, <2>7, <1>1, <1>2, <1>3
    <3>2. Start(d, j) = s + 1
      BY <3>1, <1>1, StartType
    <3>3. Start(e, j - s) = 1
      BY <3>1, <2>7 DEF Start
    <3> QED
      BY <2>5, <3>2, <3>3
  <2> QED
    BY <2>6, <2>7
<1>4. ASSUME NEW i \in Ones(e)
      PROVE  i + s \in Ones(d) /\ i + s >= first
  <2>1. i \in 3..Len(e) /\ i + s \in 3..Len(d)
    BY <1>1
  <2>2. i - 2 \in 1..Len(e) /\ i - 1 \in 1..Len(e) /\ i \in 1..Len(e)
    BY <2>1, <1>1
  <2>3. i - 2 + s = (i + s) - 2 /\ i - 1 + s = (i + s) - 1
    BY <1>1
  <2>4. e[i - 2] = d[(i + s) - 2] /\ e[i - 1] = d[(i + s) - 1] /\ e[i] = d[i + s]
    BY <2>2, <2>3
  <2>5. i + s \in Ones(d)
    <3>1. e[i - 2] = 0 /\ e[i - 1] = 0 /\ e[i] = 1
      BY DEF Ones
    <3> QED
      BY <2>1, <2>4, <3>1 DEF Ones
  <2>6. ~(i + s < first)
    <3>1. ASSUME i + s < first PROVE FALSE
      <4>1. i + s + 3 <= first
        BY <2>5, <3>1, OnesApart
      <4> QED
        BY <4>1, <2>1, <1>1, <1>2
    <3> QED
      BY <3>1
  <2> QED
    BY <2>5, <2>6, <1>1
<1> QED
  BY <1>3, <1>4

\* The codes of a are those of the stream that end within a.
LEMMA CodesOfPart ==
  ASSUME NEW B, NEW a \in Seq(B), NEW c \in Seq(B)
  PROVE  LET d == a \o c
         IN  /\ \A j \in Ones(a) : j \in Ones(d) /\ j <= Len(a) /\ Start(a, j) = Start(d, j)
             /\ \A j \in Ones(d) : j <= Len(a) => j \in Ones(a)
<1> DEFINE d == a \o c
<1>1. /\ Len(a) \in Nat /\ Len(c) \in Nat /\ Len(d) = Len(a) + Len(c)
      /\ \A i \in 1..Len(a) : d[i] = a[i] /\ d \in Seq(B)
  BY Joined
<1>a. d \in Seq(B)
  BY Joined
<1> HIDE DEF d
<1>2. /\ \A j \in Ones(a) : j \in 3..Len(a) /\ j \in Int
      /\ \A j \in Ones(d) : j \in 3..Len(d) /\ j \in Int
  BY <1>a, OnesFinite
<1>3. ASSUME NEW j \in 3..Len(a)
      PROVE  (j \in Ones(a) <=> j \in Ones(d)) /\ Start(a, j) = Start(d, j)
  <2>1. j \in 1..Len(a) /\ j - 1 \in 1..Len(a) /\ j - 2 \in 1..Len(a) /\ j \in 3..Len(d)
    BY <1>1
  <2>2. d[j] = a[j] /\ d[j - 1] = a[j - 1] /\ d[j - 2] = a[j - 2]
    BY <2>1, <1>1
  <2>3. j > 3 => j - 3 \in 1..Len(a)
    BY <1>1
  <2>4. j > 3 => d[j - 3] = a[j - 3]
    BY <2>3, <1>1
  <2> QED
    BY <2>1, <2>2, <2>4 DEF Ones, Start
<1>4. \A j \in Ones(a) : j \in Ones(d) /\ j <= Len(a) /\ Start(a, j) = Start(d, j)
  BY <1>1, <1>2, <1>3
<1>5. \A j \in Ones(d) : j <= Len(a) => j \in Ones(a)
  BY <1>1, <1>2, <1>3
<1> QED
  BY <1>4, <1>5 DEF d

\* The bytes of e from m to n are those of d that come s places later.
Same(d, e, m, n, s) ==
  /\ 1 <= m /\ n <= Len(e) /\ m <= n + 1 /\ n + s <= Len(d)
  /\ \A i \in m..n : e[i] = d[i + s]

LEMMA SameBytes ==
  ASSUME NEW B, NEW d \in Seq(B), NEW e \in Seq(B),
         NEW m \in Int, NEW n \in Int, NEW s \in Nat, Same(d, e, m, n, s)
  PROVE  SubSeq(e, m, n) = SubSeq(d, m + s, n + s)
<1> USE DEF Same
<1>1. /\ 1 <= m + s /\ m + s <= n + s + 1 /\ m + s \in Int /\ n + s \in Int
      /\ n + s - (m + s) + 1 = n - m + 1
  OBVIOUS
<1>2. /\ SubSeq(e, m, n) \in Seq(B) /\ Len(SubSeq(e, m, n)) = n - m + 1
      /\ \A i \in 1..n - m + 1 : SubSeq(e, m, n)[i] = e[m + i - 1]
  BY Part
<1>3. /\ SubSeq(d, m + s, n + s) \in Seq(B) /\ Len(SubSeq(d, m + s, n + s)) = n - m + 1
      /\ \A i \in 1..n - m + 1 : SubSeq(d, m + s, n + s)[i] = d[m + s + i - 1]
  BY <1>1, Part
<1>4. ASSUME NEW i \in 1..n - m + 1
      PROVE  SubSeq(e, m, n)[i] = SubSeq(d, m + s, n + s)[i]
  <2>1. m + i - 1 \in m..n /\ m + i - 1 + s = m + s + i - 1
    OBVIOUS
  <2>2. e[m + i - 1] = d[m + s + i - 1]
    BY <2>1
  <2> QED
    BY <1>2, <1>3, <2>2
<1> QED
  BY <1>2, <1>3, <1>4, SeqEqual

\* The last code there is.
LEMMA LastCode ==
  ASSUME NEW B, NEW data \in Seq(B), Ones(data) # {}
  PROVE  LET n == Cardinality(Ones(data))
             last == Sorted(Ones(data))[n]
         IN  n \in Nat \ {0} /\ last \in Ones(data) /\ \A j \in Ones(data) : j <= last
<1> DEFINE ones == Sorted(Ones(data))
           n == Cardinality(Ones(data))
<1>1. /\ n \in Nat /\ ones \in [1..n -> Ones(data)] /\ Increasing(ones)
      /\ \A i \in Ones(data) : \E k \in 1..n : ones[k] = i
      /\ \A i \in Ones(data) : i \in Int
  BY StartCodesAre, OnesFinite
<1> HIDE DEF ones, n
<1>2. n \in 1..n
  BY <1>1
<1>3. ASSUME NEW j \in Ones(data)
      PROVE  j <= ones[n]
  <2>1. PICK k \in 1..n : ones[k] = j
    BY <1>1
  <2>2. k < n => ones[k] < ones[n]
    BY <1>1, <1>2 DEF Increasing
  <2> QED
    BY <1>1, <1>2, <2>1, <2>2
<1> QED
  BY <1>1, <1>2, <1>3 DEF ones, n

\* What is kept begins where the last code does.
LEMMA KeepIs ==
  ASSUME NEW B, NEW data \in Seq(B), NEW last \in Ones(data), \A j \in Ones(data) : j <= last
  PROVE  LET s == Start(data, last) - 1
         IN  /\ s \in Nat /\ s < last /\ last <= Len(data)
             /\ Keep(data) = SubSeq(data, Start(data, last), Len(data))
             /\ Keep(data) \in Seq(B) /\ Len(Keep(data)) = Len(data) - s
             /\ \A i \in 1..Len(data) - s : Keep(data)[i] = data[i + s]
<1> DEFINE s == Start(data, last) - 1
           top == Sorted(Ones(data))[Cardinality(Ones(data))]
<1>1. top \in Ones(data) /\ last <= top
  BY LastCode
<1>2. /\ last \in 3..Len(data) /\ last \in Int /\ Len(data) \in Nat
      /\ s \in Nat /\ s < last /\ Start(data, last) = s + 1 /\ s + 1 \in Int
  BY OnesFinite, StartType
<1>3. top = last
  <2> HIDE DEF top
  <2>1. top \in Int /\ top <= last
    BY <1>1, OnesFinite
  <2> QED
    BY <1>1, <1>2, <2>1
<1>4. Keep(data) = SubSeq(data, Start(data, last), Len(data))
  BY <1>3 DEF Keep
<1> HIDE DEF s
<1>5. Keep(data) = SubSeq(data, s + 1, Len(data))
  BY <1>2, <1>4
<1>6. Len(data) - (s + 1) + 1 = Len(data) - s
  BY <1>2
<1>7. /\ Keep(data) \in Seq(B) /\ Len(Keep(data)) = Len(data) - s
      /\ \A i \in 1..Len(data) - s : Keep(data)[i] = data[s + 1 + i - 1]
  <2>1. 1 <= s + 1 /\ s + 1 <= Len(data) + 1 /\ Len(data) \in Int /\ Len(data) <= Len(data)
    BY <1>2
  <2>2. /\ Keep(data) \in Seq(B) /\ Len(Keep(data)) = Len(data) - (s + 1) + 1
        /\ \A i \in 1..Len(data) - (s + 1) + 1 : Keep(data)[i] = data[(s + 1) + i - 1]
    BY <1>2, <1>5, <2>1, Part
  <2> QED
    BY <1>6, <2>2
<1>8. \A i \in 1..Len(data) - s : s + 1 + i - 1 = i + s
  BY <1>2
<1> QED
  BY <1>2, <1>4, <1>7, <1>8 DEF s

\* What the codes of the stream are when a has some: those of a but the last,
\* and those of what a leaves with c behind it.
LEMMA CodesAfterCut ==
  ASSUME NEW B, NEW a \in Seq(B), NEW c \in Seq(B), NEW last \in Ones(a),
         \A j \in Ones(a) : j <= last
  PROVE  /\ Keep(a) \in Seq(B) /\ a \o c \in Seq(B) /\ Keep(a) \o c \in Seq(B)
         /\ Rest(a \o c, Keep(a) \o c, Start(a, last) - 1, last)
         /\ \A j \in Ones(a \o c) : j < last => j \in Ones(a)
<1> DEFINE d == a \o c
           e == Keep(a) \o c
           s == Start(a, last) - 1
<1>1. /\ d \in Seq(B) /\ Len(d) = Len(a) + Len(c) /\ Len(a) \in Nat /\ Len(c) \in Nat
      /\ \A i \in 1..Len(a) : d[i] = a[i]
      /\ \A i \in 1..Len(c) : d[i + Len(a)] = c[i]
  BY Joined
<1>2. /\ s \in Nat /\ s < last /\ last <= Len(a) /\ Keep(a) \in Seq(B)
      /\ Len(Keep(a)) = Len(a) - s
      /\ \A i \in 1..Len(a) - s : Keep(a)[i] = a[i + s]
      /\ last \in Int
  BY KeepIs, OnesFinite
<1>3. /\ e \in Seq(B) /\ Len(e) = Len(Keep(a)) + Len(c)
      /\ \A i \in 1..Len(Keep(a)) : e[i] = Keep(a)[i]
      /\ \A i \in 1..Len(c) : e[i + Len(Keep(a))] = c[i]
  <2> HIDE DEF s
  <2>1. Keep(a) \in Seq(B)
    BY <1>2
  <2> QED
    BY <2>1, Joined
<1>4. /\ last \in Ones(d) /\ Start(a, last) = Start(d, last)
      /\ \A j \in Ones(d) : j <= Len(a) => j \in Ones(a)
  BY CodesOfPart
<1>5. s = Start(d, last) - 1
  BY <1>4
<1>6. \A j \in Ones(d) : j < last => j \in Ones(a)
  <2>1. \A j \in Ones(d) : j \in Int
    BY <1>1, OnesFinite
  <2> QED
    BY <1>1, <1>2, <1>4, <2>1
<1> HIDE DEF d, e, s
<1>7. Len(e) = Len(d) - s
  BY <1>1, <1>2, <1>3
<1>8. ASSUME NEW i \in 1..Len(e)
      PROVE  e[i] = d[i + s]
  <2>1. CASE i <= Len(a) - s
    <3>1. i \in 1..Len(a) - s /\ i \in 1..Len(Keep(a)) /\ i + s \in 1..Len(a)
      BY <2>1, <1>1, <1>2, <1>3
    <3> QED
      BY <3>1, <1>1, <1>2, <1>3
  <2>2. CASE ~(i <= Len(a) - s)
    <3> DEFINE k == i - (Len(a) - s)
    <3>1. k \in 1..Len(c) /\ k + Len(Keep(a)) = i /\ k + Len(a) = i + s
      BY <2>2, <1>1, <1>2, <1>3
    <3> HIDE DEF k
    <3>2. e[k + Len(Keep(a))] = c[k] /\ d[k + Len(a)] = c[k]
      BY <3>1, <1>1, <1>3
    <3> QED
      BY <3>1, <3>2
  <2> QED
    BY <2>1, <2>2
<1>9. Rest(d, e, s, last)
  BY <1>2, <1>4, <1>5, <1>7, <1>8 DEF Rest
<1> QED
  BY <1>1, <1>2, <1>3, <1>6, <1>9 DEF d, e, s

\* What is left does not depend on the cut.
LEMMA KeepAfterCut ==
  ASSUME NEW B, NEW a \in Seq(B), NEW c \in Seq(B)
  PROVE  Keep(a) \in Seq(B) /\ Keep(Keep(a) \o c) = Keep(a \o c)
<1>1. CASE Ones(a) = {}
  BY <1>1 DEF Keep
<1>2. CASE Ones(a) # {}
  <2> DEFINE d == a \o c
             e == Keep(a) \o c
             last == Sorted(Ones(a))[Cardinality(Ones(a))]
             s == Start(a, last) - 1
             top == Sorted(Ones(e))[Cardinality(Ones(e))]
  <2>1. last \in Ones(a) /\ \A j \in Ones(a) : j <= last
    BY <1>2, LastCode
  <2> HIDE DEF last
  <2>2. Keep(a) \in Seq(B) /\ d \in Seq(B) /\ e \in Seq(B) /\ Rest(d, e, s, last)
    BY <2>1, CodesAfterCut
  <2> HIDE DEF d, e, s
  <2>3. /\ Len(e) = Len(d) - s /\ \A i \in 1..Len(e) : e[i] = d[i + s]
        /\ last \in Ones(d) /\ s \in Nat
    BY <2>2 DEF Rest
  <2>4. /\ \A j \in Ones(d) : j >= last => j - s \in Ones(e) /\ Start(e, j - s) = Start(d, j) - s
        /\ \A i \in Ones(e) : i + s \in Ones(d) /\ i + s >= last
    BY <2>2, CodesOfRest
  <2>5. /\ Len(d) \in Nat /\ Len(e) \in Nat /\ last \in Int
        /\ \A i \in Ones(d) : i \in Int /\ i \in 3..Len(d)
        /\ \A i \in Ones(e) : i \in Int /\ i \in 3..Len(e)
    BY <2>2, <2>3, OnesFinite
  <2>6. Ones(e) # {}
    BY <2>3, <2>4, <2>5
  <2>7. top \in Ones(e) /\ \A i \in Ones(e) : i <= top
    BY <2>2, <2>6, LastCode
  <2> HIDE DEF top
  <2>8. top + s \in Ones(d) /\ top + s >= last /\ top \in Int /\ top + s \in Int /\ (top + s) - s = top
    BY <2>3, <2>4, <2>5, <2>7
  <2>9. ASSUME NEW j \in Ones(d) PROVE j <= top + s
    <3>1. CASE j >= last
      <4>1. j - s <= top
        BY <2>4, <2>7, <3>1
      <4> QED
        BY <4>1, <2>3, <2>5, <2>8
    <3>2. CASE ~(j >= last)
      BY <3>2, <2>5, <2>8
    <3> QED
      BY <3>1, <3>2
  <2>10. /\ Keep(d) = SubSeq(d, Start(d, top + s), Len(d))
         /\ Keep(e) = SubSeq(e, Start(e, top), Len(e))
    BY <2>2, <2>7, <2>8, <2>9, KeepIs
  <2>11. Start(e, top) = Start(d, top + s) - s
    <3>1. Start(e, (top + s) - s) = Start(d, top + s) - s
      BY <2>4, <2>8
    <3> QED
      BY <2>8, <3>1
  <2>12. Start(e, top) \in Nat \ {0} /\ Start(e, top) <= top /\ Start(d, top + s) \in Int
    <3>1. Start(e, top) \in Nat \ {0} /\ Start(e, top) \in {top - 3, top - 2}
      BY <2>2, <2>7, StartType
    <3>2. Start(d, top + s) \in Nat
      BY <2>2, <2>8, StartType
    <3> QED
      BY <2>8, <3>1, <3>2
  <2> DEFINE m == Start(e, top)
  <2>13. m + s = Start(d, top + s) /\ Len(e) + s = Len(d)
    BY <2>3, <2>5, <2>11, <2>12
  <2>14. m \in Int /\ 1 <= m /\ m <= Len(e) + 1
    BY <2>5, <2>7, <2>12
  <2> HIDE DEF m
  <2>15. \A i \in m..Len(e) : e[i] = d[i + s]
    BY <2>3, <2>5, <2>14
  <2>16. SubSeq(e, m, Len(e)) = SubSeq(d, m + s, Len(e) + s)
    <3>1. Len(e) \in Int /\ Len(e) <= Len(e) /\ Len(e) + s <= Len(d)
      BY <2>5, <2>13
    <3>2. Same(d, e, m, Len(e), s)
      BY <2>3, <2>14, <2>15, <3>1 DEF Same
    <3> QED
      BY <2>2, <2>3, <2>14, <3>1, <3>2, SameBytes
  <2>17. Keep(e) = Keep(d)
    BY <2>10, <2>13, <2>16 DEF m
  <2> QED
    BY <2>2, <2>17 DEF d, e
<1> QED
  BY <1>1, <1>2

\* A NAL unit lies after the code before it.
LEMMA NalFits ==
  ASSUME NEW B, NEW data \in Seq(B), NEW i \in Ones(data), NEW j \in Ones(data), i < j
  PROVE  /\ i \in Nat /\ Start(data, j) \in Int /\ i + 1 <= Start(data, j)
         /\ Start(data, j) <= Len(data) /\ Between(data, i, j) \in Seq(B)
<1>1. i \in Int /\ i \in 3..Len(data) /\ j \in Int /\ j \in 3..Len(data) /\ Len(data) \in Nat
  BY OnesFinite
<1>2. /\ Start(data, j) \in Nat \ {0} /\ Start(data, j) \in {j - 3, j - 2}
      /\ Start(data, j) = j - 3 => data[j - 3] = 0
  BY StartType
<1>3. i + 3 <= j
  BY OnesApart
<1>4. i # j - 3 \/ Start(data, j) # j - 3
  <2>1. data[i] = 1
    BY DEF Ones
  <2> QED
    BY <1>2, <2>1
<1>5. i + 1 <= Start(data, j) /\ Start(data, j) <= Len(data)
  BY <1>1, <1>2, <1>3, <1>4
<1> DEFINE m == i + 1
           n == Start(data, j) - 1
<1>6. m \in Int /\ n \in Int /\ 1 <= m /\ n <= Len(data) /\ m <= n + 1
  BY <1>1, <1>2, <1>5
<1> HIDE DEF m, n
<1>7. SubSeq(data, m, n) \in Seq(B)
  BY <1>6, Part
<1> QED
  BY <1>1, <1>2, <1>5, <1>7 DEF Between, m, n

\* There is one NAL unit less than there are codes.
LEMMA NalsType ==
  ASSUME NEW B, NEW data \in Seq(B)
  PROVE  LET n == Cardinality(Ones(data))
         IN  /\ n \in Nat /\ NalsOf(data) \in Seq(Seq(B))
             /\ Len(NalsOf(data)) = IF n = 0 THEN 0 ELSE n - 1
<1> DEFINE ones == Sorted(Ones(data))
           n == Cardinality(Ones(data))
           l == IF n = 0 THEN 0 ELSE n - 1
<1>1. n \in Nat /\ ones \in [1..n -> Ones(data)] /\ Increasing(ones)
  BY StartCodesAre
<1>2. NalsOf(data) = [k \in 1..l |-> Between(data, ones[k], ones[k + 1])]
  BY NalsAre
<1> HIDE DEF ones, n
<1>3. l \in Nat /\ \A k \in 1..l : k \in 1..n /\ k + 1 \in 1..n /\ k < k + 1
  BY <1>1
<1> HIDE DEF l
<1>4. ASSUME NEW k \in 1..l
      PROVE  Between(data, ones[k], ones[k + 1]) \in Seq(B)
  <2>1. ones[k] \in Ones(data) /\ ones[k + 1] \in Ones(data) /\ ones[k] < ones[k + 1]
    BY <1>1, <1>3 DEF Increasing
  <2> QED
    BY <2>1, NalFits
<1>5. NalsOf(data) \in [1..l -> Seq(B)]
  BY <1>2, <1>4
<1>6. NalsOf(data) \in Seq(Seq(B)) /\ Len(NalsOf(data)) = l
  BY <1>3, <1>5
<1> QED
  BY <1>1, <1>6 DEF n, l

\* The last code of a is the first of e, and between them they have all of d's.
Cut(a, d, e, s) ==
  LET last == Sorted(Ones(a))[Cardinality(Ones(a))]
  IN  /\ Ones(a) # {} /\ Ones(a) \subseteq Ones(d)
      /\ Rest(d, e, s, last) /\ \A j \in Ones(d) : j < last => j \in Ones(a)

\* A part of a stream and the rest of it have the codes of the stream, in order.
LEMMA CodesInOrder ==
  ASSUME NEW B, NEW a \in Seq(B), NEW d \in Seq(B), NEW e \in Seq(B), NEW s, Cut(a, d, e, s)
  PROVE  LET m == Cardinality(Ones(a))
             r == Cardinality(Ones(e))
         IN  /\ r \in Nat \ {0} /\ Cardinality(Ones(d)) = m + r - 1
             /\ \A k \in 1..m : Sorted(Ones(d))[k] = Sorted(Ones(a))[k]
             /\ \A k \in 1..r : Sorted(Ones(d))[k + m - 1] = Sorted(Ones(e))[k] + s
<1> DEFINE at == Sorted(Ones(a))
           ae == Sorted(Ones(e))
           m == Cardinality(Ones(a))
           r == Cardinality(Ones(e))
           last == at[m]
           n == m + r - 1
           f == [k \in 1..n |-> IF k < m THEN at[k] ELSE ae[k - m + 1] + s]
<1>1. /\ at \in [1..m -> Ones(a)] /\ Increasing(at)
      /\ \A i \in Ones(a) : \E k \in 1..m : at[k] = i
  BY StartCodesAre
<1>2. /\ r \in Nat /\ ae \in [1..r -> Ones(e)] /\ Increasing(ae)
      /\ \A i \in Ones(e) : \E k \in 1..r : ae[k] = i
  BY StartCodesAre
<1>cut. /\ Rest(d, e, s, last) /\ m \in Nat \ {0} /\ Ones(a) \subseteq Ones(d)
        /\ \A j \in Ones(d) : j < last => j \in Ones(a)
  BY LastCode DEF Cut
<1>3. s \in Nat /\ last \in Ones(d)
  BY <1>cut DEF Rest
<1>4. /\ \A j \in Ones(d) : j >= last => j - s \in Ones(e)
      /\ \A i \in Ones(e) : i + s \in Ones(d) /\ i + s >= last
  BY <1>cut, CodesOfRest
<1>5. /\ \A i \in Ones(a) : i \in Int
      /\ \A i \in Ones(d) : i \in Int
      /\ \A i \in Ones(e) : i \in Int
      /\ Ones(d) \in SUBSET Nat
  BY OnesFinite
<1>6. m \in Nat \ {0} /\ Ones(a) \subseteq Ones(d) /\ \A j \in Ones(d) : j < last => j \in Ones(a)
  BY <1>cut
<1> HIDE DEF at, ae, r, m
<1>7. r # 0
  <2>1. last - s \in Ones(e)
    BY <1>3, <1>4, <1>5
  <2>2. PICK k \in 1..r : ae[k] = last - s
    BY <1>2, <2>1
  <2> QED
    BY <1>2, <2>2
<1>8. n \in Nat /\ m \in 1..n /\ 1 \in 1..r /\ m \in 1..m
  BY <1>2, <1>6, <1>7
<1>9. \A k \in 1..n : k < m => k \in 1..m
  BY <1>6
<1>10. \A k \in 1..n : ~(k < m) => k - m + 1 \in 1..r
  BY <1>2, <1>6
<1>11. \A k \in 1..m : k < m => at[k] < last
  BY <1>1, <1>8 DEF Increasing
<1> HIDE DEF last
<1>12. ASSUME NEW k \in 1..n
       PROVE  f[k] \in Ones(d)
  <2>1. CASE k < m
    BY <1>1, <1>6, <1>9, <2>1
  <2>2. CASE ~(k < m)
    <3>1. ae[k - m + 1] \in Ones(e)
      BY <1>2, <1>10, <2>2
    <3> QED
      BY <1>4, <2>2, <3>1
  <2> QED
    BY <2>1, <2>2
<1>13. f \in [1..n -> Ones(d)]
  BY <1>12
<1>14. ASSUME NEW j \in 1..n, NEW k \in 1..n, j < k
       PROVE  f[j] < f[k]
  <2>1. CASE k < m
    <3>1. j < m /\ j \in 1..m /\ k \in 1..m
      BY <1>6, <1>14, <2>1
    <3> QED
      BY <1>1, <1>14, <2>1, <3>1 DEF Increasing
  <2>2. CASE ~(k < m) /\ j < m
    <3>1. at[j] < last /\ at[j] \in Ones(a)
      BY <1>1, <1>9, <1>11, <2>2
    <3>2. ae[k - m + 1] \in Ones(e)
      BY <1>2, <1>10, <2>2
    <3>3. ae[k - m + 1] + s >= last
      BY <1>4, <3>2
    <3>4. at[j] \in Int /\ last \in Int /\ ae[k - m + 1] + s \in Int
      BY <1>3, <1>4, <1>5, <3>1, <3>2
    <3>5. at[j] < ae[k - m + 1] + s
      BY <3>1, <3>3, <3>4
    <3> QED
      BY <2>2, <3>5
  <2>3. CASE ~(k < m) /\ ~(j < m)
    <3>1. j - m + 1 \in 1..r /\ k - m + 1 \in 1..r
      BY <1>10, <2>3
    <3>2. j - m + 1 < k - m + 1
      BY <1>6, <1>14
    <3>3. ae[j - m + 1] < ae[k - m + 1] /\ ae[j - m + 1] \in Int /\ ae[k - m + 1] \in Int
      BY <1>2, <1>5, <3>1, <3>2 DEF Increasing
    <3>4. \A x, y \in Int : x < y => x + s < y + s
      BY <1>3
    <3>5. ae[j - m + 1] + s < ae[k - m + 1] + s
      BY <3>3, <3>4
    <3> QED
      BY <2>3, <3>5
  <2> QED
    BY <2>1, <2>2, <2>3
<1>shifted. ASSUME NEW k \in 1..r
            PROVE  k + m - 1 \in 1..n /\ f[k + m - 1] = ae[k] + s
  <2> DEFINE l == k + m - 1
  <2>1. l \in 1..n /\ ~(l < m) /\ l - m + 1 = k
    <3>1. \A x \in Nat, y \in Int :
            1 <= y /\ y <= x => /\ 1 <= y + m - 1 /\ y + m - 1 <= m + x - 1
                               /\ ~(y + m - 1 < m) /\ y + m - 1 - m + 1 = y
      BY <1>6
    <3>2. k \in Int /\ 1 <= k /\ k <= r /\ r \in Nat
      BY <1>2
    <3>3. 1 <= l /\ l <= n /\ ~(l < m) /\ l - m + 1 = k /\ l \in Int /\ n \in Int
      BY <1>6, <3>1, <3>2
    <3> QED
      BY <3>3
  <2> HIDE DEF l
  <2>2. f[l] = ae[l - m + 1] + s
    BY <2>1
  <2>3. l \in 1..n /\ f[l] = ae[k] + s
    BY <2>1, <2>2
  <2> QED
    BY <2>3 DEF l
<1>15. ASSUME NEW j \in Ones(d)
       PROVE  \E k \in 1..n : f[k] = j
  <2>1. CASE j < last
    <3>1. PICK k \in 1..m : at[k] = j
      BY <1>1, <1>6, <2>1
    <3>2. k # m
      BY <1>3, <1>5, <2>1, <3>1 DEF last
    <3>3. k < m /\ k \in 1..n
      BY <1>6, <1>8, <3>2
    <3> QED
      BY <3>1, <3>3
  <2>2. CASE ~(j < last)
    <3>1. j - s \in Ones(e)
      BY <1>3, <1>4, <1>5, <2>2
    <3>2. PICK k \in 1..r : ae[k] = j - s
      BY <1>2, <3>1
    <3>3. k + m - 1 \in 1..n /\ f[k + m - 1] = ae[k] + s
      BY <1>shifted
    <3>5. f[k + m - 1] = j
      <4>1. j \in Int /\ s \in Int /\ (j - s) + s = j
        BY <1>3, <1>5
      <4> HIDE DEF f
      <4> QED
        BY <3>2, <3>3, <4>1
    <3> QED
      BY <3>3, <3>5
  <2> QED
    BY <2>1, <2>2
<1> HIDE DEF n
<1>16. n = Cardinality(Ones(d)) /\ f = Sorted(Ones(d))
  <2>1. Increasing(f)
    BY <1>13, <1>14 DEF Increasing
  <2> HIDE DEF f
  <2> QED
    BY <1>5, <1>8, <1>13, <1>15, <2>1, SortedOnly
<1>18. f[m] = last
  <2>1. f[m] = ae[1] + s
    <3>1. 1 + m - 1 = m
      BY <1>6
    <3>2. f[1 + m - 1] = ae[1] + s
      BY <1>8, <1>shifted
    <3> HIDE DEF f
    <3> QED
      BY <3>1, <3>2
  <2>2. PICK k \in 1..n : f[k] = last
    BY <1>3, <1>15
  <2>3. CASE k < m
    <3>1. f[k] < last /\ f[k] \in Int
      BY <1>5, <1>9, <1>11, <1>12, <2>3
    <3> QED
      BY <2>2, <3>1
  <2>4. CASE m < k
    <3>1. f[m] < f[k] /\ f[m] \in Int /\ f[k] \in Int
      BY <1>5, <1>8, <1>12, <1>14, <2>4
    <3>2. ae[1] + s >= last
      BY <1>2, <1>4, <1>8
    <3> HIDE DEF f
    <3> QED
      BY <2>1, <2>2, <3>1, <3>2
  <2>5. CASE k = m
    BY <2>2, <2>5
  <2>6. k < m \/ m < k \/ k = m
    BY <1>6
  <2> QED
    BY <2>3, <2>4, <2>5, <2>6
<1>19. ASSUME NEW k \in 1..m
       PROVE  f[k] = at[k]
  <2>1. CASE k < m
    <3>1. k \in 1..n
      BY <1>6, <1>8, <2>1
    <3> QED
      BY <2>1, <3>1
  <2>2. CASE k = m
    BY <1>18, <2>2 DEF last
  <2> QED
    BY <1>6, <2>1, <2>2
<1> HIDE DEF f
<1>20. /\ r \in Nat \ {0} /\ Cardinality(Ones(d)) = n
       /\ \A k \in 1..m : Sorted(Ones(d))[k] = at[k]
       /\ \A k \in 1..r : Sorted(Ones(d))[k + m - 1] = ae[k] + s
  BY <1>2, <1>7, <1>16, <1>shifted, <1>19
<1> QED
  BY <1>20 DEF n, m, r, at, ae

\* The NAL units of a stream are those of a part of it, and then those of what
\* the part leaves with the rest behind it, wherever the stream is cut.
THEOREM NalsAfterCut ==
  ASSUME NEW B, NEW a \in Seq(B), NEW c \in Seq(B)
  PROVE  NalsOf(a \o c) = NalsOf(a) \o NalsOf(Keep(a) \o c)
<1> DEFINE d == a \o c
           e == Keep(a) \o c
           m == Cardinality(Ones(a))
           r == Cardinality(Ones(e))
           at == Sorted(Ones(a))
           ae == Sorted(Ones(e))
           ad == Sorted(Ones(d))
           last == at[m]
           s == Start(a, last) - 1
<1>d. d \in Seq(B)
  BY Joined
<1>1. CASE Ones(a) = {}
  <2>1. e = d /\ m = 0
    BY <1>1, FS_EmptySet DEF Keep
  <2>2. NalsOf(a) = <<>> /\ NalsOf(d) \in Seq(Seq(B))
    <3>1. NalsOf(a) \in Seq(Seq(B)) /\ Len(NalsOf(a)) = 0
      BY <2>1, NalsType
    <3>2. NalsOf(d) \in Seq(Seq(B))
      BY <1>d, NalsType
    <3> QED
      BY <3>1, <3>2
  <2>3. <<>> \o NalsOf(d) = NalsOf(d)
    <3> HIDE DEF d
    <3> QED
      BY <2>2
  <2> QED
    BY <2>1, <2>2, <2>3
<1>2. CASE Ones(a) # {}
  <2>1. m \in Nat \ {0} /\ last \in Ones(a) /\ \A j \in Ones(a) : j <= last
    BY <1>2, LastCode
  <2> HIDE DEF last
  <2>2. /\ Keep(a) \in Seq(B) /\ e \in Seq(B)
        /\ Rest(d, e, s, last)
        /\ \A j \in Ones(d) : j < last => j \in Ones(a)
    BY <2>1, CodesAfterCut
  <2>3. /\ \A j \in Ones(a) : j \in Ones(d) /\ Start(a, j) = Start(d, j)
        /\ Len(a) \in Nat /\ Len(d) \in Nat /\ Len(a) <= Len(d)
        /\ \A i \in 1..Len(a) : d[i] = a[i]
    BY CodesOfPart, Joined
  <2> HIDE DEF d, e, s
  <2>4. Ones(a) \subseteq Ones(d)
    BY <2>3
  <2>5. /\ r \in Nat \ {0} /\ Cardinality(Ones(d)) = m + r - 1
        /\ \A k \in 1..m : ad[k] = at[k]
        /\ \A k \in 1..r : ad[k + m - 1] = ae[k] + s
    <3>1. e \in Seq(B) /\ Cut(a, d, e, s)
      BY <1>2, <2>2, <2>4 DEF Cut, last
    <3>2. m \in Nat \ {0}
      BY <2>1
    <3> QED
      BY <1>d, <3>1, <3>2, CodesInOrder
  <2>6. /\ at \in [1..m -> Ones(a)] /\ Increasing(at)
        /\ ae \in [1..r -> Ones(e)] /\ Increasing(ae)
    BY <2>2, StartCodesAre
  <2>7. /\ NalsOf(a) = [k \in 1..m - 1 |-> Between(a, at[k], at[k + 1])]
        /\ NalsOf(a) \in Seq(Seq(B)) /\ Len(NalsOf(a)) = m - 1
    BY <2>1, NalsAre, NalsType
  <2>8. /\ NalsOf(e) = [k \in 1..r - 1 |-> Between(e, ae[k], ae[k + 1])]
        /\ NalsOf(e) \in Seq(Seq(B)) /\ Len(NalsOf(e)) = r - 1
    BY <2>2, <2>5, NalsAre, NalsType
  <2>9. /\ NalsOf(d) = [k \in 1..m + r - 2 |-> Between(d, ad[k], ad[k + 1])]
        /\ NalsOf(d) \in Seq(Seq(B)) /\ Len(NalsOf(d)) = m + r - 2
    <3>1. Cardinality(Ones(d)) # 0 /\ Cardinality(Ones(d)) - 1 = m + r - 2
      BY <2>1, <2>5
    <3> QED
      BY <1>d, <3>1, NalsAre, NalsType
  <2> HIDE DEF at, ae, ad, m, r
  <2>10. ASSUME NEW k \in 1..m - 1
         PROVE  NalsOf(d)[k] = NalsOf(a)[k]
    <3>1. k \in 1..m /\ k + 1 \in 1..m /\ k < k + 1 /\ k \in 1..m + r - 2
      BY <2>1, <2>5
    <3>2. at[k] \in Ones(a) /\ at[k + 1] \in Ones(a) /\ at[k] < at[k + 1]
      BY <2>6, <3>1 DEF Increasing
    <3>3. ad[k] = at[k] /\ ad[k + 1] = at[k + 1] /\ Start(d, ad[k + 1]) = Start(a, at[k + 1])
      BY <2>3, <2>5, <3>1, <3>2
    <3> DEFINE x == at[k] + 1
               y == Start(a, at[k + 1]) - 1
    <3>4. x \in Int /\ y \in Int /\ 1 <= x /\ y <= Len(a) /\ x <= y + 1
      <4>1. /\ at[k] \in Nat /\ Start(a, at[k + 1]) \in Int /\ at[k] + 1 <= Start(a, at[k + 1])
            /\ Start(a, at[k + 1]) <= Len(a)
        BY <3>2, NalFits
      <4> QED
        BY <2>3, <4>1
    <3> HIDE DEF x, y
    <3>5. \A i \in x..y : a[i] = d[i + 0]
      BY <2>3, <3>4
    <3>6. x + 0 = x /\ y + 0 = y /\ y + 0 <= Len(d) /\ 0 \in Nat
      BY <2>3, <3>4
    <3>7. SubSeq(a, x, y) = SubSeq(d, x + 0, y + 0)
      <4>1. Same(d, a, x, y, 0)
        BY <3>4, <3>5, <3>6 DEF Same
      <4>2. x \in Int /\ y \in Int /\ 0 \in Nat
        BY <3>4
      <4> QED
        BY <1>d, <4>1, <4>2, SameBytes
    <3>8. Between(a, at[k], at[k + 1]) = Between(d, ad[k], ad[k + 1])
      BY <3>3, <3>6, <3>7 DEF Between, x, y
    <3> QED
      BY <2>7, <2>9, <3>1, <3>8
  <2>11. ASSUME NEW k \in 1..r - 1
         PROVE  k + m - 1 \in 1..m + r - 2 /\ NalsOf(d)[k + m - 1] = NalsOf(e)[k]
    <3>1. /\ k \in 1..r /\ k + 1 \in 1..r /\ k < k + 1 /\ k + m - 1 \in 1..m + r - 2
          /\ k + 1 + m - 1 = (k + m - 1) + 1
      BY <2>1, <2>5
    <3>2. ae[k] \in Ones(e) /\ ae[k + 1] \in Ones(e) /\ ae[k] < ae[k + 1]
      BY <2>6, <3>1 DEF Increasing
    <3>3. ad[k + m - 1] = ae[k] + s /\ ad[(k + m - 1) + 1] = ae[k + 1] + s
      <4>1. ad[k + 1 + m - 1] = ae[k + 1] + s
        BY <2>5, <3>1
      <4> QED
        BY <2>5, <3>1, <4>1
    <3>4. /\ s \in Nat /\ Len(e) = Len(d) - s /\ \A i \in 1..Len(e) : e[i] = d[i + s]
      BY <2>2 DEF Rest
    <3>5. /\ ae[k] \in Int /\ ae[k + 1] \in Int /\ Len(e) \in Nat
          /\ \A j \in Ones(d) : j >= last => Start(e, j - s) = Start(d, j) - s
          /\ ae[k + 1] + s \in Ones(d) /\ ae[k + 1] + s >= last
      BY <1>d, <2>2, <3>2, CodesOfRest, OnesFinite
    <3>6. Start(e, ae[k + 1]) = Start(d, ae[k + 1] + s) - s
      <4>1. Start(e, (ae[k + 1] + s) - s) = Start(d, ae[k + 1] + s) - s
        BY <3>5
      <4>2. (ae[k + 1] + s) - s = ae[k + 1]
        BY <3>4, <3>5
      <4> QED
        BY <4>1, <4>2
    <3> DEFINE x == ae[k] + 1
               y == Start(e, ae[k + 1]) - 1
    <3>7. /\ x \in Int /\ y \in Int /\ 1 <= x /\ y <= Len(e) /\ x <= y + 1
          /\ x + s = ae[k] + s + 1 /\ y + s = Start(d, ae[k + 1] + s) - 1
      <4>1. /\ ae[k] \in Nat /\ Start(e, ae[k + 1]) \in Int /\ ae[k] + 1 <= Start(e, ae[k + 1])
            /\ Start(e, ae[k + 1]) <= Len(e)
        BY <2>2, <3>2, NalFits
      <4>2. Start(d, ae[k + 1] + s) \in Nat
        BY <1>d, <3>5, StartType
      <4> DEFINE u == ae[k]
                 v == Start(e, ae[k + 1])
                 w == Start(d, ae[k + 1] + s)
      <4>3. u \in Nat /\ v \in Int /\ w \in Nat /\ s \in Nat /\ v = w - s /\ u + 1 <= v /\ v <= Len(e)
        BY <3>4, <3>6, <4>1, <4>2
      <4>4. x = u + 1 /\ y = v - 1
        OBVIOUS
      <4> HIDE DEF u, v, w, x, y
      <4>5. /\ x \in Int /\ y \in Int /\ 1 <= x /\ y <= Len(e) /\ x <= y + 1
            /\ x + s = u + s + 1 /\ y + s = w - 1
        BY <3>5, <4>3, <4>4
      <4> QED
        BY <4>5 DEF u, w
    <3> HIDE DEF x, y
    <3>8. \A i \in x..y : e[i] = d[i + s]
      BY <3>4, <3>5, <3>7
    <3>9. y + s <= Len(d)
      BY <2>3, <3>4, <3>5, <3>7
    <3>10. SubSeq(e, x, y) = SubSeq(d, x + s, y + s)
      <4>1. Same(d, e, x, y, s)
        BY <3>4, <3>7, <3>8, <3>9 DEF Same
      <4>2. e \in Seq(B) /\ x \in Int /\ y \in Int /\ s \in Nat
        BY <2>2, <3>4, <3>7
      <4> QED
        BY <1>d, <4>1, <4>2, SameBytes
    <3>11. Between(e, ae[k], ae[k + 1]) = Between(d, ad[k + m - 1], ad[(k + m - 1) + 1])
      BY <3>3, <3>7, <3>10 DEF Between, x, y
    <3> QED
      BY <2>8, <2>9, <3>1, <3>11
  <2> DEFINE whole == NalsOf(d)
             one == NalsOf(a)
             two == NalsOf(e)
  <2>12. /\ whole \in Seq(Seq(B)) /\ one \in Seq(Seq(B)) /\ two \in Seq(Seq(B))
         /\ Len(one) = m - 1 /\ Len(two) = r - 1 /\ Len(whole) = m + r - 2
         /\ \A k \in 1..m - 1 : whole[k] = one[k]
         /\ \A k \in 1..r - 1 : whole[k + m - 1] = two[k]
    BY <2>7, <2>8, <2>9, <2>10, <2>11
  <2> HIDE DEF whole, one, two
  <2>13. /\ one \o two \in Seq(Seq(B)) /\ Len(one \o two) = Len(one) + Len(two)
         /\ \A k \in 1..Len(one) : (one \o two)[k] = one[k]
         /\ \A k \in 1..Len(two) : (one \o two)[k + Len(one)] = two[k]
    <3>1. one \in Seq(Seq(B)) /\ two \in Seq(Seq(B))
      BY <2>12
    <3> QED
      BY <3>1, Joined
  <2>14. Len(one \o two) = Len(whole)
    BY <2>1, <2>5, <2>12, <2>13
  <2>same. ASSUME NEW k \in 1..Len(whole)
           PROVE  whole[k] = (one \o two)[k]
    <3>1. CASE k <= m - 1
      <4>1. k \in 1..m - 1 /\ k \in 1..Len(one)
        BY <2>1, <2>12, <3>1
      <4> QED
        BY <2>12, <2>13, <4>1
    <3>2. CASE ~(k <= m - 1)
      <4> DEFINE l == k - (m - 1)
      <4>1. l \in 1..r - 1 /\ l + m - 1 = k /\ l + (m - 1) = k
        BY <2>1, <2>5, <2>12, <3>2
      <4> HIDE DEF l
      <4>2. whole[l + m - 1] = two[l] /\ (one \o two)[l + (m - 1)] = two[l]
        BY <2>12, <2>13, <4>1
      <4> QED
        BY <4>1, <4>2
    <3> QED
      BY <3>1, <3>2
  <2>15. whole = one \o two
    BY <2>12, <2>13, <2>14, <2>same, SeqEqual
  <2> QED
    BY <2>15 DEF whole, one, two, d, e
<1> QED
  BY <1>1, <1>2
=============================================================================
