------------------------ MODULE BlockManagerProofs ------------------------
(***************************************************************************)
(* The block manager keeps its books straight, for every number of          *)
(* sequences, blocks and tokens: IndInv of BlockManager is an inductive     *)
(* invariant of BMSpec, and with it each of the invariants it consists of.  *)
(***************************************************************************)
EXTENDS BlockManager, FiniteSetTheorems, FunctionTheorems, SequenceTheorems, TLAPS

-----------------------------------------------------------------------------
(* Laws of the queue operators, for sequences of every length: keeping the  *)
(* members of a set keeps exactly those, in order, each as often as it was  *)
(* queued, and cutting a duplicate-free queue splits its members in two.    *)

\* The rank of an index grows with the index.
LEMMA RankIncreases ==
    ASSUME NEW n \in Nat, NEW I \in SUBSET (1..n), NEW i \in I, NEW j \in I, i < j
    PROVE  Rank(I, i) < Rank(I, j)
<1> DEFINE A == {k \in I : k <= i}
           B == {k \in I : k <= j}
<1>1. IsFiniteSet(B)
  <2>1. IsFiniteSet(1..n)  BY FS_Interval
  <2>2. B \in SUBSET (1..n)  OBVIOUS
  <2> QED BY <2>1, <2>2, FS_Subset
<1>2. A \in SUBSET B
  <2>1. \A k \in A : k \in Int /\ k <= j  OBVIOUS
  <2> QED BY <2>1
<1>3. j \in B /\ j \notin A
  <2>1. i \in Int /\ j \in Int  OBVIOUS
  <2> QED BY <2>1
<1>4. Cardinality(A) <= Cardinality(B) /\ Cardinality(A) # Cardinality(B)
  <2>1. A # B  BY <1>3
  <2> QED BY <1>1, <1>2, <2>1, FS_Subset
<1>5. Cardinality(A) \in Nat /\ Cardinality(B) \in Nat
  BY <1>1, <1>2, FS_Subset, FS_CardinalityType
<1> QED BY <1>4, <1>5 DEF Rank

\* The ranks of the members of I are the numbers from 1 to its cardinality.
LEMMA RankType ==
    ASSUME NEW n \in Nat, NEW I \in SUBSET (1..n)
    PROVE  /\ IsFiniteSet(I) /\ Cardinality(I) \in Nat
           /\ \A i \in I : Rank(I, i) \in 1..Cardinality(I)
<1>1. IsFiniteSet(1..n)  BY FS_Interval
<1>2. IsFiniteSet(I) /\ Cardinality(I) \in Nat
  BY <1>1, FS_Subset, FS_CardinalityType
<1>3. ASSUME NEW i \in I
      PROVE  Rank(I, i) \in 1..Cardinality(I)
  <2> DEFINE A == {k \in I : k <= i}
  <2>1. A \in SUBSET I /\ i \in A  OBVIOUS
  <2>2. IsFiniteSet(A) /\ Cardinality(A) \in Nat /\ Cardinality(A) <= Cardinality(I)
    BY <1>2, <2>1, FS_Subset, FS_CardinalityType
  <2>3. Cardinality(A) # 0  BY <2>1, <2>2, FS_EmptySet
  <2> QED BY <1>2, <2>2, <2>3 DEF Rank
<1> QED BY <1>2, <1>3

\* Every number up to the cardinality of I is the rank of one member.
LEMMA NthType ==
    ASSUME NEW n \in Nat, NEW I \in SUBSET (1..n), NEW j \in 1..Cardinality(I)
    PROVE  Nth(I, j) \in I /\ Rank(I, Nth(I, j)) = j
<1> DEFINE J == 1..Cardinality(I)
           f == [i \in I |-> Rank(I, i)]
<1>1. IsFiniteSet(I) /\ Cardinality(I) \in Nat  BY RankType
<1>2. IsFiniteSet(J) /\ Cardinality(J) = Cardinality(I)
  <2>1. IsFiniteSet(J) /\ Cardinality(J) = IF 1 > Cardinality(I) THEN 0 ELSE Cardinality(I) - 1 + 1
    BY <1>1, FS_Interval
  <2> QED BY <1>1, <2>1
<1>3. f \in Injection(I, J)
  <2>1. f \in [I -> J]  BY RankType
  <2>2. ASSUME NEW a \in I, NEW b \in I, f[a] = f[b]
        PROVE  a = b
    <3>1. a \in Int /\ b \in Int  OBVIOUS
    <3>2. Rank(I, a) = Rank(I, b) /\ Rank(I, a) \in Nat  BY <2>1, <2>2
    <3>3. a < b => Rank(I, a) < Rank(I, b)  BY RankIncreases
    <3>4. b < a => Rank(I, b) < Rank(I, a)  BY RankIncreases
    <3> QED BY <3>1, <3>2, <3>3, <3>4
  <2> QED BY <2>1, <2>2, Fun_IsInj
<1>4. f \in Surjection(I, J)
  BY <1>1, <1>2, <1>3, FS_Injection
<1>5. \E i \in I : f[i] = j
  BY <1>4 DEF Surjection
<1> QED BY <1>5 DEF Nth

\* Different ranks have different members, and a member is found at its rank.
LEMMA NthInjective ==
    ASSUME NEW n \in Nat, NEW I \in SUBSET (1..n)
    PROVE  /\ \A j, k \in 1..Cardinality(I) : Nth(I, j) = Nth(I, k) => j = k
           /\ \A i \in I : Nth(I, Rank(I, i)) = i
<1>1. \A j \in 1..Cardinality(I) : Nth(I, j) \in I /\ Rank(I, Nth(I, j)) = j
  BY NthType
<1>2. ASSUME NEW i \in I
      PROVE  Nth(I, Rank(I, i)) = i
  <2> DEFINE m == Nth(I, Rank(I, i))
  <2>1. Rank(I, i) \in 1..Cardinality(I) /\ Rank(I, i) \in Nat
    <3>1. Rank(I, i) \in 1..Cardinality(I)  BY RankType
    <3> QED BY <3>1
  <2>2. m \in I /\ Rank(I, m) = Rank(I, i)  BY <1>1, <2>1
  <2> HIDE DEF m
  <2>3. m \in 1..n /\ i \in 1..n  BY <2>2
  <2>4. m < i => Rank(I, m) < Rank(I, i)  BY <2>2, RankIncreases
  <2>5. i < m => Rank(I, i) < Rank(I, m)  BY <2>2, RankIncreases
  <2>6. m = i  BY <2>1, <2>2, <2>3, <2>4, <2>5
  <2> QED BY <2>6 DEF m
<1> QED BY <1>1, <1>2

\* Retain(q, K) is a queue of the members of q that are in K.
THEOREM RetainLaws ==
    ASSUME NEW B, NEW q \in Seq(B), NEW K
    PROVE  /\ Retain(q, K) \in Seq(B)
           /\ Range(Retain(q, K)) = Range(q) \cap K
           /\ IsInjective(q) => IsInjective(Retain(q, K))
<1> DEFINE n == Len(q)
           I == Positions(q, K)
           r == Retain(q, K)
<1>1. n \in Nat /\ DOMAIN q = 1..n /\ q \in [1..n -> B]  BY LenProperties
<1>2. I \in SUBSET (1..n) /\ \A i \in I : i \in DOMAIN q /\ q[i] \in K
  BY <1>1 DEF Positions
<1>3. Cardinality(I) \in Nat  BY <1>1, <1>2, RankType
<1>4. \A j \in 1..Cardinality(I) : Nth(I, j) \in I  BY <1>1, <1>2, NthType
<1>5. r = [j \in 1..Cardinality(I) |-> q[Nth(I, j)]]  BY DEF Retain
<1> HIDE DEF n, I, r
<1>6. r \in [1..Cardinality(I) -> B]  BY <1>1, <1>2, <1>4, <1>5
<1>7. r \in Seq(B)  BY <1>3, <1>6, SeqDef
<1>8. DOMAIN r = 1..Cardinality(I)  BY <1>5
<1>9. Range(r) \subseteq Range(q) \cap K
  BY <1>1, <1>2, <1>4, <1>5, <1>8 DEF Range
<1>10. ASSUME NEW b \in Range(q) \cap K
       PROVE  b \in Range(r)
  <2>1. PICK i \in DOMAIN q : q[i] = b  BY DEF Range
  <2>2. i \in I  BY <2>1 DEF I, Positions
  <2>3. Rank(I, i) \in 1..Cardinality(I)  BY <1>1, <1>2, <2>2, RankType
  <2>4. Nth(I, Rank(I, i)) = i  BY <1>1, <1>2, <2>2, NthInjective
  <2>5. r[Rank(I, i)] = b  BY <1>5, <2>1, <2>3, <2>4
  <2> QED BY <1>8, <2>3, <2>5 DEF Range
<1>11. ASSUME IsInjective(q)
       PROVE  IsInjective(r)
  <2>1. ASSUME NEW j \in DOMAIN r, NEW k \in DOMAIN r, r[j] = r[k]
        PROVE  j = k
    <3>1. q[Nth(I, j)] = q[Nth(I, k)]  BY <1>5, <1>8, <2>1
    <3>2. Nth(I, j) \in DOMAIN q /\ Nth(I, k) \in DOMAIN q  BY <1>2, <1>4, <1>8
    <3>3. Nth(I, j) = Nth(I, k)  BY <1>11, <3>1, <3>2 DEF IsInjective
    <3> QED BY <1>1, <1>2, <1>8, <3>3, NthInjective
  <2> QED BY <2>1 DEF IsInjective
<1> QED BY <1>7, <1>9, <1>10, <1>11 DEF r

\* Without(q, K) is q less the members of K.
THEOREM WithoutLaws ==
    ASSUME NEW B, NEW q \in Seq(B), NEW K
    PROVE  /\ Without(q, K) \in Seq(B)
           /\ Range(Without(q, K)) = Range(q) \ K
           /\ IsInjective(q) => IsInjective(Without(q, K))
BY RetainLaws DEF Without

\* Reversing a sequence keeps its members.
THEOREM ReverseLaws ==
    ASSUME NEW B, NEW q \in Seq(B)
    PROVE  /\ Reverse(q) \in Seq(B)
           /\ Range(Reverse(q)) = Range(q)
           /\ IsInjective(q) => IsInjective(Reverse(q))
<1> DEFINE n == Len(q)
           r == Reverse(q)
<1>1. n \in Nat /\ DOMAIN q = 1..n /\ q \in [1..n -> B]  BY LenProperties
<1>2. r = [i \in 1..n |-> q[(n - i) + 1]]  BY DEF Reverse
<1> HIDE DEF n, r
<1>3. \A i \in 1..n : (n - i) + 1 \in 1..n  BY <1>1
<1>4. r \in [1..n -> B] /\ DOMAIN r = 1..n  BY <1>1, <1>2, <1>3
<1>5. r \in Seq(B)  BY <1>1, <1>4, SeqDef
<1>6. Range(r) \subseteq Range(q)  BY <1>1, <1>2, <1>3, <1>4 DEF Range
<1>7. ASSUME NEW b \in Range(q)
      PROVE  b \in Range(r)
  <2>1. PICK i \in 1..n : q[i] = b  BY <1>1 DEF Range
  <2>2. (n - ((n - i) + 1)) + 1 = i  BY <1>1
  <2>3. r[(n - i) + 1] = b  BY <1>2, <1>3, <2>1, <2>2
  <2> QED BY <1>3, <1>4, <2>3 DEF Range
<1>8. ASSUME IsInjective(q), NEW i \in 1..n, NEW j \in 1..n, r[i] = r[j]
      PROVE  i = j
  <2>1. q[(n - i) + 1] = q[(n - j) + 1]  BY <1>2, <1>8
  <2>2. (n - i) + 1 = (n - j) + 1  BY <1>1, <1>3, <1>8, <2>1 DEF IsInjective
  <2> QED BY <1>1, <2>2
<1> QED BY <1>4, <1>5, <1>6, <1>7, <1>8 DEF r, IsInjective

\* The members of a concatenation; it has no duplicates when its parts have
\* none and share none.
THEOREM ConcatLaws ==
    ASSUME NEW B, NEW p \in Seq(B), NEW q \in Seq(B)
    PROVE  /\ p \o q \in Seq(B)
           /\ Range(p \o q) = Range(p) \cup Range(q)
           /\ IsInjective(p) /\ IsInjective(q) /\ Range(p) \cap Range(q) = {}
                => IsInjective(p \o q)
<1> DEFINE m == Len(p)
           n == Len(q)
           r == p \o q
<1>1. m \in Nat /\ DOMAIN p = 1..m /\ n \in Nat /\ DOMAIN q = 1..n
  BY LenProperties
<1>2. /\ r \in Seq(B) /\ Len(r) = m + n
      /\ \A i \in 1..(m + n) : r[i] = IF i <= m THEN p[i] ELSE q[i - m]
  BY ConcatProperties
<1> HIDE DEF m, n, r
<1>3. DOMAIN r = 1..(m + n)  BY <1>2, LenProperties
<1>4. ASSUME NEW i \in 1..(m + n)
      PROVE  \/ i \in 1..m /\ r[i] = p[i] /\ r[i] \in Range(p)
             \/ i - m \in 1..n /\ r[i] = q[i - m] /\ r[i] \in Range(q)
  <2>1. CASE i <= m
    <3>1. i \in 1..m  BY <1>1, <2>1
    <3> QED BY <1>1, <1>2, <2>1, <3>1 DEF Range
  <2>2. CASE ~(i <= m)
    <3>1. i - m \in 1..n  BY <1>1, <2>2
    <3> QED BY <1>1, <1>2, <2>2, <3>1 DEF Range
  <2> QED BY <2>1, <2>2
<1>5. Range(r) \subseteq Range(p) \cup Range(q)  BY <1>3, <1>4 DEF Range
<1>6. Range(p) \subseteq Range(r)
  <2>1. ASSUME NEW i \in 1..m
        PROVE  p[i] \in Range(r)
    <3>1. i \in 1..(m + n) /\ i <= m  BY <1>1
    <3> QED BY <1>2, <1>3, <3>1 DEF Range
  <2> QED BY <1>1, <2>1 DEF Range
<1>7. Range(q) \subseteq Range(r)
  <2>1. ASSUME NEW i \in 1..n
        PROVE  q[i] \in Range(r)
    <3>1. i + m \in 1..(m + n) /\ ~(i + m <= m) /\ (i + m) - m = i  BY <1>1
    <3>2. r[i + m] = q[i]  BY <1>2, <3>1
    <3> QED BY <1>3, <3>1, <3>2 DEF Range
  <2> QED BY <1>1, <2>1 DEF Range
<1>8. ASSUME IsInjective(p), IsInjective(q), Range(p) \cap Range(q) = {},
             NEW i \in 1..(m + n), NEW j \in 1..(m + n), r[i] = r[j]
      PROVE  i = j
  <2>1. CASE i \in 1..m /\ j \in 1..m /\ r[i] = p[i] /\ r[j] = p[j]
    BY <1>1, <1>8, <2>1 DEF IsInjective
  <2>2. CASE i - m \in 1..n /\ j - m \in 1..n /\ r[i] = q[i - m] /\ r[j] = q[j - m]
    <3>1. i - m = j - m  BY <1>1, <1>8, <2>2 DEF IsInjective
    <3> QED BY <1>1, <3>1
  <2> QED BY <1>4, <1>8, <2>1, <2>2
<1> QED BY <1>2, <1>3, <1>5, <1>6, <1>7, <1>8 DEF r, IsInjective

\* Cutting a queue without duplicates after its k-th element.
THEOREM CutLaws ==
    ASSUME NEW B, NEW q \in Seq(B), IsInjective(q), NEW k \in 0..Len(q)
    PROVE  LET head == SubSeq(q, 1, k)
               rest == SubSeq(q, k + 1, Len(q))
           IN  /\ head \in Seq(B) /\ IsInjective(head) /\ Len(head) = k
               /\ rest \in Seq(B) /\ IsInjective(rest)
               /\ Range(head) \subseteq Range(q)
               /\ Range(rest) = Range(q) \ Range(head)
<1> DEFINE n    == Len(q)
           head == SubSeq(q, 1, k)
           rest == SubSeq(q, k + 1, n)
<1>1. n \in Nat /\ DOMAIN q = 1..n /\ k \in Nat /\ k <= n  BY LenProperties
<1>2. /\ head \in Seq(B) /\ Len(head) = k
      /\ \A i \in 1..k : head[i] = q[i]
  <2>1. \A i \in 1..k : i \in 1..n  BY <1>1
  <2>2. \A i \in 1..k : q[i] \in B  BY <1>1, <2>1, ElementOfSeq
  <2>3. \A i \in 1..k : (1 + i) - 1 = i  OBVIOUS
  <2>4. (k - 1) + 1 = k /\ (IF 1 <= k THEN (k - 1) + 1 ELSE 0) = k  BY <1>1
  <2> QED BY <1>1, <2>2, <2>3, <2>4, SubSeqProperties
<1>3. /\ rest \in Seq(B) /\ Len(rest) = n - k
      /\ \A i \in 1..(n - k) : rest[i] = q[k + i]
  <2>1. \A i \in (k + 1)..n : i \in 1..n  BY <1>1
  <2>2. \A i \in (k + 1)..n : q[i] \in B  BY <1>1, <2>1, ElementOfSeq
  <2>3. \A i \in 1..(n - k) : ((k + 1) + i) - 1 = k + i  BY <1>1
  <2>4. (n - (k + 1)) + 1 = n - k /\ (~(k + 1 <= n) => n - k = 0)
    <3> HIDE DEF n
    <3>1. n \in Int /\ k \in Int /\ k <= n  BY <1>1
    <3> QED BY <3>1
  <2>5. k + 1 \in Int /\ n \in Int  BY <1>1
  <2>6. /\ rest \in Seq(B)
        /\ Len(rest) = IF k + 1 <= n THEN (n - (k + 1)) + 1 ELSE 0
        /\ \A i \in 1..((n - (k + 1)) + 1) : rest[i] = q[((k + 1) + i) - 1]
    BY <2>2, <2>5, SubSeqProperties
  <2> HIDE DEF n, rest
  <2>7. Len(rest) = n - k  BY <2>4, <2>6
  <2>8. \A i \in 1..(n - k) : rest[i] = q[k + i]  BY <2>3, <2>4, <2>6
  <2> QED BY <2>6, <2>7, <2>8
<1> HIDE DEF n, head, rest
<1>4. DOMAIN head = 1..k /\ DOMAIN rest = 1..(n - k)
  BY <1>2, <1>3, LenProperties
<1>5. IsInjective(head)  BY <1>1, <1>2, <1>4 DEF IsInjective
<1>6. ASSUME NEW i \in 1..(n - k), NEW j \in 1..(n - k), rest[i] = rest[j]
      PROVE  i = j
  <2>1. k + i \in 1..n /\ k + j \in 1..n  BY <1>1
  <2>2. k + i = k + j  BY <1>1, <1>3, <1>6, <2>1 DEF IsInjective
  <2> QED BY <1>1, <2>2
<1>7. Range(head) \subseteq Range(q)
  <2>1. \A i \in 1..k : i \in 1..n  BY <1>1
  <2> QED BY <1>1, <1>2, <1>4, <2>1 DEF Range
<1>8. ASSUME NEW b \in Range(rest)
      PROVE  b \in Range(q) \ Range(head)
  <2>1. PICK i \in 1..(n - k) : rest[i] = b  BY <1>4 DEF Range
  <2>2. k + i \in 1..n /\ q[k + i] = b  BY <1>1, <1>3, <2>1
  <2>3. ASSUME NEW j \in 1..k, head[j] = b
        PROVE  FALSE
    <3>1. j \in 1..n /\ q[j] = b  BY <1>1, <1>2, <2>3
    <3>2. j = k + i  BY <1>1, <2>2, <3>1 DEF IsInjective
    <3> QED BY <1>1, <3>2
  <2> QED BY <1>1, <1>4, <2>2, <2>3 DEF Range
<1>9. ASSUME NEW b \in Range(q) \ Range(head)
      PROVE  b \in Range(rest)
  <2>1. PICK i \in 1..n : q[i] = b  BY <1>1 DEF Range
  <2>2. ~(i <= k)
    <3>1. SUFFICES ASSUME i <= k PROVE FALSE  OBVIOUS
    <3>2. i \in 1..k  BY <1>1, <3>1
    <3> QED BY <1>2, <1>4, <2>1, <3>2 DEF Range
  <2>3. i - k \in 1..(n - k) /\ k + (i - k) = i  BY <1>1, <2>2
  <2>4. rest[i - k] = b  BY <1>3, <2>1, <2>3
  <2> QED BY <1>4, <2>3, <2>4 DEF Range
<1>10. IsInjective(rest)  BY <1>4, <1>6 DEF IsInjective
<1> QED BY <1>2, <1>3, <1>5, <1>7, <1>8, <1>9, <1>10 DEF head, rest, n

\* The first k + 1 elements of a queue without duplicates are the first k and
\* one that is not among them.
THEOREM TakeOneMore ==
    ASSUME NEW B, NEW q \in Seq(B), IsInjective(q), NEW k \in 0..(Len(q) - 1)
    PROVE  /\ q[k + 1] \in Range(q)
           /\ q[k + 1] \notin Range(SubSeq(q, 1, k))
           /\ Range(SubSeq(q, 1, k + 1)) = Range(SubSeq(q, 1, k)) \cup {q[k + 1]}
<1> DEFINE n == Len(q)
           p == SubSeq(q, 1, k)
           r == SubSeq(q, 1, k + 1)
<1>1. n \in Nat /\ DOMAIN q = 1..n /\ k \in Nat /\ k + 1 \in 1..n /\ k + 1 \in 0..n /\ k \in 0..n
  BY LenProperties
<1>2. \A i \in 1..(k + 1) : i \in 1..n /\ q[i] \in B  BY <1>1, ElementOfSeq
<1>3. p \in Seq(B) /\ Len(p) = k /\ r \in Seq(B) /\ Len(r) = k + 1
  BY <1>1, CutLaws
<1>4. \A i \in 1..k : p[i] = q[i]
  <2>1. \A i \in 1..k : i \in 1..(k + 1)  BY <1>1
  <2>2. (k - 1) + 1 = k /\ \A i \in 1..k : (1 + i) - 1 = i  BY <1>1
  <2> QED BY <1>1, <1>2, <2>1, <2>2, SubSeqProperties
<1>5. \A i \in 1..(k + 1) : r[i] = q[i]
  <2>1. ((k + 1) - 1) + 1 = k + 1 /\ \A i \in 1..(k + 1) : (1 + i) - 1 = i  BY <1>1
  <2> QED BY <1>1, <1>2, <2>1, SubSeqProperties
<1>6. DOMAIN p = 1..k /\ DOMAIN r = 1..(k + 1)  BY <1>3, LenProperties
<1> HIDE DEF n, p, r
<1>7. q[k + 1] \in Range(q)  BY <1>1 DEF Range
<1>8. ASSUME q[k + 1] \in Range(p)
      PROVE  FALSE
  <2>1. PICK i \in 1..k : q[i] = q[k + 1]  BY <1>4, <1>6, <1>8 DEF Range
  <2>2. i \in 1..n /\ i # k + 1  BY <1>1
  <2> QED BY <1>1, <2>1, <2>2 DEF IsInjective
<1>9. ASSUME NEW b \in Range(r)
      PROVE  b \in Range(p) \cup {q[k + 1]}
  <2>1. PICK i \in 1..(k + 1) : q[i] = b  BY <1>5, <1>6 DEF Range
  <2>2. CASE i = k + 1  BY <2>1, <2>2
  <2>3. CASE i \in 1..k  BY <1>4, <1>6, <2>1, <2>3 DEF Range
  <2> QED BY <1>1, <2>2, <2>3
<1>10. ASSUME NEW b \in Range(p)
       PROVE  b \in Range(r)
  <2>1. PICK i \in 1..k : q[i] = b  BY <1>4, <1>6 DEF Range
  <2>2. i \in 1..(k + 1)  BY <1>1
  <2> QED BY <1>5, <1>6, <2>1, <2>2 DEF Range
<1>11. q[k + 1] \in Range(r)
  <2>1. k + 1 \in 1..(k + 1)  BY <1>1
  <2> QED BY <1>5, <1>6, <2>1 DEF Range
<1> QED BY <1>7, <1>8, <1>9, <1>10, <1>11 DEF p, r

\* Exchanging one element of a sequence without duplicates for a new one.
THEOREM ReplaceLaws ==
    ASSUME NEW B, NEW q \in Seq(B), IsInjective(q),
           NEW w \in DOMAIN q, NEW b \in B, b \notin Range(q)
    PROVE  LET r == [q EXCEPT ![w] = b]
           IN  /\ r \in Seq(B) /\ Len(r) = Len(q) /\ IsInjective(r)
               /\ Range(r) = (Range(q) \ {q[w]}) \cup {b}
               /\ \A i \in DOMAIN q : r[i] = IF i = w THEN b ELSE q[i]
<1> DEFINE n == Len(q)
           r == [q EXCEPT ![w] = b]
<1>1. n \in Nat /\ DOMAIN q = 1..n /\ q \in [1..n -> B]  BY LenProperties
<1>2. r \in Seq(B) /\ Len(r) = n  BY <1>1, ExceptSeq
<1>3. DOMAIN r = DOMAIN q /\ \A i \in DOMAIN q : r[i] = IF i = w THEN b ELSE q[i]
  OBVIOUS
<1> HIDE DEF n, r
<1>4. IsInjective(r)  BY <1>3 DEF IsInjective, Range
<1>5. Range(r) = (Range(q) \ {q[w]}) \cup {b}  BY <1>3 DEF IsInjective, Range
<1> QED BY <1>2, <1>3, <1>4, <1>5 DEF r, n

-----------------------------------------------------------------------------
(* Order.                                                                    *)

\* Moving a set of indices does not change its size.
LEMMA ShiftCardinality ==
    ASSUME NEW n \in Nat, NEW S \in SUBSET (1..n), NEW m \in Nat
    PROVE  LET T == {m + k : k \in S}
           IN  IsFiniteSet(T) /\ Cardinality(T) = Cardinality(S)
<1> DEFINE T == {m + k : k \in S}
           f == [k \in S |-> m + k]
<1>1. IsFiniteSet(S)  BY RankType
<1>2. \A j, k \in S : m + j = m + k => j = k  OBVIOUS
<1>3. f \in Bijection(S, T)
  <2>1. f \in [S -> T] /\ \A k \in S : f[k] = m + k  OBVIOUS
  <2> HIDE DEF f
  <2>2. \A j, k \in S : f[j] = f[k] => j = k  BY <1>2, <2>1
  <2>3. \A t \in T : \E k \in S : f[k] = t  BY <2>1
  <2> HIDE DEF T
  <2> QED BY <2>1, <2>2, <2>3 DEF Bijection, Injection, Surjection, IsInjective
<1>4. ExistsBijection(S, T)  BY <1>3 DEF ExistsBijection
<1> HIDE DEF T, f
<1>5. IsFiniteSet(T) /\ Cardinality(T) = Cardinality(S)  BY <1>1, <1>4, FS_Bijection
<1> QED BY <1>5 DEF T

\* Indices of a sequence of length m, and of one that follows it.
Joined(m, I, J) == I \cup {m + j : j \in J}

\* Ranks among the indices of a concatenation.
LEMMA RankOfConcat ==
    ASSUME NEW m \in Nat, NEW n \in Nat, NEW I \in SUBSET (1..m), NEW J \in SUBSET (1..n)
    PROVE  LET M == Joined(m, I, J)
           IN  /\ M \in SUBSET (1..(m + n))
               /\ Cardinality(M) = Cardinality(I) + Cardinality(J)
               /\ \A i \in I : Rank(M, i) = Rank(I, i)
               /\ \A j \in J : Rank(M, m + j) = Cardinality(I) + Rank(J, j)
<1> DEFINE S(A) == {m + j : j \in A}
           M    == I \cup S(J)
<1>1. IsFiniteSet(I) /\ Cardinality(I) \in Nat /\ Cardinality(J) \in Nat  BY RankType
<1>2. \A k \in J : k \in 1..n /\ k \in Nat  OBVIOUS
<1>3. \A i \in I : i \in 1..m /\ i \in Nat /\ i <= m  OBVIOUS
<1>4. M \in SUBSET (1..(m + n))
  <2>1. \A j \in J : m + j \in 1..(m + n)  BY <1>2
  <2>2. \A i \in I : i \in 1..(m + n)  BY <1>3
  <2> QED BY <2>1, <2>2
<1>5. ASSUME NEW A \in SUBSET J
      PROVE  Cardinality(I \cup S(A)) = Cardinality(I) + Cardinality(A)
  <2>1. A \in SUBSET (1..n)  OBVIOUS
  <2>2. IsFiniteSet(S(A)) /\ Cardinality(S(A)) = Cardinality(A) /\ Cardinality(A) \in Nat
    BY <2>1, ShiftCardinality, RankType
  <2>3. I \cap S(A) = {}
    <3>1. \A j \in A : ~(m + j <= m)  BY <1>2
    <3> QED BY <1>3, <3>1
  <2> HIDE DEF S
  <2>4. Cardinality(I \cup S(A)) = Cardinality(I) + Cardinality(S(A)) - Cardinality(I \cap S(A))
    BY <1>1, <2>2, FS_Union
  <2> QED BY <1>1, <2>2, <2>3, <2>4, FS_EmptySet
<1>6. Cardinality(M) = Cardinality(I) + Cardinality(J)  BY <1>5
<1>7. ASSUME NEW i \in I
      PROVE  Rank(M, i) = Rank(I, i)
  <2>1. \A j \in J : ~(m + j <= i)  BY <1>2, <1>3
  <2>2. {k \in M : k <= i} = {k \in I : k <= i}  BY <2>1
  <2> QED BY <2>2 DEF Rank
<1>8. ASSUME NEW j \in J
      PROVE  Rank(M, m + j) = Cardinality(I) + Rank(J, j)
  <2> DEFINE A == {k \in J : k <= j}
  <2>1. \A i \in I : i <= m + j  BY <1>2, <1>3
  <2>2. \A k \in J : m + k <= m + j <=> k <= j  BY <1>2
  <2>3. {k \in M : k <= m + j} = I \cup S(A)  BY <2>1, <2>2
  <2>4. A \in SUBSET J  OBVIOUS
  <2> HIDE DEF S, M
  <2> QED BY <1>5, <2>3, <2>4 DEF Rank
<1> QED BY <1>4, <1>6, <1>7, <1>8 DEF Joined

LEMMA IntervalSize ==
    ASSUME NEW n \in Nat
    PROVE  Cardinality(1..n) = n
<1>1. Cardinality(1..n) = IF 1 > n THEN 0 ELSE (n - 1) + 1  BY FS_Interval
<1> QED BY <1>1

\* A duplicate-free queue is as long as it has members.
LEMMA RangeSize ==
    ASSUME NEW B, NEW q \in Seq(B), IsInjective(q)
    PROVE  IsFiniteSet(Range(q)) /\ Cardinality(Range(q)) = Len(q)
<1> DEFINE n == Len(q)
           T == Range(q)
<1>1. n \in Nat /\ DOMAIN q = 1..n /\ q \in [1..n -> B]  BY LenProperties
<1>2. \A i \in 1..n : q[i] \in T  BY <1>1 DEF Range
<1>3. \A t \in T : \E i \in 1..n : q[i] = t  BY <1>1 DEF Range
<1>4. \A i, j \in 1..n : q[i] = q[j] => i = j  BY <1>1 DEF IsInjective
<1> HIDE DEF n, T
<1>5. q \in [1..n -> T]
  <2>1. q = [i \in 1..n |-> q[i]]  BY <1>1
  <2> QED BY <1>2, <2>1
<1>6. q \in Bijection(1..n, T)
  BY <1>3, <1>4, <1>5 DEF Bijection, Injection, Surjection, IsInjective
<1>7. ExistsBijection(1..n, T)  BY <1>6 DEF ExistsBijection
<1>8. IsFiniteSet(1..n) /\ Cardinality(1..n) = n  BY <1>1, IntervalSize, FS_Interval
<1> QED BY <1>7, <1>8, FS_Bijection DEF n, T

\* A queue of wanted members is kept as it is.
LEMMA RetainWhole ==
    ASSUME NEW B, NEW q \in Seq(B), NEW K, Range(q) \subseteq K
    PROVE  Retain(q, K) = q
<1> DEFINE n == Len(q)
           I == 1..n
<1>1. n \in Nat /\ DOMAIN q = 1..n /\ q = [j \in 1..n |-> q[j]]  BY LenProperties
<1>2. Positions(q, K) = I  BY <1>1 DEF Positions, Range
<1>3. Cardinality(I) = n  BY <1>1, IntervalSize
<1>4. ASSUME NEW j \in 1..n
      PROVE  Nth(I, j) = j
  <2>1. {k \in I : k <= j} = 1..j  BY <1>1
  <2>2. Cardinality(1..j) = j
    <3>1. j \in Nat  BY <1>1
    <3> QED BY <3>1, IntervalSize
  <2>3. Rank(I, j) = j  BY <2>1, <2>2 DEF Rank
  <2> QED BY <1>1, <2>3, NthInjective
<1>5. Retain(q, K) = [j \in 1..Cardinality(I) |-> q[Nth(I, j)]]  BY <1>2 DEF Retain
<1> HIDE DEF n, I
<1> QED BY <1>1, <1>3, <1>4, <1>5

\* A queue of unwanted members vanishes.
LEMMA RetainNone ==
    ASSUME NEW B, NEW q \in Seq(B), NEW K, Range(q) \cap K = {}
    PROVE  Retain(q, K) = <<>>
<1> DEFINE r == Retain(q, K)
<1>1. r \in Seq(B) /\ Range(r) = {}  BY RetainLaws
<1>2. Len(r) \in Nat /\ DOMAIN r = 1..Len(r)  BY <1>1, LenProperties
<1> HIDE DEF r
<1>3. 1..Len(r) = {}  BY <1>1, <1>2 DEF Range
<1>4. Len(r) = 0
  <2>1. 1 \notin 1..Len(r)  BY <1>3
  <2> QED BY <1>2, <2>1
<1>5. r = <<>>  BY <1>1, <1>4, EmptySeq
<1> QED BY <1>5 DEF r

\* What is kept of a concatenation.
LEMMA RetainConcat ==
    ASSUME NEW B, NEW p \in Seq(B), NEW q \in Seq(B), NEW K
    PROVE  Retain(p \o q, K) = Retain(p, K) \o Retain(q, K)
<1> DEFINE m == Len(p)
           n == Len(q)
           r == p \o q
           I == Positions(p, K)
           J == Positions(q, K)
           M == Joined(m, I, J)
           a == Cardinality(I)
           b == Cardinality(J)
           x == Retain(p, K)
           y == Retain(q, K)
           z == Retain(r, K)
<1>1. /\ m \in Nat /\ DOMAIN p = 1..m /\ n \in Nat /\ DOMAIN q = 1..n
      /\ r \in Seq(B) /\ Len(r) = m + n /\ DOMAIN r = 1..(m + n)
      /\ \A i \in 1..(m + n) : r[i] = IF i <= m THEN p[i] ELSE q[i - m]
  BY LenProperties, ConcatProperties
<1>2. I \in SUBSET (1..m) /\ J \in SUBSET (1..n)  BY <1>1 DEF Positions
<1>3. a \in Nat /\ b \in Nat  BY <1>1, <1>2, RankType
<1>4. /\ M \in SUBSET (1..(m + n)) /\ Cardinality(M) = a + b
      /\ \A i \in I : Rank(M, i) = Rank(I, i)
      /\ \A j \in J : Rank(M, m + j) = a + Rank(J, j)
  <2> HIDE DEF m, n, I, J
  <2> QED BY <1>1, <1>2, RankOfConcat
<1>5. Positions(r, K) = M
  <2> HIDE DEF m, n, r
  <2>1. ASSUME NEW i \in 1..(m + n)
        PROVE  r[i] \in K <=> i \in M
    <3>1. CASE i <= m
      <4>1. i \in 1..m /\ r[i] = p[i]  BY <1>1, <3>1
      <4>2. \A j \in J : m + j # i  BY <1>1, <1>2, <3>1
      <4> QED BY <1>1, <4>1, <4>2 DEF Positions, M, Joined
    <3>2. CASE ~(i <= m)
      <4>1. i - m \in 1..n /\ r[i] = q[i - m] /\ m + (i - m) = i  BY <1>1, <3>2
      <4>2. i \notin I  BY <1>1, <1>2, <3>2
      <4>3. \A j \in J : m + j = i => j = i - m  BY <1>1, <1>2
      <4> QED BY <1>1, <4>1, <4>2, <4>3 DEF Positions, M, Joined
    <3> QED BY <3>1, <3>2
  <2> HIDE DEF M
  <2> QED BY <1>1, <1>4, <2>1 DEF Positions
<1>6. /\ x = [j \in 1..a |-> p[Nth(I, j)]]
      /\ y = [j \in 1..b |-> q[Nth(J, j)]]
      /\ z = [j \in 1..(a + b) |-> r[Nth(M, j)]]
  <2>1. x = [j \in 1..a |-> p[Nth(I, j)]] /\ y = [j \in 1..b |-> q[Nth(J, j)]]  BY DEF Retain
  <2> HIDE DEF M, r
  <2>2. z = [j \in 1..(a + b) |-> r[Nth(M, j)]]  BY <1>4, <1>5 DEF Retain
  <2> QED BY <2>1, <2>2
<1>7. x \in Seq(B) /\ y \in Seq(B) /\ z \in Seq(B)  BY <1>1, RetainLaws
<1> HIDE DEF m, n, r, I, J, M, a, b, x, y, z
<1>8. Len(x) = a /\ Len(y) = b /\ Len(z) = a + b
  <2>1. DOMAIN x = 1..a /\ DOMAIN y = 1..b /\ DOMAIN z = 1..(a + b)  BY <1>6
  <2>2. /\ DOMAIN x = 1..Len(x) /\ DOMAIN y = 1..Len(y) /\ DOMAIN z = 1..Len(z)
        /\ Len(x) \in Nat /\ Len(y) \in Nat /\ Len(z) \in Nat
    BY <1>7, LenProperties
  <2> QED BY <1>3, <2>1, <2>2
<1>9. /\ x \o y \in Seq(B) /\ Len(x \o y) = a + b
      /\ \A i \in 1..(a + b) : (x \o y)[i] = IF i <= a THEN x[i] ELSE y[i - a]
  BY <1>7, <1>8, ConcatProperties
<1>10. ASSUME NEW i \in 1..(a + b)
       PROVE  z[i] = (x \o y)[i]
  <2>1. CASE i <= a
    <3>1. i \in 1..a  BY <1>3, <2>1
    <3>2. Nth(I, i) \in I /\ Rank(I, Nth(I, i)) = i  BY <1>1, <1>2, <3>1, NthType DEF a
    <3>3. Nth(I, i) \in M /\ Rank(M, Nth(I, i)) = i  BY <1>4, <3>2 DEF M, Joined
    <3>4. Nth(M, i) = Nth(I, i)
      <4>1. m + n \in Nat  BY <1>1
      <4>2. Nth(M, Rank(M, Nth(I, i))) = Nth(I, i)  BY <1>4, <3>3, <4>1, NthInjective
      <4> QED BY <3>3, <4>2
    <3>5. Nth(I, i) \in 1..m  BY <1>2, <3>2
    <3>6. Nth(I, i) \in 1..(m + n) /\ Nth(I, i) <= m  BY <1>1, <3>5
    <3> QED BY <1>1, <1>6, <1>9, <2>1, <3>1, <3>4, <3>6
  <2>2. CASE ~(i <= a)
    <3> DEFINE k == i - a
    <3>1. k \in 1..b /\ a + k = i  BY <1>3, <2>2
    <3> HIDE DEF k
    <3>2. Nth(J, k) \in J /\ Rank(J, Nth(J, k)) = k  BY <1>1, <1>2, <3>1, NthType DEF b
    <3>3. m + Nth(J, k) \in M /\ Rank(M, m + Nth(J, k)) = i
      <4>1. m + Nth(J, k) \in M  BY <3>2 DEF M, Joined
      <4>2. Rank(M, m + Nth(J, k)) = a + k  BY <1>4, <3>2
      <4> QED BY <3>1, <4>1, <4>2
    <3>4. Nth(M, i) = m + Nth(J, k)
      <4>1. m + n \in Nat  BY <1>1
      <4>2. Nth(M, Rank(M, m + Nth(J, k))) = m + Nth(J, k)  BY <1>4, <3>3, <4>1, NthInjective
      <4> QED BY <3>3, <4>2
    <3>5. Nth(J, k) \in 1..n  BY <1>2, <3>2
    <3>6. /\ m + Nth(J, k) \in 1..(m + n) /\ ~(m + Nth(J, k) <= m)
          /\ (m + Nth(J, k)) - m = Nth(J, k)
      BY <1>1, <3>5
    <3>7. r[m + Nth(J, k)] = q[Nth(J, k)]  BY <1>1, <3>6
    <3> QED BY <1>6, <1>9, <2>2, <3>1, <3>4, <3>7 DEF k
  <2> QED BY <2>1, <2>2
<1>11. z = x \o y
  <2>1. \A i \in 1..Len(z) : z[i] = (x \o y)[i]  BY <1>8, <1>10
  <2>2. Len(z) = Len(x \o y)  BY <1>8, <1>9
  <2> QED BY <1>7, <1>9, <2>1, <2>2, SeqEqual
<1> QED BY <1>11 DEF x, y, z, r

\* Members outside of the queue do not matter.
LEMMA RetainOnly ==
    ASSUME NEW q, NEW K, NEW L, Range(q) \cap K = Range(q) \cap L
    PROVE  Retain(q, K) = Retain(q, L)
<1>1. Positions(q, K) = Positions(q, L)  BY DEF Positions, Range
<1> QED BY <1>1 DEF Retain

\* Taking the last member away.
LEMMA WithoutLast ==
    ASSUME NEW B, NEW q \in Seq(B), IsInjective(q), q # <<>>
    PROVE  LET n == Len(q)
               r == Without(q, {q[n]})
           IN  /\ n \in Nat \ {0} /\ q[n] \in Range(q) /\ q[n] \in B /\ Last(q) = q[n]
               /\ r \in Seq(B) /\ Len(r) = n - 1 /\ \A i \in 1..(n - 1) : r[i] = q[i]
               /\ q = r \o <<q[n]>>
<1> DEFINE n == Len(q)
           p == SubSeq(q, 1, n - 1)
           K == Range(q) \ {q[n]}
<1>1. n \in Nat \ {0} /\ DOMAIN q = 1..n  BY EmptySeq, LenProperties
<1>2. q[n] \in Range(q) /\ q[n] \in B /\ Last(q) = q[n]
  <2>1. n \in 1..n  BY <1>1
  <2> QED BY <1>1, <2>1, ElementOfSeq DEF Range, Last
<1>3. n - 1 \in 0..(Len(q) - 1) /\ (n - 1) + 1 = n /\ n - 1 \in 0..Len(q)
  BY <1>1
<1>4. p \in Seq(B) /\ Len(p) = n - 1  BY <1>3, CutLaws
<1>5. q[n] \notin Range(p)  BY <1>3, TakeOneMore
<1>6. Range(p) \subseteq K  BY <1>3, <1>5, CutLaws
<1>7. \A i \in 1..(n - 1) : p[i] = q[i]
  <2>1. \A i \in 1..(n - 1) : i \in 1..n /\ q[i] \in B  BY <1>1, ElementOfSeq
  <2>2. ((n - 1) - 1) + 1 = n - 1 /\ \A i \in 1..(n - 1) : (1 + i) - 1 = i  BY <1>1
  <2>3. n - 1 \in Int  BY <1>1
  <2> QED BY <2>1, <2>2, <2>3, SubSeqProperties
<1>8. q = p \o <<q[n]>>
  <2>1. n \in 1..Len(q) /\ 1 \in 1..Len(q) /\ n \in 1..n  BY <1>1
  <2>2. SubSeq(q, 1, n) = SubSeq(q, 1, n - 1) \o <<q[n]>>  BY <2>1, SubSeqRecursiveSecond
  <2>3. SubSeq(q, 1, n) = q  BY SubSeqFull
  <2> QED BY <2>2, <2>3
<1>9. <<q[n]>> \in Seq(B) /\ Range(<<q[n]>>) = {q[n]}  BY <1>2 DEF Range
<1>10. Without(q, {q[n]}) = p
  <2>1. Retain(p \o <<q[n]>>, K) = Retain(p, K) \o Retain(<<q[n]>>, K)
    <3> DEFINE v == <<q[n]>>
    <3>1. v \in Seq(B)  BY <1>9
    <3> HIDE DEF p, v, K
    <3>2. Retain(p \o v, K) = Retain(p, K) \o Retain(v, K)  BY <1>4, <3>1, RetainConcat
    <3> QED BY <3>2 DEF v
  <2>2. Retain(p, K) = p  BY <1>4, <1>6, RetainWhole
  <2>3. Retain(<<q[n]>>, K) = <<>>
    <3>1. Range(<<q[n]>>) \cap K = {}  BY <1>9
    <3> QED BY <1>9, <3>1, RetainNone
  <2>4. p \o <<>> = p  BY <1>4, ConcatEmptySeq
  <2> HIDE DEF p, n
  <2> QED BY <1>8, <2>1, <2>2, <2>3, <2>4 DEF Without
<1> QED BY <1>1, <1>2, <1>4, <1>7, <1>8, <1>10

-----------------------------------------------------------------------------
(* Arithmetic of block numbers.                                              *)

\* Division with remainder.
LEMMA DivBounds ==
    ASSUME NEW x \in Nat
    PROVE  /\ x \div BlockSize \in Nat
           /\ (x \div BlockSize) * BlockSize <= x
           /\ x < (x \div BlockSize + 1) * BlockSize
BY PoolAssumption

\* Multiples of the block size are ordered as their factors.
LEMMA MultiplesOrdered ==
    ASSUME NEW i \in Int, NEW j \in Int
    PROVE  /\ i * BlockSize \in Int
           /\ i < j => (i + 1) * BlockSize <= j * BlockSize /\ i * BlockSize < j * BlockSize
           /\ (i + 1) * BlockSize = i * BlockSize + BlockSize
           /\ i * BlockSize < j * BlockSize => i < j
BY PoolAssumption

\* The number of blocks for x tokens is the least that holds them.
LEMMA CeilBounds ==
    ASSUME NEW x \in Nat
    PROVE  /\ NumBlocksForTokens(x) \in Nat
           /\ x <= NumBlocksForTokens(x) * BlockSize
           /\ NumBlocksForTokens(x) * BlockSize < x + BlockSize
<1>1. x + BlockSize - 1 \in Nat  BY PoolAssumption
<1> QED BY <1>1, DivBounds, MultiplesOrdered, PoolAssumption DEF NumBlocksForTokens

\* More tokens never need fewer blocks.
LEMMA CeilOrder ==
    ASSUME NEW x \in Nat, NEW y \in Nat, x <= y
    PROVE  NumBlocksForTokens(x) <= NumBlocksForTokens(y)
<1> DEFINE a == NumBlocksForTokens(x)
           b == NumBlocksForTokens(y)
<1>1. a \in Nat /\ b \in Nat /\ a * BlockSize < x + BlockSize /\ y <= b * BlockSize
  BY CeilBounds
<1> HIDE DEF a, b
<1>2. b < a => (b + 1) * BlockSize <= a * BlockSize  BY <1>1, MultiplesOrdered
<1>3. (b + 1) * BlockSize = b * BlockSize + BlockSize  BY <1>1, MultiplesOrdered
<1>4. a * BlockSize \in Int /\ b * BlockSize \in Int  BY <1>1, MultiplesOrdered
<1>5. ~(b < a)  BY <1>1, <1>2, <1>3, <1>4, PoolAssumption
<1> QED BY <1>1, <1>5 DEF a, b

\* k full blocks hold k * BlockSize tokens.
LEMMA CeilOfMultiple ==
    ASSUME NEW k \in Nat
    PROVE  /\ k * BlockSize \in Nat
           /\ NumBlocksForTokens(k * BlockSize) = k
           /\ (k * BlockSize) \div BlockSize = k
           /\ (k * BlockSize) % BlockSize = 0
<1> DEFINE x == k * BlockSize
           a == NumBlocksForTokens(x)
           d == x \div BlockSize
<1>1. x \in Nat  BY PoolAssumption
<1>2. a \in Nat /\ a * BlockSize < x + BlockSize /\ x <= a * BlockSize
  BY <1>1, CeilBounds
<1>3. d \in Nat /\ d * BlockSize <= x /\ x < (d + 1) * BlockSize
  BY <1>1, DivBounds
<1>4. x % BlockSize = 0  BY <1>1, PoolAssumption
<1> HIDE DEF a, d
<1>5. (k + 1) * BlockSize = x + BlockSize  BY MultiplesOrdered
<1>6. a < k + 1 /\ d < k + 1 /\ k < d + 1
  BY <1>2, <1>3, <1>5, MultiplesOrdered
<1>7. ~(a < k)  BY <1>1, <1>2, MultiplesOrdered
<1> QED BY <1>1, <1>2, <1>3, <1>4, <1>6, <1>7 DEF a, d

\* Block i (from 1) ends at or before token x exactly when it is one of the
\* x \div BlockSize full ones.
LEMMA FullBlocks ==
    ASSUME NEW x \in Nat, NEW i \in Nat
    PROVE  i <= x \div BlockSize <=> i * BlockSize <= x
<1> DEFINE d == x \div BlockSize
<1>1. d \in Nat /\ d * BlockSize <= x /\ x < (d + 1) * BlockSize
  BY DivBounds
<1> HIDE DEF d
<1>2. i * BlockSize \in Int /\ d * BlockSize \in Int /\ (d + 1) * BlockSize \in Int
  BY <1>1, MultiplesOrdered
<1>3. i < d => i * BlockSize < d * BlockSize  BY <1>1, MultiplesOrdered
<1>4. d + 1 < i => (d + 1) * BlockSize < i * BlockSize  BY <1>1, MultiplesOrdered
<1> QED BY <1>1, <1>2, <1>3, <1>4 DEF d

\* A partly filled block follows the full ones.
LEMMA CeilAgainstFloor ==
    ASSUME NEW x \in Nat
    PROVE  /\ x \div BlockSize <= NumBlocksForTokens(x)
           /\ NumBlocksForTokens(x) <= x \div BlockSize + 1
           /\ x % BlockSize = 0 => NumBlocksForTokens(x) = x \div BlockSize
<1> DEFINE a == NumBlocksForTokens(x)
           d == x \div BlockSize
<1>1. d \in Nat /\ d * BlockSize <= x /\ x < (d + 1) * BlockSize
  BY DivBounds
<1>2. a \in Nat /\ a * BlockSize < x + BlockSize /\ x <= a * BlockSize
  BY CeilBounds
<1>3. x % BlockSize = 0 => x = d * BlockSize  BY PoolAssumption
<1>4. NumBlocksForTokens(d * BlockSize) = d  BY <1>1, CeilOfMultiple
<1> HIDE DEF a, d
<1>5. d < a + 1
  <2>1. d * BlockSize < (a + 1) * BlockSize
    BY <1>1, <1>2, MultiplesOrdered, PoolAssumption
  <2> QED BY <1>1, <1>2, <2>1, MultiplesOrdered
<1>6. a < d + 2
  <2>1. (d + 2) * BlockSize = (d + 1) * BlockSize + BlockSize
    BY <1>1, PoolAssumption
  <2>2. a * BlockSize < (d + 2) * BlockSize
    BY <1>1, <1>2, <2>1, MultiplesOrdered, PoolAssumption
  <2> QED BY <1>1, <1>2, <2>2, MultiplesOrdered
<1> QED BY <1>1, <1>2, <1>3, <1>4, <1>5, <1>6 DEF a, d

-----------------------------------------------------------------------------
(* Prefixes of token strings.                                                *)

\* A prefix of length m has length m and the string's own elements.
LEMMA PrefixLaws ==
    ASSUME NEW B, NEW q \in Seq(B), NEW m \in 0..Len(q)
    PROVE  /\ SubSeq(q, 1, m) \in Seq(B) /\ Len(SubSeq(q, 1, m)) = m
           /\ \A i \in 1..m : SubSeq(q, 1, m)[i] = q[i]
<1>1. Len(q) \in Nat /\ m \in Nat /\ m <= Len(q)  BY LenProperties
<1>2. \A i \in 1..m : i \in 1..Len(q)  BY <1>1
<1>3. \A i \in 1..m : q[i] \in B  BY <1>2, ElementOfSeq
<1>4. /\ SubSeq(q, 1, m) \in Seq(B)
      /\ Len(SubSeq(q, 1, m)) = IF 1 <= m THEN (m - 1) + 1 ELSE 0
      /\ \A i \in 1..((m - 1) + 1) : SubSeq(q, 1, m)[i] = q[(1 + i) - 1]
  BY <1>1, <1>3, SubSeqProperties
<1>5. (m - 1) + 1 = m /\ \A i \in 1..m : (1 + i) - 1 = i  BY <1>1
<1> QED BY <1>1, <1>4, <1>5

\* Strings that agree up to m have the same prefix of length m.
LEMMA PrefixEqual ==
    ASSUME NEW B, NEW q \in Seq(B), NEW r \in Seq(B),
           NEW m \in 0..Len(q), m <= Len(r), \A i \in 1..m : q[i] = r[i]
    PROVE  SubSeq(q, 1, m) = SubSeq(r, 1, m)
<1> DEFINE a == SubSeq(q, 1, m)
           b == SubSeq(r, 1, m)
<1>1. m \in 0..Len(r)
  <2>1. Len(q) \in Nat /\ Len(r) \in Nat  BY LenProperties
  <2> QED BY <2>1
<1>2. a \in Seq(B) /\ Len(a) = m /\ \A i \in 1..m : a[i] = q[i]  BY PrefixLaws
<1>3. b \in Seq(B) /\ Len(b) = m /\ \A i \in 1..m : b[i] = r[i]  BY <1>1, PrefixLaws
<1> HIDE DEF a, b
<1>4. a = b  BY <1>2, <1>3, SeqEqual
<1> QED BY <1>4 DEF a, b

-----------------------------------------------------------------------------
(* Reference counts.                                                         *)

\* A block table is a sequence of blocks.
LEMMA TableFacts ==
    ASSUME TypeOK, NEW s \in Seqs
    PROVE  /\ table[s] \in Seq(Blocks)
           /\ Len(table[s]) \in Nat
           /\ DOMAIN table[s] = 1..Len(table[s])
           /\ \A i \in DOMAIN table[s] : table[s][i] \in Blocks /\ table[s][i] \in Range(table[s])
           /\ Range(table[s]) \subseteq Blocks
<1>1. table[s] \in Seq(Blocks)  BY DEF TypeOK
<1>2. Len(table[s]) \in Nat /\ DOMAIN table[s] = 1..Len(table[s])  BY <1>1, LenProperties
<1>3. \A i \in DOMAIN table[s] : table[s][i] \in Blocks  BY <1>1, <1>2, ElementOfSeq
<1> QED BY <1>1, <1>2, <1>3 DEF Range

\* The holders of a block can be counted.
LEMMA HoldersFinite ==
    ASSUME NEW b
    PROVE  IsFiniteSet(Holders(b)) /\ Cardinality(Holders(b)) \in Nat
<1>1. Holders(b) \in SUBSET Seqs  BY DEF Holders
<1> QED BY <1>1, SeqsAssumption, FS_Subset, FS_CardinalityType

\* An unreferenced block is in no table; a block with one reference that is in
\* the table of s is in no other.
LEMMA HolderCounts ==
    ASSUME RefCountExact, NEW b \in Blocks
    PROVE  /\ \A s \in Seqs : b \in Range(table[s]) => ref[b] > 0
           /\ \A s, t \in Seqs :
                 b \in Range(table[s]) /\ b \in Range(table[t]) /\ ref[b] <= 1 => s = t
<1> DEFINE H == Holders(b)
<1>1. IsFiniteSet(H) /\ Cardinality(H) \in Nat /\ ref[b] = Cardinality(H)
  BY HoldersFinite DEF RefCountExact
<1>2. ASSUME NEW s \in Seqs, b \in Range(table[s])
      PROVE  ref[b] > 0
  <2>1. s \in H  BY <1>2 DEF Holders
  <2>2. Cardinality(H) # 0  BY <1>1, <2>1, FS_EmptySet
  <2> QED BY <1>1, <2>2
<1>3. ASSUME NEW s \in Seqs, NEW t \in Seqs,
             b \in Range(table[s]), b \in Range(table[t]), ref[b] <= 1
      PROVE  s = t
  <2>1. s \in H /\ t \in H  BY <1>3 DEF Holders
  <2>2. Cardinality(H) = 1
    <3>1. ref[b] > 0  BY <1>2, <1>3
    <3> QED BY <1>1, <1>3, <3>1
  <2>3. \E x : H = {x}  BY <1>1, <2>2, FS_Singleton
  <2> QED BY <2>1, <2>3
<1> QED BY <1>2, <1>3

\* When one table changes and every count follows the blocks that come and go,
\* the counts stay exact.
LEMMA RefCountStep ==
    ASSUME RefCountExact, NEW s \in Seqs, NEW T,
           table \in [Seqs -> Seq(Blocks)],
           table' = [table EXCEPT ![s] = T],
           \A b \in Blocks :
              ref'[b] = IF b \in Range(T)
                        THEN IF b \in Range(table[s]) THEN ref[b] ELSE ref[b] + 1
                        ELSE IF b \in Range(table[s]) THEN ref[b] - 1 ELSE ref[b]
    PROVE  RefCountExact'
<1> SUFFICES ASSUME NEW b \in Blocks
             PROVE  ref'[b] = Cardinality(Holders(b)')
  BY DEF RefCountExact
<1> DEFINE H == Holders(b)
           G == Holders(b)'
<1>1. IsFiniteSet(H) /\ Cardinality(H) \in Nat /\ ref[b] = Cardinality(H)
  BY HoldersFinite DEF RefCountExact
<1>2. H = {t \in Seqs : b \in Range(table[t])}  BY DEF Holders
<1>3. G = {t \in Seqs : b \in Range(table'[t])}  BY DEF Holders
<1>4. table'[s] = T /\ \A t \in Seqs \ {s} : table'[t] = table[t]  OBVIOUS
<1> HIDE DEF G, H
<1>5. s \in H <=> b \in Range(table[s])  BY <1>2
<1>6. CASE b \in Range(T) /\ b \in Range(table[s])
  <2>1. G = H  BY <1>2, <1>3, <1>4, <1>6
  <2> QED BY <1>1, <1>6, <2>1 DEF G
<1>7. CASE b \in Range(T) /\ b \notin Range(table[s])
  <2>1. G = H \cup {s}  BY <1>2, <1>3, <1>4, <1>7
  <2>2. Cardinality(H \cup {s}) = Cardinality(H) + 1  BY <1>1, <1>5, <1>7, FS_AddElement
  <2> QED BY <1>1, <1>7, <2>1, <2>2 DEF G
<1>8. CASE b \notin Range(T) /\ b \in Range(table[s])
  <2>1. G = H \ {s}  BY <1>2, <1>3, <1>4, <1>8
  <2>2. Cardinality(H \ {s}) = Cardinality(H) - 1  BY <1>1, <1>5, <1>8, FS_RemoveElement
  <2> QED BY <1>1, <1>8, <2>1, <2>2 DEF G
<1>9. CASE b \notin Range(T) /\ b \notin Range(table[s])
  <2>1. G = H  BY <1>2, <1>3, <1>4, <1>9
  <2> QED BY <1>1, <1>9, <2>1 DEF G
<1> QED BY <1>6, <1>7, <1>8, <1>9

-----------------------------------------------------------------------------
(* What allocate_slots does, without the order of the queue: the blocks P    *)
(* are given out, the hits touched, the blocks in C (none, or the shared one  *)
(* that is copied) released, and T is the new table.                         *)
AllocationResult(s, n, hits, P, C, T) ==
    /\ \A b \in P : ref[b] = 0 /\ b \in Range(free) /\ b \notin Range(hits)
    /\ C = IF NeedsCopy(s, n, hits) THEN {table[s][WriteIndex(s, hits)]} ELSE {}
    /\ NeedsCopy(s, n, hits) => hits = <<>>
    /\ \A b \in C : b \in Range(table[s]) /\ ref[b] > 1
    /\ IsInjective(T)
    /\ Len(T) = Len(table[s]) + Len(hits) + NumBlocksNeeded(s, n, hits)
    /\ Range(T) = ((Range(table[s]) \cup Range(hits)) \ C) \cup P
    /\ \A i \in DOMAIN T : T[i] \in P \/ /\ i \in DOMAIN (table[s] \o hits)
                                         /\ T[i] = (table[s] \o hits)[i]
    /\ \A i \in DOMAIN (table[s] \o hits) :
          /\ i \in DOMAIN T
          /\ ~(NeedsCopy(s, n, hits) /\ i = WriteIndex(s, hits)) => T[i] = (table[s] \o hits)[i]
    /\ IF NeedsCopy(s, n, hits)
       THEN /\ WriteIndex(s, hits) \in DOMAIN table[s]
            /\ T[WriteIndex(s, hits)] \in P
            /\ cow' = Append(cow, <<table[s][WriteIndex(s, hits)], T[WriteIndex(s, hits)]>>)
       ELSE cow' = cow
    /\ table' = [table EXCEPT ![s] = T]
    /\ ref' = RefAfterAllocation(P, Range(hits), C)
    /\ free' \in Seq(Blocks) /\ IsInjective(free')
    /\ Range(free') = (Range(free) \ Range(hits)) \ P
    /\ cow' \in Seq(Blocks \X Blocks)
    /\ Evict(P)

\* allocate_slots asks for a number of blocks.
LEMMA NeededType ==
    ASSUME TypeOK, NEW s \in Seqs, NEW n \in Nat, NEW hits \in Seq(Blocks)
    PROVE  NumBlocksNeeded(s, n, hits) \in Nat
<1>1. computed[s] \in Nat /\ Len(table[s]) \in Nat  BY TableFacts DEF TypeOK
<1>2. Len(hits) \in Nat  BY LenProperties
<1>3. Len(hits) * BlockSize \in Nat  BY <1>2, CeilOfMultiple
<1>4. NumBlocksForTokens(computed[s] + Len(hits) * BlockSize + n) \in Nat
  <2>1. computed[s] + Len(hits) * BlockSize + n \in Nat  BY <1>1, <1>3
  <2> QED BY <2>1, CeilBounds
<1> QED BY <1>1, <1>2, <1>4 DEF NumBlocksNeeded

\* A successful allocate_slots has such a result.
LEMMA AllocationEffect ==
    ASSUME TypeOK, FreeIffUnreferenced, TableInjective, RefCountExact,
           NEW s \in Seqs, NEW n \in Nat, NEW hits \in Seq(Blocks), IsInjective(hits),
           hits = <<>> \/ (table[s] = <<>> /\ computed[s] = 0),
           AllocateSlots(s, n, hits)
    PROVE  \E P \in SUBSET Blocks, C \in SUBSET Blocks, T \in Seq(Blocks) :
              AllocationResult(s, n, hits, P, C, T)
<1> DEFINE queue == AvailableQueue(hits)
           need  == NumBlocksNeeded(s, n, hits)
           w     == WriteIndex(s, hits)
           held  == table[s] \o hits
           new   == SubSeq(queue, 1, need)
           copy  == NeedsCopy(s, n, hits)
           taken == IF copy THEN need + 1 ELSE need
           P     == Range(SubSeq(queue, 1, taken))
           fresh == queue[need + 1]
           kept  == IF copy THEN [held EXCEPT ![w] = fresh] ELSE held
           C     == IF copy THEN {held[w]} ELSE {}
           T     == kept \o new
<1>1. /\ table[s] \in Seq(Blocks) /\ Len(table[s]) \in Nat /\ IsInjective(table[s])
      /\ Range(table[s]) \subseteq Blocks /\ computed[s] \in Nat /\ free \in Seq(Blocks)
      /\ ref \in [Blocks -> Nat] /\ cow \in Seq(Blocks \X Blocks)
  BY TableFacts DEF TypeOK, TableInjective
<1>2. /\ queue \in Seq(Blocks) /\ IsInjective(queue)
      /\ Range(queue) = Range(free) \ Range(hits)
  BY <1>1, WithoutLaws DEF AvailableQueue, FreeIffUnreferenced
<1>3. \A b \in Range(queue) : b \in Blocks /\ ref[b] = 0 /\ b \in Range(free) /\ b \notin Range(hits)
  BY <1>2 DEF FreeIffUnreferenced
<1>4. need \in Nat  BY NeededType
<1>5. taken \in 0..Len(queue)
  <2>1. taken <= Len(queue)  BY DEF AllocateSlots
  <2>2. Len(queue) \in Nat  BY <1>2, LenProperties
  <2> QED BY <1>4, <2>1, <2>2
<1>6. /\ free' = SubSeq(queue, taken + 1, Len(queue))
      /\ table' = [table EXCEPT ![s] = T]
      /\ ref' = RefAfterAllocation(P, Range(hits), C)
      /\ cow' = IF copy THEN Append(cow, <<held[w], fresh>>) ELSE cow
      /\ Evict(P)
  BY DEF AllocateSlots
<1>7. Range(<<>>) = {} /\ Len(<<>>) = 0 /\ table[s] \o <<>> = table[s] /\ <<>> \o hits = hits
  BY <1>1, ConcatEmptySeq DEF Range
<1>8. copy => hits = <<>>
  <2>1. SUFFICES ASSUME table[s] = <<>>, computed[s] = 0, copy
                 PROVE  FALSE
    OBVIOUS
  <2>2. Len(hits) \in Nat  BY LenProperties
  <2>3. FirstWrite(s, hits) = Len(hits) * BlockSize
    BY <2>1, <2>2, CeilOfMultiple DEF FirstWrite
  <2> QED BY <2>1, <2>2, <2>3, CeilOfMultiple DEF NeedsCopy
<1>9. held \in Seq(Blocks) /\ IsInjective(held) /\ Range(held) = Range(table[s]) \cup Range(hits)
      /\ Len(held) = Len(table[s]) + Len(hits)
  <2>1. CASE hits = <<>>  BY <1>1, <1>7, <2>1
  <2>2. CASE table[s] = <<>>
    <3>1. Len(hits) \in Nat  BY LenProperties
    <3> QED BY <1>7, <2>2, <3>1
  <2> QED BY <2>1, <2>2
<1>10. \A b \in Range(held) : b \in Blocks /\ b \notin Range(queue)
  <2>1. \A b \in Range(hits) : b \in Blocks
    <3>1. DOMAIN hits = 1..Len(hits)  BY LenProperties
    <3> QED BY <3>1, ElementOfSeq DEF Range
  <2>2. \A b \in Range(table[s]) : b \in Blocks /\ ref[b] > 0  BY <1>1, HolderCounts
  <2> QED BY <1>1, <1>3, <1>9, <2>1, <2>2
<1>11. copy => /\ w \in DOMAIN held /\ w \in DOMAIN table[s]
               /\ held[w] = table[s][w] /\ held[w] \in Range(table[s])
               /\ held[w] \in Blocks /\ ref[held[w]] > 1
  <2> SUFFICES ASSUME copy PROVE w \in DOMAIN held /\ ref[held[w]] > 1
    <3>1. copy => held = table[s]  BY <1>7, <1>8
    <3> QED BY <1>1, <3>1 DEF Range
  <2>1. held = table[s] /\ hits = <<>>  BY <1>7, <1>8
  <2>2. w <= Len(held) /\ ref[held[w]] + (IF held[w] \in Range(hits) THEN 1 ELSE 0) > 1
    BY DEF NeedsCopy
  <2>3. w \in Nat \ {0}
    <3>1. FirstWrite(s, hits) = computed[s]
      <4>1. 0 * BlockSize = 0 /\ computed[s] + 0 = computed[s]  BY <1>1, PoolAssumption
      <4> QED BY <1>7, <2>1, <4>1 DEF FirstWrite
    <3>2. computed[s] \div BlockSize \in Nat  BY <1>1, DivBounds
    <3> QED BY <3>1, <3>2 DEF WriteIndex
  <2>4. DOMAIN held = 1..Len(held) /\ Len(held) \in Nat  BY <1>9, LenProperties
  <2>5. w \in DOMAIN held  BY <2>2, <2>3, <2>4
  <2>6. held[w] \notin Range(hits)  BY <1>7, <2>1
  <2>7. held[w] \in Blocks  BY <1>1, <2>1, <2>5 DEF Range
  <2> HIDE DEF w, held, copy
  <2>8. ref[held[w]] \in Nat  BY <1>1, <2>7
  <2>9. ref[held[w]] > 1  BY <2>2, <2>6, <2>8
  <2> QED BY <2>5, <2>9
<1>12. /\ new \in Seq(Blocks) /\ IsInjective(new) /\ Len(new) = need
       /\ Range(new) \subseteq Range(queue) /\ Range(new) \subseteq P
       /\ P \subseteq Range(queue) /\ P \subseteq Blocks
       /\ copy => /\ fresh \in Range(queue) /\ fresh \notin Range(new)
                  /\ P = Range(new) \cup {fresh}
       /\ ~copy => P = Range(new)
  <2>1. need \in 0..Len(queue) /\ (copy => need \in 0..(Len(queue) - 1))
    <3>1. Len(queue) \in Nat  BY <1>2, LenProperties
    <3> QED BY <1>4, <1>5, <3>1
  <2>2. new \in Seq(Blocks) /\ IsInjective(new) /\ Len(new) = need /\ Range(new) \subseteq Range(queue)
    BY <1>2, <2>1, CutLaws
  <2>3. P \subseteq Range(queue)  BY <1>2, <1>5, CutLaws
  <2>4. copy => /\ fresh \in Range(queue) /\ fresh \notin Range(new)
                /\ P = Range(new) \cup {fresh}
    BY <1>2, <2>1, TakeOneMore
  <2>5. ~copy => P = Range(new)  OBVIOUS
  <2> QED BY <1>3, <2>2, <2>3, <2>4, <2>5
<1> HIDE DEF queue, need, w, held, new, copy, P, fresh, taken
<1>13. /\ kept \in Seq(Blocks) /\ IsInjective(kept) /\ Len(kept) = Len(held)
       /\ Range(kept) = (Range(held) \ C) \cup (IF copy THEN {fresh} ELSE {})
       /\ \A i \in DOMAIN kept : kept[i] \in P \/ (i \in DOMAIN held /\ kept[i] = held[i])
       /\ \A i \in DOMAIN held : kept[i] = IF copy /\ i = w THEN fresh ELSE held[i]
  <2>1. CASE copy
    <3>1. fresh \in Blocks /\ fresh \notin Range(held)  BY <1>3, <1>10, <1>12, <2>1
    <3> DEFINE r == [held EXCEPT ![w] = fresh]
    <3>2. /\ r \in Seq(Blocks) /\ Len(r) = Len(held) /\ IsInjective(r)
          /\ Range(r) = (Range(held) \ {held[w]}) \cup {fresh}
          /\ \A i \in DOMAIN held : r[i] = IF i = w THEN fresh ELSE held[i]
      BY <1>9, <1>11, <2>1, <3>1, ReplaceLaws
    <3>3. DOMAIN r = DOMAIN held  OBVIOUS
    <3>4. kept = r /\ C = {held[w]}  BY <2>1
    <3> HIDE DEF r, kept, C
    <3>5. fresh \in P  BY <1>12, <2>1
    <3> QED BY <2>1, <3>2, <3>3, <3>4, <3>5
  <2>2. CASE ~copy  BY <1>9, <2>2
  <2> QED BY <2>1, <2>2
<1> HIDE DEF kept
<1>14. Range(kept) \cap Range(new) = {}  BY <1>10, <1>12, <1>13
<1>15. /\ T \in Seq(Blocks) /\ IsInjective(T) /\ Range(T) = Range(kept) \cup Range(new)
       /\ Len(T) = Len(held) + need
       /\ \A i \in DOMAIN T : T[i] \in P \/ (i \in DOMAIN held /\ T[i] = held[i])
       /\ \A i \in DOMAIN held : i \in DOMAIN T /\ T[i] = kept[i]
  <2>1. T \in Seq(Blocks) /\ IsInjective(T) /\ Range(T) = Range(kept) \cup Range(new)
    BY <1>12, <1>13, <1>14, ConcatLaws
  <2> kept \in Seq(Blocks) /\ new \in Seq(Blocks)  BY <1>12, <1>13
  <2>2. /\ Len(T) = Len(kept) + Len(new)
        /\ \A i \in 1..(Len(kept) + Len(new)) :
              T[i] = IF i <= Len(kept) THEN kept[i] ELSE new[i - Len(kept)]
    BY ConcatProperties
  <2>3. /\ DOMAIN T = 1..Len(T) /\ Len(kept) \in Nat /\ DOMAIN kept = 1..Len(kept)
        /\ Len(new) \in Nat /\ DOMAIN new = 1..Len(new)
    BY <1>12, <1>13, <2>1, LenProperties
  <2> HIDE DEF T
  <2>4. ASSUME NEW i \in DOMAIN T
        PROVE  T[i] \in P \/ (i \in DOMAIN held /\ T[i] = held[i])
    <3>1. CASE i <= Len(kept)
      <4>1. i \in DOMAIN kept /\ T[i] = kept[i]  BY <2>2, <2>3, <3>1
      <4> QED BY <1>13, <4>1
    <3>2. CASE ~(i <= Len(kept))
      <4>1. i - Len(kept) \in DOMAIN new /\ T[i] = new[i - Len(kept)]  BY <2>2, <2>3, <3>2
      <4>2. T[i] \in Range(new)  BY <4>1 DEF Range
      <4> QED BY <1>12, <4>2
    <3> QED BY <3>1, <3>2
  <2>5. ASSUME NEW i \in DOMAIN held
        PROVE  i \in DOMAIN T /\ T[i] = kept[i]
    <3>1. DOMAIN held = 1..Len(kept)  BY <1>9, <1>13, LenProperties
    <3>2. i \in 1..(Len(kept) + Len(new)) /\ i <= Len(kept)  BY <2>3, <3>1
    <3> QED BY <2>2, <2>3, <3>2
  <2> QED BY <1>12, <1>13, <2>1, <2>2, <2>4, <2>5
<1> HIDE DEF T
<1>16. free' \in Seq(Blocks) /\ IsInjective(free') /\ Range(free') = (Range(free) \ Range(hits)) \ P
  BY <1>2, <1>5, <1>6, CutLaws DEF P
<1>17. cow' \in Seq(Blocks \X Blocks)
  <2>1. copy => <<held[w], fresh>> \in Blocks \X Blocks  BY <1>3, <1>11, <1>12
  <2> QED BY <1>1, <1>6, <2>1, AppendProperties
<1>18. C \in SUBSET Blocks  BY <1>11
<1>19. AllocationResult(s, n, hits, P, C, T)
  <2>1. \A b \in P : ref[b] = 0 /\ b \in Range(free) /\ b \notin Range(hits)
    BY <1>3, <1>12
  <2>2. C = IF NeedsCopy(s, n, hits) THEN {table[s][WriteIndex(s, hits)]} ELSE {}
    BY <1>11 DEF copy, w
  <2>3. NeedsCopy(s, n, hits) => hits = <<>>  BY <1>8 DEF copy
  <2>4. \A b \in C : b \in Range(table[s]) /\ ref[b] > 1  BY <1>11
  <2>5. Len(T) = Len(table[s]) + Len(hits) + NumBlocksNeeded(s, n, hits)
    BY <1>9, <1>15 DEF need
  <2>6. Range(T) = ((Range(table[s]) \cup Range(hits)) \ C) \cup P
    BY <1>9, <1>12, <1>13, <1>15
  <2>7. \A i \in DOMAIN T : T[i] \in P \/ /\ i \in DOMAIN (table[s] \o hits)
                                          /\ T[i] = (table[s] \o hits)[i]
    BY <1>15 DEF held
  <2>8. \A i \in DOMAIN (table[s] \o hits) :
           /\ i \in DOMAIN T
           /\ ~(NeedsCopy(s, n, hits) /\ i = WriteIndex(s, hits)) => T[i] = (table[s] \o hits)[i]
    BY <1>13, <1>15 DEF held, copy, w
  <2>9. CASE copy
    <3>1. w \in DOMAIN table[s] /\ held[w] = table[s][w]  BY <1>11, <2>9
    <3>2. T[w] = fresh /\ fresh \in P  BY <1>11, <1>12, <1>13, <1>15, <2>9
    <3>3. cow' = Append(cow, <<table[s][w], T[w]>>)  BY <1>6, <2>9, <3>1, <3>2
    <3> QED BY <1>6, <1>15, <1>16, <1>17, <2>1, <2>2, <2>3, <2>4, <2>5, <2>6, <2>7, <2>8, <2>9,
               <3>1, <3>2, <3>3
            DEF AllocationResult, copy, w
  <2>10. CASE ~copy
    <3>1. cow' = cow  BY <1>6, <2>10
    <3> QED BY <1>6, <1>15, <1>16, <1>17, <2>1, <2>2, <2>3, <2>4, <2>5, <2>6, <2>7, <2>8, <2>10, <3>1
            DEF AllocationResult, copy
  <2> QED BY <2>9, <2>10
<1> HIDE DEF C
<1> QED BY <1>12, <1>15, <1>18, <1>19

-----------------------------------------------------------------------------
(* Allocation preserves the invariant.                                       *)

\* Giving the blocks in P out again takes their entries out of the cache and
\* leaves it consistent.
LEMMA EvictKeepsCache ==
    ASSUME TypeOK, CacheConsistent, NothingCached, NEW P \in SUBSET Blocks, Evict(P)
    PROVE  /\ hash' \in [Blocks -> Seq(Tokens)]
           /\ \A b \in Blocks : hash'[b] = IF b \in P THEN NoHash ELSE hash[b]
           /\ DOMAIN cached' \subseteq Seq(Tokens) \ {NoHash}
           /\ \A h \in DOMAIN cached' : cached'[h] \in Blocks
           /\ CacheConsistent' /\ NothingCached'
<1>1. /\ hash' = [b \in Blocks |-> IF b \in P THEN NoHash ELSE hash[b]]
      /\ cached' = [h \in DOMAIN cached \ Evicted(P) |-> cached[h]]
  BY DEF Evict
<1>2. NoHash \in Seq(Tokens)  BY EmptySeq DEF NoHash
<1>3. hash' \in [Blocks -> Seq(Tokens)]  BY <1>1, <1>2 DEF TypeOK
<1>4. /\ DOMAIN cached' = {h \in DOMAIN cached : cached[h] \notin P}
      /\ \A h \in DOMAIN cached' : h \in DOMAIN cached /\ cached'[h] = cached[h]
  BY <1>1 DEF Evicted, CacheConsistent
<1>5. \A h \in DOMAIN cached' : cached'[h] \in Blocks  BY <1>4 DEF TypeOK
<1>6. DOMAIN cached' \subseteq Seq(Tokens) \ {NoHash}  BY <1>4 DEF TypeOK
<1>7. CacheConsistent'
  <2>1. ASSUME NEW h \in DOMAIN cached'
        PROVE  hash'[cached'[h]] = h
    <3>1. h \in DOMAIN cached /\ cached[h] \notin P /\ cached[h] \in Blocks
      BY <1>4 DEF TypeOK
    <3>2. hash[cached[h]] = h  BY <3>1 DEF CacheConsistent
    <3> QED BY <1>1, <1>4, <3>1, <3>2
  <2>2. ASSUME NEW b \in Blocks, hash'[b] # NoHash
        PROVE  hash'[b] \in DOMAIN cached' /\ cached'[hash'[b]] = b
    <3>1. b \notin P /\ hash'[b] = hash[b]  BY <1>1, <2>2
    <3>2. hash[b] \in DOMAIN cached /\ cached[hash[b]] = b
      BY <2>2, <3>1 DEF CacheConsistent
    <3> QED BY <1>4, <3>1, <3>2
  <2> QED BY <2>1, <2>2 DEF CacheConsistent
<1>8. NothingCached'  BY <1>4 DEF NothingCached
<1> QED BY <1>1, <1>3, <1>5, <1>6, <1>7, <1>8

\* A block beyond the watermark of its holder has no hash.
LEMMA UnfilledUnhashed ==
    ASSUME TypeOK, HashMatchesHolder, NEW s \in Seqs, NEW i \in DOMAIN table[s],
           i > computed[s] \div BlockSize
    PROVE  hash[table[s][i]] = NoHash
<1>1. i \in Nat /\ computed[s] \in Nat /\ computed[s] \div BlockSize \in Nat
  <2>1. computed[s] \in Nat  BY DEF TypeOK
  <2>2. i \in 1..Len(table[s]) /\ Len(table[s]) \in Nat  BY TableFacts
  <2>3. computed[s] \div BlockSize \in Nat  BY <2>1, DivBounds
  <2>4. i \in Nat  BY <2>2
  <2> QED BY <2>1, <2>3, <2>4
<1>2. ~(i * BlockSize <= computed[s])  BY <1>1, FullBlocks
<1> QED BY <1>2 DEF HashMatchesHolder

\* The books after an allocation: free queue, counts, tables and cache.
LEMMA AllocationKeepsBooks ==
    ASSUME IndInv, NEW s \in Seqs, NEW n \in Nat, NEW hits \in Seq(Blocks),
           hits = <<>> \/ table[s] = <<>>,
           NEW P \in SUBSET Blocks, NEW C \in SUBSET Blocks, NEW T \in Seq(Blocks),
           AllocationResult(s, n, hits, P, C, T)
    PROVE  /\ ref' \in [Blocks -> Nat] /\ table' \in [Seqs -> Seq(Blocks)]
           /\ FreeIffUnreferenced' /\ RefCountExact' /\ TableInjective'
<1>1. /\ ref \in [Blocks -> Nat] /\ table \in [Seqs -> Seq(Blocks)]
      /\ table' = [table EXCEPT ![s] = T]
      /\ \A b \in Blocks :
            ref'[b] = IF b \in P THEN 1
                      ELSE ref[b] + (IF b \in Range(hits) THEN 1 ELSE 0) - (IF b \in C THEN 1 ELSE 0)
      /\ ref' = [b \in Blocks |-> ref'[b]]
  BY DEF IndInv, TypeOK, AllocationResult, RefAfterAllocation
<1>2. /\ \A b \in P : ref[b] = 0 /\ b \notin Range(hits)
      /\ \A b \in C : b \in Range(table[s]) /\ ref[b] > 1 /\ b \notin Range(hits)
      /\ Range(T) = ((Range(table[s]) \cup Range(hits)) \ C) \cup P
      /\ free' \in Seq(Blocks) /\ IsInjective(free') /\ IsInjective(T)
      /\ Range(free') = (Range(free) \ Range(hits)) \ P
  <2>1. Range(<<>>) = {}  BY DEF Range
  <2> QED BY <2>1 DEF AllocationResult
<1>3. \A b \in Range(table[s]) : b \in Blocks /\ ref[b] > 0
  BY TableFacts, HolderCounts DEF IndInv
<1>4. \A b \in Range(hits) : b \in Blocks /\ b \notin Range(table[s])
  <2>1. DOMAIN hits = 1..Len(hits)  BY LenProperties
  <2>2. Range(hits) \subseteq Blocks  BY <2>1, ElementOfSeq DEF Range
  <2>3. Range(<<>>) = {}  BY DEF Range
  <2> QED BY <2>2, <2>3
<1>5. \A b \in Blocks : ref[b] \in Nat  BY <1>1
<1>6. ASSUME NEW b \in Blocks
      PROVE  /\ ref'[b] \in Nat
             /\ ref'[b] = 0 <=> (ref[b] = 0 /\ b \notin P /\ b \notin Range(hits))
  <2>1. ref[b] \in Nat  BY <1>5
  <2>2. CASE b \in P
    <3>1. ref'[b] = 1  BY <1>1, <2>2
    <3> QED BY <2>2, <3>1
  <2>3. CASE b \notin P /\ b \in C
    <3>1. ref'[b] = ref[b] + 0 - 1 /\ ref[b] > 1  BY <1>1, <1>2, <2>3
    <3> QED BY <2>1, <3>1
  <2>4. CASE b \notin P /\ b \notin C /\ b \in Range(hits)
    <3>1. ref'[b] = ref[b] + 1 - 0  BY <1>1, <2>4
    <3> QED BY <2>1, <2>4, <3>1
  <2>5. CASE b \notin P /\ b \notin C /\ b \notin Range(hits)
    <3>1. ref'[b] = ref[b] + 0 - 0  BY <1>1, <2>5
    <3> QED BY <2>1, <2>5, <3>1
  <2> QED BY <2>2, <2>3, <2>4, <2>5
<1>7. ref' \in [Blocks -> Nat] /\ table' \in [Seqs -> Seq(Blocks)]
  BY <1>1, <1>6
<1>8. FreeIffUnreferenced'
  <2>1. Range(free) = {b \in Blocks : ref[b] = 0}  BY DEF IndInv, FreeIffUnreferenced
  <2> QED BY <1>2, <1>6, <2>1 DEF FreeIffUnreferenced
<1>9. RefCountExact'
  <2>1. ASSUME NEW b \in Blocks
        PROVE  ref'[b] = IF b \in Range(T)
                         THEN IF b \in Range(table[s]) THEN ref[b] ELSE ref[b] + 1
                         ELSE IF b \in Range(table[s]) THEN ref[b] - 1 ELSE ref[b]
    <3>1. CASE b \in P
      <4>1. b \in Range(T) /\ b \notin Range(table[s])  BY <1>2, <1>3, <1>5, <3>1
      <4> QED BY <1>1, <1>2, <3>1, <4>1
    <3>2. CASE b \notin P /\ b \in C
      <4>1. b \notin Range(T) /\ b \in Range(table[s]) /\ b \notin Range(hits)
        BY <1>2, <3>2
      <4> QED BY <1>1, <1>5, <3>2, <4>1
    <3>3. CASE b \notin P /\ b \notin C /\ b \in Range(hits)
      <4>1. b \in Range(T) /\ b \notin Range(table[s])  BY <1>2, <1>4, <3>3
      <4>2. ref'[b] = ref[b] + 1 - 0 /\ ref[b] \in Nat  BY <1>1, <1>5, <3>3
      <4> QED BY <4>1, <4>2
    <3>4. CASE b \notin P /\ b \notin C /\ b \notin Range(hits)
      <4>1. b \in Range(T) <=> b \in Range(table[s])  BY <1>2, <3>4
      <4>2. ref'[b] = ref[b] + 0 - 0 /\ ref[b] \in Nat  BY <1>1, <1>5, <3>4
      <4> QED BY <4>1, <4>2
    <3> QED BY <3>1, <3>2, <3>3, <3>4
  <2> QED BY <1>1, <2>1, RefCountStep DEF IndInv
<1>10. TableInjective'  BY <1>1, <1>2 DEF IndInv, TableInjective
<1> QED BY <1>7, <1>8, <1>9, <1>10

\* The table covers exactly the tokens up to the new ones.
LEMMA AllocationExact ==
    ASSUME IndInv, NEW s \in Seqs, NEW n \in Nat, NEW hits \in Seq(Blocks),
           hits = <<>> \/ (table[s] = <<>> /\ computed[s] = 0), num_new[s] = 0
    PROVE  Len(table[s]) + Len(hits) + NumBlocksNeeded(s, n, hits)
              = NumBlocksForTokens(computed[s] + Len(hits) * BlockSize + n)
<1> DEFINE k     == Len(hits)
           c     == computed[s]
           total == c + k * BlockSize + n
           have  == Len(table[s]) + k
<1>1. k \in Nat /\ c \in Nat /\ k * BlockSize \in Nat /\ Len(table[s]) \in Nat
  BY LenProperties, CeilOfMultiple, TableFacts DEF IndInv, TypeOK
<1>2. Len(table[s]) = NumBlocksForTokens(c)
  <2>1. c + 0 = c  BY <1>1
  <2> QED BY <2>1 DEF IndInv, TableExact
<1>3. NumBlocksForTokens(c + k * BlockSize) = have
  <2>1. CASE hits = <<>>
    <3>1. k = 0 /\ c + 0 * BlockSize = c  BY <1>1, <2>1, PoolAssumption
    <3> QED BY <1>1, <1>2, <3>1
  <2>2. CASE table[s] = <<>> /\ c = 0
    <3>1. Len(table[s]) = 0 /\ c + k * BlockSize = k * BlockSize /\ have = k
      BY <1>1, <2>2
    <3> QED BY <1>1, <3>1, CeilOfMultiple
  <2> QED BY <2>1, <2>2
<1>4. total \in Nat /\ c + k * BlockSize \in Nat /\ c + k * BlockSize <= total  BY <1>1
<1>5. have <= NumBlocksForTokens(total)
  BY <1>3, <1>4, CeilOrder
<1>6. NumBlocksForTokens(total) \in Nat  BY <1>4, CeilBounds
<1>7. NumBlocksNeeded(s, n, hits) = IF NumBlocksForTokens(total) > have
                                    THEN NumBlocksForTokens(total) - have ELSE 0
  BY DEF NumBlocksNeeded
<1> HIDE DEF total, have
<1>8. have \in Nat  BY <1>1 DEF have
<1>9. have + NumBlocksNeeded(s, n, hits) = NumBlocksForTokens(total)
  BY <1>5, <1>6, <1>7, <1>8
<1> QED BY <1>9 DEF have, total

\* allocate_slots for n tokens of s, with the watermark moved past the hits,
\* preserves the invariant: admission and continuation are its two cases.
LEMMA AllocationPreserves ==
    ASSUME IndInv, NEW s \in Seqs, NEW n \in Nat \ {0},
           NEW hits \in Seq(Blocks), IsInjective(hits),
           hits = <<>> \/ (table[s] = <<>> /\ computed[s] = 0),
           InUse(s), num_new[s] = 0, phase = "schedule",
           \A i \in DOMAIN hits : hash[hits[i]] = BlockPrefix(s, i) /\ hash[hits[i]] # NoHash,
           computed[s] + Len(hits) * BlockSize + n <= NumTokens(s),
           AllocateSlots(s, n, hits),
           computed' = [computed EXCEPT ![s] = computed[s] + Len(hits) * BlockSize],
           num_new' = [num_new EXCEPT ![s] = n],
           UNCHANGED <<tokens, phase>>
    PROVE  IndInv'
<1> USE DEF IndInv
<1> DEFINE k == Len(hits)
           c == computed[s]
           m == c + k * BlockSize
<1>1. PICK P \in SUBSET Blocks, C \in SUBSET Blocks, T \in Seq(Blocks) :
         AllocationResult(s, n, hits, P, C, T)
  BY AllocationEffect
<1>2. /\ \A b \in P : ref[b] = 0
      /\ C = IF NeedsCopy(s, n, hits) THEN {table[s][WriteIndex(s, hits)]} ELSE {}
      /\ \A b \in C : b \in Range(table[s]) /\ ref[b] > 1
      /\ Len(T) = Len(table[s]) + Len(hits) + NumBlocksNeeded(s, n, hits)
      /\ Range(T) = ((Range(table[s]) \cup Range(hits)) \ C) \cup P
      /\ \A i \in DOMAIN T : T[i] \in P \/ /\ i \in DOMAIN (table[s] \o hits)
                                           /\ T[i] = (table[s] \o hits)[i]
      /\ table' = [table EXCEPT ![s] = T]
      /\ free' \in Seq(Blocks)
      /\ cow' \in Seq(Blocks \X Blocks)
      /\ Evict(P)
  BY <1>1 DEF AllocationResult
<1>3. /\ ref' \in [Blocks -> Nat] /\ table' \in [Seqs -> Seq(Blocks)]
      /\ FreeIffUnreferenced' /\ RefCountExact' /\ TableInjective'
  BY <1>1, AllocationKeepsBooks
<1>4. /\ hash' \in [Blocks -> Seq(Tokens)]
      /\ \A b \in Blocks : hash'[b] = IF b \in P THEN NoHash ELSE hash[b]
      /\ DOMAIN cached' \subseteq Seq(Tokens) \ {NoHash}
      /\ \A h \in DOMAIN cached' : cached'[h] \in Blocks
      /\ CacheConsistent' /\ NothingCached'
  BY <1>2, EvictKeepsCache
<1>5. /\ k \in Nat /\ k * BlockSize \in Nat /\ c \in Nat /\ m \in Nat
      /\ c < NumTokens(s) /\ NumTokens(s) \in Nat
      /\ computed \in [Seqs -> Nat] /\ num_new \in [Seqs -> Nat] /\ table \in [Seqs -> Seq(Blocks)]
  <2>1. k \in Nat /\ k * BlockSize \in Nat  BY LenProperties, CeilOfMultiple
  <2>2. c \in Nat /\ computed \in [Seqs -> Nat] /\ num_new \in [Seqs -> Nat] /\ table \in [Seqs -> Seq(Blocks)]
    BY DEF TypeOK
  <2>3. c < NumTokens(s)  BY DEF LengthsOK
  <2>4. NumTokens(s) \in Nat
    <3>1. tokens[s] \in Seq(Tokens)  BY DEF TypeOK, TokenStrings
    <3> QED BY <3>1, LenProperties DEF NumTokens
  <2> QED BY <2>1, <2>2, <2>3, <2>4
<1>6. /\ computed'[s] = m /\ num_new'[s] = n /\ table'[s] = T
      /\ \A t \in Seqs \ {s} : /\ computed'[t] = computed[t] /\ num_new'[t] = num_new[t]
                               /\ table'[t] = table[t]
  BY <1>2, <1>5
<1>7. TypeOK'
  <2>1. computed' \in [Seqs -> Nat] /\ num_new' \in [Seqs -> Nat]  BY <1>5
  <2> QED BY <1>2, <1>3, <1>4, <2>1 DEF TypeOK
<1>8. LengthsOK'
  <2>1. ASSUME NEW t \in Seqs
        PROVE  /\ ~InUse(t)' => table'[t] = <<>> /\ computed'[t] = 0 /\ num_new'[t] = 0
               /\ InUse(t)' => computed'[t] < NumTokens(t)'
               /\ computed'[t] + num_new'[t] <= NumTokens(t)'
    <3>1. InUse(t)' = InUse(t) /\ NumTokens(t)' = NumTokens(t)  BY DEF InUse, NumTokens
    <3>2. CASE t # s  BY <1>6, <3>1, <3>2 DEF LengthsOK
    <3>3. CASE t = s
      <4>1. m + n <= NumTokens(s)  OBVIOUS
      <4>2. m < NumTokens(s)  BY <1>5, <4>1
      <4> QED BY <1>6, <3>1, <3>3, <4>1, <4>2
    <3> QED BY <3>2, <3>3
  <2> QED BY <2>1 DEF LengthsOK
<1>9. TableExact'
  <2>1. Len(T) = NumBlocksForTokens(m + n)  BY <1>2, AllocationExact
  <2> QED BY <1>6, <2>1 DEF TableExact
<1>10. \A t \in Seqs : Range(table[t]) \cap P = {}
  <2>1. \A t \in Seqs : \A b \in Range(table[t]) : b \in Blocks /\ ref[b] > 0
    BY TableFacts, HolderCounts
  <2> QED BY <1>2, <2>1
<1>11. /\ Range(<<>>) = {} /\ Len(<<>>) = 0
       /\ table[s] \o <<>> = table[s] /\ <<>> \o hits = hits
       /\ \A i \in DOMAIN hits : i \in Nat /\ i <= k
  <2>1. table[s] \in Seq(Blocks) /\ DOMAIN hits = 1..k  BY LenProperties DEF TypeOK
  <2> QED BY <1>5, <2>1, ConcatEmptySeq DEF Range
<1>12. HashMatchesHolder'
  <2>1. ASSUME NEW t \in Seqs, NEW i \in DOMAIN table'[t], hash'[table'[t][i]] # NoHash
        PROVE  /\ hash'[table'[t][i]] = BlockPrefix(t, i)'
               /\ i * BlockSize <= computed'[t]
    <3>1. BlockPrefix(t, i)' = BlockPrefix(t, i)  BY DEF BlockPrefix
    <3>2. CASE t # s
      <4>1. i \in DOMAIN table[t] /\ table'[t][i] = table[t][i]  BY <1>6, <3>2
      <4>2. table[t][i] \in Blocks /\ table[t][i] \notin P  BY <1>10, <4>1, TableFacts
      <4> QED BY <1>4, <1>6, <2>1, <3>1, <3>2, <4>1, <4>2 DEF HashMatchesHolder
    <3>3. CASE t = s
      <4>1. i \in DOMAIN T /\ table'[t][i] = T[i]  BY <1>6, <3>3
      <4>2. T[i] \in Blocks
        <5>1. DOMAIN T = 1..Len(T)  BY LenProperties
        <5> QED BY <4>1, <5>1, ElementOfSeq
      <4>3. T[i] \notin P /\ hash'[T[i]] = hash[T[i]]  BY <1>4, <2>1, <4>1, <4>2
      <4>4. i \in DOMAIN (table[s] \o hits) /\ T[i] = (table[s] \o hits)[i]
        BY <1>2, <4>1, <4>3
      <4>5. CASE hits = <<>>
        <5>1. i \in DOMAIN table[s] /\ T[i] = table[s][i]  BY <1>11, <4>4, <4>5
        <5>2. hash[T[i]] = BlockPrefix(s, i) /\ i * BlockSize <= c
          BY <2>1, <4>1, <4>3, <5>1 DEF HashMatchesHolder
        <5>3. m = c
          <6>1. k = 0 /\ 0 * BlockSize = 0  BY <1>11, <4>5, PoolAssumption
          <6> QED BY <1>5, <6>1
        <5> QED BY <1>6, <3>1, <3>3, <4>1, <4>3, <5>2, <5>3
      <4>6. CASE table[s] = <<>> /\ c = 0
        <5>1. i \in DOMAIN hits /\ T[i] = hits[i]  BY <1>11, <4>4, <4>6
        <5>2. hash[T[i]] = BlockPrefix(s, i) /\ i \in Nat /\ i <= k  BY <1>11, <5>1
        <5>3. i * BlockSize <= k * BlockSize
          <6> HIDE DEF k
          <6>1. i * BlockSize \in Int /\ k * BlockSize \in Int  BY <1>5, <5>2, MultiplesOrdered
          <6>2. i < k => i * BlockSize < k * BlockSize  BY <1>5, <5>2, MultiplesOrdered
          <6>3. i = k \/ i < k  BY <1>5, <5>2
          <6> QED BY <6>1, <6>2, <6>3
        <5>4. m = k * BlockSize  BY <1>5, <4>6
        <5> QED BY <1>6, <3>1, <3>3, <4>1, <4>3, <5>2, <5>3, <5>4
      <4> QED BY <4>5, <4>6
    <3> QED BY <3>2, <3>3
  <2> QED BY <2>1 DEF HashMatchesHolder
<1>13. FillsOwnBlocks'
  <2>1. ASSUME NEW u \in Seqs, num_new'[u] > 0, NEW t \in Seqs \ {u},
               NEW i \in DOMAIN table'[u], i > computed'[u] \div BlockSize
        PROVE  table'[u][i] \notin Range(table'[t])
    <3>1. CASE u # s /\ t # s
      <4>1. u \in Scheduled  BY <1>6, <2>1, <3>1 DEF Scheduled
      <4> QED BY <1>6, <2>1, <3>1, <4>1 DEF FillsOwnBlocks
    <3>2. CASE u # s /\ t = s
      <4> DEFINE b == table[u][i]
      <4>1. u \in Scheduled /\ i \in DOMAIN table[u] /\ i > computed[u] \div BlockSize /\ table'[u][i] = b
        BY <1>6, <2>1, <3>2 DEF Scheduled
      <4>2. b \notin Range(table[s])  BY <2>1, <3>2, <4>1 DEF FillsOwnBlocks
      <4>3. b \notin P  BY <1>10, <4>1, TableFacts
      <4>4. hash[b] = NoHash  BY <4>1, UnfilledUnhashed
      <4>5. b \notin Range(hits)  BY <4>4 DEF Range
      <4>6. b \notin Range(T)  BY <1>2, <4>2, <4>3, <4>5
      <4> QED BY <1>6, <3>2, <4>1, <4>6
    <3>3. CASE u = s
      <4>1. i \in DOMAIN T /\ table'[u][i] = T[i] /\ table'[t] = table[t] /\ i > m \div BlockSize
        BY <1>6, <2>1, <3>3
      <4>2. CASE T[i] \in P  BY <1>10, <4>1, <4>2
      <4>3. CASE T[i] \notin P /\ table[s] = <<>> /\ c = 0
        <5>1. i \in DOMAIN hits  BY <1>2, <1>11, <4>1, <4>3
        <5>2. m = k * BlockSize  BY <1>5, <4>3
        <5>3. m \div BlockSize = k  BY <1>5, <5>2, CeilOfMultiple
        <5>4. i \in Nat /\ i <= k  BY <1>11, <5>1
        <5>5. i > k  BY <4>1, <5>3
        <5> HIDE DEF k
        <5> QED BY <1>5, <5>4, <5>5
      <4>4. CASE T[i] \notin P /\ hits = <<>>
        <5>1. i \in DOMAIN table[s] /\ T[i] = table[s][i]  BY <1>2, <1>11, <4>1, <4>4
        <5>2. m = c /\ FirstWrite(s, hits) = c /\ k = 0
          <6>1. k = 0 /\ 0 * BlockSize = 0  BY <1>11, <4>4, PoolAssumption
          <6> QED BY <1>5, <6>1 DEF FirstWrite
        <5>3. i \in Nat /\ i <= NumBlocksForTokens(c)
          <6>1. Len(table[s]) = NumBlocksForTokens(c)
            <7>1. c + 0 = c  BY <1>5
            <7> QED BY <7>1 DEF TableExact
          <6>2. i \in 1..Len(table[s]) /\ Len(table[s]) \in Nat  BY <5>1, TableFacts
          <6> QED BY <6>1, <6>2
        <5> DEFINE d == c \div BlockSize
                   a == NumBlocksForTokens(c)
        <5>4. d \in Nat /\ a \in Nat /\ d <= a /\ a <= d + 1 /\ (c % BlockSize = 0 => a = d)
          BY <1>5, CeilAgainstFloor, CeilBounds, DivBounds
        <5>5. i > d  BY <4>1, <5>2
        <5> HIDE DEF d, a
        <5>6. i = d + 1 /\ c % BlockSize # 0  BY <5>3, <5>4, <5>5 DEF a
        <5>7. i = WriteIndex(s, hits)  BY <5>2, <5>6 DEF WriteIndex, d
        <5>8. T[i] \notin C
          <6>1. T[i] \in Range(T)  BY <4>1 DEF Range
          <6> QED BY <1>2, <4>4, <6>1
        <5>9. ~NeedsCopy(s, n, hits)  BY <1>2, <5>1, <5>7, <5>8
        <5>10. ref[table[s][i]] <= 1
          <6>1. i <= Len(table[s])  BY <5>1, <5>3, TableFacts
          <6>2. table[s][i] \notin Range(hits)  BY <1>11, <4>4
          <6>3. ref[table[s][i]] \in Nat  BY <5>1, TableFacts DEF TypeOK
          <6>4. ~(ref[table[s][i]] + 0 > 1)
            BY <1>11, <4>4, <5>2, <5>6, <5>7, <5>9, <6>1, <6>2 DEF NeedsCopy
          <6> QED BY <6>3, <6>4
        <5>11. table[s][i] \in Blocks /\ table[s][i] \in Range(table[s])  BY <5>1, TableFacts
        <5> QED BY <2>1, <3>3, <4>1, <5>1, <5>10, <5>11, HolderCounts
      <4> QED BY <4>2, <4>3, <4>4
    <3> QED BY <3>1, <3>2, <3>3
  <2> QED BY <2>1 DEF FillsOwnBlocks, Scheduled
<1>14. CopiesTaken'  BY DEF CopiesTaken
<1> QED BY <1>3, <1>4, <1>7, <1>8, <1>9, <1>12, <1>13, <1>14

\* The blocks of the longest hit are distinct, and each carries as its hash the
\* prefix it was looked up by.
LEMMA HitLaws ==
    ASSUME IndInv, NEW s \in Seqs, InUse(s), NEW k \in Nat, IsLongestHit(s, k)
    PROVE  LET hits == GetComputedBlocks(s, k)
           IN  /\ hits \in Seq(Blocks) /\ Len(hits) = k /\ IsInjective(hits)
               /\ k = 0 => hits = <<>>
               /\ \A i \in DOMAIN hits : hash[hits[i]] = BlockPrefix(s, i) /\ hash[hits[i]] # NoHash
<1> USE DEF IndInv
<1> DEFINE hits == GetComputedBlocks(s, k)
<1>1. hits = [i \in 1..k |-> cached[BlockPrefix(s, i)]]  BY DEF GetComputedBlocks
<1>2. tokens[s] \in Seq(Tokens) /\ NumTokens(s) \in Nat \ {0}
  <2>1. tokens[s] \in Seq(Tokens) /\ computed[s] \in Nat  BY DEF TypeOK, TokenStrings
  <2>2. NumTokens(s) \in Nat  BY <2>1, LenProperties DEF NumTokens
  <2>3. computed[s] < NumTokens(s)  BY DEF LengthsOK
  <2> QED BY <2>1, <2>2, <2>3
<1>3. ASSUME NEW i \in 1..k
      PROVE  BlockPrefix(s, i) \in DOMAIN cached /\ i * BlockSize < NumTokens(s)
  <2>1. k # 0  OBVIOUS
  <2>2. k \in 0..MaxHits(s) /\ BlockPrefix(s, i) \in DOMAIN cached
    BY <2>1 DEF IsLongestHit
  <2>3. NumTokens(s) - 1 \in Nat  BY <1>2
  <2>4. i \in Nat /\ i <= (NumTokens(s) - 1) \div BlockSize
    <3>1. (NumTokens(s) - 1) \div BlockSize \in Nat  BY <2>3, DivBounds
    <3> QED BY <2>2, <3>1 DEF MaxHits
  <2>5. i * BlockSize <= NumTokens(s) - 1  BY <2>3, <2>4, FullBlocks
  <2>6. i * BlockSize \in Int  BY <2>4, MultiplesOrdered
  <2> QED BY <1>2, <2>2, <2>5, <2>6
<1> HIDE DEF hits
<1>4. \A i \in 1..k : hits[i] \in Blocks /\ hash[hits[i]] = BlockPrefix(s, i) /\ hash[hits[i]] # NoHash
  BY <1>1, <1>3 DEF TypeOK, CacheConsistent
<1>5. hits \in Seq(Blocks) /\ Len(hits) = k /\ DOMAIN hits = 1..k
  <2>1. hits \in [1..k -> Blocks]  BY <1>1, <1>4
  <2>2. hits \in Seq(Blocks)  BY <2>1, SeqDef
  <2>3. DOMAIN hits = 1..k  BY <1>1
  <2> QED BY <2>2, <2>3, LenProperties
<1>6. ASSUME NEW i \in 1..k
      PROVE  Len(BlockPrefix(s, i)) = i * BlockSize
  <2>1. i * BlockSize \in Nat  BY CeilOfMultiple
  <2>2. i * BlockSize \in 0..NumTokens(s)  BY <1>2, <1>3, <2>1
  <2> QED BY <1>2, <2>2, PrefixLaws DEF BlockPrefix, NumTokens
<1>7. IsInjective(hits)
  <2>1. ASSUME NEW i \in 1..k, NEW j \in 1..k, hits[i] = hits[j]
        PROVE  i = j
    <3>1. BlockPrefix(s, i) = BlockPrefix(s, j)  BY <1>4, <2>1
    <3>2. i * BlockSize = j * BlockSize  BY <1>6, <3>1
    <3>3. i < j => i * BlockSize < j * BlockSize  BY MultiplesOrdered
    <3>4. j < i => j * BlockSize < i * BlockSize  BY MultiplesOrdered
    <3>5. i * BlockSize \in Int  BY MultiplesOrdered
    <3> QED BY <3>2, <3>3, <3>4, <3>5
  <2> QED BY <1>5, <2>1 DEF IsInjective
<1>8. k = 0 => hits = <<>>  BY <1>5, EmptySeq
<1> QED BY <1>4, <1>5, <1>7, <1>8 DEF hits

\* Admission of a waiting request, with its prefix-cache hits.
LEMMA AdmitPreserves ==
    ASSUME IndInv, NEW s \in Seqs, Admit(s)
    PROVE  IndInv'
<1> USE DEF IndInv
<1>1. PICK n \in 1..MaxModelLen, k \in 0..MaxModelLen : MayAdmit(s, n, k) /\ AdmitBlocks(s, n, k)
  BY DEF Admit
<1> DEFINE hits == GetComputedBlocks(s, k)
<1>2. n \in Nat \ {0} /\ k \in Nat  BY LengthAssumption
<1>3. /\ IsLongestHit(s, k) /\ AllocateSlots(s, n, hits)
      /\ computed' = [computed EXCEPT ![s] = k * BlockSize]
      /\ num_new' = [num_new EXCEPT ![s] = n]
      /\ UNCHANGED <<tokens, phase>>
  BY <1>1 DEF AdmitBlocks
<1>4. /\ InUse(s) /\ table[s] = <<>> /\ computed[s] = 0 /\ phase = "schedule"
      /\ n <= NumTokens(s) - k * BlockSize
  BY <1>1 DEF MayAdmit
<1>5. /\ hits \in Seq(Blocks) /\ Len(hits) = k /\ IsInjective(hits)
      /\ \A i \in DOMAIN hits : hash[hits[i]] = BlockPrefix(s, i) /\ hash[hits[i]] # NoHash
  BY <1>2, <1>3, <1>4, HitLaws
<1>6. num_new[s] = 0
  <2>1. Len(<<>>) = 0 /\ num_new[s] \in Nat  BY EmptySeq DEF TypeOK
  <2>2. NumBlocksForTokens(0 + num_new[s]) = 0  BY <1>4, <2>1 DEF TableExact
  <2>3. 0 + num_new[s] = num_new[s]  BY <2>1
  <2>4. num_new[s] <= 0 * BlockSize  BY <2>1, <2>2, <2>3, CeilBounds
  <2> QED BY <2>1, <2>4, PoolAssumption
<1>7. k * BlockSize \in Nat /\ NumTokens(s) \in Nat
  <2>1. tokens[s] \in Seq(Tokens)  BY DEF TypeOK, TokenStrings
  <2> QED BY <1>2, <2>1, CeilOfMultiple, LenProperties DEF NumTokens
<1> HIDE DEF hits
<1>8. /\ computed[s] + Len(hits) * BlockSize = k * BlockSize
      /\ computed[s] + Len(hits) * BlockSize + n <= NumTokens(s)
  BY <1>2, <1>4, <1>5, <1>7
<1> QED BY <1>2, <1>3, <1>4, <1>5, <1>6, <1>8, AllocationPreserves

\* The next tokens of a running sequence, copying a shared partial block.
LEMMA ContinuePreserves ==
    ASSUME IndInv, NEW s \in Seqs, Continue(s)
    PROVE  IndInv'
<1> USE DEF IndInv
<1>1. PICK n \in 1..MaxModelLen : MayContinue(s, n) /\ ContinueBlocks(s, n)
  BY DEF Continue
<1>2. n \in Nat \ {0}  BY LengthAssumption
<1>3. /\ AllocateSlots(s, n, <<>>) /\ num_new' = [num_new EXCEPT ![s] = n]
      /\ UNCHANGED <<tokens, computed, phase>>
      /\ InUse(s) /\ num_new[s] = 0 /\ n <= NumTokens(s) - computed[s] /\ phase = "schedule"
  BY <1>1 DEF ContinueBlocks, MayContinue
<1>4. <<>> \in Seq(Blocks) /\ Len(<<>>) = 0 /\ IsInjective(<<>>) /\ DOMAIN <<>> = {}
  BY EmptySeq DEF IsInjective
<1>5. computed \in [Seqs -> Nat] /\ NumTokens(s) \in Nat
  <2>1. tokens[s] \in Seq(Tokens)  BY DEF TypeOK, TokenStrings
  <2> QED BY <2>1, LenProperties DEF TypeOK, NumTokens
<1>6. computed[s] + Len(<<>>) * BlockSize = computed[s]
  <2>1. 0 * BlockSize = 0  BY PoolAssumption
  <2> QED BY <1>4, <1>5, <2>1
<1>7. computed' = [computed EXCEPT ![s] = computed[s] + Len(<<>>) * BlockSize]
  BY <1>3, <1>5, <1>6
<1>8. computed[s] + Len(<<>>) * BlockSize + n <= NumTokens(s)
  BY <1>2, <1>3, <1>5, <1>6
<1> QED BY <1>2, <1>3, <1>4, <1>7, <1>8, AllocationPreserves

\* The releases of a roll-back undo what the allocation took.
LEMMA RollBackUndoes ==
    ASSUME IndInv, NEW s \in Seqs, NEW n, RollBackBlocks(s, n)
    PROVE  ref' = ref
<1> DEFINE P == Range(AvailableQueue(<<>>))
<1>1. Range(<<>>) = {}  BY DEF Range
<1>2. \A b \in P : b \in Blocks /\ ref[b] = 0
  <2>1. free \in Seq(Blocks) /\ Range(free) = {b \in Blocks : ref[b] = 0}
    BY DEF IndInv, TypeOK, FreeIffUnreferenced
  <2>2. P = Range(free)  BY <1>1, <2>1, WithoutLaws DEF AvailableQueue
  <2> QED BY <2>1, <2>2
<1>3. ref' = RefAfterRollBack(P, {})  BY <1>1 DEF RollBackBlocks, AllocateRollsBack
<1> HIDE DEF P
<1>4. ref = [b \in Blocks |-> ref[b]] /\ \A b \in Blocks : ref[b] \in Nat
  BY DEF IndInv, TypeOK
<1>5. \A b \in Blocks : RefAfterRollBack(P, {})[b] = ref[b]
  BY <1>2, <1>4 DEF RefAfterRollBack, RefAfterAllocation
<1>6. RefAfterRollBack(P, {}) = [b \in Blocks |-> RefAfterRollBack(P, {})[b]]
  BY DEF RefAfterRollBack
<1> QED BY <1>3, <1>4, <1>5, <1>6

\* A rolled back allocation costs cache entries and nothing else.
LEMMA RollBackPreserves ==
    ASSUME IndInv, NEW s \in Seqs, RollBack(s)
    PROVE  IndInv'
<1> USE DEF IndInv
<1>1. PICK n \in 1..MaxModelLen : RollBackBlocks(s, n)
  BY DEF RollBack
<1> DEFINE queue == AvailableQueue(<<>>)
           rest  == Retain(<<>>, {b \in Blocks : ref[b] = 0})
           P     == Range(queue)
<1>2. /\ free' = queue \o rest
      /\ Evict(P)
      /\ UNCHANGED <<table, ref, cow, tokens, computed, num_new, phase>>
  BY <1>1, RollBackUndoes DEF RollBackBlocks, AllocateRollsBack
<1>3. Range(<<>>) = {} /\ <<>> \in Seq(Blocks) /\ IsInjective(<<>>)
  BY EmptySeq DEF Range, IsInjective
<1>4. free \in Seq(Blocks) /\ IsInjective(free) /\ Range(free) = {b \in Blocks : ref[b] = 0}
  BY DEF TypeOK, FreeIffUnreferenced
<1>5. queue \in Seq(Blocks) /\ IsInjective(queue) /\ Range(queue) = Range(free)
  BY <1>3, <1>4, WithoutLaws DEF AvailableQueue
<1>6. rest \in Seq(Blocks) /\ IsInjective(rest) /\ Range(rest) = {}
  <2>1. \A K : /\ Retain(<<>>, K) \in Seq(Blocks) /\ IsInjective(Retain(<<>>, K))
               /\ Range(Retain(<<>>, K)) = Range(<<>>) \cap K
    <3> TAKE K
    <3> DEFINE q == <<>>
    <3>1. q \in Seq(Blocks) /\ IsInjective(q)  BY <1>3
    <3> HIDE DEF q
    <3>2. /\ Retain(q, K) \in Seq(Blocks) /\ IsInjective(Retain(q, K))
          /\ Range(Retain(q, K)) = Range(q) \cap K
      BY <3>1, RetainLaws
    <3> QED BY <3>2 DEF q
  <2> QED BY <1>3, <2>1
<1> HIDE DEF queue, rest
<1>7. free' \in Seq(Blocks) /\ IsInjective(free') /\ Range(free') = Range(free)
  <2>1. Range(queue) \cap Range(rest) = {}  BY <1>6
  <2>2. /\ queue \in Seq(Blocks) /\ IsInjective(queue)
        /\ rest \in Seq(Blocks) /\ IsInjective(rest)
    BY <1>5, <1>6
  <2>3. /\ queue \o rest \in Seq(Blocks) /\ IsInjective(queue \o rest)
        /\ Range(queue \o rest) = Range(queue) \cup Range(rest)
    BY <2>1, <2>2, ConcatLaws
  <2> QED BY <1>2, <1>5, <1>6, <2>3
<1>8. FreeIffUnreferenced'  BY <1>2, <1>4, <1>7 DEF FreeIffUnreferenced
<1>9. P \in SUBSET Blocks  BY <1>4, <1>5
<1>10. /\ hash' \in [Blocks -> Seq(Tokens)]
       /\ \A b \in Blocks : hash'[b] = IF b \in P THEN NoHash ELSE hash[b]
       /\ DOMAIN cached' \subseteq Seq(Tokens) \ {NoHash}
       /\ \A h \in DOMAIN cached' : cached'[h] \in Blocks
       /\ CacheConsistent' /\ NothingCached'
  BY <1>2, <1>9, EvictKeepsCache
<1> HIDE DEF P
<1>11. TypeOK'  BY <1>2, <1>7, <1>10 DEF TypeOK
<1>12. HashMatchesHolder'
  <2>1. ASSUME NEW t \in Seqs, NEW i \in DOMAIN table[t], hash'[table[t][i]] # NoHash
        PROVE  hash[table[t][i]] # NoHash /\ hash'[table[t][i]] = hash[table[t][i]]
    <3>1. table[t][i] \in Blocks  BY TableFacts
    <3> QED BY <1>10, <2>1, <3>1
  <2> QED BY <1>2, <2>1 DEF HashMatchesHolder, BlockPrefix
<1>13. LengthsOK' /\ TableExact' /\ TableInjective'
  BY <1>2 DEF LengthsOK, TableExact, TableInjective, InUse, NumTokens
<1>14. RefCountExact' /\ FillsOwnBlocks' /\ CopiesTaken'
  BY <1>2 DEF RefCountExact, Holders, FillsOwnBlocks, Scheduled, CopiesTaken
<1> QED BY <1>8, <1>10, <1>11, <1>12, <1>13, <1>14

-----------------------------------------------------------------------------
(* Release preserves the invariant.                                          *)

\* The books after a release: free queue, counts and tables.
LEMMA FreeKeepsBooks ==
    ASSUME IndInv, NEW s \in Seqs, NEW newHash, FreeBlocks(s, newHash)
    PROVE  /\ ref' \in [Blocks -> Nat] /\ table' \in [Seqs -> Seq(Blocks)]
           /\ free' \in Seq(Blocks)
           /\ table'[s] = <<>> /\ \A t \in Seqs \ {s} : table'[t] = table[t]
           /\ FreeIffUnreferenced' /\ RefCountExact' /\ TableInjective'
<1> USE DEF IndInv
<1> DEFINE T    == table[s]
           last == LastHeldBy(s)
           back == Retain(ReleaseOrder(s), last)
<1>1. /\ ref' = [b \in Blocks |-> IF b \in Range(T) THEN ref[b] - 1 ELSE ref[b]]
      /\ free' = free \o back
      /\ table' = [table EXCEPT ![s] = <<>>]
  BY DEF FreeBlocks
<1>2. /\ T \in Seq(Blocks) /\ IsInjective(T) /\ Range(T) \subseteq Blocks
      /\ ref \in [Blocks -> Nat] /\ table \in [Seqs -> Seq(Blocks)]
      /\ free \in Seq(Blocks) /\ IsInjective(free)
      /\ Range(free) = {b \in Blocks : ref[b] = 0}
  BY TableFacts DEF TypeOK, TableInjective, FreeIffUnreferenced
<1>3. \A b \in Range(T) : ref[b] > 0  BY <1>2, HolderCounts
<1>4. Reverse(T) \in Seq(Blocks) /\ IsInjective(Reverse(T)) /\ Range(Reverse(T)) = Range(T)
  BY <1>2, ReverseLaws
<1>5. back \in Seq(Blocks) /\ IsInjective(back) /\ Range(back) = Range(T) \cap last
  BY <1>4, RetainLaws DEF ReleaseOrder
<1>6. last = {b \in Range(T) : ref[b] = 1}  BY DEF LastHeldBy
<1> HIDE DEF back, last, T
<1>7. Range(free) \cap Range(back) = {}  BY <1>2, <1>5, <1>6
<1>8. /\ free' \in Seq(Blocks) /\ IsInjective(free')
      /\ Range(free') = Range(free) \cup Range(back)
  BY <1>1, <1>2, <1>5, <1>7, ConcatLaws
<1>9. ASSUME NEW b \in Blocks
      PROVE  /\ ref'[b] \in Nat
             /\ ref'[b] = 0 <=> b \in Range(free')
  <2>1. CASE b \in Range(T)
    <3>1. ref'[b] = ref[b] - 1 /\ ref[b] \in Nat /\ ref[b] > 0  BY <1>1, <1>2, <1>3, <2>1
    <3>2. b \in Range(free') <=> ref[b] = 1  BY <1>2, <1>5, <1>6, <1>8, <2>1, <3>1
    <3> QED BY <3>1, <3>2
  <2>2. CASE b \notin Range(T)
    <3>1. ref'[b] = ref[b] /\ ref[b] \in Nat  BY <1>1, <1>2, <2>2
    <3>2. b \in Range(free') <=> ref[b] = 0  BY <1>2, <1>5, <1>8, <2>2
    <3> QED BY <3>1, <3>2
  <2> QED BY <2>1, <2>2
<1>10. ref' \in [Blocks -> Nat]  BY <1>1, <1>9
<1>11. Range(free') \subseteq Blocks
  BY <1>2, <1>5, <1>8
<1>12. FreeIffUnreferenced'  BY <1>8, <1>9, <1>11 DEF FreeIffUnreferenced
<1>13. /\ table' \in [Seqs -> Seq(Blocks)] /\ table'[s] = <<>>
       /\ \A t \in Seqs \ {s} : table'[t] = table[t]
  BY <1>1, <1>2, EmptySeq
<1>14. RefCountExact'
  <2>1. Range(<<>>) = {}  BY DEF Range
  <2>2. \A b \in Blocks :
           ref'[b] = IF b \in Range(<<>>)
                     THEN IF b \in Range(table[s]) THEN ref[b] ELSE ref[b] + 1
                     ELSE IF b \in Range(table[s]) THEN ref[b] - 1 ELSE ref[b]
    BY <1>1, <2>1 DEF T
  <2> QED BY <1>1, <1>2, <2>2, RefCountStep
<1>15. TableInjective'
  <2>1. IsInjective(<<>>)  BY DEF IsInjective
  <2>2. ASSUME NEW t \in Seqs
        PROVE  IsInjective(table'[t])
    <3>1. CASE t = s  BY <1>13, <2>1, <3>1
    <3>2. CASE t # s  BY <1>13, <3>2 DEF TableInjective
    <3> QED BY <3>1, <3>2
  <2> QED BY <2>2 DEF TableInjective
<1> QED BY <1>8, <1>10, <1>12, <1>13, <1>14, <1>15

\* Without prefix caching no block has a hash.
LEMMA NoHashes ==
    ASSUME CacheConsistent, NothingCached, ~EnablePrefixCaching
    PROVE  \A b \in Blocks : hash[b] = NoHash
BY DEF CacheConsistent, NothingCached

\* Preempting or aborting a sequence that is not scheduled.
LEMMA DropPreserves ==
    ASSUME IndInv, NEW s \in Seqs, num_new[s] = 0, FreeBlocks(s, hash),
           computed' = [computed EXCEPT ![s] = 0],
           \/ tokens' = tokens /\ InUse(s)
           \/ tokens' = [tokens EXCEPT ![s] = <<>>],
           UNCHANGED <<num_new, phase, cached, cow>>
    PROVE  IndInv'
<1> USE DEF IndInv
<1>1. /\ ref' \in [Blocks -> Nat] /\ table' \in [Seqs -> Seq(Blocks)]
      /\ free' \in Seq(Blocks)
      /\ table'[s] = <<>> /\ \A t \in Seqs \ {s} : table'[t] = table[t]
      /\ FreeIffUnreferenced' /\ RefCountExact' /\ TableInjective'
  BY FreeKeepsBooks
<1>2. hash' = hash
  <2>1. hash = [b \in Blocks |-> hash[b]]  BY DEF TypeOK
  <2>2. CASE EnablePrefixCaching  BY <2>2 DEF FreeBlocks
  <2>3. CASE ~EnablePrefixCaching
    <3>1. \A b \in Blocks : hash[b] = NoHash  BY <2>3, NoHashes
    <3>2. hash' = [b \in Blocks |-> IF b \in LastHeldBy(s) THEN NoHash ELSE hash[b]]
      BY <2>3 DEF FreeBlocks
    <3>3. hash' = [b \in Blocks |-> hash[b]]  BY <3>1, <3>2
    <3> QED BY <2>1, <3>3
  <2> QED BY <2>2, <2>3
<1>3. computed \in [Seqs -> Nat] /\ tokens \in [Seqs -> TokenStrings] /\ num_new \in [Seqs -> Nat]
  BY DEF TypeOK
<1>4. /\ computed'[s] = 0 /\ num_new'[s] = 0 /\ (tokens'[s] = <<>> \/ (InUse(s) /\ tokens'[s] = tokens[s]))
      /\ \A t \in Seqs \ {s} : computed'[t] = computed[t] /\ num_new'[t] = num_new[t] /\ tokens'[t] = tokens[t]
  BY <1>3
<1>5. <<>> \in TokenStrings /\ Len(<<>>) = 0
  BY EmptySeq, LengthAssumption DEF TokenStrings
<1>6. TypeOK'
  <2>1. computed' \in [Seqs -> Nat] /\ tokens' \in [Seqs -> TokenStrings]  BY <1>3, <1>5
  <2> QED BY <1>1, <1>2, <2>1 DEF TypeOK
<1>7. LengthsOK'
  <2>1. ASSUME NEW t \in Seqs
        PROVE  /\ ~InUse(t)' => table'[t] = <<>> /\ computed'[t] = 0 /\ num_new'[t] = 0
               /\ InUse(t)' => computed'[t] < NumTokens(t)'
               /\ computed'[t] + num_new'[t] <= NumTokens(t)'
    <3>1. CASE t # s
      BY <1>1, <1>4, <3>1 DEF LengthsOK, InUse, NumTokens
    <3>2. CASE t = s /\ tokens'[s] = <<>>
      BY <1>1, <1>4, <1>5, <3>2 DEF InUse, NumTokens
    <3>3. CASE t = s /\ InUse(s) /\ tokens'[s] = tokens[s]
      <4>1. computed[s] < Len(tokens[s]) /\ computed[s] \in Nat  BY <1>3, <3>3 DEF LengthsOK, NumTokens
      <4>2. Len(tokens[s]) \in Nat  BY <1>3, LenProperties DEF TokenStrings
      <4> QED BY <1>1, <1>4, <3>3, <4>1, <4>2 DEF InUse, NumTokens
    <3> QED BY <1>4, <3>1, <3>2, <3>3
  <2> QED BY <2>1 DEF LengthsOK
<1>8. TableExact'
  <2>1. Len(<<>>) = NumBlocksForTokens(0 + 0)
    BY <1>5, CeilOfMultiple, PoolAssumption
  <2>2. ASSUME NEW t \in Seqs
        PROVE  Len(table'[t]) = NumBlocksForTokens(computed'[t] + num_new'[t])
    <3>1. CASE t = s  BY <1>1, <1>4, <2>1, <3>1
    <3>2. CASE t # s  BY <1>1, <1>4, <3>2 DEF TableExact
    <3> QED BY <3>1, <3>2
  <2> QED BY <2>2 DEF TableExact
<1>9. CacheConsistent' /\ NothingCached' /\ CopiesTaken'
  BY <1>2 DEF CacheConsistent, NothingCached, CopiesTaken
<1>10. HashMatchesHolder'
  <2>1. ASSUME NEW t \in Seqs, NEW i \in DOMAIN table'[t], hash'[table'[t][i]] # NoHash
        PROVE  /\ hash'[table'[t][i]] = BlockPrefix(t, i)'
               /\ i * BlockSize <= computed'[t]
    <3>1. t # s  BY <1>1, <2>1
    <3>2. /\ table'[t] = table[t] /\ tokens'[t] = tokens[t] /\ computed'[t] = computed[t]
          /\ hash' = hash
      BY <1>1, <1>2, <1>4, <3>1
    <3>3. i \in DOMAIN table[t] /\ hash[table[t][i]] # NoHash  BY <2>1, <3>2
    <3>4. hash[table[t][i]] = BlockPrefix(t, i) /\ i * BlockSize <= computed[t]
      BY <3>3 DEF HashMatchesHolder
    <3> QED BY <3>2, <3>4 DEF BlockPrefix
  <2> QED BY <2>1 DEF HashMatchesHolder
<1>11. FillsOwnBlocks'
  <2>1. ASSUME NEW u \in Seqs, num_new'[u] > 0, NEW t \in Seqs \ {u},
               NEW i \in DOMAIN table'[u], i > computed'[u] \div BlockSize
        PROVE  table'[u][i] \notin Range(table'[t])
    <3>1. u # s /\ num_new[u] > 0  BY <1>4, <2>1
    <3>2. Range(<<>>) = {}  BY DEF Range
    <3>3. CASE t = s  BY <1>1, <3>2, <3>3
    <3>4. CASE t # s
      BY <1>1, <1>4, <2>1, <3>1, <3>4 DEF FillsOwnBlocks, Scheduled
    <3> QED BY <3>3, <3>4
  <2> QED BY <2>1 DEF FillsOwnBlocks, Scheduled
<1> QED BY <1>1, <1>6, <1>7, <1>8, <1>9, <1>10, <1>11

\* Preemption by recompute.
LEMMA PreemptPreserves ==
    ASSUME IndInv, NEW s \in Seqs, Preempt(s)
    PROVE  IndInv'
BY DropPreserves DEF Preempt, MayPreempt, PreemptBlocks

\* Dropping a request between steps.
LEMMA AbortPreserves ==
    ASSUME IndInv, NEW s \in Seqs, Abort(s)
    PROVE  IndInv'
<1>1. num_new[s] = 0
  <2>1. num_new[s] \in Nat  BY DEF IndInv, TypeOK
  <2>2. ~(num_new[s] > 0)  BY DEF Abort, BetweenSteps, Scheduled
  <2> QED BY <2>1, <2>2
<1> QED BY <1>1, DropPreserves DEF Abort, AbortBlocks

-----------------------------------------------------------------------------
(* Registration of full blocks.                                              *)

\* Along an unbroken chain the hash of block i is the prefix it ends.
LEMMA ChainHashIsPrefix ==
    ASSUME IndInv, NEW s \in Seqs, ~ChainBroken(s),
           NEW i \in Nat, i > computed[s] \div BlockSize, i * BlockSize <= NumTokens(s)
    PROVE  /\ ChainHash(s, i) = BlockPrefix(s, i)
           /\ BlockPrefix(s, i) \in Seq(Tokens) /\ Len(BlockPrefix(s, i)) = i * BlockSize
           /\ BlockPrefix(s, i) # NoHash
<1> USE DEF IndInv
<1> DEFINE f == computed[s] \div BlockSize
           x == f * BlockSize
           y == i * BlockSize
           t == tokens[s]
<1>1. /\ t \in Seq(Tokens) /\ Len(t) \in Nat /\ computed[s] \in Nat
      /\ table[s] \in Seq(Blocks) /\ Len(table[s]) \in Nat /\ DOMAIN table[s] = 1..Len(table[s])
  <2>1. t \in Seq(Tokens) /\ computed[s] \in Nat  BY DEF TypeOK, TokenStrings
  <2> QED BY <2>1, LenProperties, TableFacts
<1>2. f \in Nat /\ f < i  BY <1>1, DivBounds
<1>3. x \in Nat /\ y \in Nat /\ x < y /\ y <= Len(t)
  <2> HIDE DEF f
  <2>1. x \in Nat /\ y \in Nat  BY <1>2, CeilOfMultiple
  <2>2. x < y  BY <1>2, MultiplesOrdered
  <2>3. y <= Len(t)  BY DEF NumTokens
  <2> QED BY <2>1, <2>2, <2>3
<1>4. BlockPrefix(s, i) \in Seq(Tokens) /\ Len(BlockPrefix(s, i)) = y
  BY <1>1, <1>3, PrefixLaws DEF BlockPrefix
<1>5. BlockPrefix(s, i) # NoHash  BY <1>3, <1>4, EmptySeq DEF NoHash
<1>6. CASE f = 0
  <2>1. x = 0 /\ x + 1 = 1  BY <1>3, <1>6, PoolAssumption
  <2>2. ChainHash(s, i) = <<>> \o SubSeq(t, 1, y)  BY <1>6, <2>1 DEF ChainHash, NoHash
  <2>3. SubSeq(t, 1, y) \in Seq(Tokens)  BY <1>4 DEF BlockPrefix
  <2> QED BY <1>4, <1>5, <2>2, <2>3, ConcatEmptySeq DEF BlockPrefix
<1>7. CASE f > 0
  <2>1. hash[table[s][f]] # NoHash  BY <1>7 DEF ChainBroken
  <2>2. f \in DOMAIN table[s]
    <3>1. computed[s] + num_new[s] \in Nat /\ computed[s] <= computed[s] + num_new[s]
      BY DEF TypeOK
    <3>2. NumBlocksForTokens(computed[s]) <= Len(table[s])
      BY <1>1, <3>1, CeilOrder DEF TableExact
    <3>3. f <= NumBlocksForTokens(computed[s]) /\ NumBlocksForTokens(computed[s]) \in Nat
      BY <1>1, CeilAgainstFloor, CeilBounds
    <3> HIDE DEF f
    <3> QED BY <1>1, <1>2, <1>7, <3>2, <3>3
  <2>3. hash[table[s][f]] = SubSeq(t, 1, x)  BY <2>1, <2>2 DEF HashMatchesHolder, BlockPrefix
  <2>4. ChainHash(s, i) = SubSeq(t, 1, x) \o SubSeq(t, x + 1, y)
    <3>1. f # 0  BY <1>2, <1>7
    <3>2. ChainHash(s, i) = (IF f = 0 THEN NoHash ELSE hash[table[s][f]]) \o SubSeq(t, x + 1, y)
      BY DEF ChainHash
    <3> QED BY <2>3, <3>1, <3>2
  <2>5. SubSeq(t, 1, x) \o SubSeq(t, x + 1, y) = SubSeq(t, 1, y)
    <3> HIDE DEF x, y, t
    <3>1. 1 \in 1..(Len(t) + 1) /\ x \in (1 - 1)..Len(t) /\ y \in x..Len(t)
      BY <1>1, <1>3
    <3> QED BY <1>1, <3>1, ConcatAdjacentSubSeq
  <2> QED BY <1>4, <1>5, <2>4, <2>5 DEF BlockPrefix
<1> QED BY <1>2, <1>4, <1>5, <1>6, <1>7

\* What cache_full_blocks leaves behind: a consistent cache, in which the blocks
\* of s that became full may have got a hash, their own prefix.
LEMMA CachingEffect ==
    ASSUME IndInv, NEW s \in Seqs, num_new[s] > 0,
           CacheFullBlocks(s, computed[s] + num_new[s])
    PROVE  LET after == computed[s] + num_new[s]
               H     == HashAfterCaching(s, after)
           IN  /\ H \in [Blocks -> Seq(Tokens)]
               /\ DOMAIN cached' \subseteq Seq(Tokens) \ {NoHash}
               /\ \A h \in DOMAIN cached' : cached'[h] \in Blocks /\ H[cached'[h]] = h
               /\ \A b \in Blocks : H[b] # NoHash => H[b] \in DOMAIN cached' /\ cached'[H[b]] = b
               /\ \A b \in Blocks : H[b] = hash[b] \/
                     \E i \in DOMAIN table[s] : /\ table[s][i] = b /\ H[b] = BlockPrefix(s, i)
                                                /\ i > computed[s] \div BlockSize
                                                /\ i * BlockSize <= after
               /\ NothingCached'
<1> USE DEF IndInv
<1> DEFINE after == computed[s] + num_new[s]
           H     == HashAfterCaching(s, after)
           new   == NewlyCached(s, after)
           T     == table[s]
<1>1. /\ computed[s] \in Nat /\ num_new[s] \in Nat /\ after \in Nat
      /\ after <= NumTokens(s)
      /\ hash \in [Blocks -> Seq(Tokens)] /\ T \in Seq(Blocks)
  BY DEF TypeOK, LengthsOK
<1>2. ASSUME NEW i \in new
      PROVE  /\ i \in Nat /\ i > computed[s] \div BlockSize /\ i * BlockSize <= after
             /\ EnablePrefixCaching /\ ~ChainBroken(s)
             /\ ChainHash(s, i) \notin DOMAIN cached
             /\ i \in DOMAIN T /\ T[i] \in Blocks /\ hash[T[i]] = NoHash
  <2>1. computed[s] \div BlockSize \in Nat /\ after \div BlockSize \in Nat
    BY <1>1, DivBounds
  <2>2. /\ i \in (computed[s] \div BlockSize + 1)..(after \div BlockSize)
        /\ EnablePrefixCaching /\ ~ChainBroken(s)
        /\ \A j \in (computed[s] \div BlockSize + 1)..i : ChainHash(s, j) \notin DOMAIN cached
    BY DEF NewlyCached
  <2>3. i \in Nat /\ i > computed[s] \div BlockSize /\ i <= after \div BlockSize
    BY <2>1, <2>2
  <2>4. i \in (computed[s] \div BlockSize + 1)..i
    BY <2>1, <2>3
  <2>5. i * BlockSize <= after  BY <1>1, <2>3, FullBlocks
  <2>6. i \in DOMAIN T
    <3>1. Len(T) = NumBlocksForTokens(after)  BY DEF TableExact
    <3>2. after \div BlockSize <= NumBlocksForTokens(after)  BY <1>1, CeilAgainstFloor
    <3>3. DOMAIN T = 1..Len(T) /\ Len(T) \in Nat  BY TableFacts
    <3>4. i >= 1 /\ i <= Len(T)  BY <2>1, <2>3, <3>1, <3>2, <3>3
    <3> QED BY <2>3, <3>3, <3>4
  <2>7. hash[T[i]] = NoHash  BY <2>3, <2>6, UnfilledUnhashed
  <2> QED BY <2>2, <2>3, <2>4, <2>5, <2>6, <2>7, TableFacts
<1>3. ASSUME NEW i \in new
      PROVE  /\ ChainHash(s, i) = BlockPrefix(s, i) /\ BlockPrefix(s, i) \in Seq(Tokens)
             /\ BlockPrefix(s, i) # NoHash /\ Len(BlockPrefix(s, i)) = i * BlockSize
  <2>1. NumTokens(s) \in Nat
    <3>1. tokens[s] \in Seq(Tokens)  BY DEF TypeOK, TokenStrings
    <3> QED BY <3>1, LenProperties DEF NumTokens
  <2>2. i * BlockSize \in Int  BY <1>2, MultiplesOrdered
  <2>3. i * BlockSize <= NumTokens(s)  BY <1>1, <1>2, <2>1, <2>2
  <2> QED BY <1>2, <2>3, ChainHashIsPrefix
<1>4. \A i, j \in new : ChainHash(s, i) = ChainHash(s, j) => i = j
  <2>1. SUFFICES ASSUME NEW i \in new, NEW j \in new, ChainHash(s, i) = ChainHash(s, j)
                 PROVE  i = j
    OBVIOUS
  <2>2. i * BlockSize = j * BlockSize  BY <1>3, <2>1
  <2>3. i < j => i * BlockSize < j * BlockSize  BY <1>2, MultiplesOrdered
  <2>4. j < i => j * BlockSize < i * BlockSize  BY <1>2, MultiplesOrdered
  <2>5. i * BlockSize \in Int /\ i \in Nat /\ j \in Nat  BY <1>2, MultiplesOrdered
  <2> QED BY <2>2, <2>3, <2>4, <2>5
<1>5. \A i, j \in new : T[i] = T[j] => i = j
  BY <1>2 DEF TableInjective, IsInjective
<1>6. H = [b \in Blocks |-> IF \E i \in new : T[i] = b
                            THEN ChainHash(s, CHOOSE i \in new : T[i] = b)
                            ELSE hash[b]]
  BY DEF HashAfterCaching
<1>7. cached' = [h \in DOMAIN cached \cup {ChainHash(s, i) : i \in new} |->
                    IF h \in DOMAIN cached THEN cached[h]
                    ELSE T[CHOOSE i \in new : ChainHash(s, i) = h]]
  BY DEF CacheFullBlocks
<1> HIDE DEF H, new, T, after
<1>8. ASSUME NEW i \in new
      PROVE  H[T[i]] = ChainHash(s, i)
  <2>1. (CHOOSE j \in new : T[j] = T[i]) = i  BY <1>5
  <2> QED BY <1>2, <1>6, <2>1
<1>9. ASSUME NEW b \in Blocks, \A i \in new : T[i] # b
      PROVE  H[b] = hash[b]
  BY <1>6, <1>9
<1>10. ASSUME NEW i \in new
       PROVE  ChainHash(s, i) \in DOMAIN cached' /\ cached'[ChainHash(s, i)] = T[i]
  <2>1. (CHOOSE j \in new : ChainHash(s, j) = ChainHash(s, i)) = i  BY <1>4
  <2>2. ChainHash(s, i) \notin DOMAIN cached  BY <1>2
  <2> QED BY <1>7, <2>1, <2>2
<1>11. ASSUME NEW h \in DOMAIN cached
       PROVE  h \in DOMAIN cached' /\ cached'[h] = cached[h]
  BY <1>7
<1>12. DOMAIN cached' = DOMAIN cached \cup {ChainHash(s, i) : i \in new}  BY <1>7
<1>13. H \in [Blocks -> Seq(Tokens)]
  <2>1. ASSUME NEW b \in Blocks
        PROVE  H[b] \in Seq(Tokens)
    <3>1. CASE \E i \in new : T[i] = b  BY <1>3, <1>8, <3>1
    <3>2. CASE ~\E i \in new : T[i] = b  BY <1>1, <1>9, <3>2
    <3> QED BY <3>1, <3>2
  <2> QED BY <1>6, <2>1
<1>14. DOMAIN cached' \subseteq Seq(Tokens) \ {NoHash}
  <2>1. DOMAIN cached \subseteq Seq(Tokens) \ {NoHash}  BY DEF TypeOK
  <2>2. \A i \in new : ChainHash(s, i) \in Seq(Tokens) \ {NoHash}  BY <1>3
  <2> QED BY <1>12, <2>1, <2>2
<1>15. ASSUME NEW h \in DOMAIN cached'
       PROVE  cached'[h] \in Blocks /\ H[cached'[h]] = h
  <2>1. CASE h \in DOMAIN cached
    <3>1. cached'[h] = cached[h] /\ cached[h] \in Blocks /\ hash[cached[h]] = h /\ h # NoHash
      BY <1>11, <2>1 DEF TypeOK, CacheConsistent
    <3>2. \A i \in new : T[i] # cached[h]  BY <1>2, <3>1
    <3> QED BY <1>9, <3>1, <3>2
  <2>2. CASE h \notin DOMAIN cached
    <3>1. PICK i \in new : h = ChainHash(s, i)  BY <1>12, <2>2
    <3> QED BY <1>2, <1>8, <1>10, <3>1
  <2> QED BY <2>1, <2>2
<1>16. ASSUME NEW b \in Blocks, H[b] # NoHash
       PROVE  H[b] \in DOMAIN cached' /\ cached'[H[b]] = b
  <2>1. CASE \E i \in new : T[i] = b  BY <1>8, <1>10, <2>1
  <2>2. CASE ~\E i \in new : T[i] = b
    <3>1. H[b] = hash[b] /\ hash[b] \in DOMAIN cached /\ cached[hash[b]] = b
      BY <1>9, <1>16, <2>2 DEF CacheConsistent
    <3> QED BY <1>11, <3>1
  <2> QED BY <2>1, <2>2
<1>17. ASSUME NEW b \in Blocks
       PROVE  H[b] = hash[b] \/
                \E i \in DOMAIN T : /\ T[i] = b /\ H[b] = BlockPrefix(s, i)
                                    /\ i > computed[s] \div BlockSize
                                    /\ i * BlockSize <= after
  <2>1. CASE \E i \in new : T[i] = b
    <3>1. PICK i \in new : T[i] = b  BY <2>1
    <3>2. H[b] = BlockPrefix(s, i)  BY <1>3, <1>8, <3>1
    <3> QED BY <1>2, <3>1, <3>2
  <2>2. CASE ~\E i \in new : T[i] = b  BY <1>9, <2>2
  <2> QED BY <2>1, <2>2
<1>18. NothingCached'
  <2>1. SUFFICES ASSUME ~EnablePrefixCaching
                 PROVE  DOMAIN cached' = {}
    BY DEF NothingCached
  <2>2. new = {}  BY <1>2, <2>1
  <2>3. DOMAIN cached = {}  BY <2>1 DEF NothingCached
  <2> QED BY <1>12, <2>2, <2>3
<1> QED BY <1>13, <1>14, <1>15, <1>16, <1>17, <1>18 DEF H, T, after

\* After cache_full_blocks a hashed block is still where its prefix says: the
\* blocks that got a hash are in the table of s alone, at one place.
LEMMA CachingKeepsPlaces ==
    ASSUME IndInv, NEW s \in Seqs, num_new[s] > 0,
           CacheFullBlocks(s, computed[s] + num_new[s]),
           NEW t \in Seqs, NEW i \in DOMAIN table[t],
           HashAfterCaching(s, computed[s] + num_new[s])[table[t][i]] # NoHash
    PROVE  /\ HashAfterCaching(s, computed[s] + num_new[s])[table[t][i]] = BlockPrefix(t, i)
           /\ i * BlockSize <= IF t = s THEN computed[s] + num_new[s] ELSE computed[t]
<1> USE DEF IndInv
<1> DEFINE after == computed[s] + num_new[s]
           H     == HashAfterCaching(s, after)
           b     == table[t][i]
<1>1. computed[s] \in Nat /\ num_new[s] \in Nat /\ after \in Nat  BY DEF TypeOK
<1>2. b \in Blocks /\ b \in Range(table[t]) /\ i \in Nat
  <2>1. i \in 1..Len(table[t]) /\ Len(table[t]) \in Nat  BY TableFacts
  <2> QED BY <2>1, TableFacts
<1>3. \A a \in Blocks : H[a] = hash[a] \/
         \E j \in DOMAIN table[s] : /\ table[s][j] = a /\ H[a] = BlockPrefix(s, j)
                                    /\ j > computed[s] \div BlockSize
                                    /\ j * BlockSize <= after
  BY CachingEffect
<1> HIDE DEF H, b
<1>4. CASE H[b] = hash[b]
  <2>1. H[b] = BlockPrefix(t, i) /\ i * BlockSize <= computed[t]
    BY <1>4 DEF HashMatchesHolder, b, H
  <2>2. i * BlockSize \in Int  BY <1>2, MultiplesOrdered
  <2>3. t = s => i * BlockSize <= after  BY <1>1, <2>1, <2>2
  <2> QED BY <2>1, <2>3 DEF H, b
<1>5. CASE H[b] # hash[b]
  <2>1. PICK j \in DOMAIN table[s] : /\ table[s][j] = b /\ H[b] = BlockPrefix(s, j)
                                     /\ j > computed[s] \div BlockSize
                                     /\ j * BlockSize <= after
    BY <1>2, <1>3, <1>5
  <2>2. t = s  BY <1>2, <2>1 DEF FillsOwnBlocks, Scheduled
  <2>3. i = j  BY <2>1, <2>2 DEF TableInjective, IsInjective, b
  <2> QED BY <2>1, <2>2, <2>3 DEF H, b
<1> QED BY <1>4, <1>5

\* The results of a sequence that goes on, with or without a sampled token.
LEMMA CommitKeepsRunning ==
    ASSUME IndInv, NEW s \in Seqs, NEW after, MayCommit(s, after), Committed(s, after),
           NEW ts \in TokenStrings, after < Len(ts), Len(tokens[s]) <= Len(ts),
           \A i \in 1..Len(tokens[s]) : ts[i] = tokens[s][i],
           tokens' = [tokens EXCEPT ![s] = ts],
           computed' = [computed EXCEPT ![s] = after],
           hash' = HashAfterCaching(s, after),
           UNCHANGED <<table, ref, free>>
    PROVE  IndInv'
<1> USE DEF IndInv
<1>1. /\ num_new[s] > 0 /\ after = computed[s] + num_new[s]
      /\ CacheFullBlocks(s, after)
      /\ num_new' = [num_new EXCEPT ![s] = 0]
      /\ phase' \in {"schedule", "update"} /\ cow' = cow
  BY DEF MayCommit, Committed
<1>2. /\ computed \in [Seqs -> Nat] /\ num_new \in [Seqs -> Nat] /\ tokens \in [Seqs -> TokenStrings]
      /\ after \in Nat
  <2>1. computed \in [Seqs -> Nat] /\ num_new \in [Seqs -> Nat] /\ tokens \in [Seqs -> TokenStrings]
    BY DEF TypeOK
  <2> QED BY <1>1, <2>1
<1>3. /\ tokens'[s] = ts /\ computed'[s] = after /\ num_new'[s] = 0
      /\ \A t \in Seqs \ {s} : /\ tokens'[t] = tokens[t] /\ computed'[t] = computed[t]
                               /\ num_new'[t] = num_new[t]
  BY <1>1, <1>2
<1>4. /\ hash' \in [Blocks -> Seq(Tokens)]
      /\ DOMAIN cached' \subseteq Seq(Tokens) \ {NoHash}
      /\ \A h \in DOMAIN cached' : cached'[h] \in Blocks /\ hash'[cached'[h]] = h
      /\ \A b \in Blocks : hash'[b] # NoHash => hash'[b] \in DOMAIN cached' /\ cached'[hash'[b]] = b
      /\ NothingCached'
  BY <1>1, CachingEffect
<1>5. TypeOK'
  <2>1. /\ tokens' \in [Seqs -> TokenStrings] /\ computed' \in [Seqs -> Nat]
        /\ num_new' \in [Seqs -> Nat]
    BY <1>1, <1>2
  <2> QED BY <1>1, <1>4, <2>1 DEF TypeOK
<1>6. ts # <<>> /\ Len(ts) \in Nat /\ ts \in Seq(Tokens)
      /\ tokens[s] \in Seq(Tokens) /\ Len(tokens[s]) \in Nat
  <2>1. ts \in Seq(Tokens) /\ tokens[s] \in Seq(Tokens)  BY <1>2 DEF TokenStrings
  <2>2. Len(ts) \in Nat /\ Len(tokens[s]) \in Nat  BY <2>1, LenProperties
  <2>3. Len(ts) # 0  BY <1>2, <2>2
  <2> QED BY <2>1, <2>2, <2>3, EmptySeq
<1>7. LengthsOK'
  <2>1. ASSUME NEW t \in Seqs
        PROVE  /\ ~InUse(t)' => table'[t] = <<>> /\ computed'[t] = 0 /\ num_new'[t] = 0
               /\ InUse(t)' => computed'[t] < NumTokens(t)'
               /\ computed'[t] + num_new'[t] <= NumTokens(t)'
    <3>1. CASE t # s
      BY <1>3, <3>1 DEF LengthsOK, InUse, NumTokens
    <3>2. CASE t = s
      <4>1. after + 0 <= Len(ts)  BY <1>2, <1>6
      <4> QED BY <1>3, <1>6, <3>2, <4>1 DEF InUse, NumTokens
    <3> QED BY <3>1, <3>2
  <2> QED BY <2>1 DEF LengthsOK
<1>8. TableExact'
  <2>1. ASSUME NEW t \in Seqs
        PROVE  computed'[t] + num_new'[t] = computed[t] + num_new[t]
    <3>1. CASE t # s  BY <1>3, <3>1
    <3>2. CASE t = s
      <4>1. after + 0 = after  BY <1>2
      <4> QED BY <1>1, <1>3, <3>2, <4>1
    <3> QED BY <3>1, <3>2
  <2> QED BY <2>1 DEF TableExact
<1>9. TableInjective' /\ FreeIffUnreferenced' /\ RefCountExact'
  BY DEF TableInjective, FreeIffUnreferenced, RefCountExact, Holders
<1>10. CacheConsistent' /\ CopiesTaken'
  BY <1>1, <1>4 DEF CacheConsistent, CopiesTaken, MayCommit
<1>11. HashMatchesHolder'
  <2>1. ASSUME NEW t \in Seqs, NEW i \in DOMAIN table[t], hash'[table[t][i]] # NoHash
        PROVE  hash'[table[t][i]] = BlockPrefix(t, i)' /\ i * BlockSize <= computed'[t]
    <3>1. /\ hash'[table[t][i]] = BlockPrefix(t, i)
          /\ i * BlockSize <= IF t = s THEN after ELSE computed[t]
      BY <1>1, <2>1, CachingKeepsPlaces
    <3>2. CASE t # s  BY <1>3, <3>1, <3>2 DEF BlockPrefix
    <3>3. CASE t = s
      <4>1. i \in Nat
        <5>1. i \in 1..Len(table[t]) /\ Len(table[t]) \in Nat  BY TableFacts
        <5> QED BY <5>1
      <4> DEFINE m == i * BlockSize
      <4>2. m \in Nat /\ m <= after  BY <3>1, <3>3, <4>1, CeilOfMultiple
      <4>3. after <= Len(tokens[s])  BY <1>1 DEF LengthsOK, NumTokens
      <4> HIDE DEF m
      <4>4. m \in 0..Len(tokens[s]) /\ m <= Len(ts)  BY <1>2, <1>6, <4>2, <4>3
      <4>5. \A j \in 1..m : tokens[s][j] = ts[j]
        <5>1. \A j \in 1..m : j \in 1..Len(tokens[s])  BY <1>6, <4>2, <4>4
        <5> QED BY <5>1
      <4>6. SubSeq(tokens[s], 1, m) = SubSeq(ts, 1, m)
        BY <1>6, <4>4, <4>5, PrefixEqual
      <4> QED BY <1>3, <3>1, <3>3, <4>6 DEF BlockPrefix, m
    <3> QED BY <3>2, <3>3
  <2> QED BY <2>1 DEF HashMatchesHolder
<1>12. FillsOwnBlocks'
  <2>1. ASSUME NEW u \in Seqs, num_new'[u] > 0, NEW t \in Seqs \ {u},
               NEW i \in DOMAIN table[u], i > computed'[u] \div BlockSize
        PROVE  table[u][i] \notin Range(table[t])
    <3>1. u # s  BY <1>3, <2>1
    <3> QED BY <1>3, <2>1, <3>1 DEF FillsOwnBlocks, Scheduled
  <2> QED BY <2>1 DEF FillsOwnBlocks, Scheduled
<1> QED BY <1>4, <1>5, <1>7, <1>8, <1>9, <1>10, <1>11, <1>12

\* The results of a sequence that ends: its blocks are registered, then released.
LEMMA FinishPreserves ==
    ASSUME IndInv, NEW s \in Seqs, NEW after, MayCommit(s, after), CommitFinish(s, after)
    PROVE  IndInv'
<1> USE DEF IndInv
<1> DEFINE H == HashAfterCaching(s, after)
<1>1. /\ num_new[s] > 0 /\ after = computed[s] + num_new[s]
      /\ CacheFullBlocks(s, after) /\ FreeBlocks(s, H)
      /\ num_new' = [num_new EXCEPT ![s] = 0]
      /\ computed' = [computed EXCEPT ![s] = 0]
      /\ tokens' = [tokens EXCEPT ![s] = <<>>]
      /\ phase' \in {"schedule", "update"} /\ cow' = cow
  BY DEF MayCommit, CommitFinish, Committed
<1>2. computed \in [Seqs -> Nat] /\ num_new \in [Seqs -> Nat] /\ tokens \in [Seqs -> TokenStrings]
  BY DEF TypeOK
<1>3. /\ tokens'[s] = <<>> /\ computed'[s] = 0 /\ num_new'[s] = 0
      /\ \A t \in Seqs \ {s} : /\ tokens'[t] = tokens[t] /\ computed'[t] = computed[t]
                               /\ num_new'[t] = num_new[t]
  BY <1>1, <1>2
<1>4. /\ H \in [Blocks -> Seq(Tokens)]
      /\ DOMAIN cached' \subseteq Seq(Tokens) \ {NoHash}
      /\ \A h \in DOMAIN cached' : cached'[h] \in Blocks /\ H[cached'[h]] = h
      /\ \A b \in Blocks : H[b] # NoHash => H[b] \in DOMAIN cached' /\ cached'[H[b]] = b
      /\ NothingCached'
  BY <1>1, CachingEffect
<1>5. /\ ref' \in [Blocks -> Nat] /\ table' \in [Seqs -> Seq(Blocks)]
      /\ free' \in Seq(Blocks)
      /\ table'[s] = <<>> /\ \A t \in Seqs \ {s} : table'[t] = table[t]
      /\ FreeIffUnreferenced' /\ RefCountExact' /\ TableInjective'
  BY <1>1, FreeKeepsBooks
<1>6. hash' = H
  <2> HIDE DEF H
  <2>1. H = [b \in Blocks |-> H[b]]  BY <1>4
  <2>2. CASE EnablePrefixCaching  BY <1>1, <2>2 DEF FreeBlocks
  <2>3. CASE ~EnablePrefixCaching
    <3>1. \A b \in Blocks : H[b] = NoHash  BY <1>4, <2>3 DEF NothingCached
    <3>2. hash' = [b \in Blocks |-> IF b \in LastHeldBy(s) THEN NoHash ELSE H[b]]
      BY <1>1, <2>3 DEF FreeBlocks
    <3>3. hash' = [b \in Blocks |-> H[b]]  BY <3>1, <3>2
    <3> QED BY <2>1, <3>3
  <2> QED BY <2>2, <2>3
<1>7. ASSUME NEW t \in Seqs \ {s}, NEW i \in DOMAIN table[t], hash'[table[t][i]] # NoHash
      PROVE  hash'[table[t][i]] = BlockPrefix(t, i) /\ i * BlockSize <= computed[t]
  BY <1>1, <1>6, <1>7, CachingKeepsPlaces
<1> HIDE DEF H
<1>8. <<>> \in TokenStrings /\ Len(<<>>) = 0
  BY EmptySeq, LengthAssumption DEF TokenStrings
<1>9. TypeOK'
  <2>1. /\ tokens' \in [Seqs -> TokenStrings] /\ computed' \in [Seqs -> Nat]
        /\ num_new' \in [Seqs -> Nat]
    BY <1>1, <1>2, <1>8
  <2> QED BY <1>1, <1>4, <1>5, <1>6, <2>1 DEF TypeOK
<1>10. LengthsOK'
  <2>1. ASSUME NEW t \in Seqs
        PROVE  /\ ~InUse(t)' => table'[t] = <<>> /\ computed'[t] = 0 /\ num_new'[t] = 0
               /\ InUse(t)' => computed'[t] < NumTokens(t)'
               /\ computed'[t] + num_new'[t] <= NumTokens(t)'
    <3>1. CASE t # s  BY <1>3, <1>5, <3>1 DEF LengthsOK, InUse, NumTokens
    <3>2. CASE t = s  BY <1>3, <1>5, <1>8, <3>2 DEF InUse, NumTokens
    <3> QED BY <3>1, <3>2
  <2> QED BY <2>1 DEF LengthsOK
<1>11. TableExact'
  <2>1. Len(<<>>) = NumBlocksForTokens(0 + 0)
    BY <1>8, CeilOfMultiple, PoolAssumption
  <2>2. ASSUME NEW t \in Seqs
        PROVE  Len(table'[t]) = NumBlocksForTokens(computed'[t] + num_new'[t])
    <3>1. CASE t = s  BY <1>3, <1>5, <2>1, <3>1
    <3>2. CASE t # s  BY <1>3, <1>5, <3>2 DEF TableExact
    <3> QED BY <3>1, <3>2
  <2> QED BY <2>2 DEF TableExact
<1>12. CacheConsistent' /\ CopiesTaken'
  BY <1>1, <1>4, <1>6 DEF CacheConsistent, CopiesTaken, MayCommit
<1>13. HashMatchesHolder'
  <2>1. ASSUME NEW t \in Seqs, NEW i \in DOMAIN table'[t], hash'[table'[t][i]] # NoHash
        PROVE  hash'[table'[t][i]] = BlockPrefix(t, i)' /\ i * BlockSize <= computed'[t]
    <3>1. t # s  BY <1>5, <2>1
    <3>2. table'[t] = table[t] /\ tokens'[t] = tokens[t] /\ computed'[t] = computed[t]
      BY <1>3, <1>5, <3>1
    <3>3. i \in DOMAIN table[t] /\ hash'[table[t][i]] # NoHash  BY <2>1, <3>2
    <3>4. hash'[table[t][i]] = BlockPrefix(t, i) /\ i * BlockSize <= computed[t]
      BY <1>7, <3>1, <3>3
    <3> QED BY <3>2, <3>4 DEF BlockPrefix
  <2> QED BY <2>1 DEF HashMatchesHolder
<1>14. FillsOwnBlocks'
  <2>1. ASSUME NEW u \in Seqs, num_new'[u] > 0, NEW t \in Seqs \ {u},
               NEW i \in DOMAIN table'[u], i > computed'[u] \div BlockSize
        PROVE  table'[u][i] \notin Range(table'[t])
    <3>1. u # s /\ num_new[u] > 0  BY <1>3, <2>1
    <3>2. Range(<<>>) = {}  BY DEF Range
    <3>3. CASE t = s  BY <1>5, <3>2, <3>3
    <3>4. CASE t # s
      BY <1>3, <1>5, <2>1, <3>1, <3>4 DEF FillsOwnBlocks, Scheduled
    <3> QED BY <3>3, <3>4
  <2> QED BY <2>1 DEF FillsOwnBlocks, Scheduled
<1> QED BY <1>4, <1>5, <1>9, <1>10, <1>11, <1>12, <1>13, <1>14

\* Any results, whatever the token and whether or not the request ends.
LEMMA CommitPreserves ==
    ASSUME IndInv, NEW s \in Seqs, Commit(s)
    PROVE  IndInv'
<1> USE DEF IndInv
<1>1. PICK after \in 1..MaxModelLen :
         /\ MayCommit(s, after)
         /\ \/ after < NumTokens(s) /\ CommitWatermark(s, after)
            \/ /\ after = NumTokens(s) /\ after + 1 < MaxModelLen
               /\ \E t \in SampledTokens : CommitToken(s, after, t)
            \/ after = NumTokens(s) /\ CommitFinish(s, after)
  BY DEF Commit
<1>2. after \in Nat /\ MaxModelLen \in Nat  BY LengthAssumption
<1>3. tokens \in [Seqs -> TokenStrings] /\ tokens[s] \in Seq(Tokens) /\ Len(tokens[s]) \in Nat
  <2>1. tokens \in [Seqs -> TokenStrings] /\ tokens[s] \in Seq(Tokens)  BY DEF TypeOK, TokenStrings
  <2> QED BY <2>1, LenProperties
<1>4. CASE after < NumTokens(s) /\ CommitWatermark(s, after)
  <2> DEFINE ts == tokens[s]
  <2>1. ts \in TokenStrings /\ tokens' = [tokens EXCEPT ![s] = ts]
    BY <1>3, <1>4 DEF CommitWatermark
  <2>2. /\ Committed(s, after) /\ computed' = [computed EXCEPT ![s] = after]
        /\ hash' = HashAfterCaching(s, after) /\ UNCHANGED <<table, ref, free>>
    BY <1>4 DEF CommitWatermark
  <2>3. after < Len(ts) /\ Len(tokens[s]) <= Len(ts) /\ \A i \in 1..Len(tokens[s]) : ts[i] = tokens[s][i]
    BY <1>3, <1>4 DEF NumTokens
  <2> HIDE DEF ts
  <2> QED BY <1>1, <2>1, <2>2, <2>3, CommitKeepsRunning
<1>5. CASE /\ after = NumTokens(s) /\ after + 1 < MaxModelLen
           /\ \E t \in SampledTokens : CommitToken(s, after, t)
  <2>1. PICK t \in SampledTokens : CommitToken(s, after, t)  BY <1>5
  <2> DEFINE ts == Append(tokens[s], t)
  <2>2. t \in Tokens  BY SampledAssumption
  <2>3. /\ ts \in Seq(Tokens) /\ Len(ts) = Len(tokens[s]) + 1
        /\ \A i \in 1..Len(tokens[s]) : ts[i] = tokens[s][i]
    BY <1>3, <2>2, AppendProperties
  <2>4. tokens' = [tokens EXCEPT ![s] = ts]  BY <2>1 DEF CommitToken
  <2>5. /\ Committed(s, after) /\ computed' = [computed EXCEPT ![s] = after]
        /\ hash' = HashAfterCaching(s, after) /\ UNCHANGED <<table, ref, free>>
    BY <2>1 DEF CommitToken
  <2> HIDE DEF ts
  <2>6. after < Len(ts) /\ Len(tokens[s]) <= Len(ts) /\ Len(ts) <= MaxModelLen
    BY <1>2, <1>3, <1>5, <2>3 DEF NumTokens
  <2>7. ts \in TokenStrings  BY <2>3, <2>6 DEF TokenStrings
  <2> QED BY <1>1, <2>3, <2>4, <2>5, <2>6, <2>7, CommitKeepsRunning
<1>6. CASE after = NumTokens(s) /\ CommitFinish(s, after)
  BY <1>1, <1>6, FinishPreserves
<1> QED BY <1>1, <1>4, <1>5, <1>6

-----------------------------------------------------------------------------
(* Requests and forks.                                                       *)

\* A new request holds nothing yet.
LEMMA AddPreserves ==
    ASSUME IndInv, NEW s \in Seqs, NEW p \in Prompts, Add(s, p)
    PROVE  IndInv'
<1> USE DEF IndInv
<1>1. /\ ~InUse(s) /\ tokens' = [tokens EXCEPT ![s] = p]
      /\ UNCHANGED <<computed, table, num_new, phase, poolVars>>
  BY DEF Add
<1>2. /\ p \in Seq(Tokens) /\ Len(p) \in Nat /\ Len(p) > 0 /\ p \in TokenStrings
      /\ tokens \in [Seqs -> TokenStrings]
  <2>1. p \in Seq(Tokens) /\ Len(p) \in 1..(MaxModelLen - 1)  BY PromptsAssumption
  <2>2. Len(p) \in Nat /\ Len(p) > 0 /\ Len(p) <= MaxModelLen  BY <2>1, LengthAssumption
  <2> QED BY <2>1, <2>2 DEF TypeOK, TokenStrings
<1>3. tokens'[s] = p /\ \A t \in Seqs \ {s} : tokens'[t] = tokens[t]  BY <1>1, <1>2
<1>4. table[s] = <<>> /\ computed[s] = 0 /\ num_new[s] = 0  BY <1>1 DEF LengthsOK
<1>5. TypeOK'
  <2>1. tokens' \in [Seqs -> TokenStrings]  BY <1>1, <1>2
  <2> QED BY <1>1, <2>1 DEF TypeOK, poolVars
<1>6. LengthsOK'
  <2>1. ASSUME NEW t \in Seqs
        PROVE  /\ ~InUse(t)' => table'[t] = <<>> /\ computed'[t] = 0 /\ num_new'[t] = 0
               /\ InUse(t)' => computed'[t] < NumTokens(t)'
               /\ computed'[t] + num_new'[t] <= NumTokens(t)'
    <3>1. CASE t # s  BY <1>1, <1>3, <3>1 DEF LengthsOK, InUse, NumTokens
    <3>2. CASE t = s  BY <1>1, <1>2, <1>3, <1>4, <3>2 DEF InUse, NumTokens
    <3> QED BY <3>1, <3>2
  <2> QED BY <2>1 DEF LengthsOK
<1>7. TableExact' /\ TableInjective' /\ NothingCached'
  BY <1>1 DEF TableExact, TableInjective, NothingCached, poolVars
<1>8. FreeIffUnreferenced' /\ RefCountExact'
  BY <1>1 DEF FreeIffUnreferenced, RefCountExact, Holders, poolVars
<1>9. CacheConsistent' /\ FillsOwnBlocks' /\ CopiesTaken'
  BY <1>1 DEF CacheConsistent, FillsOwnBlocks, Scheduled, CopiesTaken, poolVars
<1>10. HashMatchesHolder'
  <2>1. ASSUME NEW t \in Seqs, NEW i \in DOMAIN table[t], hash[table[t][i]] # NoHash
        PROVE  hash[table[t][i]] = BlockPrefix(t, i)' /\ i * BlockSize <= computed[t]
    <3>1. t # s  BY <1>4, <2>1
    <3> QED BY <1>3, <2>1, <3>1 DEF HashMatchesHolder, BlockPrefix
  <2> QED BY <1>1, <2>1 DEF HashMatchesHolder, poolVars
<1> QED BY <1>5, <1>6, <1>7, <1>8, <1>9, <1>10

\* A fork shares the parent's blocks up to its watermark.
LEMMA ForkPreserves ==
    ASSUME IndInv, NEW p \in Seqs, NEW c \in Seqs, Fork(p, c)
    PROVE  IndInv'
<1> USE DEF IndInv
<1>1. PICK ts \in Branches(p) : MayFork(p, c) /\ ForkBlocks(p, c, ts)
  BY DEF Fork
<1> DEFINE T == table[p]
           w == computed[p]
<1>2. /\ InUse(p) /\ ~InUse(c) /\ p # c
      /\ tokens' = [tokens EXCEPT ![c] = ts] /\ table' = [table EXCEPT ![c] = T]
      /\ computed' = [computed EXCEPT ![c] = w]
      /\ ref' = [b \in Blocks |-> IF b \in Range(T) THEN ref[b] + 1 ELSE ref[b]]
      /\ UNCHANGED <<num_new, phase, hash, free, cached, cow>>
  BY <1>1 DEF MayFork, ForkBlocks
<1>3. \A t \in Seqs : num_new[t] = 0
  <2>1. \A t \in Seqs : num_new[t] \in Nat /\ ~(num_new[t] > 0)
    BY <1>1 DEF MayFork, BetweenSteps, Scheduled, TypeOK
  <2> QED BY <2>1
<1>4. /\ computed \in [Seqs -> Nat] /\ tokens \in [Seqs -> TokenStrings] /\ table \in [Seqs -> Seq(Blocks)]
      /\ ref \in [Blocks -> Nat]
      /\ tokens[p] \in Seq(Tokens) /\ Len(tokens[p]) \in Nat /\ Len(tokens[p]) <= MaxModelLen
      /\ w \in Nat /\ w < Len(tokens[p])
  <2>1. /\ computed \in [Seqs -> Nat] /\ tokens \in [Seqs -> TokenStrings] /\ table \in [Seqs -> Seq(Blocks)]
        /\ ref \in [Blocks -> Nat]
    BY DEF TypeOK
  <2>2. tokens[p] \in Seq(Tokens) /\ Len(tokens[p]) <= MaxModelLen  BY <2>1 DEF TokenStrings
  <2> QED BY <1>2, <2>1, <2>2, LenProperties DEF LengthsOK, NumTokens
<1>5. /\ ts \in TokenStrings /\ ts \in Seq(Tokens) /\ Len(ts) \in Nat /\ w < Len(ts)
      /\ \A i \in 1..w : ts[i] = tokens[p][i]
  <2>1. CASE ts = tokens[p]  BY <1>4, <2>1
  <2>2. CASE ts # tokens[p]
    <3>1. PICK x \in Tokens : ts = Append(SubSeq(tokens[p], 1, w), x)
      BY <2>2 DEF Branches
    <3> DEFINE q == SubSeq(tokens[p], 1, w)
    <3>2. w \in 0..Len(tokens[p])  BY <1>4
    <3>3. q \in Seq(Tokens) /\ Len(q) = w /\ \A i \in 1..w : q[i] = tokens[p][i]
      BY <1>4, <3>2, PrefixLaws
    <3>4. ts = Append(q, x)  BY <3>1
    <3> HIDE DEF q
    <3>5. /\ ts \in Seq(Tokens) /\ Len(ts) = w + 1
          /\ \A i \in 1..w : ts[i] = q[i]
      BY <3>3, <3>4, AppendProperties
    <3>6. w + 1 <= MaxModelLen /\ w + 1 \in Nat /\ w < w + 1  BY <1>4, LengthAssumption
    <3> QED BY <3>3, <3>5, <3>6 DEF TokenStrings
  <2> QED BY <2>1, <2>2
<1>6. table[c] = <<>> /\ Range(<<>>) = {}  BY <1>2 DEF LengthsOK, Range
<1>7. /\ tokens'[c] = ts /\ computed'[c] = w /\ table'[c] = T
      /\ \A t \in Seqs \ {c} : /\ tokens'[t] = tokens[t] /\ computed'[t] = computed[t]
                               /\ table'[t] = table[t]
  BY <1>2, <1>4
<1>8. \A b \in Range(T) : b \in Blocks /\ ref[b] > 0  BY TableFacts, HolderCounts
<1> HIDE DEF T, w
<1>9. ASSUME NEW b \in Blocks
      PROVE  ref'[b] \in Nat /\ (ref'[b] = 0 <=> ref[b] = 0)
  <2>1. ref[b] \in Nat  BY <1>4
  <2>2. CASE b \in Range(T)
    <3>1. ref'[b] = ref[b] + 1 /\ ref[b] > 0  BY <1>2, <1>8, <2>2
    <3> QED BY <2>1, <3>1
  <2>3. CASE b \notin Range(T)  BY <1>2, <2>1, <2>3
  <2> QED BY <2>2, <2>3
<1>10. TypeOK'
  <2>1. T \in Seq(Blocks)  BY <1>4 DEF T
  <2>2. /\ tokens' \in [Seqs -> TokenStrings] /\ computed' \in [Seqs -> Nat]
        /\ table' \in [Seqs -> Seq(Blocks)]
    BY <1>2, <1>4, <1>5, <2>1 DEF w
  <2>3. ref' \in [Blocks -> Nat]  BY <1>2, <1>9
  <2> QED BY <1>2, <2>2, <2>3 DEF TypeOK
<1>11. LengthsOK'
  <2>1. ASSUME NEW t \in Seqs
        PROVE  /\ ~InUse(t)' => table'[t] = <<>> /\ computed'[t] = 0 /\ num_new'[t] = 0
               /\ InUse(t)' => computed'[t] < NumTokens(t)'
               /\ computed'[t] + num_new'[t] <= NumTokens(t)'
    <3>1. CASE t # c  BY <1>2, <1>7, <3>1 DEF LengthsOK, InUse, NumTokens
    <3>2. CASE t = c
      <4>1. ts # <<>>
        <5>1. Len(<<>>) = 0  OBVIOUS
        <5> QED BY <1>4, <1>5, <5>1 DEF w
      <4>2. num_new'[c] = 0 /\ w + 0 <= Len(ts)  BY <1>2, <1>3, <1>4, <1>5 DEF w
      <4> QED BY <1>5, <1>7, <3>2, <4>1, <4>2 DEF InUse, NumTokens
    <3> QED BY <3>1, <3>2
  <2> QED BY <2>1 DEF LengthsOK
<1>12. TableExact'
  <2>1. ASSUME NEW t \in Seqs
        PROVE  Len(table'[t]) = NumBlocksForTokens(computed'[t] + num_new'[t])
    <3>1. CASE t # c  BY <1>2, <1>7, <3>1 DEF TableExact
    <3>2. CASE t = c
      <4>1. num_new[p] = 0 /\ num_new'[c] = 0  BY <1>2, <1>3
      <4> QED BY <1>7, <3>2, <4>1 DEF TableExact, T, w
    <3> QED BY <3>1, <3>2
  <2> QED BY <2>1 DEF TableExact
<1>13. TableInjective'
  <2>1. ASSUME NEW t \in Seqs
        PROVE  IsInjective(table'[t])
    <3>1. CASE t # c  BY <1>7, <3>1 DEF TableInjective
    <3>2. CASE t = c  BY <1>7, <3>2 DEF TableInjective, T
    <3> QED BY <3>1, <3>2
  <2> QED BY <2>1 DEF TableInjective
<1>14. FreeIffUnreferenced'  BY <1>2, <1>9 DEF FreeIffUnreferenced
<1>15. RefCountExact'
  <2>1. \A b \in Blocks :
           ref'[b] = IF b \in Range(T)
                     THEN IF b \in Range(table[c]) THEN ref[b] ELSE ref[b] + 1
                     ELSE IF b \in Range(table[c]) THEN ref[b] - 1 ELSE ref[b]
    BY <1>2, <1>6
  <2>2. RefCountExact /\ table \in [Seqs -> Seq(Blocks)]  BY <1>4
  <2>3. table' = [table EXCEPT ![c] = T]  BY <1>2
  <2> HIDE DEF IndInv
  <2> QED BY <2>1, <2>2, <2>3, RefCountStep
<1>16. CacheConsistent' /\ NothingCached' /\ CopiesTaken'
  BY <1>2 DEF CacheConsistent, NothingCached, CopiesTaken
<1>17. HashMatchesHolder'
  <2>1. ASSUME NEW t \in Seqs, NEW i \in DOMAIN table'[t], hash'[table'[t][i]] # NoHash
        PROVE  hash'[table'[t][i]] = BlockPrefix(t, i)' /\ i * BlockSize <= computed'[t]
    <3>1. CASE t # c
      BY <1>2, <1>7, <2>1, <3>1 DEF HashMatchesHolder, BlockPrefix
    <3>2. CASE t = c
      <4>1. i \in DOMAIN table[p] /\ table'[t][i] = table[p][i]  BY <1>7, <3>2 DEF T
      <4>2. hash[table[p][i]] = BlockPrefix(p, i) /\ i * BlockSize <= w
        BY <1>2, <2>1, <4>1 DEF HashMatchesHolder, w
      <4>3. i \in Nat
        <5>1. i \in 1..Len(table[p]) /\ Len(table[p]) \in Nat  BY <4>1, TableFacts
        <5> QED BY <5>1
      <4> DEFINE m == i * BlockSize
      <4>4. m \in Nat /\ m <= w  BY <4>2, <4>3, CeilOfMultiple
      <4> HIDE DEF m
      <4>5. m \in 0..Len(tokens[p]) /\ m <= Len(ts)  BY <1>4, <1>5, <4>4 DEF w
      <4>6. \A j \in 1..m : tokens[p][j] = ts[j]
        <5>1. \A j \in 1..m : j \in 1..w  BY <1>4, <4>4 DEF w
        <5> QED BY <1>5, <5>1
      <4>7. SubSeq(tokens[p], 1, m) = SubSeq(ts, 1, m)
        BY <1>4, <1>5, <4>5, <4>6, PrefixEqual
      <4> QED BY <1>2, <1>7, <3>2, <4>1, <4>2, <4>7 DEF BlockPrefix, m
    <3> QED BY <3>1, <3>2
  <2> QED BY <2>1 DEF HashMatchesHolder
<1>18. FillsOwnBlocks'
  <2>1. Scheduled' = {}  BY <1>2, <1>3 DEF Scheduled
  <2> QED BY <2>1 DEF FillsOwnBlocks
<1> QED BY <1>10, <1>11, <1>12, <1>13, <1>14, <1>15, <1>16, <1>17, <1>18

-----------------------------------------------------------------------------
(* The theorems.                                                             *)

\* At the start every block is free and no table holds any.
LEMMA InitIndInv == BMInit => IndInv
<1> SUFFICES ASSUME BMInit PROVE IndInv
  OBVIOUS
<1> USE DEF BMInit
<1>1. <<>> \in TokenStrings /\ <<>> \in Seq(Blocks) /\ <<>> \in Seq(Tokens)
      /\ <<>> \in Seq(Blocks \X Blocks) /\ Len(<<>>) = 0 /\ DOMAIN <<>> = {} /\ Range(<<>>) = {}
  BY EmptySeq, LengthAssumption DEF TokenStrings, Range
<1>2. NumBlocks \in Nat /\ Blocks = 0..(NumBlocks - 1)  BY PoolAssumption DEF Blocks
<1>3. free \in Seq(Blocks) /\ DOMAIN free = 1..NumBlocks
  <2>1. \A i \in 1..NumBlocks : i - 1 \in Blocks  BY <1>2
  <2>2. free \in [1..NumBlocks -> Blocks]  BY <2>1
  <2> QED BY <1>2, <2>2, SeqDef
<1>4. IsInjective(free)
  <2>1. \A i, j \in 1..NumBlocks : i - 1 = j - 1 => i = j  BY <1>2
  <2> QED BY <1>3, <2>1 DEF IsInjective
<1>5. Range(free) = Blocks
  <2>1. \A b \in Blocks : b + 1 \in 1..NumBlocks /\ (b + 1) - 1 = b  BY <1>2
  <2>2. \A b \in Blocks : b \in Range(free)
    <3> TAKE b \in Blocks
    <3>1. free[b + 1] = b /\ b + 1 \in DOMAIN free  BY <1>3, <2>1
    <3> QED BY <3>1 DEF Range
  <2>3. \A i \in 1..NumBlocks : free[i] \in Blocks  BY <1>2
  <2>4. Range(free) \subseteq Blocks  BY <1>3, <2>3 DEF Range
  <2> QED BY <2>2, <2>4
<1>6. TypeOK  BY <1>1, <1>3 DEF TypeOK, NoHash
<1>7. LengthsOK  BY <1>1 DEF LengthsOK, InUse, NumTokens
<1>8. TableExact
  <2>1. Len(<<>>) = NumBlocksForTokens(0 + 0)  BY <1>1, CeilOfMultiple, PoolAssumption
  <2> QED BY <2>1 DEF TableExact
<1>9. TableInjective  BY <1>1 DEF TableInjective, IsInjective
<1>10. NothingCached /\ CacheConsistent  BY <1>1 DEF NothingCached, CacheConsistent
<1>11. FreeIffUnreferenced  BY <1>4, <1>5 DEF FreeIffUnreferenced
<1>12. RefCountExact
  <2>1. ASSUME NEW b \in Blocks
        PROVE  ref[b] = Cardinality(Holders(b))
    <3>1. Holders(b) = {}  BY <1>1 DEF Holders
    <3> QED BY <3>1, FS_EmptySet
  <2> QED BY <2>1 DEF RefCountExact
<1>13. HashMatchesHolder /\ FillsOwnBlocks /\ CopiesTaken
  BY <1>1 DEF HashMatchesHolder, FillsOwnBlocks, Scheduled, CopiesTaken
<1> QED BY <1>6, <1>7, <1>8, <1>9, <1>10, <1>11, <1>12, <1>13 DEF IndInv

\* The forward pass takes the pending copies and touches nothing else.
LEMMA RunPreserves ==
    ASSUME IndInv, Run
    PROVE  IndInv'
<1> USE DEF IndInv
<1>1. phase' = "update" /\ cow' = <<>> /\ UNCHANGED <<tokens, computed, table, num_new, ref, hash, free, cached>>
  BY DEF Run, TakePendingCopies, seqVars
<1>2. TypeOK'  BY <1>1, EmptySeq DEF TypeOK
<1>3. LengthsOK' /\ TableExact' /\ TableInjective' /\ NothingCached'
  BY <1>1 DEF LengthsOK, TableExact, TableInjective, NothingCached, InUse, NumTokens
<1>4. FreeIffUnreferenced' /\ RefCountExact' /\ CacheConsistent'
  BY <1>1 DEF FreeIffUnreferenced, RefCountExact, Holders, CacheConsistent
<1>5. HashMatchesHolder' /\ FillsOwnBlocks' /\ CopiesTaken'
  BY <1>1 DEF HashMatchesHolder, FillsOwnBlocks, Scheduled, BlockPrefix, CopiesTaken
<1> QED BY <1>2, <1>3, <1>4, <1>5

\* Every step of the block manager and its client preserves the invariant.
LEMMA StepPreserves ==
    ASSUME IndInv, [BMNext]_bmVars
    PROVE  IndInv'
<1>1. ASSUME NEW s \in Seqs, NEW p \in Prompts, Add(s, p) PROVE IndInv'
  BY <1>1, AddPreserves
<1>2. ASSUME NEW s \in Seqs, Admit(s) PROVE IndInv'     BY <1>2, AdmitPreserves
<1>3. ASSUME NEW s \in Seqs, Continue(s) PROVE IndInv'  BY <1>3, ContinuePreserves
<1>4. ASSUME NEW s \in Seqs, RollBack(s) PROVE IndInv'  BY <1>4, RollBackPreserves
<1>5. ASSUME NEW s \in Seqs, Preempt(s) PROVE IndInv'   BY <1>5, PreemptPreserves
<1>6. ASSUME NEW s \in Seqs, Abort(s) PROVE IndInv'     BY <1>6, AbortPreserves
<1>7. ASSUME NEW p \in Seqs, NEW c \in Seqs, Fork(p, c) PROVE IndInv'
  BY <1>7, ForkPreserves
<1>8. ASSUME NEW s \in Seqs, Commit(s) PROVE IndInv'    BY <1>8, CommitPreserves
<1>9. ASSUME Run PROVE IndInv'                          BY <1>9, RunPreserves
<1>10. ASSUME UNCHANGED bmVars PROVE IndInv'
  BY <1>10 DEF bmVars, seqVars, poolVars, IndInv, TypeOK, LengthsOK, TableExact, TableInjective,
               NothingCached, FreeIffUnreferenced, RefCountExact, Holders, CacheConsistent,
               HashMatchesHolder, FillsOwnBlocks, Scheduled, BlockPrefix, InUse, NumTokens, CopiesTaken
<1> QED BY <1>1, <1>2, <1>3, <1>4, <1>5, <1>6, <1>7, <1>8, <1>9, <1>10 DEF BMNext, PoolNext

\* IndInv holds in every state the block manager can reach, for any number of
\* sequences and blocks, any block size and length limit, with and without
\* prefix caching (block_manager.py, under the client contract of BMNext).
THEOREM IndInvHolds == BMSpec => []IndInv
<1>1. BMInit => IndInv  BY InitIndInv
<1>2. IndInv /\ [BMNext]_bmVars => IndInv'  BY StepPreserves
<1> QED BY <1>1, <1>2, PTL DEF BMSpec

\* Every variable keeps its type.
THEOREM TypeOKHolds == BMSpec => []TypeOK
<1>1. IndInv => TypeOK  BY DEF IndInv
<1> QED BY <1>1, IndInvHolds, PTL

\* A block's reference count is the number of block tables that contain it, in
\* every history of admissions, copies, forks, roll-backs and releases.
THEOREM RefCountExactHolds == BMSpec => []RefCountExact
<1>1. IndInv => RefCountExact  BY DEF IndInv
<1> QED BY <1>1, IndInvHolds, PTL

\* The free queue holds exactly the unreferenced blocks, each once: no block is
\* lost, and _allocate_block never pops one in use.
THEOREM FreeIffUnreferencedHolds == BMSpec => []FreeIffUnreferenced
<1>1. IndInv => FreeIffUnreferenced  BY DEF IndInv
<1> QED BY <1>1, IndInvHolds, PTL

\* The hash map and the blocks' hashes never disagree.
THEOREM CacheConsistentHolds == BMSpec => []CacheConsistent
<1>1. IndInv => CacheConsistent  BY DEF IndInv
<1> QED BY <1>1, IndInvHolds, PTL

\* A hashed block is only ever found in tables whose computed tokens have the
\* prefix it was hashed from.
THEOREM HashMatchesHolderHolds == BMSpec => []HashMatchesHolder
<1>1. IndInv => HashMatchesHolder  BY DEF IndInv
<1> QED BY <1>1, IndInvHolds, PTL

\* A table covers the computed and scheduled tokens exactly.
THEOREM TableExactHolds == BMSpec => []TableExact
<1>1. IndInv => TableExact  BY DEF IndInv
<1> QED BY <1>1, IndInvHolds, PTL

\* A block that this step's forward writes into is in the table, past the full
\* blocks.
LEMMA WrittenLaws ==
    ASSUME IndInv, NEW s \in Seqs, NEW b \in WrittenBlocks(s)
    PROVE  \E i \in DOMAIN table[s] : table[s][i] = b /\ i > computed[s] \div BlockSize
<1> USE DEF IndInv
<1> DEFINE c == computed[s]
           n == num_new[s]
<1>1. c \in Nat /\ n \in Nat  BY DEF TypeOK
<1>2. PICK j \in 0..(n - 1) : b = table[s][(c + j) \div BlockSize + 1]
  BY DEF WrittenBlocks
<1> DEFINE d == (c + j) \div BlockSize
           f == c \div BlockSize
           a == NumBlocksForTokens(c + n)
<1>3. j \in Nat /\ j < n /\ c + j \in Nat /\ c + n \in Nat /\ c + j < c + n  BY <1>1, <1>2
<1>4. d \in Nat /\ d * BlockSize <= c + j /\ c + j < (d + 1) * BlockSize  BY <1>3, DivBounds
<1>5. f \in Nat /\ f * BlockSize <= c  BY <1>1, DivBounds
<1>6. a \in Nat /\ c + n <= a * BlockSize  BY <1>3, CeilBounds
<1>7. Len(table[s]) = a  BY DEF TableExact
<1> HIDE DEF d, f, a
<1>8. d < a
  <2>1. d * BlockSize \in Int /\ a * BlockSize \in Int  BY <1>4, <1>6, MultiplesOrdered
  <2>2. d * BlockSize < a * BlockSize  BY <1>3, <1>4, <1>6, <2>1
  <2> QED BY <1>4, <1>6, <2>2, MultiplesOrdered
<1>9. f < d + 1
  <2>1. f * BlockSize \in Int /\ (d + 1) * BlockSize \in Int  BY <1>4, <1>5, MultiplesOrdered
  <2>2. f * BlockSize < (d + 1) * BlockSize  BY <1>1, <1>3, <1>4, <1>5, <2>1
  <2>3. d + 1 \in Int  BY <1>4
  <2> QED BY <1>5, <2>2, <2>3, MultiplesOrdered
<1>10. d + 1 \in DOMAIN table[s]
  <2>1. d + 1 \in 1..Len(table[s])  BY <1>4, <1>6, <1>7, <1>8
  <2> QED BY <2>1, TableFacts
<1>11. b = table[s][d + 1]  BY <1>2 DEF d
<1>12. d + 1 > c \div BlockSize  BY <1>4, <1>5, <1>9 DEF f
<1> QED BY <1>10, <1>11, <1>12

\* A forward pass never writes into a block that another sequence holds or that
\* the prefix cache offers (allocate_slots' copy-on-write, _allocate_block's
\* eviction): sharing cannot let one request overwrite another's KV.
THEOREM WritesExclusiveHolds == BMSpec => []WritesExclusive
<1>1. ASSUME IndInv, NEW s \in Scheduled, NEW b \in WrittenBlocks(s)
      PROVE  ref[b] = 1 /\ hash[b] = NoHash
  <2> USE <1>1 DEF IndInv
  <2>1. s \in Seqs  BY DEF Scheduled
  <2>2. PICK i \in DOMAIN table[s] : table[s][i] = b /\ i > computed[s] \div BlockSize
    BY <2>1, WrittenLaws
  <2>3. b \in Blocks /\ b \in Range(table[s])  BY <2>1, <2>2, TableFacts
  <2>4. Holders(b) = {s}
    BY <2>1, <2>2, <2>3 DEF FillsOwnBlocks, Holders
  <2>5. ref[b] = 1  BY <2>3, <2>4, FS_Singleton DEF RefCountExact
  <2>6. hash[b] = NoHash  BY <2>1, <2>2, UnfilledUnhashed
  <2> QED BY <2>5, <2>6
<1>2. IndInv => WritesExclusive  BY <1>1 DEF WritesExclusive
<1> QED BY <1>2, IndInvHolds, PTL
=============================================================================
