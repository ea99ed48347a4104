--------------------------- MODULE AttentionProofs ---------------------------
(***************************************************************************)
(* The three attention backends read the same keys, for every context       *)
(* length, number of new tokens, tile size and block size.                  *)
(***************************************************************************)
EXTENDS Attention, FiniteSetTheorems, FunctionTheorems, SequenceTheorems, WellFoundedInduction, TLAPS

-----------------------------------------------------------------------------
\* A bounded, non-empty set of integers has a maximum.
LEMMA MaximumExists ==
    ASSUME NEW S \in SUBSET Int, S # {}, NEW n \in Int, \A x \in S : x <= n
    PROVE  \E x \in S : \A y \in S : y <= x
<1> DEFINE T == {m \in Nat : n - m \in S}
           R == OpToRel(<, Nat)
<1>1. T \subseteq Nat  OBVIOUS
<1>2. T # {}
  <2>1. PICK x \in S : TRUE  OBVIOUS
  <2>2. n - x \in Nat /\ n - (n - x) = x  BY <2>1
  <2>3. n - x \in T  BY <2>1, <2>2
  <2> QED BY <2>3
<1> HIDE DEF T
<1>3. \E m \in T : \A l \in T : ~(<<l, m>> \in R)
  <2>1. IsWellFoundedOn(R, Nat)  BY NatLessThanWellFounded
  <2> HIDE DEF R
  <2> QED BY <1>1, <1>2, <2>1, WFMin
<1>4. PICK m \in T : \A l \in T : ~(<<l, m>> \in R)  BY <1>3
<1>5. \A l \in T : ~(l < m)
  <2> SUFFICES ASSUME NEW l \in T, l < m PROVE FALSE  OBVIOUS
  <2>1. <<l, m>> \in R  BY <1>1 DEF OpToRel
  <2> QED BY <1>4, <2>1
<1>6. m \in Nat /\ n - m \in S  BY <1>1 DEF T
<1>7. ASSUME NEW y \in S PROVE y <= n - m
  <2>1. y \in Int /\ y <= n  BY <1>7
  <2>2. n - y \in Nat /\ n - (n - y) = y  BY <2>1
  <2>3. n - y \in T  BY <1>7, <2>2 DEF T
  <2>4. ~(n - y < m)  BY <1>5, <2>3
  <2> QED BY <1>6, <2>1, <2>4
<1> QED BY <1>6, <1>7

\* Ceiling division, characterised without it.
LEMMA CDivBounds ==
    ASSUME NEW a \in Nat, NEW b \in Nat \ {0}
    PROVE  /\ CDiv(a, b) \in Nat
           /\ a <= CDiv(a, b) * b
           /\ CDiv(a, b) * b < a + b
<1>1. a + b - 1 \in Nat
  OBVIOUS
<1>2. a + b - 1 = b * ((a + b - 1) \div b) + ((a + b - 1) % b)
  BY <1>1, SMTT(30)
<1>3. (a + b - 1) % b \in 0..(b - 1)
  BY <1>1, SMTT(30)
<1>4. (a + b - 1) \div b \in Nat
  BY <1>1, SMTT(30)
<1> QED
  BY <1>1, <1>2, <1>3, <1>4, SMTT(30) DEF CDiv

\* Division with remainder, as the proofs below use it.
LEMMA DivBounds ==
    ASSUME NEW a \in Nat, NEW b \in Nat \ {0}
    PROVE  /\ a \div b \in Nat
           /\ (a \div b) * b <= a
           /\ a < (a \div b) * b + b
<1>1. a = b * (a \div b) + (a % b)
  BY SMTT(30)
<1>2. a % b \in 0..(b - 1)
  BY SMTT(30)
<1>3. a \div b \in Nat
  BY SMTT(30)
<1> QED
  BY <1>1, <1>2, <1>3, SMTT(30)

\* A tile looks at least as far as each of its rows, and not beyond the context.
LEMMA KvEndBounds ==
    ASSUME NEW L \in Nat \ {0}, NEW numQ \in 1..L, NEW M \in Nat \ {0},
           NEW t \in Nat, NEW i \in 0..(numQ - 1), i < t * M + M
    PROVE  /\ KvEnd(L, numQ, t, M) \in Nat
           /\ KvEnd(L, numQ, t, M) <= L
           /\ QueryPos(L, numQ, i) < KvEnd(L, numQ, t, M)
<1>1. t * M \in Nat /\ (t + 1) * M = t * M + M
  BY SMTT(30)
<1> DEFINE far == L - numQ + (t * M + M)
<1>2. far \in Nat /\ L - numQ + i < far
  BY <1>1
<1>3. KvEnd(L, numQ, t, M) = IF L < far THEN L ELSE far
  BY <1>1 DEF KvEnd, Smaller
<1> HIDE DEF far
<1> QED
  BY <1>2, <1>3 DEF QueryPos

\* The reference masks nothing but the future.
LEMMA ReferenceIsPrefix ==
    ASSUME NEW L \in Nat \ {0}, NEW numQ \in 1..L, NEW i \in 0..(numQ - 1)
    PROVE  ReferenceKeys(L, numQ, i) = 0..QueryPos(L, numQ, i)
BY DEF ReferenceKeys, QueryPos

\* The loop of the one tile that row i belongs to visits exactly the keys that
\* the reference does not mask, whatever the tile sizes: no key up to the row's
\* own position is skipped at a tile's edge, and none behind it is let through.
THEOREM TritonReadsReferenceKeys ==
    ASSUME NEW L \in Nat \ {0}, NEW numQ \in 1..L, NEW i \in 0..(numQ - 1),
           NEW M \in Nat \ {0}, NEW N \in Nat \ {0}
    PROVE  TritonKeys(L, numQ, i, M, N) = ReferenceKeys(L, numQ, i)
<1> DEFINE end == KvEnd(L, numQ, i \div M, M)
           pos == QueryPos(L, numQ, i)
<1>1. i \div M \in Nat /\ i < (i \div M) * M + M
  BY DivBounds
<1>2. end \in Nat /\ end <= L /\ pos < end
  BY <1>1, KvEndBounds
<1>3. pos \in Nat
  BY DEF QueryPos
<1>4. CDiv(end, N) \in Nat /\ end <= CDiv(end, N) * N
  BY <1>2, CDivBounds
<1>5. TritonKeys(L, numQ, i, M, N) =
        UNION {VisibleKeys(L, numQ, i, TileKeys(n * N, end, N)) : n \in 0..(CDiv(end, N) - 1)}
  BY DEF TritonKeys
<1>6. ASSUME NEW k \in TritonKeys(L, numQ, i, M, N) PROVE k \in 0..pos
  <2>1. PICK n \in 0..(CDiv(end, N) - 1) : k \in VisibleKeys(L, numQ, i, TileKeys(n * N, end, N))
    BY <1>5, <1>6
  <2>2. n * N \in Nat
    BY <1>4, SMTT(30)
  <2>3. k \in (n * N)..(n * N + N - 1) /\ k <= pos
    BY <2>1 DEF VisibleKeys, TileKeys
  <2> QED
    BY <2>2, <2>3, <1>3
<1>7. ASSUME NEW k \in 0..pos PROVE k \in TritonKeys(L, numQ, i, M, N)
  <2> DEFINE n == k \div N
  <2>1. k \in Nat /\ k < end /\ k <= pos
    BY <1>2, <1>3
  <2>2. n \in Nat /\ n * N <= k /\ k < n * N + N
    BY <2>1, DivBounds
  <2>3. n < CDiv(end, N)
    <3> HIDE DEF n
    <3>1. n * N < CDiv(end, N) * N
      <4>1. n * N \in Nat /\ CDiv(end, N) * N \in Nat
        BY <2>2, <1>4, SMTT(30)
      <4> QED
        BY <4>1, <2>1, <2>2, <1>2, <1>4
    <3>2. CASE CDiv(end, N) <= n
      <4>1. CDiv(end, N) * N <= n * N
        BY <3>2, <2>2, <1>4, SMTT(30)
      <4> QED
        BY <4>1, <3>1, <2>2, <1>4, SMTT(30)
    <3> QED
      BY <3>2, <2>2, <1>4
  <2>4. k \in VisibleKeys(L, numQ, i, TileKeys(n * N, end, N))
    <3> HIDE DEF n, end
    <3>1. n * N \in Nat
      BY <2>2, SMTT(30)
    <3> QED
      BY <2>1, <2>2, <3>1, <1>2 DEF VisibleKeys, TileKeys
  <2>5. n \in 0..(CDiv(end, N) - 1)
    BY <2>2, <2>3, <1>4
  <2> QED
    BY <2>4, <2>5, <1>5
<1> DEFINE K == TritonKeys(L, numQ, i, M, N)
<1>8. K \subseteq 0..pos /\ 0..pos \subseteq K
  BY <1>6, <1>7
<1>9. ReferenceKeys(L, numQ, i) = 0..pos
  BY ReferenceIsPrefix
<1> HIDE DEF K, pos
<1> QED
  BY <1>8, <1>9 DEF K

\* In particular the tile sizes that the wrapper chooses, whatever the longest
\* chunk of the batch and the head's size.
COROLLARY WrapperReadsReferenceKeys ==
    ASSUME NEW L \in Nat \ {0}, NEW numQ \in 1..L, NEW i \in 0..(numQ - 1),
           NEW maxQ \in Nat, NEW headDim \in Nat
    PROVE  TritonKeys(L, numQ, i, BlockM(maxQ, headDim), BlockN) = ReferenceKeys(L, numQ, i)
<1>1. BlockM(maxQ, headDim) \in Nat \ {0}
  BY DEF BlockM
<1>2. BlockN \in Nat \ {0}
  BY BlockSizeAssumption DEF BlockN, Smaller, Larger
<1> QED
  BY <1>1, <1>2, TritonReadsReferenceKeys

\* The argument of the comment at lines 56-57 of the kernel: every row of a tile
\* that runs, padding rows included, sees key 0 in the first tile of keys, so
\* that no running maximum is -inf after it.
THEOREM FirstTileSeesKeyZero ==
    ASSUME NEW L \in Nat \ {0}, NEW numQ \in 1..L,
           NEW M \in Nat \ {0}, NEW N \in Nat \ {0},
           NEW t \in Nat, ~TileIdle(numQ, t, M), NEW lane \in 0..(M - 1)
    PROVE  0 \in VisibleKeys(L, numQ, t * M + lane, TileKeys(0, KvEnd(L, numQ, t, M), N))
<1>1. t * M \in Nat /\ t * M < numQ
  <2>1. t * M \in Nat
    BY SMTT(30)
  <2> QED
    BY <2>1 DEF TileIdle
<1> DEFINE row == t * M
<1>2. row \in 0..(numQ - 1) /\ row < t * M + M
  BY <1>1
<1>3. KvEnd(L, numQ, t, M) \in Nat /\ QueryPos(L, numQ, row) < KvEnd(L, numQ, t, M)
  BY <1>2, KvEndBounds
<1>4. QueryPos(L, numQ, row) \in Nat /\ QueryPos(L, numQ, row + lane) \in Nat
  BY <1>1 DEF QueryPos
<1> QED
  BY <1>3, <1>4 DEF VisibleKeys, TileKeys

\* Every key that is read lies in a block the sequence holds: its index in the
\* table is below the number of blocks of the context, so neither the padding of
\* a table nor memory behind it is ever used.
THEOREM KeysStayInTable ==
    ASSUME NEW L \in Nat \ {0}, NEW k \in 0..(L - 1)
    PROVE  k \div BlockSize \in 0..(CDiv(L, BlockSize) - 1)
<1>1. CDiv(L, BlockSize) \in Nat /\ L <= CDiv(L, BlockSize) * BlockSize
  BY BlockSizeAssumption, CDivBounds
<1>2. k \div BlockSize \in Nat /\ (k \div BlockSize) * BlockSize <= k
  BY BlockSizeAssumption, DivBounds
<1> DEFINE n == k \div BlockSize
           c == CDiv(L, BlockSize)
<1>3. n \in Nat /\ c \in Nat /\ n * BlockSize <= k /\ L <= c * BlockSize
  BY <1>1, <1>2
<1> HIDE DEF n, c
<1>4. n * BlockSize \in Nat /\ c * BlockSize \in Nat
  BY <1>3, BlockSizeAssumption, SMTT(30)
<1>5. n * BlockSize < c * BlockSize
  BY <1>3, <1>4
<1>6. ASSUME c <= n PROVE FALSE
  <2>1. c * BlockSize <= n * BlockSize
    BY <1>6, <1>3, BlockSizeAssumption, SMTT(30)
  <2> QED
    BY <2>1, <1>4, <1>5
<1>7. n < c
  BY <1>6, <1>3
<1> QED
  BY <1>3, <1>7 DEF n, c

\* The reference's gathered and flattened context is the paged one: row k of it
\* is the slot that the kernel computes for key k.
THEOREM GatherIsPaged ==
    ASSUME NEW meta, NEW s \in BatchSeqs(meta), NEW L \in Nat \ {0},
           meta.lens[s] = L,
           meta.tables[s] \in Seq(Nat), Len(meta.tables[s]) >= CDiv(L, BlockSize),
           NEW k \in 0..(L - 1)
    PROVE  GatherKV(meta, s)[k] = SlotOf(meta, s, k)
<1> DEFINE blocks == SubSeq(meta.tables[s], 1, CDiv(L, BlockSize))
<1>1. k \div BlockSize \in 0..(CDiv(L, BlockSize) - 1)
  BY KeysStayInTable
<1>2. CDiv(L, BlockSize) \in Nat
  BY BlockSizeAssumption, CDivBounds
<1>3. k \div BlockSize + 1 \in 1..CDiv(L, BlockSize)
  BY <1>1, <1>2
<1> DEFINE j == k \div BlockSize + 1
           c == CDiv(L, BlockSize)
<1> HIDE DEF j, c
<1>4. SubSeq(meta.tables[s], 1, c)[j] = meta.tables[s][j]
  BY <1>2, <1>3 DEF j, c
<1>5. GatherKV(meta, s)[k] = <<blocks[j], k % BlockSize>>
  BY DEF GatherKV, j, c
<1> QED
  BY <1>4, <1>5 DEF SlotOf, j, c

-----------------------------------------------------------------------------
(* Rows laid end to end.                                                     *)

\* An item's rows are counted after those of the items before it.
LEMMA ItemRows ==
    ASSUME NEW lengths \in Seq(Nat), NEW i \in 1..Len(lengths), NEW j \in 0..lengths[i]
    PROVE  LET rows == RowsOfItems(lengths)
               A == {row \in rows : row[1] < i}
               B == {i} \X (1..j)
           IN  /\ IsFiniteSet(rows) /\ IsFiniteSet(A) /\ IsFiniteSet(A \cup B)
               /\ Cardinality(A) \in Nat
               /\ Cardinality(A \cup B) = Cardinality(A) + j
<1> DEFINE rows == RowsOfItems(lengths)
           A == {row \in rows : row[1] < i}
           B == {i} \X (1..j)
           Part == {{k} \X (1..lengths[k]) : k \in DOMAIN lengths}
<1>0. DOMAIN lengths = 1..Len(lengths) /\ Len(lengths) \in Nat /\ i \in Nat /\ lengths[i] \in Nat /\ j \in Nat
  OBVIOUS
<1>1. IsFiniteSet(rows)
  <2> DEFINE g == [k \in 1..Len(lengths) |-> {k} \X (1..lengths[k])]
  <2>1. IsFiniteSet(1..Len(lengths))  BY <1>0, FS_Interval
  <2>2. Part = Range(g) /\ g \in Surjection(1..Len(lengths), Range(g))
    BY <1>0 DEF Range, Surjection
  <2>3. IsFiniteSet(Part)
    <3> HIDE DEF g, Part
    <3> QED BY <2>1, <2>2, FS_Surjection
  <2>4. ASSUME NEW T \in Part PROVE IsFiniteSet(T)
    <3>1. PICK k \in 1..Len(lengths) : T = {k} \X (1..lengths[k])  BY <1>0, <2>4
    <3>2. lengths[k] \in Nat  BY <1>0
    <3>3. IsFiniteSet(1..lengths[k])
      <4> DEFINE n == lengths[k]
      <4>1. 1 \in Int /\ n \in Int  BY <3>2
      <4> HIDE DEF n
      <4>2. IsFiniteSet(1..n)  BY <4>1, FS_Interval
      <4> QED BY <4>2 DEF n
    <3>4. IsFiniteSet({k})  BY FS_Singleton
    <3> QED BY <3>1, <3>3, <3>4, FS_Product
  <2>5. rows = UNION Part  BY DEF RowsOfItems
  <2> HIDE DEF Part, rows
  <2> QED BY <2>3, <2>4, <2>5, FS_UNION
<1>2. IsFiniteSet(A) /\ Cardinality(A) \in Nat
  <2>1. A \in SUBSET rows  OBVIOUS
  <2> HIDE DEF A, rows
  <2> QED BY <1>1, <2>1, FS_Subset, FS_CardinalityType
<1>3. IsFiniteSet(B) /\ Cardinality(B) = j
  <2>1. IsFiniteSet({i}) /\ Cardinality({i}) = 1  BY FS_Singleton
  <2>2. IsFiniteSet(1..j) /\ Cardinality(1..j) = j  BY <1>0, FS_Interval
  <2>3. IsFiniteSet(B) /\ Cardinality(B) = Cardinality({i}) * Cardinality(1..j)
    <3> DEFINE one == {i}
               seg == 1..j
    <3>1. IsFiniteSet(one) /\ IsFiniteSet(seg) /\ B = one \X seg  BY <2>1, <2>2
    <3> HIDE DEF one, seg, B
    <3>2. IsFiniteSet(B) /\ Cardinality(B) = Cardinality(one) * Cardinality(seg)
      BY <3>1, FS_Product
    <3> QED BY <3>2 DEF one, seg
  <2> HIDE DEF B
  <2> QED BY <1>0, <2>1, <2>2, <2>3
<1>4. A \cap B = {}
  <2>1. ASSUME NEW x \in A \cap B PROVE FALSE
    <3>1. x[1] = i /\ x[1] < i  OBVIOUS
    <3> QED BY <1>0, <3>1
  <2> QED BY <2>1
<1>5. IsFiniteSet(A \cup B) /\ Cardinality(A \cup B) = Cardinality(A) + j
  <2> HIDE DEF A, B
  <2>1. Cardinality(A \cap B) = 0  BY <1>4, FS_EmptySet
  <2>2. IsFiniteSet(A \cup B) /\ Cardinality(A \cup B) = Cardinality(A) + Cardinality(B) - Cardinality(A \cap B)
    BY <1>2, <1>3, FS_Union
  <2> QED BY <1>0, <1>2, <1>3, <2>1, <2>2
<1> QED BY <1>1, <1>2, <1>5

\* Each item begins where the one before it ends.
THEOREM PrefixSumLaws ==
    ASSUME NEW lengths \in Seq(Nat)
    PROVE  LET cu == PrefixSums(lengths)
               n  == Len(lengths)
           IN  /\ cu \in [1..(n + 1) -> Nat] /\ cu[1] = 0
               /\ \A i \in 1..n : cu[i + 1] = cu[i] + lengths[i]
               /\ cu[n + 1] = Cardinality(RowsOfItems(lengths))
               /\ \A i, k \in 1..(n + 1) : i <= k => cu[i] <= cu[k]
               /\ IsFiniteSet(RowsOfItems(lengths))
<1> DEFINE rows == RowsOfItems(lengths)
           cu   == PrefixSums(lengths)
           n    == Len(lengths)
           Before(i) == {row \in rows : row[1] < i}
<1>0. n \in Nat /\ DOMAIN lengths = 1..n /\ \A i \in 1..n : lengths[i] \in Nat  OBVIOUS
<1>1. \A row \in rows : \E i \in 1..n, j \in Nat \ {0} : row = <<i, j>> /\ j <= lengths[i]
  BY <1>0 DEF RowsOfItems
<1>2. \A i \in 1..n, j \in Nat \ {0} : j <= lengths[i] => <<i, j>> \in rows
  BY <1>0 DEF RowsOfItems
<1>3. \A i \in 1..(n + 1) : cu[i] = Cardinality(Before(i))  BY DEF PrefixSums
<1>4. DOMAIN cu = 1..(n + 1)  BY DEF PrefixSums
<1>5. IsFiniteSet(rows)
  <2>1. CASE n = 0
    <3>1. rows = {}  BY <1>0, <2>1 DEF RowsOfItems
    <3> QED BY <3>1, FS_EmptySet
  <2>2. CASE n # 0
    <3>1. n \in 1..n /\ 0 \in 0..lengths[n]  BY <1>0, <2>2
    <3> QED BY <3>1, ItemRows
  <2> QED BY <2>1, <2>2
<1>6. \A i : IsFiniteSet(Before(i)) /\ Cardinality(Before(i)) \in Nat
  <2> TAKE i
  <2>1. Before(i) \in SUBSET rows  OBVIOUS
  <2> HIDE DEF Before, rows
  <2> QED BY <1>5, <2>1, FS_Subset, FS_CardinalityType
<1>7. ASSUME NEW i \in 1..n PROVE cu[i + 1] = cu[i] + lengths[i]
  <2> DEFINE l == lengths[i]
             B == {i} \X (1..l)
  <2>1. l \in Nat /\ l \in 0..lengths[i] /\ i \in Nat  BY <1>0
  <2>2. Cardinality(Before(i) \cup B) = Cardinality(Before(i)) + l
    BY <2>1, ItemRows
  <2>3. Before(i + 1) = Before(i) \cup B
    <3>1. ASSUME NEW row \in Before(i + 1) PROVE row \in Before(i) \cup B
      <4>1. PICK k \in 1..n, j \in Nat \ {0} : row = <<k, j>> /\ j <= lengths[k]  BY <1>1
      <4>2. k < i + 1  BY <4>1
      <4>3. CASE k = i  BY <4>1, <4>3
      <4>4. CASE k < i  BY <4>1, <4>4
      <4> QED BY <2>1, <4>2, <4>3, <4>4
    <3>2. ASSUME NEW row \in B PROVE row \in Before(i + 1)
      <4>1. PICK j \in 1..l : row = <<i, j>>  OBVIOUS
      <4>2. j \in Nat \ {0} /\ j <= lengths[i]  BY <2>1
      <4> QED BY <1>2, <2>1, <4>1, <4>2
    <3>3. ASSUME NEW row \in Before(i) PROVE row \in Before(i + 1)
      <4>1. PICK k \in 1..n, j \in Nat \ {0} : row = <<k, j>> /\ j <= lengths[k]  BY <1>1
      <4>2. k < i  BY <4>1
      <4>3. k < i + 1  BY <2>1, <4>2
      <4> QED BY <4>1, <4>3
    <3> HIDE DEF Before, B
    <3> QED BY <3>1, <3>2, <3>3
  <2>4. i \in 1..(n + 1) /\ i + 1 \in 1..(n + 1)  BY <1>0
  <2> HIDE DEF Before, B, cu
  <2> QED BY <1>3, <2>2, <2>3, <2>4 DEF l
<1>8. cu[1] = 0
  <2>1. Before(1) = {}
    <3>1. ASSUME NEW row \in Before(1) PROVE FALSE
      <4>1. PICK k \in 1..n, j \in Nat \ {0} : row = <<k, j>> /\ j <= lengths[k]  BY <1>1
      <4>2. k < 1  BY <4>1
      <4> QED BY <1>0, <4>2
    <3> HIDE DEF Before
    <3> QED BY <3>1
  <2>2. 1 \in 1..(n + 1)  BY <1>0
  <2> HIDE DEF Before, cu
  <2> QED BY <1>3, <2>1, <2>2, FS_EmptySet
<1>9. cu[n + 1] = Cardinality(rows)
  <2>1. Before(n + 1) = rows
    <3>1. ASSUME NEW row \in rows PROVE row \in Before(n + 1)
      <4>1. PICK k \in 1..n, j \in Nat \ {0} : row = <<k, j>> /\ j <= lengths[k]  BY <1>1
      <4>2. k < n + 1  BY <1>0
      <4> QED BY <4>1, <4>2
    <3> QED BY <3>1
  <2>2. n + 1 \in 1..(n + 1)  BY <1>0
  <2> HIDE DEF Before, cu, rows
  <2> QED BY <1>3, <2>1, <2>2
<1>10. ASSUME NEW i \in 1..(n + 1), NEW k \in 1..(n + 1), i <= k PROVE cu[i] <= cu[k]
  <2>1. Before(i) \in SUBSET Before(k)
    <3>1. ASSUME NEW row \in Before(i) PROVE row \in Before(k)
      <4>1. PICK x \in 1..n, j \in Nat \ {0} : row = <<x, j>> /\ j <= lengths[x]  BY <1>1
      <4>2. x < i  BY <4>1
      <4>3. x < k  BY <1>0, <1>10, <4>2
      <4> QED BY <4>1, <4>3
    <3> HIDE DEF Before
    <3> QED BY <3>1
  <2> HIDE DEF Before, cu
  <2>2. Cardinality(Before(i)) <= Cardinality(Before(k))  BY <1>6, <2>1, FS_Subset
  <2> QED BY <1>3, <2>2
<1>11. cu \in [1..(n + 1) -> Nat]
  <2> HIDE DEF Before
  <2> QED BY <1>6 DEF PrefixSums, Before
<1> HIDE DEF cu, rows
<1> QED BY <1>5, <1>7, <1>8, <1>9, <1>10, <1>11 DEF cu, rows

\* Row j of item i is the j-th after the item's offset, and there are no others.
THEOREM RowOrderLaws ==
    ASSUME NEW lengths \in Seq(Nat)
    PROVE  LET cu    == PrefixSums(lengths)
               order == RowOrder(lengths)
               n     == Len(lengths)
           IN  /\ DOMAIN order = 1..cu[n + 1]
               /\ \A i \in 1..n, j \in Nat \ {0} :
                     j <= lengths[i] => /\ cu[i] + j \in DOMAIN order
                                        /\ order[cu[i] + j] = <<i, j>>
               /\ \A r \in DOMAIN order : \E i \in 1..n, j \in Nat \ {0} :
                     j <= lengths[i] /\ r = cu[i] + j /\ order[r] = <<i, j>>
<1> DEFINE rows == RowsOfItems(lengths)
           cu   == PrefixSums(lengths)
           order == RowOrder(lengths)
           n    == Len(lengths)
           N    == Cardinality(rows)
           before(row) == {other \in rows : AppendedBefore(other, row)}
           rank == [row \in rows |-> Cardinality(before(row))]
<1>0. n \in Nat /\ DOMAIN lengths = 1..n /\ \A i \in 1..n : lengths[i] \in Nat  OBVIOUS
<1>1. \A row \in rows : \E i \in 1..n, j \in Nat \ {0} : row = <<i, j>> /\ j <= lengths[i]
  BY <1>0 DEF RowsOfItems
<1>2. \A i \in 1..n, j \in Nat \ {0} : j <= lengths[i] => <<i, j>> \in rows
  BY <1>0 DEF RowsOfItems
<1>3. /\ cu \in [1..(n + 1) -> Nat] /\ cu[n + 1] = N /\ N \in Nat
      /\ \A i \in 1..n : cu[i + 1] = cu[i] + lengths[i]
      /\ \A i, k \in 1..(n + 1) : i <= k => cu[i] <= cu[k]
      /\ IsFiniteSet(rows)
  <2>1. n + 1 \in 1..(n + 1)  BY <1>0
  <2> QED BY <2>1, PrefixSumLaws
<1>4. DOMAIN order = 1..N  BY DEF RowOrder
\* The rank of a row is the number of rows before its item, and in it before the row.
<1>5. ASSUME NEW i \in 1..n, NEW j \in Nat \ {0}, j <= lengths[i]
      PROVE  rank[<<i, j>>] = cu[i] + (j - 1)
  <2> DEFINE A == {row \in rows : row[1] < i}
             B == {i} \X (1..(j - 1))
  <2>1. j - 1 \in 0..lengths[i] /\ i \in Nat  BY <1>0, <1>5
  <2>2. Cardinality(A \cup B) = Cardinality(A) + (j - 1)  BY <2>1, ItemRows
  <2>3. before(<<i, j>>) = A \cup B
    <3>1. ASSUME NEW row \in before(<<i, j>>) PROVE row \in A \cup B
      <4>1. PICK k \in 1..n, l \in Nat \ {0} : row = <<k, l>> /\ l <= lengths[k]  BY <1>1
      <4>2. k < i \/ (k = i /\ l < j)  BY <4>1 DEF AppendedBefore
      <4> QED BY <1>0, <1>5, <4>1, <4>2
    <3>2. ASSUME NEW row \in A PROVE row \in before(<<i, j>>)
      BY DEF AppendedBefore
    <3>3. ASSUME NEW row \in B PROVE row \in before(<<i, j>>)
      <4>1. PICK l \in 1..(j - 1) : row = <<i, l>>  OBVIOUS
      <4>2. l \in Nat \ {0} /\ l < j /\ l <= lengths[i]  BY <1>0, <1>5
      <4>3. row \in rows  BY <1>2, <4>1, <4>2
      <4> QED BY <4>1, <4>2, <4>3 DEF AppendedBefore
    <3> HIDE DEF A, B, before
    <3> QED BY <3>1, <3>2, <3>3
  <2>4. cu[i] = Cardinality(A)  BY <1>0, <2>1 DEF PrefixSums
  <2>5. <<i, j>> \in rows  BY <1>2, <1>5
  <2> HIDE DEF A, B, before, cu
  <2> QED BY <2>2, <2>3, <2>4, <2>5
<1>6. ASSUME NEW i \in 1..n, NEW j \in Nat \ {0}, j <= lengths[i]
      PROVE  cu[i] \in Nat /\ cu[i] + j \in 1..N
  <2>1. i \in 1..(n + 1) /\ i + 1 \in 1..(n + 1) /\ n + 1 \in 1..(n + 1) /\ i + 1 <= n + 1  BY <1>0
  <2>2. cu[i + 1] <= cu[n + 1] /\ cu[i] \in Nat  BY <1>3, <2>1
  <2> HIDE DEF cu, N
  <2> QED BY <1>0, <1>3, <1>6, <2>2
<1>7. rank \in Injection(rows, 0..(N - 1))
  <2>1. ASSUME NEW row \in rows PROVE rank[row] \in 0..(N - 1)
    <3>1. PICK i \in 1..n, j \in Nat \ {0} : row = <<i, j>> /\ j <= lengths[i]  BY <1>1
    <3>2. rank[row] = cu[i] + (j - 1) /\ cu[i] \in Nat /\ cu[i] + j \in 1..N  BY <1>5, <1>6, <3>1
    <3> HIDE DEF cu, N, rank
    <3> QED BY <1>3, <3>2
  <2>2. ASSUME NEW x \in rows, NEW y \in rows, rank[x] = rank[y] PROVE x = y
    <3>1. PICK i \in 1..n, j \in Nat \ {0} : x = <<i, j>> /\ j <= lengths[i]  BY <1>1
    <3>2. PICK k \in 1..n, l \in Nat \ {0} : y = <<k, l>> /\ l <= lengths[k]  BY <1>1
    <3>3. cu[i] + (j - 1) = cu[k] + (l - 1) /\ cu[i] \in Nat /\ cu[k] \in Nat
      BY <1>5, <1>6, <2>2, <3>1, <3>2
    <3>4. cu[i + 1] = cu[i] + lengths[i] /\ cu[k + 1] = cu[k] + lengths[k]  BY <1>3
    <3>5. i < k => cu[i + 1] <= cu[k]
      <4>1. i + 1 \in 1..(n + 1) /\ k \in 1..(n + 1)  BY <1>0
      <4>2. i < k => i + 1 <= k  OBVIOUS
      <4> QED BY <1>3, <4>1, <4>2
    <3>6. k < i => cu[k + 1] <= cu[i]
      <4>1. k + 1 \in 1..(n + 1) /\ i \in 1..(n + 1)  BY <1>0
      <4>2. k < i => k + 1 <= i  OBVIOUS
      <4> QED BY <1>3, <4>1, <4>2
    <3>7. lengths[i] \in Nat /\ lengths[k] \in Nat /\ i \in Nat /\ k \in Nat  BY <1>0
    <3>a. ASSUME NEW a \in Nat, NEW b \in Nat, NEW e, NEW u \in Nat \ {0}, NEW v \in Nat \ {0},
                 NEW m \in Nat, a + (u - 1) = b + (v - 1), e = a + m, u <= m, e <= b
          PROVE  FALSE
      BY <3>a
    <3>8. ~(i < k)  
      <4> HIDE DEF cu, n
      <4> QED BY <3>1, <3>3, <3>4, <3>5, <3>7, <3>a
    <3>9. ~(k < i)
      <4> HIDE DEF cu, n
      <4> QED BY <3>2, <3>3, <3>4, <3>6, <3>7, <3>a
    <3> HIDE DEF cu, n
    <3>10. i = k  BY <3>7, <3>8, <3>9
    <3> QED BY <3>1, <3>2, <3>3, <3>10
  <2>3. rank \in [rows -> 0..(N - 1)]
    <3>1. rank = [row \in rows |-> rank[row]]  OBVIOUS
    <3> HIDE DEF rank
    <3> QED BY <2>1, <3>1
  <2> HIDE DEF rank
  <2> QED BY <2>2, <2>3 DEF Injection, IsInjective
<1>8. rank \in Surjection(rows, 0..(N - 1))
  <2>1. IsFiniteSet(0..(N - 1)) /\ Cardinality(0..(N - 1)) = N
    <3> HIDE DEF N
    <3>1. 0 \in Int /\ N - 1 \in Int  BY <1>3
    <3>2. Cardinality(0..(N - 1)) = IF 0 > N - 1 THEN 0 ELSE (N - 1) - 0 + 1  BY <3>1, FS_Interval
    <3> QED BY <1>3, <3>1, <3>2, FS_Interval
  <2> HIDE DEF rank, rows
  <2> QED BY <1>7, <2>1, FS_Injection DEF N
<1>9. ASSUME NEW r \in 1..N
      PROVE  order[r] \in rows /\ rank[order[r]] = r - 1
  <2>1. r - 1 \in 0..(N - 1)  BY <1>3
  <2>2. \E row \in rows : rank[row] = r - 1
    <3> HIDE DEF rank, N
    <3> QED BY <1>8, <2>1 DEF Surjection
  <2>3. \E row \in rows : Cardinality(before(row)) = r - 1  BY <2>2
  <2>4. order[r] = CHOOSE row \in rows : Cardinality(before(row)) = r - 1  BY DEF RowOrder
  <2>5. order[r] \in rows /\ Cardinality(before(order[r])) = r - 1
    <3> HIDE DEF before, order, rows
    <3> QED BY <2>3, <2>4
  <2> HIDE DEF before, order, rows
  <2> QED BY <2>5
<1>10. ASSUME NEW i \in 1..n, NEW j \in Nat \ {0}, j <= lengths[i]
       PROVE  cu[i] + j \in 1..N /\ order[cu[i] + j] = <<i, j>>
  <2>1. cu[i] \in Nat /\ cu[i] + j \in 1..N  BY <1>6, <1>10
  <2>2. order[cu[i] + j] \in rows /\ rank[order[cu[i] + j]] = (cu[i] + j) - 1  BY <1>9, <2>1
  <2>3. <<i, j>> \in rows /\ rank[<<i, j>>] = cu[i] + (j - 1)  BY <1>2, <1>5, <1>10
  <2>4. \A x, y \in rows : rank[x] = rank[y] => x = y
    <3> HIDE DEF rank
    <3> QED BY <1>7 DEF Injection, IsInjective
  <2> HIDE DEF rank, order, cu, rows
  <2>5. (cu[i] + j) - 1 = cu[i] + (j - 1)  BY <2>1
  <2> QED BY <2>1, <2>2, <2>3, <2>4, <2>5
<1>11. ASSUME NEW r \in 1..N
       PROVE  \E i \in 1..n, j \in Nat \ {0} :
                  j <= lengths[i] /\ r = cu[i] + j /\ order[r] = <<i, j>>
  <2>1. order[r] \in rows /\ rank[order[r]] = r - 1  BY <1>9
  <2>2. PICK i \in 1..n, j \in Nat \ {0} : order[r] = <<i, j>> /\ j <= lengths[i]  BY <1>1, <2>1
  <2>3. rank[<<i, j>>] = cu[i] + (j - 1) /\ cu[i] \in Nat  BY <1>5, <1>6, <2>2
  <2> HIDE DEF rank, order, cu, rows
  <2>4. r = cu[i] + j
    <3> DEFINE c == cu[i]
    <3>1. r - 1 = c + (j - 1)  BY <2>1, <2>2, <2>3
    <3>2. r \in Int /\ c \in Int /\ j \in Int  BY <2>3
    <3> HIDE DEF c, n, N
    <3>3. r = c + j  BY <3>1, <3>2
    <3> QED BY <3>3 DEF c
  <2> QED BY <2>2, <2>4
<1> HIDE DEF cu, order, N, n
<1> QED BY <1>3, <1>4, <1>10, <1>11 DEF cu, order, n

\* flash-attn, called with the wrapper's prefix sums, reads the reference's keys.
THEOREM FlashReadsReferenceKeys ==
    ASSUME NEW meta, meta.lens \in Seq(Nat), NEW s \in BatchSeqs(meta), NEW i \in Int,
           NumQ(meta, s) \in Int
    PROVE  FlashKeys(meta, s, i) = ReferenceKeys(meta.lens[s], NumQ(meta, s), i)
<1> DEFINE lens == meta.lens
           cu == PrefixSums(lens)
           L == lens[s]
           n == NumQ(meta, s)
<1>1. s \in 1..Len(lens) /\ L \in Nat  BY DEF BatchSeqs
<1>2. cu[s + 1] = cu[s] + L /\ cu[s] \in Nat
  <2>1. s \in 1..(Len(lens) + 1)  BY <1>1
  <2>2. cu \in [1..(Len(lens) + 1) -> Nat] /\ \A k \in 1..Len(lens) : cu[k + 1] = cu[k] + lens[k]
    BY PrefixSumLaws
  <2> HIDE DEF cu
  <2> QED BY <1>1, <2>1, <2>2
<1>3. cu[s + 1] - cu[s] = L
  <2> HIDE DEF cu, L
  <2> QED BY <1>1, <1>2
<1>4. FlashKeys(meta, s, i) = {k \in 0..(L - 1) : k <= i + L - n}
  <2>1. CuSeqlensK(meta)[s + 1] - CuSeqlensK(meta)[s] = L  BY <1>3 DEF CuSeqlensK
  <2> QED BY <2>1 DEF FlashKeys
<1>5. \A k \in 0..(L - 1) : k <= i + L - n <=> ~(k > L - n + i)
  <2> HIDE DEF L, n
  <2> QED BY <1>1 DEF n
<1> QED BY <1>4, <1>5 DEF ReferenceKeys
=============================================================================
