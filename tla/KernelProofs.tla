---------------------------- MODULE KernelProofs ----------------------------
(***************************************************************************)
(* The programs of a launch of the Triton kernel run concurrently on one    *)
(* output tensor.  For every batch, tile size, number of heads and score,   *)
(* every output row has exactly one program that stores it, what is stored  *)
(* no other program changes, and it is what the reference computes.         *)
(***************************************************************************)
EXTENDS TritonKernel, AttentionProofs

\* The program p of a launch on b stores the row and head rh.
Owns(b, p, rh) ==
    LET i == rh[1] - b.cu[p[3]]
    IN  /\ p \in Grid(b)
        /\ rh[2] = QHead(p)
        /\ i - Tile(p) * TileM \in Lanes /\ i < NumQ(b, p[3])

\* The numbers of a batch.
LEMMA BatchFacts ==
    ASSUME NEW b \in Batches, NEW s \in BatchSeqs(b)
    PROVE  /\ s \in Nat \ {0} /\ s \in DOMAIN b.cu /\ s + 1 \in DOMAIN b.cu
           /\ b.cu[s] \in Nat /\ b.cu[s + 1] \in Nat /\ b.cu[s] < b.cu[s + 1]
           /\ NumQ(b, s) = b.cu[s + 1] - b.cu[s] /\ NumQ(b, s) \in Nat \ {0}
           /\ b.lens[s] \in Nat \ {0} /\ NumQ(b, s) <= b.lens[s]
           /\ b.max_q_len \in Nat /\ NumQ(b, s) <= b.max_q_len
<1>1. b.lens \in Seq(Nat \ {0}) /\ Len(b.lens) \in Nat /\ s \in 1..Len(b.lens)
  BY BatchesAssumption DEF BatchSeqs
<1>2. s \in Nat \ {0} /\ s \in DOMAIN b.cu /\ s + 1 \in DOMAIN b.cu /\ s < s + 1
  BY <1>1, BatchesAssumption
<1>3. b.cu[s] \in Nat /\ b.cu[s + 1] \in Nat /\ b.cu[s] < b.cu[s + 1]
  BY <1>1, <1>2, BatchesAssumption
<1>4. NumQ(b, s) \in Nat \ {0}  BY <1>3 DEF NumQ
<1>5. b.lens[s] \in Nat \ {0}  BY <1>1
<1>6. b.max_q_len \in Nat /\ NumQ(b, s) <= b.lens[s] /\ NumQ(b, s) <= b.max_q_len
  BY BatchesAssumption
<1> QED BY <1>2, <1>3, <1>4, <1>5, <1>6 DEF NumQ

\* Two tiles share no row.
LEMMA TilesApart ==
    ASSUME NEW i \in Nat, NEW t \in Nat, NEW u \in Nat, NEW M \in Nat \ {0},
           i - t * M \in 0..(M - 1), i - u * M \in 0..(M - 1)
    PROVE  t = u
<1>1. t * M \in Nat /\ u * M \in Nat  OBVIOUS
<1>2. ASSUME t < u PROVE FALSE
  <2>1. (t + 1) * M <= u * M /\ (t + 1) * M = t * M + M  BY <1>2
  <2> QED BY <1>1, <2>1
<1>3. ASSUME u < t PROVE FALSE
  <2>1. (u + 1) * M <= t * M /\ (u + 1) * M = u * M + M  BY <1>3
  <2> QED BY <1>1, <2>1
<1> QED BY <1>2, <1>3

LEMMA ProgramFacts ==
    ASSUME NEW b \in Batches, NEW p \in Grid(b)
    PROVE  /\ p = <<Tile(p), QHead(p), p[3]>> /\ p[3] \in BatchSeqs(b) /\ QHead(p) \in Heads
           /\ Tile(p) \in Nat /\ Tile(p) * TileM \in Nat /\ TileM \in Nat \ {0}
<1>1. TileM \in Nat \ {0}  BY TileAssumption
<1>2. p \in QTiles(b.max_q_len, TileM) \X Heads \X BatchSeqs(b)  BY DEF Grid
<1>3. /\ p = <<p[1], p[2], p[3]>> /\ p[1] \in QTiles(b.max_q_len, TileM) /\ p[2] \in Heads
      /\ p[3] \in BatchSeqs(b)
  BY <1>2
<1>4. p[1] \in Nat  BY <1>3 DEF QTiles
<1> QED BY <1>1, <1>3, <1>4 DEF Tile, QHead

\* The grid covers every row of every sequence for every head, and no row twice:
\* neighbouring sequences whose tiles overlap in rows are kept apart by the mask.
THEOREM RowHasOneProgram ==
    ASSUME NEW b \in Batches, NEW s \in BatchSeqs(b), NEW h \in Heads, NEW r \in RowsOf(b, s)
    PROVE  /\ \E p \in Grid(b) : Owns(b, p, <<r, h>>)
           /\ \A p \in Grid(b) : Owns(b, p, <<r, h>>) => p[3] = s
           /\ \A p, q \in Grid(b) : Owns(b, p, <<r, h>>) /\ Owns(b, q, <<r, h>>) => p = q
<1>1. TileM \in Nat \ {0}  BY TileAssumption
<1> DEFINE i == r - b.cu[s]
           t == i \div TileM
<1>2. r \in Nat /\ i \in Nat /\ i < NumQ(b, s) /\ i < b.max_q_len
  <2>1. r \in b.cu[s]..(b.cu[s + 1] - 1)  BY DEF RowsOf
  <2> QED BY <2>1, BatchFacts
<1>3. t \in Nat /\ t * TileM <= i /\ i < t * TileM + TileM  BY <1>1, <1>2, DivBounds
<1>4. t \in QTiles(b.max_q_len, TileM)
  <2> DEFINE c == CDiv(b.max_q_len, TileM)
  <2>1. c \in Nat /\ b.max_q_len \in Nat /\ b.max_q_len <= c * TileM
    BY <1>1, BatchFacts, CDivBounds
  <2> HIDE DEF c, t, i
  <2>2. t * TileM \in Nat /\ c * TileM \in Nat  BY <1>1, <1>3, <2>1
  <2>3. t * TileM < c * TileM  BY <1>2, <1>3, <2>1, <2>2
  <2>4. c <= t => c * TileM <= t * TileM  BY <1>1, <1>3, <2>1
  <2>5. t < c  BY <1>3, <2>1, <2>2, <2>3, <2>4
  <2> QED BY <1>3, <2>1, <2>5 DEF QTiles, c
<1>5. \E p \in Grid(b) : Owns(b, p, <<r, h>>)
  <2> DEFINE p == <<t, h, s>>
  <2>1. p \in Grid(b)  BY <1>4 DEF Grid
  <2>2. i - t * TileM \in Lanes
    <3> HIDE DEF i, t
    <3>1. t * TileM \in Nat  BY <1>1, <1>3
    <3> QED BY <1>1, <1>2, <1>3, <3>1 DEF Lanes
  <2>3. Owns(b, p, <<r, h>>)  BY <1>2, <2>1, <2>2 DEF Owns, QHead, Tile
  <2> QED BY <2>1, <2>3
<1>6. ASSUME NEW p \in Grid(b), Owns(b, p, <<r, h>>)
      PROVE  p[3] = s
  <2> DEFINE u == p[3]
             j == r - b.cu[u]
  <2>1. u \in BatchSeqs(b) /\ Tile(p) * TileM \in Nat  BY ProgramFacts
  <2>2. j - Tile(p) * TileM \in Lanes /\ j < NumQ(b, u)  BY <1>6 DEF Owns
  <2>3. b.cu[u] \in Nat /\ b.cu[u + 1] \in Nat /\ NumQ(b, u) = b.cu[u + 1] - b.cu[u]
        /\ u \in DOMAIN b.cu /\ u + 1 \in DOMAIN b.cu /\ u \in Nat
    BY <2>1, BatchFacts
  <2>4. b.cu[u] <= r /\ r < b.cu[u + 1]
    <3>1. j \in Int /\ j - Tile(p) * TileM >= 0  BY <1>1, <1>2, <2>1, <2>2, <2>3 DEF Lanes
    <3> QED BY <1>2, <2>1, <2>2, <2>3, <3>1
  <2>5. /\ b.cu[s] <= r /\ r < b.cu[s + 1] /\ s \in DOMAIN b.cu /\ s + 1 \in DOMAIN b.cu
        /\ s \in Nat /\ b.cu[s] \in Nat /\ b.cu[s + 1] \in Nat
    BY <1>2, BatchFacts
  <2>6. ASSUME NEW x \in DOMAIN b.cu, NEW y \in DOMAIN b.cu, x + 1 \in DOMAIN b.cu,
               x \in Nat, y \in Nat, x < y
        PROVE  b.cu[x + 1] <= b.cu[y]
    <3>1. \A v, w \in DOMAIN b.cu : v < w => b.cu[v] < b.cu[w]  BY BatchesAssumption
    <3>2. b.cu \in [DOMAIN b.cu -> Nat]  BY BatchesAssumption
    <3>3. x + 1 = y \/ x + 1 < y  BY <2>6
    <3> QED BY <2>6, <3>1, <3>2, <3>3
  <2> HIDE DEF u
  <2>7. ~(u < s) /\ ~(s < u)  BY <1>2, <2>3, <2>4, <2>5, <2>6
  <2> QED BY <2>3, <2>5, <2>7 DEF u
<1>7. ASSUME NEW p \in Grid(b), NEW q \in Grid(b), Owns(b, p, <<r, h>>), Owns(b, q, <<r, h>>)
      PROVE  p = q
  <2>1. p[3] = s /\ q[3] = s  BY <1>6, <1>7
  <2>2. QHead(p) = h /\ QHead(q) = h  BY <1>7 DEF Owns
  <2>3. i - Tile(p) * TileM \in 0..(TileM - 1) /\ i - Tile(q) * TileM \in 0..(TileM - 1)
    BY <1>7, <2>1 DEF Owns, Lanes
  <2>4. Tile(p) \in Nat /\ Tile(q) \in Nat  BY ProgramFacts
  <2>5. Tile(p) = Tile(q)
    <3> HIDE DEF i
    <3> QED BY <1>1, <1>2, <2>3, <2>4, TilesApart
  <2>6. p = <<Tile(p), QHead(p), p[3]>> /\ q = <<Tile(q), QHead(q), q[3]>>  BY ProgramFacts
  <2> QED BY <2>1, <2>2, <2>5, <2>6
<1> QED BY <1>5, <1>6, <1>7

\* A stored row is one of the program's sequence.
LEMMA OwnsRow ==
    ASSUME NEW b \in Batches, NEW p, NEW r \in Nat, NEW h, Owns(b, p, <<r, h>>)
    PROVE  p \in Grid(b) /\ p[3] \in BatchSeqs(b) /\ h = QHead(p) /\ h \in Heads /\ r \in RowsOf(b, p[3])
<1>1. p \in Grid(b) /\ h = QHead(p)  BY DEF Owns
<1>2. p[3] \in BatchSeqs(b) /\ h \in Heads /\ Tile(p) * TileM \in Nat /\ TileM \in Nat \ {0}
  BY <1>1, ProgramFacts
<1> DEFINE i == r - b.cu[p[3]]
<1>3. i - Tile(p) * TileM \in Lanes /\ i < NumQ(b, p[3])  BY DEF Owns
<1>4. b.cu[p[3]] \in Nat /\ b.cu[p[3] + 1] \in Nat /\ NumQ(b, p[3]) = b.cu[p[3] + 1] - b.cu[p[3]]
  BY <1>2, BatchFacts
<1>5. i \in Int /\ i >= 0
  <2>1. i \in Int  BY <1>4
  <2> HIDE DEF i
  <2> QED BY <1>2, <1>3, <2>1 DEF Lanes
<1>6. r \in b.cu[p[3]]..(b.cu[p[3] + 1] - 1)  BY <1>3, <1>4, <1>5
<1> QED BY <1>1, <1>2, <1>6 DEF RowsOf

LEMMA OneOwner ==
    ASSUME NEW b \in Batches, NEW p, NEW q, NEW rh \in Nat \X Heads, Owns(b, p, rh), Owns(b, q, rh)
    PROVE  p = q
<1>1. PICK r \in Nat, h \in Heads : rh = <<r, h>>  OBVIOUS
<1>2. p \in Grid(b) /\ q \in Grid(b) /\ p[3] \in BatchSeqs(b) /\ r \in RowsOf(b, p[3])
  BY <1>1, OwnsRow
<1> QED BY <1>1, <1>2, RowHasOneProgram

-----------------------------------------------------------------------------
(* Totals.                                                                   *)

LEMMA TotalLaws ==
    ASSUME NEW D, IsFiniteSet(D), NEW B \in Nat, NEW f \in [D -> 0..B]
    PROVE  /\ IsFiniteSet(RowsOfItems(f)) /\ Total(f) \in Nat
           /\ Total(f) = Cardinality(RowsOfItems(f))
           /\ D = {} => Total(f) = 0
           /\ \A k \in D : f[k] > 0 => Total(f) > 0
<1>1. RowsOfItems(f) \subseteq D \X (1..B)  BY DEF RowsOfItems
<1>2. IsFiniteSet(D \X (1..B))
  <2>1. IsFiniteSet(1..B)  BY FS_Interval
  <2> QED BY <2>1, FS_Product
<1>3. IsFiniteSet(RowsOfItems(f))  BY <1>1, <1>2, FS_Subset
<1>4. Total(f) = Cardinality(RowsOfItems(f)) /\ Total(f) \in Nat
  BY <1>3, FS_CardinalityType DEF Total
<1>5. D = {} => RowsOfItems(f) = {}  BY <1>1
<1>6. ASSUME NEW k \in D, f[k] > 0 PROVE RowsOfItems(f) # {}
  <2>1. <<k, 1>> \in RowsOfItems(f)  BY <1>6 DEF RowsOfItems
  <2> QED BY <2>1
<1> QED BY <1>3, <1>4, <1>5, <1>6, FS_EmptySet

\* The total over two disjoint sets is the sum of the totals.
LEMMA TotalOfBoth ==
    ASSUME NEW D, IsFiniteSet(D), NEW E, IsFiniteSet(E), D \cap E = {},
           NEW B \in Nat, NEW f \in [D \cup E -> 0..B]
    PROVE  Total(f) = Total([k \in D |-> f[k]]) + Total([k \in E |-> f[k]])
<1> DEFINE g == [k \in D |-> f[k]]
           h == [k \in E |-> f[k]]
<1>1. g \in [D -> 0..B] /\ h \in [E -> 0..B]  OBVIOUS
<1>2. RowsOfItems(f) = RowsOfItems(g) \cup RowsOfItems(h)  BY DEF RowsOfItems
<1>3. RowsOfItems(g) \cap RowsOfItems(h) = {}  BY DEF RowsOfItems
<1>4. IsFiniteSet(D \cup E)  BY FS_Union
<1> HIDE DEF g, h
<1>5. /\ IsFiniteSet(RowsOfItems(g)) /\ Total(g) = Cardinality(RowsOfItems(g)) /\ Total(g) \in Nat
      /\ IsFiniteSet(RowsOfItems(h)) /\ Total(h) = Cardinality(RowsOfItems(h)) /\ Total(h) \in Nat
  BY <1>1, TotalLaws
<1>6. Total(f) = Cardinality(RowsOfItems(f))  BY DEF Total
<1>7. /\ Cardinality(RowsOfItems(g) \cap RowsOfItems(h)) = 0
      /\ Cardinality(RowsOfItems(g) \cup RowsOfItems(h))
           = Total(g) + Total(h) - Cardinality(RowsOfItems(g) \cap RowsOfItems(h))
  <2>1. Cardinality({}) = 0  BY FS_EmptySet
  <2> QED BY <1>3, <1>5, <2>1, FS_Union
<1>8. Total(f) = Total(g) + Total(h)  BY <1>2, <1>5, <1>6, <1>7
<1> QED BY <1>8 DEF g, h

\* A factor comes out of a total.
LEMMA TotalScaled ==
    ASSUME NEW D, IsFiniteSet(D), NEW B \in Nat, NEW f \in [D -> 0..B], NEW c \in Nat \ {0}
    PROVE  Total([k \in D |-> c * f[k]]) = c * Total(f)
<1> DEFINE g == [k \in D |-> c * f[k]]
           S == RowsOfItems(f) \X (1..c)
           T == RowsOfItems(g)
           to == [x \in S |-> <<x[1][1], (x[1][2] - 1) * c + x[2]>>]
<1>1. \A k \in D : f[k] \in Nat /\ c * f[k] \in Nat /\ g[k] = c * f[k]  OBVIOUS
<1>2. ASSUME NEW k, NEW n, NEW j
      PROVE  <<<<k, n>>, j>> \in S <=> k \in D /\ n \in 1..f[k] /\ j \in 1..c
  BY DEF RowsOfItems
<1>3. ASSUME NEW x \in S
      PROVE  \E k \in D : \E n \in 1..f[k], j \in 1..c : x = <<<<k, n>>, j>>
  <2>1. PICK y \in RowsOfItems(f), j \in 1..c : x = <<y, j>>  OBVIOUS
  <2>2. PICK k \in D : \E n \in 1..f[k] : y = <<k, n>>  BY DEF RowsOfItems
  <2> QED BY <2>1, <2>2
<1>4. ASSUME NEW k, NEW m PROVE <<k, m>> \in T <=> k \in D /\ m \in 1..(c * f[k])
  BY <1>1 DEF RowsOfItems
<1>5. ASSUME NEW k \in D, NEW n \in 1..f[k], NEW j \in 1..c
      PROVE  /\ to[<<<<k, n>>, j>>] = <<k, (n - 1) * c + j>>
             /\ (n - 1) * c \in Nat /\ (n - 1) * c + j \in 1..(c * f[k])
  <2>1. to[<<<<k, n>>, j>>] = <<k, (n - 1) * c + j>>  BY <1>2
  <2> DEFINE w == f[k]
  <2>2. w \in Nat /\ n \in 1..w  BY <1>1
  <2> HIDE DEF w
  <2>3. (n - 1) * c \in Nat /\ n * c = (n - 1) * c + c /\ n * c <= w * c /\ w * c = c * w
    BY <2>2
  <2> DEFINE a == (n - 1) * c
             b == w * c
  <2>4. a \in Nat /\ b \in Nat /\ a + c <= b
    BY <2>2, <2>3
  <2> HIDE DEF a, b
  <2>5. a + j \in 1..b  BY <2>4
  <2> QED BY <2>1, <2>3, <2>5 DEF a, b, w
<1>6. to \in [S -> T]
  <2> SUFFICES ASSUME NEW x \in S PROVE to[x] \in T  OBVIOUS
  <2>1. PICK k \in D : \E n \in 1..f[k], j \in 1..c : x = <<<<k, n>>, j>>  BY <1>3
  <2>2. PICK n \in 1..f[k], j \in 1..c : x = <<<<k, n>>, j>>  BY <2>1
  <2> HIDE DEF to, T, S
  <2> QED BY <2>2, <1>4, <1>5
<1>7. ASSUME NEW x \in S, NEW y \in S, to[x] = to[y] PROVE x = y
  <2>1. PICK k \in D : \E n \in 1..f[k], j \in 1..c : x = <<<<k, n>>, j>>  BY <1>3
  <2>2. PICK n \in 1..f[k], j \in 1..c : x = <<<<k, n>>, j>>  BY <2>1
  <2>3. PICK k2 \in D : \E n2 \in 1..f[k2], j2 \in 1..c : y = <<<<k2, n2>>, j2>>  BY <1>3
  <2>4. PICK n2 \in 1..f[k2], j2 \in 1..c : y = <<<<k2, n2>>, j2>>  BY <2>3
  <2>5. f[k] \in Nat /\ f[k2] \in Nat /\ n \in Nat \ {0} /\ n2 \in Nat \ {0}  BY <1>1
  <2> HIDE DEF to, S, T
  <2>6. k = k2 /\ (n - 1) * c + j = (n2 - 1) * c + j2
        /\ (n - 1) * c \in Nat /\ (n2 - 1) * c \in Nat
    BY <1>5, <1>7, <2>2, <2>4
  <2> DEFINE a == (n - 1) * c
             b == (n2 - 1) * c
             i == a + j - 1
  <2>7. i \in Nat /\ i - a \in 0..(c - 1) /\ i - b \in 0..(c - 1) /\ a \in Nat /\ b \in Nat
    <3>1. a \in Nat /\ b \in Nat /\ a + j = b + j2  BY <2>6
    <3> HIDE DEF a, b
    <3> QED BY <3>1
  <2>8. n - 1 \in Nat /\ n2 - 1 \in Nat  BY <2>5
  <2>9. n - 1 = n2 - 1
    <3> HIDE DEF i
    <3> QED BY <2>7, <2>8, TilesApart
  <2>10. n = n2  BY <2>5, <2>9
  <2>11. j = j2
    <3>1. a = b  BY <2>10
    <3>2. a + j = b + j2  BY <2>6
    <3> HIDE DEF a, b
    <3> QED BY <2>7, <3>1, <3>2
  <2> QED BY <2>2, <2>4, <2>6, <2>10, <2>11
<1>8. ASSUME NEW y \in T PROVE \E x \in S : to[x] = y
  <2>20. PICK k \in D : \E m \in 1..(c * f[k]) : y = <<k, m>>  BY <1>1 DEF RowsOfItems
  <2>1. PICK m \in 1..(c * f[k]) : y = <<k, m>>  BY <2>20
  <2> DEFINE w == f[k]
             d == (m - 1) \div c
             a == d * c
  <2>2. w \in Nat /\ m \in Nat \ {0} /\ m <= c * w  BY <1>1, <2>1
  <2>3. m - 1 \in Nat  BY <2>2
  <2>4. d \in Nat /\ a <= m - 1 /\ m - 1 < a + c  BY <2>3, DivBounds
  <2> HIDE DEF d, w
  <2>5. a \in Nat /\ (d + 1 > w => d * c >= w * c) /\ w * c = c * w  BY <2>2, <2>4
  <2>6. m - a \in 1..c
    <3> HIDE DEF a
    <3> QED BY <2>2, <2>4, <2>5
  <2>7. d + 1 \in 1..w
    <3> DEFINE e == c * w
    <3>1. e \in Nat /\ m <= e /\ (d + 1 > w => a >= e)  BY <2>2, <2>5
    <3> HIDE DEF a, e
    <3> QED BY <2>2, <2>4, <2>5, <3>1
  <2> DEFINE x == <<<<k, d + 1>>, m - a>>
  <2>8. to[x] = <<k, ((d + 1) - 1) * c + (m - a)>> /\ x \in S
    BY <1>2, <1>5, <2>6, <2>7 DEF w
  <2>9. (d + 1) - 1 = d  BY <2>4
  <2>10. a + (m - a) = m
    <3> HIDE DEF a
    <3> QED BY <2>2, <2>5
  <2> QED BY <2>1, <2>8, <2>9, <2>10
<1>9. to \in Bijection(S, T)
  <2> HIDE DEF to, S, T
  <2> QED BY <1>6, <1>7, <1>8, Fun_IsInj, Fun_IsBij DEF Bijection, Injection, Surjection
<1>10. ExistsBijection(S, T)  BY <1>9 DEF ExistsBijection
<1>11. /\ IsFiniteSet(RowsOfItems(f)) /\ Total(f) \in Nat /\ Total(f) = Cardinality(RowsOfItems(f))
  BY TotalLaws
<1>12. IsFiniteSet(1..c) /\ Cardinality(1..c) = c  BY FS_Interval
<1>13. IsFiniteSet(S) /\ Cardinality(S) = Total(f) * c
  <2> DEFINE R == RowsOfItems(f)
             J == 1..c
  <2>1. IsFiniteSet(R) /\ IsFiniteSet(J) /\ Cardinality(R) = Total(f) /\ Cardinality(J) = c
    BY <1>11, <1>12
  <2> HIDE DEF R, J
  <2>2. IsFiniteSet(R \X J) /\ Cardinality(R \X J) = Cardinality(R) * Cardinality(J)
    BY <2>1, FS_Product
  <2> QED BY <2>1, <2>2 DEF R, J
<1>14. Cardinality(T) = Total(f) * c  BY <1>10, <1>13, FS_Bijection
<1>15. Total(g) = Cardinality(T)  BY DEF Total
<1> QED BY <1>11, <1>14, <1>15
-----------------------------------------------------------------------------
(* Exponents.                                                                *)

LEMMA ExpLaws ==
    ASSUME NEW a \in Nat, NEW b \in Nat, a + b <= MaxScore
    PROVE  /\ Exp[a] \in Nat \ {0} /\ Exp[a + b] = Exp[a] * Exp[b]
           /\ Exp[a] \in 0..Exp[MaxScore] /\ Exp[MaxScore] \in Nat
<1>1. MaxScore \in Nat /\ Exp \in [0..MaxScore -> Nat \ {0}]  BY ExpAssumption
<1>2. a \in 0..MaxScore /\ b \in 0..MaxScore /\ MaxScore \in 0..MaxScore  BY <1>1
<1>3. Exp[a] \in Nat \ {0} /\ Exp[MaxScore] \in Nat  BY <1>1, <1>2
<1>4. Exp[a + b] = Exp[a] * Exp[b]  BY <1>2, ExpAssumption
<1>5. Exp[a] <= Exp[MaxScore]
  <2> DEFINE d == MaxScore - a
  <2>1. d \in 0..MaxScore /\ a + d = MaxScore  BY <1>1, <1>2
  <2> HIDE DEF d
  <2>2. Exp[d] \in Nat \ {0} /\ Exp[MaxScore] = Exp[a] * Exp[d]
    <3>1. Exp[a + d] = Exp[a] * Exp[d]  BY <1>1, <1>2, <2>1, ExpAssumption
    <3>2. Exp[d] \in Nat \ {0}  BY <1>1, <2>1
    <3> QED BY <2>1, <3>1, <3>2
  <2>3. ASSUME NEW x \in Nat, NEW y \in Nat \ {0} PROVE x <= x * y  BY <2>3
  <2> QED BY <1>3, <2>2, <2>3
<1> QED BY <1>3, <1>4, <1>5

LEMMA ExactDivision ==
    ASSUME NEW c \in Nat \ {0}, NEW x \in Nat
    PROVE  (c * x) \div c = x
<1> DEFINE i == c * x
           d == i \div c
<1>1. i \in Nat /\ i = x * c  OBVIOUS
<1> HIDE DEF i
<1>2. d \in Nat /\ d * c <= i /\ i < d * c + c  BY <1>1, DivBounds
<1> HIDE DEF d
<1>3. i - x * c \in 0..(c - 1)  BY <1>1
<1>4. i - d * c \in 0..(c - 1)
  <2> DEFINE a == d * c
  <2>1. a \in Nat /\ a <= i /\ i < a + c  BY <1>2
  <2> HIDE DEF a
  <2>2. i - a \in 0..(c - 1)  BY <1>1, <2>1
  <2> QED BY <2>2 DEF a
<1>5. d = x  BY <1>1, <1>2, <1>3, <1>4, TilesApart
<1> QED BY <1>5 DEF d, i

\* The terms of a softmax relative to the maximum m.
Terms(q, X, m) == [k \in X |-> Exp[MaxScore + q[k] - m]]

LEMMA TermsType ==
    ASSUME NEW X, NEW q, NEW m \in 0..MaxScore, \A k \in X : q[k] \in 0..MaxScore /\ q[k] <= m
    PROVE  Terms(q, X, m) \in [X -> 0..Exp[MaxScore]] /\ \A k \in X : Terms(q, X, m)[k] > 0
<1>1. ASSUME NEW k \in X PROVE Exp[MaxScore + q[k] - m] \in 0..Exp[MaxScore] /\ Exp[MaxScore + q[k] - m] > 0
  <2> DEFINE a == MaxScore + q[k] - m
  <2>1. MaxScore \in Nat  BY ExpAssumption
  <2>2. q[k] \in 0..MaxScore /\ q[k] <= m  OBVIOUS
  <2>3. a \in Nat /\ a + 0 <= MaxScore  BY <2>1, <2>2
  <2> HIDE DEF a
  <2>4. Exp[a] \in Nat \ {0} /\ Exp[a] \in 0..Exp[MaxScore]  BY <2>3, ExpLaws
  <2> QED BY <2>4 DEF a
<1> QED BY <1>1 DEF Terms

\* A higher maximum is a common factor.
LEMMA HigherMaximum ==
    ASSUME NEW X, IsFiniteSet(X), NEW q, NEW m \in 0..MaxScore, NEW n \in 0..MaxScore, m <= n,
           \A k \in X : q[k] \in 0..MaxScore /\ q[k] <= m
    PROVE  Total(Terms(q, X, m)) = Exp[n - m] * Total(Terms(q, X, n))
<1> DEFINE f == Terms(q, X, n)
           c == Exp[n - m]
           B == Exp[MaxScore]
<1>1. MaxScore \in Nat  BY ExpAssumption
<1>2. \A k \in X : q[k] \in 0..MaxScore /\ q[k] <= n
  <2> SUFFICES ASSUME NEW k \in X PROVE q[k] \in 0..MaxScore /\ q[k] <= n  OBVIOUS
  <2>1. q[k] \in 0..MaxScore /\ q[k] <= m  OBVIOUS
  <2> QED BY <1>1, <2>1
<1>3. f \in [X -> 0..B]  BY <1>2, TermsType
<1>4. n - m \in Nat /\ (n - m) + 0 <= MaxScore  BY <1>1
<1>5. c \in Nat \ {0} /\ B \in Nat  BY <1>4, ExpLaws
<1>6. ASSUME NEW k \in X PROVE Exp[MaxScore + q[k] - m] = c * f[k]
  <2>1. q[k] \in 0..MaxScore /\ q[k] <= m  OBVIOUS
  <2> DEFINE a == n - m
             b == MaxScore + q[k] - n
  <2>2. a \in Nat /\ b \in Nat /\ a + b = MaxScore + q[k] - m /\ a + b <= MaxScore
    BY <1>1, <2>1
  <2> HIDE DEF a, b
  <2>3. Exp[a + b] = Exp[a] * Exp[b]  BY <2>2, ExpLaws
  <2> QED BY <2>2, <2>3 DEF a, b, Terms
<1>7. Terms(q, X, m) = [k \in X |-> c * f[k]]
  <2> HIDE DEF c, f
  <2> QED BY <1>6 DEF Terms
<1> HIDE DEF c, f, B
<1>8. Total([k \in X |-> c * f[k]]) = c * Total(f)  BY <1>3, <1>5, TotalScaled
<1> QED BY <1>7, <1>8 DEF c, f

\* What was summed over X under the maximum m, rescaled to n.
Carried(q, X, m, n) == IF m = NegInf THEN 0 ELSE Total(Terms(q, X, m)) \div Exp[n - m]

\* One iteration of the online softmax: rescaling what was accumulated over X and
\* adding the terms over Y gives the sum over both under the new maximum.
LEMMA OnlineStep ==
    ASSUME NEW X, IsFiniteSet(X), NEW Y, IsFiniteSet(Y), X \cap Y = {}, NEW q,
           NEW m \in NegInf..MaxScore, NEW n \in 0..MaxScore, m <= n, m = NegInf => X = {},
           \A k \in X : q[k] \in 0..MaxScore /\ q[k] <= m,
           \A k \in Y : q[k] \in 0..MaxScore /\ q[k] <= n
    PROVE  Carried(q, X, m, n) + Total(Terms(q, Y, n)) = Total(Terms(q, X \cup Y, n))
<1> DEFINE B == Exp[MaxScore]
           f == Terms(q, X \cup Y, n)
           g == Terms(q, X, n)
           h == Terms(q, Y, n)
<1>1. MaxScore \in Nat  BY ExpAssumption
<1>2. \A k \in X \cup Y : q[k] \in 0..MaxScore /\ q[k] <= n
  <2> SUFFICES ASSUME NEW k \in X PROVE q[k] \in 0..MaxScore /\ q[k] <= n  OBVIOUS
  <2>1. q[k] \in 0..MaxScore /\ q[k] <= m  OBVIOUS
  <2>2. m \in Int  BY <1>1 DEF NegInf
  <2> QED BY <1>1, <2>1, <2>2
<1>3. f \in [X \cup Y -> 0..B]  BY <1>2, TermsType
<1>4. g \in [X -> 0..B]
  <2>1. \A k \in X : q[k] \in 0..MaxScore /\ q[k] <= n  BY <1>2
  <2> QED BY <2>1, TermsType
<1>5. g = [k \in X |-> f[k]] /\ h = [k \in Y |-> f[k]]  BY DEF Terms
<1>6. B \in Nat
  <2>1. MaxScore + 0 <= MaxScore  BY <1>1
  <2> QED BY <1>1, <2>1, ExpLaws
<1>7. Total(f) = Total(g) + Total(h)
  <2> HIDE DEF B, f, g, h
  <2>1. Total(f) = Total([k \in X |-> f[k]]) + Total([k \in Y |-> f[k]])
    BY <1>3, <1>6, TotalOfBoth
  <2> QED BY <1>5, <2>1
<1>8. Total(g) \in Nat /\ (X = {} => Total(g) = 0)
  <2> HIDE DEF B, g
  <2> QED BY <1>4, <1>6, TotalLaws
<1>9. CASE m = NegInf  BY <1>7, <1>8, <1>9 DEF Carried
<1>10. CASE m # NegInf
  <2>1. m \in 0..MaxScore  BY <1>1, <1>10 DEF NegInf
  <2> DEFINE c == Exp[n - m]
  <2>2. n - m \in Nat /\ (n - m) + 0 <= MaxScore  BY <1>1, <2>1
  <2>3. c \in Nat \ {0}  BY <2>2, ExpLaws
  <2>4. Total(Terms(q, X, m)) = c * Total(g)  BY <2>1, HigherMaximum
  <2> HIDE DEF c, g, f, h
  <2>5. (c * Total(g)) \div c = Total(g)  BY <1>8, <2>3, ExactDivision
  <2>6. Carried(q, X, m, n) = Total(g)  BY <1>10, <2>4, <2>5 DEF Carried, c
  <2> QED BY <1>7, <2>6 DEF g, f, h
<1> QED BY <1>9, <1>10

-----------------------------------------------------------------------------
(* The inductive invariant.                                                  *)

\* A program's state is a record; what a row's maximum may be.
ProgramOK(p) ==
    LET x == prog[p]
    IN  /\ DOMAIN x = {"at", "start", "m", "l", "acc"}
        /\ x.at \in {"new", "loop", "done"}
        /\ x.start \in Nat
        /\ x.m \in [Lanes -> NegInf..MaxScore]

\* A program past its first tile of keys is one whose tile has queries, and none
\* of its rows is without a maximum.
MaximaKnown(p) ==
    /\ prog[p].at = "loop" => ~TileIdle(NQ(p), Tile(p), TileM)
    /\ prog[p].at # "loop" => prog[p].start = 0
    /\ prog[p].start > 0 => \A i \in Lanes : prog[p].m[i] # NegInf

\* A row that was written is owned by a program that is done.
StoredByOwner ==
    \A rh \in DOMAIN out :
        out[rh] # Undefined => \E p \in Programs : Owns(meta, p, rh) /\ prog[p].at = "done"

KernelInv ==
    /\ meta \in Batches /\ score \in Scores(meta)
    /\ prog = [p \in Programs |-> prog[p]]
    /\ out = [rh \in Rows(meta) \X Heads |-> out[rh]]
    /\ \A p \in Programs : ProgramOK(p) /\ MaximaKnown(p)
    /\ StoredByOwner

\* Rows count from 0.
LEMMA RowsAreNat ==
    ASSUME NEW b \in Batches
    PROVE  Rows(b) \subseteq Nat
BY DEF Rows

\* A launch starts with every program fresh and nothing written.
LEMMA LaunchOK ==
    ASSUME NEW b \in Batches, NEW sc \in Scores(b),
           meta' = b, score' = sc, prog' = Programs0(b), out' = Output0(b)
    PROVE  KernelInv'
<1>1. Programs' = Grid(b)  BY DEF Programs
<1>2. \A p \in Grid(b) : prog'[p] = Fresh  BY DEF Programs0
<1>3. \A rh \in DOMAIN out' : out'[rh] = Undefined  BY DEF Output0
<1>4. TileM \in Nat \ {0}  BY TileAssumption
<1>5. [i \in Lanes |-> NegInf] \in [Lanes -> NegInf..MaxScore]  BY ExpAssumption DEF NegInf
<1>6. ASSUME NEW p \in Grid(b) PROVE ProgramOK(p)' /\ MaximaKnown(p)'
  BY <1>2, <1>5 DEF ProgramOK, MaximaKnown, Fresh
<1>7. prog' = [p \in Programs' |-> prog'[p]]  BY <1>1 DEF Programs0
<1>8. out' = [rh \in (Rows(meta) \X Heads)' |-> out'[rh]]  BY DEF Output0
<1>9. StoredByOwner'  BY <1>3 DEF StoredByOwner, Undefined
<1> QED BY <1>1, <1>6, <1>7, <1>8, <1>9 DEF KernelInv

LEMMA LaunchInit ==
    ASSUME KernelInit
    PROVE  KernelInv
<1>1. /\ meta \in Batches /\ score \in Scores(meta) /\ prog = Programs0(meta) /\ out = Output0(meta)
  BY DEF KernelInit
<1>2. \A p \in Programs : prog[p] = Fresh  BY <1>1 DEF Programs0, Programs
<1>3. \A rh \in DOMAIN out : out[rh] = Undefined  BY <1>1 DEF Output0
<1>4. [i \in Lanes |-> NegInf] \in [Lanes -> NegInf..MaxScore]  BY ExpAssumption DEF NegInf
<1>5. ASSUME NEW p \in Programs PROVE ProgramOK(p) /\ MaximaKnown(p)
  BY <1>2, <1>4 DEF ProgramOK, MaximaKnown, Fresh
<1>6. prog = [p \in Programs |-> prog[p]]  BY <1>1 DEF Programs0, Programs
<1>7. out = [rh \in Rows(meta) \X Heads |-> out[rh]]  BY <1>1 DEF Output0
<1>8. StoredByOwner  BY <1>3 DEF StoredByOwner, Undefined
<1> QED BY <1>1, <1>5, <1>6, <1>7, <1>8 DEF KernelInv

\* A step of program p changes the state of no other program.
LEMMA ProgramStep ==
    ASSUME KernelInv, NEW p \in Programs, NEW x,
           prog' = [prog EXCEPT ![p] = x], UNCHANGED <<meta, score>>,
           out' = [rh \in Rows(meta) \X Heads |-> out'[rh]],
           ProgramOK(p)', MaximaKnown(p)', StoredByOwner'
    PROVE  KernelInv'
<1>1. prog' = [q \in Programs |-> IF q = p THEN x ELSE prog[q]]  BY DEF KernelInv
<1>2. Programs' = Programs /\ Rows(meta)' = Rows(meta)  BY DEF Programs
<1>3. ASSUME NEW q \in Programs, q # p PROVE ProgramOK(q)' /\ MaximaKnown(q)'
  <2>1. prog'[q] = prog[q]  BY <1>1, <1>3
  <2>2. ProgramOK(q) /\ MaximaKnown(q)  BY DEF KernelInv
  <2>3. NQ(q)' = NQ(q)  BY DEF NQ
  <2> QED BY <2>1, <2>2, <2>3 DEF ProgramOK, MaximaKnown
<1>4. \A q \in Programs : ProgramOK(q)' /\ MaximaKnown(q)'  BY <1>3
<1>5. prog' = [q \in Programs' |-> prog'[q]]  BY <1>1, <1>2
<1>6. out' = [rh \in (Rows(meta) \X Heads)' |-> out'[rh]]  BY <1>2
<1>7. meta' \in Batches /\ score' \in Scores(meta')  BY DEF KernelInv
<1> QED BY <1>2, <1>4, <1>5, <1>6, <1>7 DEF KernelInv

\* A program that stores nothing and was not done leaves the rows their owners.
LEMMA OwnersStay ==
    ASSUME KernelInv, NEW p \in Programs, NEW x,
           prog' = [prog EXCEPT ![p] = x], UNCHANGED <<meta, out>>, prog[p].at # "done"
    PROVE  StoredByOwner'
<1>1. prog' = [q \in Programs |-> IF q = p THEN x ELSE prog[q]]  BY DEF KernelInv
<1>2. Programs' = Programs  BY DEF Programs
<1>3. ASSUME NEW rh \in DOMAIN out, out[rh] # Undefined
      PROVE  \E q \in Programs : Owns(meta, q, rh) /\ prog'[q].at = "done"
  <2>1. PICK q \in Programs : Owns(meta, q, rh) /\ prog[q].at = "done"
    BY <1>3 DEF KernelInv, StoredByOwner
  <2>2. prog'[q] = prog[q]  BY <1>1, <2>1
  <2> QED BY <2>1, <2>2
<1> QED BY <1>2, <1>3 DEF StoredByOwner, Undefined

LEMMA BeginKeeps ==
    ASSUME KernelInv, NEW p \in Programs, Begin(p)
    PROVE  KernelInv'
<1> DEFINE x == [prog[p] EXCEPT !.at = IF TileIdle(NQ(p), Tile(p), TileM) THEN "done" ELSE "loop"]
<1>1. /\ prog' = [prog EXCEPT ![p] = x] /\ UNCHANGED <<meta, score, out>> /\ prog[p].at = "new"
  BY DEF Begin
<1>2. ProgramOK(p) /\ MaximaKnown(p)  BY DEF KernelInv
<1>3. prog'[p] = x  BY <1>1 DEF KernelInv
<1>4. ProgramOK(p)'  BY <1>2, <1>3 DEF ProgramOK
<1>5. MaximaKnown(p)'
  <2>1. prog[p].start = 0  BY <1>1, <1>2 DEF MaximaKnown
  <2>2. x.start = 0 /\ x.at = IF TileIdle(NQ(p), Tile(p), TileM) THEN "done" ELSE "loop"
    BY <1>2, <2>1 DEF ProgramOK
  <2>3. NQ(p)' = NQ(p)  BY <1>1 DEF NQ
  <2> QED BY <1>3, <2>2, <2>3 DEF MaximaKnown
<1>6. out' = [rh \in Rows(meta) \X Heads |-> out'[rh]]  BY <1>1 DEF KernelInv
<1> HIDE DEF x
<1>7. StoredByOwner'
  <2>1. prog[p].at # "done"  BY <1>1
  <2> QED BY <1>1, <2>1, OwnersStay
<1> QED BY <1>1, <1>4, <1>5, <1>6, <1>7, ProgramStep

-----------------------------------------------------------------------------
(* Maxima.                                                                   *)

\* The numbers of a program.
LEMMA ProgramNumbers ==
    ASSUME KernelInv, NEW p \in Programs
    PROVE  /\ p \in Grid(meta) /\ meta \in Batches /\ score \in Scores(meta)
           /\ p[3] \in BatchSeqs(meta) /\ QHead(p) \in Heads /\ Tile(p) \in Nat
           /\ L(p) \in Nat \ {0} /\ L(p) = meta.lens[p[3]]
           /\ NQ(p) \in 1..L(p) /\ NQ(p) = NumQ(meta, p[3])
           /\ End(p) \in Int /\ End(p) <= L(p)
           /\ prog[p].start \in Nat
<1>1. p \in Grid(meta) /\ meta \in Batches /\ score \in Scores(meta)  BY DEF KernelInv, Programs
<1>2. p[3] \in BatchSeqs(meta) /\ QHead(p) \in Heads /\ Tile(p) \in Nat /\ TileM \in Nat
  BY <1>1, ProgramFacts
<1>3. /\ L(p) \in Nat \ {0} /\ NQ(p) \in Nat \ {0} /\ NQ(p) <= L(p) /\ L(p) = meta.lens[p[3]]
      /\ NQ(p) = NumQ(meta, p[3])
  BY <1>1, <1>2, BatchFacts DEF L, NQ
<1>4. End(p) \in Int /\ End(p) <= L(p)
  <2> DEFINE far == L(p) - NQ(p) + (Tile(p) + 1) * TileM
  <2>1. (Tile(p) + 1) * TileM \in Nat  BY <1>2
  <2>2. far \in Int  BY <1>3, <2>1
  <2>3. End(p) = IF L(p) < far THEN L(p) ELSE far  BY DEF End, KvEnd, Smaller
  <2> HIDE DEF far
  <2> QED BY <1>3, <2>2, <2>3
<1>5. prog[p].start \in Nat  BY DEF KernelInv, ProgramOK
<1> QED BY <1>1, <1>2, <1>3, <1>4, <1>5

\* Both ways to find the kv head of a query head.
LEMMA KvHeadLaws ==
    ASSUME NEW h \in Heads
    PROVE  /\ KvHead(h, NumHeads, NumKvHeads) \in 0..(NumKvHeads - 1)
           /\ KvHead(h, NumHeads, NumKvHeads) = RepeatedHead(h, NumHeads \div NumKvHeads)
<1> DEFINE g == NumHeads \div NumKvHeads
           d == h \div g
<1>1. NumHeads \in Nat \ {0} /\ NumKvHeads \in Nat \ {0}  BY TileAssumption
<1>2. h \in Nat /\ h < NumHeads  BY <1>1 DEF Heads
<1>3. g \in Nat /\ g * NumKvHeads = NumHeads  BY <1>1, HeadsAssumption
<1>4. KvHead(h, NumHeads, NumKvHeads) = d  BY DEF KvHead
<1> HIDE DEF g
<1>5. g \in Nat \ {0}  BY <1>1, <1>3
<1>6. d \in Nat /\ d * g <= h /\ h < d * g + g  BY <1>2, <1>5, DivBounds
<1> HIDE DEF d
<1>7. d \in 0..(NumKvHeads - 1)
  <2>1. NumKvHeads <= d => NumKvHeads * g <= d * g  BY <1>1, <1>5, <1>6
  <2>2. NumKvHeads * g = NumHeads /\ d * g \in Nat  BY <1>1, <1>3, <1>5, <1>6
  <2>3. d < NumKvHeads  BY <1>1, <1>2, <1>6, <2>1, <2>2
  <2> QED BY <1>1, <1>6, <2>3
<1>8. d <= h
  <2>1. d <= d * g  BY <1>5, <1>6
  <2>2. d * g \in Nat  BY <1>5, <1>6
  <2> QED BY <1>2, <1>6, <2>1, <2>2
<1>9. ASSUME NEW kv \in 0..h
      PROVE  h \in (kv * g)..(kv * g + g - 1) <=> kv = d
  <2>1. kv \in Nat /\ kv * g \in Nat /\ d * g \in Nat  BY <1>2, <1>5, <1>6
  <2>2. h - d * g \in 0..(g - 1)
    <3> DEFINE a == d * g
    <3>1. a \in Nat /\ a <= h /\ h < a + g  BY <1>6, <2>1
    <3> HIDE DEF a
    <3>2. h - a \in 0..(g - 1)  BY <1>2, <1>5, <3>1
    <3> QED BY <3>2 DEF a
  <2>3. h \in (kv * g)..(kv * g + g - 1) <=> h - kv * g \in 0..(g - 1)
    <3> DEFINE a == kv * g
    <3>1. a \in Nat  BY <2>1
    <3> HIDE DEF a
    <3>2. h \in a..(a + g - 1) <=> h - a \in 0..(g - 1)  BY <1>2, <1>5, <3>1
    <3> QED BY <3>2 DEF a
  <2> QED BY <1>2, <1>5, <1>6, <2>1, <2>2, <2>3, TilesApart
<1>10. d \in 0..h  BY <1>2, <1>6, <1>8
<1>11. RepeatedHead(h, g) = d  BY <1>9, <1>10 DEF RepeatedHead
<1> QED BY <1>4, <1>7, <1>11 DEF g

\* A row of a sequence is a row of its batch.
LEMMA RowOfBatch ==
    ASSUME NEW b \in Batches, NEW s \in BatchSeqs(b), NEW r \in RowsOf(b, s)
    PROVE  r \in Rows(b)
<1> DEFINE n == Len(b.lens)
           last == b.cu[n + 1]
           next == b.cu[s + 1]
<1>1. n \in Nat /\ s \in 1..n /\ b.cu \in [1..(n + 1) -> Nat]  BY BatchesAssumption DEF BatchSeqs
<1>2. n + 1 \in DOMAIN b.cu /\ s + 1 \in DOMAIN b.cu /\ (s + 1 < n + 1 \/ s + 1 = n + 1)
  BY <1>1
<1>3. last \in Nat /\ next \in Nat /\ b.cu[s] \in Nat  BY <1>1, <1>2, BatchFacts
<1>4. next <= last  BY <1>2, <1>3, BatchesAssumption
<1>5. r \in b.cu[s]..(next - 1)  BY DEF RowsOf
<1> HIDE DEF last, next
<1>6. r \in 0..(last - 1)  BY <1>3, <1>4, <1>5
<1> QED BY <1>6 DEF Rows, last

\* What a real row of a tile loads is a row of Q.
LEMMA QueryKnown ==
    ASSUME KernelInv, NEW p \in Programs, NEW i \in Lanes, Query(p, i) < NQ(p)
    PROVE  QueryOf(p, i) \in Rows(meta) \X Heads
<1> DEFINE s == p[3]
           r == meta.cu[s] + Query(p, i)
<1>1. /\ meta \in Batches /\ s \in BatchSeqs(meta) /\ QHead(p) \in Heads
      /\ Tile(p) \in Nat /\ NQ(p) = NumQ(meta, s)
  BY ProgramNumbers
<1>2. Query(p, i) \in Nat
  <2>1. Tile(p) * TileM \in Nat  BY <1>1, TileAssumption
  <2> QED BY <2>1 DEF Query, Lanes
<1>3. /\ meta.cu[s] \in Nat /\ meta.cu[s + 1] \in Nat
      /\ NumQ(meta, s) = meta.cu[s + 1] - meta.cu[s]
  BY <1>1, BatchFacts
<1>4. r \in meta.cu[s]..(meta.cu[s + 1] - 1)  BY <1>1, <1>2, <1>3
<1>5. r \in Rows(meta)  BY <1>1, <1>4, RowOfBatch DEF RowsOf
<1> QED BY <1>1, <1>5 DEF QueryOf

\* Every cell that a key can be in exists, and its score is a number the kernel
\* may meet.
LEMMA CellKnown ==
    ASSUME KernelInv, NEW p \in Programs, NEW k \in 0..(L(p) - 1)
    PROVE  /\ Cell(p, k) \in Cells
           /\ \A i \in Lanes : QK(p, i, k) \in 0..MaxScore
<1> DEFINE s == p[3]
<1>1. /\ meta \in Batches /\ score \in Scores(meta) /\ s \in BatchSeqs(meta) /\ QHead(p) \in Heads
      /\ L(p) \in Nat \ {0} /\ L(p) = meta.lens[s]
  BY ProgramNumbers
<1>2. k \div BlockSize + 1 \in DOMAIN meta.tables[s]
  <2>1. k \div BlockSize \in 0..(CDiv(L(p), BlockSize) - 1)  BY <1>1, KeysStayInTable
  <2>2. /\ meta.tables[s] \in Seq(0..(NumBlocks - 1))
        /\ Len(meta.tables[s]) >= CDiv(L(p), BlockSize)
    BY <1>1, BatchesAssumption
  <2>3. CDiv(L(p), BlockSize) \in Nat  BY <1>1, BlockSizeAssumption, CDivBounds
  <2> QED BY <2>1, <2>2, <2>3
<1>3. meta.tables[s][k \div BlockSize + 1] \in 0..(NumBlocks - 1)
  <2> DEFINE row == meta.tables[s]
             j   == k \div BlockSize + 1
             B   == 0..(NumBlocks - 1)
  <2>1. row \in Seq(B)  BY <1>1, BatchesAssumption
  <2>2. j \in DOMAIN row  BY <1>2
  <2> HIDE DEF row, j, B
  <2>3. row[j] \in B  BY <2>1, <2>2
  <2> QED BY <2>3 DEF row, j, B
<1>4. k % BlockSize \in 0..(BlockSize - 1)  BY BlockSizeAssumption
<1>5. KvHead(QHead(p), NumHeads, NumKvHeads) \in 0..(NumKvHeads - 1)  BY <1>1, KvHeadLaws
<1>6. Cell(p, k) \in Cells  BY <1>3, <1>4, <1>5 DEF Cell, SlotOf, Cells
<1>7. ASSUME NEW i \in Lanes PROVE QK(p, i, k) \in 0..MaxScore
  <2>1. CASE Query(p, i) < NQ(p)
    <3>1. QueryOf(p, i) \in Rows(meta) \X Heads  BY <2>1, QueryKnown
    <3>2. score \in [Rows(meta) \X Heads -> [Cells -> 0..MaxScore]]  BY <1>1, ScoresAssumption
    <3>3. score[QueryOf(p, i)] \in [Cells -> 0..MaxScore]  BY <3>1, <3>2
    <3>4. score[QueryOf(p, i)][Cell(p, k)] \in 0..MaxScore  BY <1>6, <3>3
    <3> QED BY <2>1, <3>4 DEF QK
  <2>2. CASE ~(Query(p, i) < NQ(p))  BY <2>2, ExpAssumption DEF QK
  <2> QED BY <2>1, <2>2
<1> QED BY <1>6, <1>7

\* The keys of a tile are positions of the context.
LEMMA SeenLaws ==
    ASSUME KernelInv, NEW p \in Programs, NEW i \in Lanes
    PROVE  /\ Seen(p, i) \subseteq 0..(L(p) - 1)
           /\ \A k \in Seen(p, i) : QK(p, i, k) \in 0..MaxScore
<1>1. ASSUME NEW k \in Seen(p, i) PROVE k \in 0..(L(p) - 1)
  <2>1. /\ L(p) \in Nat \ {0} /\ End(p) \in Int /\ End(p) <= L(p) /\ prog[p].start \in Nat
    BY ProgramNumbers
  <2>2. k \in prog[p].start..(prog[p].start + TileN - 1) /\ k < End(p)
    BY DEF Seen, VisibleKeys, TileKeys
  <2>3. k \in Nat  BY <2>1, <2>2, TileAssumption
  <2> QED BY <2>1, <2>2, <2>3
<1> QED BY <1>1, CellKnown

\* A new maximum is at least the old one and every score in the tile.
LEMMA NewMaxLaws ==
    ASSUME KernelInv, NEW p \in Programs, NEW i \in Lanes
    PROVE  /\ NewMax(p, i) \in NegInf..MaxScore
           /\ prog[p].m[i] <= NewMax(p, i)
           /\ \A k \in Seen(p, i) : QK(p, i, k) <= NewMax(p, i)
           /\ Seen(p, i) # {} => NewMax(p, i) # NegInf
<1> DEFINE S == {prog[p].m[i]} \cup {QK(p, i, k) : k \in Seen(p, i)}
           n == NewMax(p, i)
           old == prog[p].m[i]
<1>1. MaxScore \in Nat /\ NegInf = -1  BY ExpAssumption DEF NegInf
<1>2. old \in NegInf..MaxScore  BY DEF KernelInv, ProgramOK
<1>3. \A k \in Seen(p, i) : QK(p, i, k) \in 0..MaxScore  BY SeenLaws
<1>4. S \in SUBSET Int /\ \A y \in S : NegInf <= y /\ y <= MaxScore  BY <1>1, <1>2, <1>3
<1>5. old \in S /\ \A k \in Seen(p, i) : QK(p, i, k) \in S  OBVIOUS
<1>6. n = CHOOSE x \in S : \A y \in S : x >= y  BY DEF NewMax, Max
<1> HIDE DEF S, n, old
<1>7. \E x \in S : \A y \in S : y <= x
  <2>1. S \in SUBSET Int /\ S # {} /\ MaxScore \in Int /\ \A y \in S : y <= MaxScore
    BY <1>1, <1>4, <1>5
  <2> QED BY <2>1, MaximumExists
<1>8. n \in S /\ \A y \in S : y <= n
  <2>1. \E x \in S : \A y \in S : x >= y  BY <1>4, <1>7
  <2>2. n \in S /\ \A y \in S : n >= y  BY <1>6, <2>1
  <2> QED BY <1>4, <2>2
<1>9. n \in NegInf..MaxScore  BY <1>1, <1>4, <1>8
<1>10. ASSUME NEW k \in Seen(p, i) PROVE n # NegInf
  <2>1. QK(p, i, k) \in S /\ QK(p, i, k) \in 0..MaxScore  BY <1>3, <1>5
  <2>2. QK(p, i, k) <= n  BY <1>8, <2>1
  <2> QED BY <1>1, <1>9, <2>1, <2>2
<1> QED BY <1>5, <1>8, <1>9, <1>10 DEF n, old

\* Fresh rows see key 0 in their first tile of keys; afterwards a maximum only grows.
LEMMA AccumulateKeeps ==
    ASSUME KernelInv, NEW p \in Programs, Accumulate(p)
    PROVE  KernelInv'
<1>1. /\ prog[p].at = "loop" /\ UNCHANGED <<meta, score, out>>
  BY DEF Accumulate
<1>2. PICK l, acc : prog' = [prog EXCEPT ![p] =
          [prog[p] EXCEPT !.start = prog[p].start + TileN,
                          !.m = [i \in Lanes |-> NewMax(p, i)], !.l = l, !.acc = acc]]
  BY DEF Accumulate
<1> DEFINE x == [prog[p] EXCEPT !.start = prog[p].start + TileN,
                                !.m = [i \in Lanes |-> NewMax(p, i)], !.l = l, !.acc = acc]
<1>3. ProgramOK(p) /\ MaximaKnown(p)  BY DEF KernelInv
<1>4. prog'[p] = x  BY <1>2 DEF KernelInv
<1>5. /\ DOMAIN x = {"at", "start", "m", "l", "acc"} /\ x.at = "loop"
      /\ x.start = prog[p].start + TileN /\ x.m = [i \in Lanes |-> NewMax(p, i)]
  BY <1>1, <1>3 DEF ProgramOK
<1> HIDE DEF x
<1>6. \A i \in Lanes : NewMax(p, i) \in NegInf..MaxScore  BY <1>1, NewMaxLaws
<1>7. [i \in Lanes |-> NewMax(p, i)] \in [Lanes -> NegInf..MaxScore]  BY <1>6
<1>8. ProgramOK(p)'  BY <1>3, <1>4, <1>5, <1>7, TileAssumption DEF ProgramOK
<1>9. MaximaKnown(p)'
  <2>1. ASSUME NEW i \in Lanes PROVE NewMax(p, i) # NegInf
    <3>1. CASE prog[p].start > 0
      <4>1. prog[p].m[i] # NegInf /\ prog[p].m[i] \in NegInf..MaxScore
        BY <1>3, <3>1 DEF MaximaKnown, ProgramOK
      <4>2. prog[p].m[i] <= NewMax(p, i) /\ NewMax(p, i) \in NegInf..MaxScore  BY <1>1, NewMaxLaws
      <4>3. ASSUME NEW a \in NegInf..MaxScore, NEW b \in NegInf..MaxScore, a <= b, a # NegInf
            PROVE  b # NegInf
        BY <4>3, ExpAssumption DEF NegInf
      <4> QED BY <4>1, <4>2, <4>3
    <3>2. CASE prog[p].start = 0
      <4>1. p \in Grid(meta) /\ meta \in Batches  BY DEF KernelInv, Programs
      <4>2. p[3] \in BatchSeqs(meta) /\ Tile(p) \in Nat  BY <4>1, ProgramFacts
      <4>3. L(p) \in Nat \ {0} /\ NQ(p) \in 1..L(p)  BY <4>1, <4>2, BatchFacts DEF L, NQ
      <4>4. ~TileIdle(NQ(p), Tile(p), TileM)  BY <1>1, <1>3 DEF MaximaKnown
      <4>5. 0 \in VisibleKeys(L(p), NQ(p), Tile(p) * TileM + i, TileKeys(0, KvEnd(L(p), NQ(p), Tile(p), TileM), TileN))
        BY <4>2, <4>3, <4>4, TileAssumption, FirstTileSeesKeyZero DEF Lanes
      <4>6. 0 \in Seen(p, i)  BY <3>2, <4>5 DEF Seen, Query, End
      <4> QED BY <1>1, <4>6, NewMaxLaws
    <3> QED BY <1>3, <3>1, <3>2 DEF ProgramOK
  <2>2. NQ(p)' = NQ(p)  BY <1>1 DEF NQ
  <2>3. ~TileIdle(NQ(p), Tile(p), TileM)  BY <1>1, <1>3 DEF MaximaKnown
  <2> QED BY <1>4, <1>5, <2>1, <2>2, <2>3 DEF MaximaKnown
<1>10. StoredByOwner'
  <2>1. prog[p].at # "done"  BY <1>1
  <2> QED BY <1>1, <1>2, <2>1, OwnersStay
<1>11. out' = [rh \in Rows(meta) \X Heads |-> out'[rh]]  BY <1>1 DEF KernelInv
<1> QED BY <1>1, <1>2, <1>8, <1>9, <1>10, <1>11, ProgramStep

-----------------------------------------------------------------------------
(* Stores.                                                                   *)

\* A store writes the rows that its program owns.
LEMMA StoreWrites ==
    ASSUME KernelInv, NEW p \in Programs, Store(p)
    PROVE  /\ out' = [rh \in Rows(meta) \X Heads |-> out'[rh]]
           /\ \A rh \in Rows(meta) \X Heads : out'[rh] # out[rh] => Owns(meta, p, rh)
<1>1. DOMAIN out = Rows(meta) \X Heads  BY DEF KernelInv
<1>2. out' = [rh \in DOMAIN out |->
                 LET i == rh[1] - meta.cu[p[3]] - Tile(p) * TileM
                 IN  IF rh[2] = QHead(p) /\ i \in StoredLanes(p)
                     THEN [num |-> prog[p].acc[i], den |-> prog[p].l[i]]
                     ELSE out[rh]]
  BY DEF Store
<1>3. ASSUME NEW rh \in Rows(meta) \X Heads, out'[rh] # out[rh]
      PROVE  Owns(meta, p, rh)
  <2> DEFINE i == rh[1] - meta.cu[p[3]]
  <2>1. rh[2] = QHead(p) /\ i - Tile(p) * TileM \in StoredLanes(p)  BY <1>1, <1>2, <1>3
  <2>2. i - Tile(p) * TileM \in Lanes /\ Query(p, i - Tile(p) * TileM) < NQ(p)
    BY <2>1 DEF StoredLanes
  <2>3. p \in Grid(meta) /\ meta \in Batches  BY DEF KernelInv, Programs
  <2>4. p[3] \in BatchSeqs(meta) /\ Tile(p) * TileM \in Nat  BY <2>3, ProgramFacts
  <2>5. rh[1] \in Nat /\ meta.cu[p[3]] \in Nat  BY <1>3, <2>3, <2>4, RowsAreNat, BatchFacts
  <2>6. i \in Int  BY <2>5
  <2> HIDE DEF i
  <2>7. Query(p, i - Tile(p) * TileM) = i  BY <2>4, <2>6 DEF Query
  <2>8. i < NumQ(meta, p[3])  BY <2>2, <2>7 DEF NQ
  <2> QED BY <2>1, <2>2, <2>3, <2>8 DEF Owns, i
<1>4. out' = [rh \in Rows(meta) \X Heads |-> out'[rh]]  BY <1>1, <1>2
<1> QED BY <1>3, <1>4

\* So it changes none that another program has stored.
LEMMA StoreKeepsOthers ==
    ASSUME KernelInv, NEW p \in Programs, Store(p),
           NEW rh \in Rows(meta) \X Heads, out[rh] # Undefined
    PROVE  out'[rh] = out[rh]
<1> SUFFICES ASSUME out'[rh] # out[rh] PROVE FALSE  OBVIOUS
<1>1. Owns(meta, p, rh) /\ prog[p].at = "loop"  BY StoreWrites DEF Store
<1>2. PICK q \in Programs : Owns(meta, q, rh) /\ prog[q].at = "done"
  BY DEF KernelInv, StoredByOwner
<1>3. meta \in Batches /\ rh \in Nat \X Heads  BY RowsAreNat DEF KernelInv
<1>4. p = q  BY <1>1, <1>2, <1>3, OneOwner
<1> QED BY <1>1, <1>2, <1>4

LEMMA StoreKeeps ==
    ASSUME KernelInv, NEW p \in Programs, Store(p)
    PROVE  KernelInv'
<1> DEFINE x == [Fresh EXCEPT !.at = "done"]
<1>1. prog' = [prog EXCEPT ![p] = x] /\ UNCHANGED <<meta, score>> /\ prog[p].at = "loop"
  BY DEF Store
<1>2. prog'[p] = x  BY <1>1 DEF KernelInv
<1>3. [i \in Lanes |-> NegInf] \in [Lanes -> NegInf..MaxScore]  BY ExpAssumption DEF NegInf
<1>4. ProgramOK(p)' /\ MaximaKnown(p)'  BY <1>2, <1>3 DEF ProgramOK, MaximaKnown, Fresh
<1>5. out' = [rh \in Rows(meta) \X Heads |-> out'[rh]]  BY StoreWrites
<1>6. StoredByOwner'
  <2>1. Programs' = Programs  BY <1>1 DEF Programs
  <2>2. prog' = [q \in Programs |-> IF q = p THEN x ELSE prog[q]]  BY <1>1 DEF KernelInv
  <2>3. ASSUME NEW rh \in Rows(meta) \X Heads, out'[rh] # Undefined
        PROVE  \E q \in Programs : Owns(meta, q, rh) /\ prog'[q].at = "done"
    <3>1. CASE out'[rh] # out[rh]
      <4>1. Owns(meta, p, rh)  BY <3>1, StoreWrites
      <4> QED BY <1>2, <4>1 DEF Fresh
    <3>2. CASE out'[rh] = out[rh]
      <4>1. PICK q \in Programs : Owns(meta, q, rh) /\ prog[q].at = "done"
        BY <2>3, <3>2 DEF KernelInv, StoredByOwner
      <4>2. prog'[q] = prog[q]  BY <1>1, <2>2, <4>1
      <4> QED BY <4>1, <4>2
    <3> QED BY <3>1, <3>2
  <2>4. DOMAIN out' = Rows(meta) \X Heads  BY <1>5
  <2> QED BY <1>1, <2>1, <2>3, <2>4 DEF StoredByOwner, Undefined
<1> HIDE DEF x
<1> QED BY <1>1, <1>4, <1>5, <1>6, ProgramStep

-----------------------------------------------------------------------------
LEMMA StepKernel ==
    ASSUME KernelInv, [KernelNext]_kernelVars
    PROVE  KernelInv'
<1>1. ASSUME NEW p \in Programs, Begin(p) PROVE KernelInv'  BY <1>1, BeginKeeps
<1>2. ASSUME NEW p \in Programs, Accumulate(p) PROVE KernelInv'  BY <1>2, AccumulateKeeps
<1>3. ASSUME NEW p \in Programs, Store(p) PROVE KernelInv'  BY <1>3, StoreKeeps
<1>4. CASE Relaunch
  <2>1. PICK b \in Batches : /\ meta' = b /\ score' \in Scores(b)
                             /\ prog' = Programs0(b) /\ out' = Output0(b)
    BY <1>4 DEF Relaunch
  <2> QED BY <2>1, LaunchOK
<1>5. CASE UNCHANGED kernelVars
  <2>1. meta' = meta /\ score' = score /\ prog' = prog /\ out' = out  BY <1>5 DEF kernelVars
  <2>2. Programs' = Programs /\ Rows(meta)' = Rows(meta)  BY <2>1 DEF Programs
  <2>3. \A p \in Programs : ProgramOK(p)' /\ MaximaKnown(p)'
    BY <2>1 DEF KernelInv, ProgramOK, MaximaKnown, NQ
  <2>4. StoredByOwner'  BY <2>1, <2>2 DEF KernelInv, StoredByOwner, Undefined
  <2> QED BY <2>1, <2>2, <2>3, <2>4 DEF KernelInv
<1> QED BY <1>1, <1>2, <1>3, <1>4, <1>5 DEF KernelNext

THEOREM KernelInvHolds == KernelSpec => []KernelInv
BY LaunchInit, StepKernel, PTL DEF KernelSpec

\* The programs of a launch write disjoint rows of the output tensor, whatever
\* the order they run in.
THEOREM RowsWrittenOnceHolds == KernelSpec => RowsWrittenOnce
<1> DEFINE Kept == ~Finished => \A rh \in DOMAIN out : out[rh] # Undefined => out'[rh] = out[rh]
<1>1. KernelInv /\ [KernelNext]_kernelVars => [Kept]_kernelVars
  <2> SUFFICES ASSUME KernelInv, KernelNext, ~Finished, NEW rh \in DOMAIN out, out[rh] # Undefined
               PROVE  out'[rh] = out[rh]
    OBVIOUS
  <2>1. rh \in Rows(meta) \X Heads  BY DEF KernelInv
  <2>2. ASSUME NEW p \in Programs, Begin(p) \/ Accumulate(p) PROVE out'[rh] = out[rh]
    BY <2>2 DEF Begin, Accumulate
  <2>3. ASSUME NEW p \in Programs, Store(p) PROVE out'[rh] = out[rh]
    BY <2>1, <2>3, StoreKeepsOthers
  <2>4. ~Relaunch  BY DEF Relaunch
  <2> QED BY <2>2, <2>3, <2>4 DEF KernelNext
<1> QED BY <1>1, KernelInvHolds, PTL DEF KernelSpec, RowsWrittenOnce

-----------------------------------------------------------------------------
(* The sums.                                                                 *)

\* The keys that lane i of p has gone over.
KeysSeen(p, i) == VisibleKeys(L(p), NQ(p), Query(p, i), TileKeys(0, End(p), prog[p].start))

RowScores(p, i) == [k \in 0..(L(p) - 1) |-> QK(p, i, k)]

KeysIn(p, keys, c) == {k \in keys : Cell(p, k) = c}

\* What a lane holds is the softmax of the keys it has gone over, relative to its
\* running maximum: no key twice, none left out, none under an older maximum.
SumsOf(p, i) ==
    LET x == prog[p]
        K == KeysSeen(p, i)
    IN  /\ x.m[i] = NegInf => K = {}
        /\ \A k \in K : QK(p, i, k) <= x.m[i]
        /\ x.l[i] = Total(Terms(RowScores(p, i), K, x.m[i]))
        /\ x.acc[i] = [c \in Cells |-> Total(Terms(RowScores(p, i), KeysIn(p, K, c), x.m[i]))]

\* What a program that is done has stored is right.
RowsRight ==
    \A p \in Programs : prog[p].at = "done" =>
        \A rh \in Rows(meta) \X Heads : Owns(meta, p, rh) =>
            SameValue(out[rh], Reference(p[3], rh[1] - meta.cu[p[3]], rh[2]))

SumInv ==
    /\ \A p \in Programs : \A i \in Lanes : SumsOf(p, i)
    /\ RowsRight

LEMMA EmptyTotal ==
    ASSUME NEW q, NEW m
    PROVE  Total(Terms(q, {}, m)) = 0
<1>1. RowsOfItems(Terms(q, {}, m)) = {}  BY DEF RowsOfItems, Terms
<1> QED BY <1>1, FS_EmptySet DEF Total

LEMMA KeysSeenLaws ==
    ASSUME KernelInv, NEW p \in Programs, NEW i \in Lanes
    PROVE  /\ KeysSeen(p, i) \subseteq 0..(L(p) - 1) /\ Seen(p, i) \subseteq 0..(L(p) - 1)
           /\ KeysSeen(p, i) \cap Seen(p, i) = {}
           /\ KeysSeen(p, i) \cup Seen(p, i)
                = VisibleKeys(L(p), NQ(p), Query(p, i), TileKeys(0, End(p), prog[p].start + TileN))
           /\ IsFiniteSet(0..(L(p) - 1))
<1>1. /\ L(p) \in Nat \ {0} /\ End(p) \in Int /\ End(p) <= L(p) /\ prog[p].start \in Nat
  BY ProgramNumbers
<1>2. TileN \in Nat \ {0}  BY TileAssumption
<1> DEFINE st == prog[p].start
           e  == End(p)
           len == L(p)
<1>3. ASSUME NEW k
      PROVE  /\ k \in TileKeys(0, e, st) <=> k \in Nat /\ k < st /\ k < e
             /\ k \in TileKeys(st, e, TileN) <=> k \in Nat /\ st <= k /\ k < st + TileN /\ k < e
             /\ k \in TileKeys(0, e, st + TileN) <=> k \in Nat /\ k < st + TileN /\ k < e
  <2> HIDE DEF st, e
  <2> QED BY <1>1, <1>2 DEF TileKeys, st, e
<1>4. /\ TileKeys(0, e, st) \cup TileKeys(st, e, TileN) = TileKeys(0, e, st + TileN)
      /\ TileKeys(0, e, st) \cap TileKeys(st, e, TileN) = {}
      /\ TileKeys(0, e, st + TileN) \subseteq 0..(len - 1)
  <2>1. st \in Nat /\ e \in Int /\ len \in Nat /\ e <= len  BY <1>1
  <2> HIDE DEF st, e, len
  <2>2. ASSUME NEW k \in Nat, k < e PROVE k \in 0..(len - 1)  BY <2>1, <2>2
  <2>3. ASSUME NEW k \in Nat
        PROVE  /\ (k < st \/ (st <= k /\ k < st + TileN)) <=> k < st + TileN
               /\ ~(k < st /\ st <= k)
    BY <1>2, <2>1
  <2>4. \A k \in TileKeys(0, e, st + TileN) : k \in 0..(len - 1)  BY <1>3, <2>2
  <2>5. \A k : k \in TileKeys(0, e, st) \/ k \in TileKeys(st, e, TileN) <=> k \in TileKeys(0, e, st + TileN)
    BY <1>3, <2>3
  <2>6. \A k : ~(k \in TileKeys(0, e, st) /\ k \in TileKeys(st, e, TileN))
    BY <1>3, <2>3
  <2> QED BY <2>4, <2>5, <2>6
<1>5. /\ KeysSeen(p, i) = VisibleKeys(L(p), NQ(p), Query(p, i), TileKeys(0, e, st))
      /\ Seen(p, i) = VisibleKeys(L(p), NQ(p), Query(p, i), TileKeys(st, e, TileN))
  BY DEF KeysSeen, Seen
<1>6. IsFiniteSet(0..(L(p) - 1))  BY <1>1, FS_Interval
<1> HIDE DEF st, e, len
<1>7. ASSUME NEW A, NEW B
      PROVE  /\ VisibleKeys(L(p), NQ(p), Query(p, i), A) \subseteq A
             /\ VisibleKeys(L(p), NQ(p), Query(p, i), A) \cup VisibleKeys(L(p), NQ(p), Query(p, i), B)
                  = VisibleKeys(L(p), NQ(p), Query(p, i), A \cup B)
  BY DEF VisibleKeys
<1>8. /\ KeysSeen(p, i) \subseteq TileKeys(0, e, st) /\ Seen(p, i) \subseteq TileKeys(st, e, TileN)
      /\ KeysSeen(p, i) \cup Seen(p, i)
           = VisibleKeys(L(p), NQ(p), Query(p, i), TileKeys(0, e, st + TileN))
  BY <1>4, <1>5, <1>7
<1> QED BY <1>4, <1>6, <1>8 DEF st, e, len

LEMMA RowScoresLaws ==
    ASSUME KernelInv, NEW p \in Programs, NEW i \in Lanes, NEW k \in 0..(L(p) - 1)
    PROVE  RowScores(p, i)[k] = QK(p, i, k) /\ RowScores(p, i)[k] \in 0..MaxScore
BY CellKnown DEF RowScores

\* A tile of keys, or the part of it in one cell, is added to what was summed.
LEMMA SumStep ==
    ASSUME KernelInv, NEW p \in Programs, NEW i \in Lanes, SumsOf(p, i), NewMax(p, i) # NegInf,
           NEW X \in SUBSET KeysSeen(p, i), NEW Y \in SUBSET Seen(p, i)
    PROVE  Rescaled(p, i, Total(Terms(RowScores(p, i), X, prog[p].m[i]))) + WeightOf(p, i, Y)
             = Total(Terms(RowScores(p, i), X \cup Y, NewMax(p, i)))
<1> DEFINE q == RowScores(p, i)
           m == prog[p].m[i]
           n == NewMax(p, i)
<1>1. m \in NegInf..MaxScore /\ n \in NegInf..MaxScore /\ m <= n
  BY NewMaxLaws DEF KernelInv, ProgramOK
<1>2. n \in 0..MaxScore
  <2> HIDE DEF n, m
  <2> QED BY <1>1, ExpAssumption DEF NegInf, n
<1>3. X \subseteq 0..(L(p) - 1) /\ Y \subseteq 0..(L(p) - 1) /\ X \cap Y = {}
      /\ IsFiniteSet(0..(L(p) - 1))
  BY KeysSeenLaws
<1>4. IsFiniteSet(X) /\ IsFiniteSet(Y)  BY <1>3, FS_Subset
<1>5. m = NegInf => X = {}  BY DEF SumsOf
<1>6. \A k \in X : q[k] \in 0..MaxScore /\ q[k] <= m  BY <1>3, RowScoresLaws DEF SumsOf
<1>7. \A k \in Y : q[k] \in 0..MaxScore /\ q[k] <= n  BY <1>3, RowScoresLaws, NewMaxLaws
<1>8. [k \in Y |-> Weight(p, i, k)] = Terms(q, Y, n)
  <2>1. \A k \in Y : q[k] = QK(p, i, k)  BY <1>3, RowScoresLaws
  <2> HIDE DEF q
  <2> QED BY <2>1 DEF Weight, Terms
<1>9. WeightOf(p, i, Y) = Total(Terms(q, Y, n))  BY <1>8 DEF WeightOf
<1>10. Rescaled(p, i, Total(Terms(q, X, m))) = Carried(q, X, m, n)
  BY DEF Rescaled, Carried
<1> HIDE DEF q, m, n
<1>11. Carried(q, X, m, n) + Total(Terms(q, Y, n)) = Total(Terms(q, X \cup Y, n))
  <2>1. m \in NegInf..MaxScore /\ m <= n /\ X \cap Y = {}  BY <1>1, <1>3
  <2> QED BY <1>2, <1>4, <1>5, <1>6, <1>7, <2>1, OnlineStep
<1>12. Rescaled(p, i, Total(Terms(q, X, m))) + WeightOf(p, i, Y) = Total(Terms(q, X \cup Y, n))
  BY <1>9, <1>10, <1>11
<1> QED BY <1>12 DEF q, m, n

\* What a lane has summed is a number, positive as soon as there is a key.
LEMMA SumsAreNat ==
    ASSUME KernelInv, NEW p \in Programs, NEW i \in Lanes, SumsOf(p, i)
    PROVE  /\ prog[p].l[i] \in Nat
           /\ KeysSeen(p, i) # {} => prog[p].m[i] \in 0..MaxScore /\ prog[p].l[i] > 0
<1> DEFINE q == RowScores(p, i)
           m == prog[p].m[i]
           K == KeysSeen(p, i)
           B == Exp[MaxScore]
<1>1. m \in NegInf..MaxScore  BY DEF KernelInv, ProgramOK
<1>2. K \subseteq 0..(L(p) - 1) /\ IsFiniteSet(0..(L(p) - 1))  BY KeysSeenLaws
<1>3. IsFiniteSet(K)  BY <1>2, FS_Subset
<1>4. \A k \in K : q[k] \in 0..MaxScore /\ q[k] <= m  BY <1>2, RowScoresLaws DEF SumsOf
<1>5. prog[p].l[i] = Total(Terms(q, K, m))  BY DEF SumsOf
<1>6. CASE K = {}
  <2>1. prog[p].l[i] = 0  BY <1>5, <1>6, EmptyTotal
  <2> QED BY <1>6, <2>1
<1>7. CASE K # {}
  <2>1. m # NegInf  BY <1>7 DEF SumsOf
  <2>2. m \in 0..MaxScore
    <3> HIDE DEF m
    <3> QED BY <1>1, <2>1, ExpAssumption DEF NegInf
  <2>3. B \in Nat
    <3>1. MaxScore \in Nat /\ MaxScore + 0 <= MaxScore  BY ExpAssumption
    <3> QED BY <3>1, ExpLaws
  <2> HIDE DEF q, m, K
  <2>4. Terms(q, K, m) \in [K -> 0..B] /\ \A k \in K : Terms(q, K, m)[k] > 0
    BY <1>4, <2>2, TermsType
  <2> HIDE DEF B
  <2>5. Total(Terms(q, K, m)) \in Nat /\ \A k \in K : Total(Terms(q, K, m)) > 0
    BY <1>3, <2>3, <2>4, TotalLaws
  <2> QED BY <1>5, <1>7, <2>2, <2>5 DEF m, K
<1> QED BY <1>6, <1>7

LEMMA AccumulateSums ==
    ASSUME KernelInv, KernelInv', NEW p \in Programs, Accumulate(p), NEW i \in Lanes, SumsOf(p, i)
    PROVE  SumsOf(p, i)'
<1> DEFINE q == RowScores(p, i)
           m == prog[p].m[i]
           n == NewMax(p, i)
           K == KeysSeen(p, i)
           Y == Seen(p, i)
           x == prog'[p]
<1>1. UNCHANGED <<meta, score>> /\ prog[p].at = "loop"  BY DEF Accumulate
<1>2. /\ L(p)' = L(p) /\ NQ(p)' = NQ(p) /\ End(p)' = End(p)
      /\ \A k : Cell(p, k)' = Cell(p, k) /\ QK(p, i, k)' = QK(p, i, k)
  BY <1>1 DEF L, NQ, End, Cell, QK, QueryOf
<1>3. RowScores(p, i)' = q  BY <1>2 DEF RowScores
<1>4. /\ x.at = "loop" /\ x.start = prog[p].start + TileN
      /\ x.m[i] = n
      /\ x.l[i] = IF n = NegInf \/ prog[p].l[i] = NaN THEN NaN
                  ELSE Rescaled(p, i, prog[p].l[i]) + WeightOf(p, i, Y)
      /\ x.acc[i] = [c \in Cells |-> Rescaled(p, i, prog[p].acc[i][c])
                                       + WeightOf(p, i, {k \in Y : Cell(p, k) = c})]
  <2>1. p \in DOMAIN prog  BY DEF KernelInv
  <2>2. DOMAIN prog[p] = {"at", "start", "m", "l", "acc"}  BY DEF KernelInv, ProgramOK
  <2> QED BY <2>1, <2>2 DEF Accumulate
<1>5. n # NegInf
  <2>1. p \in Programs' /\ Lanes' = Lanes  BY <1>1 DEF Programs
  <2>2. MaximaKnown(p)'  BY <2>1 DEF KernelInv
  <2>3. x.start > 0
    <3>1. prog[p].start \in Nat /\ TileN \in Nat \ {0}  BY ProgramNumbers, TileAssumption
    <3> QED BY <1>4, <3>1
  <2> QED BY <1>4, <2>2, <2>3 DEF MaximaKnown
<1>6. KeysSeen(p, i)' = K \cup Y
  <2>1. KeysSeen(p, i)' = VisibleKeys(L(p), NQ(p), Query(p, i), TileKeys(0, End(p), prog[p].start + TileN))
    BY <1>2, <1>4 DEF KeysSeen
  <2> QED BY <2>1, KeysSeenLaws
<1>7. \A k \in K \cup Y : QK(p, i, k) <= n
  <2>1. ASSUME NEW k \in K PROVE QK(p, i, k) <= n
    <3>1. QK(p, i, k) <= m  BY DEF SumsOf
    <3>2. m <= n /\ m \in NegInf..MaxScore /\ n \in NegInf..MaxScore
      BY NewMaxLaws DEF KernelInv, ProgramOK
    <3>3. QK(p, i, k) \in 0..MaxScore  BY KeysSeenLaws, CellKnown
    <3> HIDE DEF m, n
    <3> QED BY <3>1, <3>2, <3>3, ExpAssumption DEF NegInf
  <2> QED BY <2>1, NewMaxLaws
<1>8. x.l[i] = Total(Terms(q, K \cup Y, n))
  <2>1. prog[p].l[i] # NaN  BY SumsAreNat DEF NaN
  <2>2. prog[p].l[i] = Total(Terms(q, K, m))  BY DEF SumsOf
  <2>3. Rescaled(p, i, Total(Terms(q, K, m))) + WeightOf(p, i, Y) = Total(Terms(q, K \cup Y, n))
    BY <1>5, SumStep
  <2> HIDE DEF q, K, Y, m, n, x
  <2> QED BY <1>4, <1>5, <2>1, <2>2, <2>3
<1>9. x.acc[i] = [c \in Cells |-> Total(Terms(q, KeysIn(p, K \cup Y, c), n))]
  <2>1. ASSUME NEW c \in Cells
        PROVE  Rescaled(p, i, prog[p].acc[i][c]) + WeightOf(p, i, {k \in Y : Cell(p, k) = c})
                 = Total(Terms(q, KeysIn(p, K \cup Y, c), n))
    <3>1. prog[p].acc[i][c] = Total(Terms(q, KeysIn(p, K, c), m))  BY DEF SumsOf
    <3>2. KeysIn(p, K, c) \in SUBSET K /\ KeysIn(p, Y, c) \in SUBSET Y  BY DEF KeysIn
    <3>3. KeysIn(p, K, c) \cup KeysIn(p, Y, c) = KeysIn(p, K \cup Y, c)  BY DEF KeysIn
    <3>4. Rescaled(p, i, Total(Terms(q, KeysIn(p, K, c), m))) + WeightOf(p, i, KeysIn(p, Y, c))
            = Total(Terms(q, KeysIn(p, K, c) \cup KeysIn(p, Y, c), n))
      BY <1>5, <3>2, SumStep
    <3> HIDE DEF q, K, Y, m, n
    <3> QED BY <3>1, <3>3, <3>4 DEF KeysIn
  <2> HIDE DEF q, K, Y, m, n, x
  <2> QED BY <1>4, <2>1
<1>10. \A c : KeysIn(p, KeysSeen(p, i), c)' = KeysIn(p, K \cup Y, c)
  <2> HIDE DEF K, Y
  <2> QED BY <1>2, <1>6 DEF KeysIn
<1> HIDE DEF q, K, Y, m, n, x
<1>11. /\ x.m[i] = NegInf => K \cup Y = {}
       /\ \A k \in K \cup Y : QK(p, i, k)' <= x.m[i]
       /\ x.l[i] = Total(Terms(q, K \cup Y, x.m[i]))
       /\ x.acc[i] = [c \in Cells |-> Total(Terms(q, KeysIn(p, K \cup Y, c), x.m[i]))]
  BY <1>2, <1>4, <1>5, <1>7, <1>8, <1>9
<1> QED BY <1>3, <1>6, <1>10, <1>11 DEF SumsOf, x

\* A row that a program stores, at the end of its loop, has gone over exactly the
\* keys that the reference does not mask.
LEMMA SeenAll ==
    ASSUME KernelInv, NEW p \in Programs, NEW i \in StoredLanes(p),
           prog[p].at = "loop", prog[p].start >= End(p)
    PROVE  /\ i \in Lanes /\ Query(p, i) \in 0..(NQ(p) - 1)
           /\ KeysSeen(p, i) = ReferenceKeys(L(p), NQ(p), Query(p, i))
           /\ 0 \in KeysSeen(p, i)
<1> DEFINE r == Query(p, i)
           len == L(p)
           n == NQ(p)
           e == End(p)
           st == prog[p].start
           t == Tile(p)
<1>1. /\ len \in Nat \ {0} /\ n \in 1..len /\ e \in Int /\ st \in Nat /\ t \in Nat
  BY ProgramNumbers
<1>2. i \in 0..(TileM - 1) /\ r < n /\ TileM \in Nat \ {0}
  BY TileAssumption DEF StoredLanes, Lanes
<1>3. r = t * TileM + i  BY DEF Query
<1>4. e = KvEnd(len, n, t, TileM)  BY DEF End
<1>5. KeysSeen(p, i) = {k \in {j \in 0..(0 + st - 1) : j < e} : k <= QueryPos(len, n, r)}
  BY DEF KeysSeen, VisibleKeys, TileKeys
<1>6. st >= e  OBVIOUS
<1> HIDE DEF r, len, n, e, st, t
<1>7. r \in 0..(n - 1) /\ r < t * TileM + TileM
  <2> DEFINE a == t * TileM
  <2>1. a \in Nat /\ r = a + i  BY <1>1, <1>2, <1>3
  <2> HIDE DEF a
  <2>2. r \in 0..(n - 1) /\ r < a + TileM  BY <1>1, <1>2, <2>1
  <2> QED BY <2>2 DEF a
<1>8. QueryPos(len, n, r) < e
  <2>1. QueryPos(len, n, r) < KvEnd(len, n, t, TileM)  BY <1>1, <1>2, <1>7, KvEndBounds
  <2> QED BY <1>4, <2>1
<1>9. QueryPos(len, n, r) \in Nat  BY <1>1, <1>7 DEF QueryPos
<1> DEFINE pos == QueryPos(len, n, r)
<1>10. KeysSeen(p, i) = 0..pos
  <2>1. KeysSeen(p, i) = {k \in {j \in 0..(0 + st - 1) : j < e} : k <= pos}  BY <1>5
  <2>2. pos \in Nat /\ pos < e  BY <1>8, <1>9
  <2> HIDE DEF pos
  <2>3. \A k \in 0..pos : k \in 0..(0 + st - 1) /\ k < e  BY <1>1, <1>6, <2>2
  <2>4. \A k \in 0..(0 + st - 1) : k <= pos => k \in 0..pos  BY <1>1, <2>2
  <2>5. \A k \in 0..pos : k <= pos  BY <2>2
  <2> QED BY <2>1, <2>3, <2>4, <2>5
<1>11. ReferenceKeys(len, n, r) = 0..pos  BY <1>1, <1>7, ReferenceIsPrefix
<1>12. 0 \in 0..pos  BY <1>9
<1>13. i \in Lanes  BY <1>2 DEF Lanes
<1> QED BY <1>7, <1>10, <1>11, <1>12, <1>13 DEF r, len, n

\* The reference gathers the same cells, and its sums are those of the scores
\* relative to the greatest score there is.
LEMMA ReferenceSums ==
    ASSUME KernelInv, NEW p \in Programs, NEW i \in Lanes, Query(p, i) < NQ(p), NEW K,
           K = ReferenceKeys(L(p), NQ(p), Query(p, i)), K \subseteq 0..(L(p) - 1)
    PROVE  Reference(p[3], Query(p, i), QHead(p)) =
             [num |-> [c \in Cells |-> Total(Terms(RowScores(p, i), KeysIn(p, K, c), MaxScore))],
              den |-> Total(Terms(RowScores(p, i), K, MaxScore))]
<1> DEFINE s == p[3]
           h == QHead(p)
           q == RowScores(p, i)
           cell(k) == <<GatherKV(meta, s)[k][1], GatherKV(meta, s)[k][2],
                        RepeatedHead(h, NumHeads \div NumKvHeads)>>
           query == <<meta.cu[s] + Query(p, i), h>>
           sum(ks) == Total([k \in ks |-> Exp[score[query][cell(k)]]])
<1>1. /\ s \in BatchSeqs(meta) /\ meta \in Batches /\ h \in Heads
      /\ L(p) = meta.lens[s] /\ NQ(p) = NumQ(meta, s) /\ L(p) \in Nat \ {0}
  BY ProgramNumbers
<1>2. meta.tables[s] \in Seq(Nat) /\ Len(meta.tables[s]) >= CDiv(L(p), BlockSize)
  <2> DEFINE row == meta.tables[s]
  <2>1. /\ row \in Seq(0..(NumBlocks - 1))
        /\ Len(row) >= CDiv(L(p), BlockSize)
    BY <1>1, BatchesAssumption
  <2> HIDE DEF row
  <2>2. 0..(NumBlocks - 1) \subseteq Nat  OBVIOUS
  <2> DEFINE B == 0..(NumBlocks - 1)
  <2>3. row \in Seq(B) /\ B \subseteq Nat  BY <2>1, <2>2
  <2> HIDE DEF B
  <2>4. row \in Seq(Nat)
    <3>1. row \in [1..Len(row) -> B] /\ Len(row) \in Nat  BY <2>3
    <3>2. row \in [1..Len(row) -> Nat]  BY <2>3, <3>1
    <3> QED BY <3>1, <3>2
  <2> QED BY <2>1, <2>4 DEF row
<1>3. ASSUME NEW k \in 0..(L(p) - 1) PROVE cell(k) = Cell(p, k)
  <2>1. GatherKV(meta, s)[k] = SlotOf(meta, s, k)
    <3> DEFINE len == L(p)
    <3>1. len \in Nat \ {0} /\ meta.lens[s] = len /\ k \in 0..(len - 1)
          /\ Len(meta.tables[s]) >= CDiv(len, BlockSize)
      BY <1>1, <1>2
    <3> HIDE DEF len, s
    <3> QED BY <1>1, <1>2, <3>1, GatherIsPaged
  <2>2. KvHead(h, NumHeads, NumKvHeads) = RepeatedHead(h, NumHeads \div NumKvHeads)
    BY <1>1, KvHeadLaws
  <2> QED BY <2>1, <2>2 DEF Cell
<1>4. ASSUME NEW k \in 0..(L(p) - 1)
      PROVE  Exp[score[query][cell(k)]] = Exp[MaxScore + q[k] - MaxScore]
  <2>1. q[k] = score[query][Cell(p, k)] /\ q[k] \in 0..MaxScore
    BY RowScoresLaws DEF QK, QueryOf
  <2>2. MaxScore + q[k] - MaxScore = q[k]
    <3> DEFINE x == q[k]
    <3>1. MaxScore \in Nat  BY ExpAssumption
    <3>3. x \in 0..MaxScore  BY <2>1
    <3> HIDE DEF x
    <3>2. MaxScore + x - MaxScore = x  BY <3>1, <3>3
    <3> QED BY <3>2 DEF x
  <2> HIDE DEF q, cell, query
  <2> QED BY <1>3, <2>1, <2>2
<1>5. ASSUME NEW X, X \subseteq 0..(L(p) - 1)
      PROVE  sum(X) = Total(Terms(q, X, MaxScore))
  <2> HIDE DEF q, cell, query
  <2>1. [k \in X |-> Exp[score[query][cell(k)]]] = Terms(q, X, MaxScore)  BY <1>4, <1>5 DEF Terms
  <2> QED BY <2>1
<1>6. Reference(s, Query(p, i), h)
        = [num |-> [c \in Cells |-> sum({k \in K : cell(k) = c})], den |-> sum(K)]
  BY <1>1 DEF Reference
<1> HIDE DEF q, cell
<1>7. \A c : {k \in K : cell(k) = c} = KeysIn(p, K, c)  BY <1>3 DEF KeysIn
<1>8. \A c : KeysIn(p, K, c) \subseteq 0..(L(p) - 1)  BY DEF KeysIn
<1>9. \A c : sum({k \in K : cell(k) = c}) = Total(Terms(q, KeysIn(p, K, c), MaxScore))
  BY <1>5, <1>7, <1>8
<1>10. sum(K) = Total(Terms(q, K, MaxScore))  BY <1>5
<1> HIDE DEF sum
<1> QED BY <1>6, <1>9, <1>10 DEF q

\* So the quotient it stores is the reference's.
LEMMA StoredRight ==
    ASSUME KernelInv, NEW p \in Programs, NEW i \in StoredLanes(p), SumsOf(p, i),
           prog[p].at = "loop", prog[p].start >= End(p)
    PROVE  SameValue([num |-> prog[p].acc[i], den |-> prog[p].l[i]],
                     Reference(p[3], Query(p, i), QHead(p)))
<1> DEFINE q == RowScores(p, i)
           m == prog[p].m[i]
           K == KeysSeen(p, i)
           F == Exp[MaxScore - m]
           B == Exp[MaxScore]
           l == prog[p].l[i]
           acc == prog[p].acc[i]
           ref == Reference(p[3], Query(p, i), QHead(p))
           Whole(X) == Total(Terms(q, X, MaxScore))
<1>1. /\ i \in Lanes /\ Query(p, i) \in 0..(NQ(p) - 1) /\ 0 \in K
      /\ K = ReferenceKeys(L(p), NQ(p), Query(p, i))
  BY SeenAll
<1>2. K \subseteq 0..(L(p) - 1) /\ IsFiniteSet(0..(L(p) - 1))  BY <1>1, KeysSeenLaws
<1>3. Query(p, i) < NQ(p)  BY DEF StoredLanes
<1>4. ref = [num |-> [c \in Cells |-> Whole(KeysIn(p, K, c))], den |-> Whole(K)]
  <2> HIDE DEF K
  <2> QED BY <1>1, <1>2, <1>3, ReferenceSums
<1>5. m \in 0..MaxScore /\ l \in Nat /\ l > 0  BY <1>1, SumsAreNat
<1>6. \A k \in K : q[k] \in 0..MaxScore /\ q[k] <= m  BY <1>1, <1>2, RowScoresLaws DEF SumsOf
<1>7. l = Total(Terms(q, K, m)) /\ acc = [c \in Cells |-> Total(Terms(q, KeysIn(p, K, c), m))]
  BY DEF SumsOf
<1>8. MaxScore \in Nat  BY ExpAssumption
<1> HIDE DEF q, m, K, l, acc, ref
<1>9. F \in Nat \ {0} /\ B \in Nat
  <2>1. MaxScore - m \in Nat /\ (MaxScore - m) + 0 <= MaxScore  BY <1>5, <1>8
  <2> QED BY <2>1, ExpLaws
<1>10. ASSUME NEW X \in SUBSET K
       PROVE  Total(Terms(q, X, m)) = F * Whole(X) /\ Whole(X) \in Nat
  <2>1. IsFiniteSet(X)  BY <1>2, FS_Subset
  <2>2. \A k \in X : q[k] \in 0..MaxScore /\ q[k] <= m  BY <1>6
  <2>3. MaxScore \in 0..MaxScore /\ m <= MaxScore  BY <1>5, <1>8
  <2>4. Total(Terms(q, X, m)) = F * Whole(X)  BY <1>5, <2>1, <2>2, <2>3, HigherMaximum
  <2>5. \A k \in X : q[k] \in 0..MaxScore /\ q[k] <= MaxScore  BY <1>8, <2>2
  <2>6. Terms(q, X, MaxScore) \in [X -> 0..B]  BY <2>3, <2>5, TermsType
  <2> HIDE DEF B, F
  <2>7. Whole(X) \in Nat  BY <1>9, <2>1, <2>6, TotalLaws
  <2> QED BY <2>4, <2>7
<1>11. l = F * Whole(K) /\ Whole(K) \in Nat  BY <1>7, <1>10
<1>12. ASSUME NEW c \in Cells
       PROVE  acc[c] = F * Whole(KeysIn(p, K, c)) /\ Whole(KeysIn(p, K, c)) \in Nat
  <2>1. KeysIn(p, K, c) \in SUBSET K  BY DEF KeysIn
  <2>2. acc[c] = Total(Terms(q, KeysIn(p, K, c), m))  BY <1>7
  <2> QED BY <1>10, <2>1, <2>2
<1> HIDE DEF F, Whole
<1>13. Whole(K) > 0  BY <1>5, <1>9, <1>11
<1>14. ASSUME NEW x \in Nat, NEW y \in Nat PROVE (F * x) * y = x * (F * y)
  <2>1. \A a, b, c \in Nat : (a * b) * c = b * (a * c)  OBVIOUS
  <2> QED BY <1>9, <2>1
<1>15. \A c \in Cells : acc[c] * Whole(K) = Whole(KeysIn(p, K, c)) * l
  BY <1>11, <1>12, <1>14
<1>16. SameValue([num |-> acc, den |-> l], ref)  BY <1>4, <1>5, <1>13, <1>15 DEF SameValue
<1> QED BY <1>16 DEF acc, l, ref

\* A lane that has gone over no key has summed nothing.
LEMMA NoKeysYet ==
    ASSUME NEW len, NEW n, NEW r, NEW e
    PROVE  VisibleKeys(len, n, r, TileKeys(0, e, 0)) = {}
<1>1. 0..(0 + 0 - 1) = {}  OBVIOUS
<1> QED BY <1>1 DEF VisibleKeys, TileKeys

LEMMA FreshSums ==
    ASSUME NEW p, prog[p] = Fresh, NEW i \in Lanes
    PROVE  SumsOf(p, i)
<1>1. KeysSeen(p, i) = {}  BY NoKeysYet DEF KeysSeen, Fresh
<1>2. \A c : KeysIn(p, KeysSeen(p, i), c) = {}  BY <1>1 DEF KeysIn
<1> QED BY <1>1, <1>2, EmptyTotal DEF SumsOf, Fresh

LEMMA FreshSumsNext ==
    ASSUME NEW p, NEW at, prog'[p] = [Fresh EXCEPT !.at = at], NEW i \in Lanes
    PROVE  SumsOf(p, i)'
<1>1. /\ prog'[p].start = 0 /\ prog'[p].m[i] = NegInf /\ prog'[p].l[i] = 0
      /\ prog'[p].acc[i] = [c \in Cells |-> 0]
  BY DEF Fresh
<1>2. KeysSeen(p, i)' = {}  BY <1>1, NoKeysYet DEF KeysSeen
<1>3. \A c : KeysIn(p, KeysSeen(p, i), c)' = {}  BY <1>2 DEF KeysIn
<1> QED BY <1>1, <1>2, <1>3, EmptyTotal DEF SumsOf

\* What a step does not touch stays right.
LEMMA SumsStay ==
    ASSUME UNCHANGED <<meta, score>>, NEW p, NEW i \in Lanes, SumsOf(p, i),
           prog'[p].start = prog[p].start, prog'[p].m = prog[p].m,
           prog'[p].l = prog[p].l, prog'[p].acc = prog[p].acc
    PROVE  SumsOf(p, i)'
<1>1. /\ L(p)' = L(p) /\ NQ(p)' = NQ(p) /\ End(p)' = End(p)
      /\ \A k : Cell(p, k)' = Cell(p, k) /\ QK(p, i, k)' = QK(p, i, k)
  BY DEF L, NQ, End, Cell, QK, QueryOf
<1>2. KeysSeen(p, i)' = KeysSeen(p, i) /\ RowScores(p, i)' = RowScores(p, i)
  BY <1>1 DEF KeysSeen, RowScores
<1>3. \A c : KeysIn(p, KeysSeen(p, i), c)' = KeysIn(p, KeysSeen(p, i), c)
  BY <1>1, <1>2 DEF KeysIn
<1> QED BY <1>1, <1>2, <1>3 DEF SumsOf

\* What program p has stored in a row of its own.
RowRight(p, rh) == SameValue(out[rh], Reference(p[3], rh[1] - meta.cu[p[3]], rh[2]))

LEMMA RowStays ==
    ASSUME UNCHANGED <<meta, score>>, NEW p, NEW rh, RowRight(p, rh), out'[rh] = out[rh]
    PROVE  RowRight(p, rh)'
<1>1. Reference(p[3], rh[1] - meta.cu[p[3]], rh[2])' = Reference(p[3], rh[1] - meta.cu[p[3]], rh[2])
  BY DEF Reference
<1> QED BY <1>1 DEF RowRight, SameValue

LEMMA BeginSums ==
    ASSUME KernelInv, SumInv, NEW p \in Programs, Begin(p)
    PROVE  SumInv'
<1>1. /\ UNCHANGED <<meta, score, out>> /\ prog[p].at = "new"
      /\ prog' = [q \in Programs |-> IF q = p
                    THEN [prog[p] EXCEPT !.at = IF TileIdle(NQ(p), Tile(p), TileM) THEN "done" ELSE "loop"]
                    ELSE prog[q]]
  BY DEF Begin, KernelInv
<1>2. Programs' = Programs /\ Rows(meta)' = Rows(meta) /\ Lanes' = Lanes  BY <1>1 DEF Programs
<1>3. DOMAIN prog[p] = {"at", "start", "m", "l", "acc"}  BY DEF KernelInv, ProgramOK
<1>4. ASSUME NEW q \in Programs, NEW i \in Lanes PROVE SumsOf(q, i)'
  <2>1. /\ prog'[q].start = prog[q].start /\ prog'[q].m = prog[q].m
        /\ prog'[q].l = prog[q].l /\ prog'[q].acc = prog[q].acc
    BY <1>1, <1>3
  <2> QED BY <1>1, <2>1, SumsStay DEF SumInv
<1>5. ASSUME NEW q \in Programs, prog'[q].at = "done", NEW rh \in Rows(meta) \X Heads, Owns(meta, q, rh)
      PROVE  RowRight(q, rh)'
  <2>1. CASE q = p
    <3>1. TileIdle(NQ(p), Tile(p), TileM)  BY <1>1, <1>3, <1>5, <2>1
    <3> DEFINE a == Tile(p) * TileM
               i == rh[1] - meta.cu[p[3]]
               n == NQ(p)
    <3>2. n <= a  BY <3>1, ProgramNumbers, TileAssumption DEF TileIdle
    <3>3. i - a \in Lanes /\ i < n  BY <1>5, <2>1 DEF Owns, NQ
    <3>4. n \in Int /\ a \in Int  BY ProgramNumbers, TileAssumption
    <3>5. i \in Int
      <4>1. meta \in Batches /\ p[3] \in BatchSeqs(meta)  BY ProgramNumbers
      <4>2. rh[1] \in Nat /\ meta.cu[p[3]] \in Nat  BY <4>1, RowsAreNat, BatchFacts
      <4> QED BY <4>2
    <3> HIDE DEF a, i, n
    <3> QED BY <3>2, <3>3, <3>4, <3>5, TileAssumption DEF Lanes
  <2>2. CASE q # p
    <3>1. prog[q].at = "done"  BY <1>1, <1>5, <2>2
    <3>2. RowRight(q, rh)  BY <1>5, <3>1 DEF SumInv, RowsRight, RowRight
    <3> QED BY <1>1, <3>2, RowStays
  <2> QED BY <2>1, <2>2
<1>6. RowsRight'  BY <1>1, <1>2, <1>5 DEF RowsRight, RowRight, Owns
<1> QED BY <1>2, <1>4, <1>6 DEF SumInv

LEMMA AccumulateKeepsSums ==
    ASSUME KernelInv, KernelInv', SumInv, NEW p \in Programs, Accumulate(p)
    PROVE  SumInv'
<1>1. UNCHANGED <<meta, score, out>> /\ prog[p].at = "loop"  BY DEF Accumulate
<1>2. Programs' = Programs /\ Rows(meta)' = Rows(meta) /\ Lanes' = Lanes  BY <1>1 DEF Programs
<1>3. prog'[p].at = "loop" /\ \A q \in Programs : q # p => prog'[q] = prog[q]
  <2>1. prog = [q \in Programs |-> prog[q]] /\ ProgramOK(p)  BY DEF KernelInv
  <2>2. PICK x : prog' = [prog EXCEPT ![p] = x] /\ x.at = "loop"
    <3>1. PICK l, acc : prog' = [prog EXCEPT ![p] =
             [prog[p] EXCEPT !.start = prog[p].start + TileN,
                             !.m = [i \in Lanes |-> NewMax(p, i)], !.l = l, !.acc = acc]]
      BY DEF Accumulate
    <3> DEFINE x == [prog[p] EXCEPT !.start = prog[p].start + TileN,
                                    !.m = [i \in Lanes |-> NewMax(p, i)], !.l = l, !.acc = acc]
    <3>2. x.at = "loop"  BY <1>1, <2>1 DEF ProgramOK
    <3>3. prog' = [prog EXCEPT ![p] = x]  BY <3>1
    <3> HIDE DEF x
    <3> QED BY <3>2, <3>3
  <2> QED BY <2>1, <2>2
<1>4. ASSUME NEW q \in Programs, NEW i \in Lanes PROVE SumsOf(q, i)'
  <2>1. SumsOf(q, i)  BY DEF SumInv
  <2>2. CASE q = p  BY <2>1, <2>2, AccumulateSums
  <2>3. CASE q # p
    <3>1. prog'[q] = prog[q]  BY <1>3, <2>3
    <3> QED BY <1>1, <2>1, <3>1, SumsStay
  <2> QED BY <2>2, <2>3
<1>5. ASSUME NEW q \in Programs, prog'[q].at = "done", NEW rh \in Rows(meta) \X Heads, Owns(meta, q, rh)
      PROVE  RowRight(q, rh)'
  <2>1. q # p /\ prog[q].at = "done"  BY <1>3, <1>5
  <2>2. RowRight(q, rh)  BY <1>5, <2>1 DEF SumInv, RowsRight, RowRight
  <2> QED BY <1>1, <2>2, RowStays
<1>6. RowsRight'  BY <1>1, <1>2, <1>5 DEF RowsRight, RowRight, Owns
<1> QED BY <1>2, <1>4, <1>6 DEF SumInv

LEMMA StoreKeepsSums ==
    ASSUME KernelInv, SumInv, NEW p \in Programs, Store(p)
    PROVE  SumInv'
<1>1. /\ UNCHANGED <<meta, score>> /\ prog[p].at = "loop" /\ prog[p].start >= End(p)
      /\ prog' = [q \in Programs |-> IF q = p THEN [Fresh EXCEPT !.at = "done"] ELSE prog[q]]
  BY DEF Store, KernelInv
<1>2. Programs' = Programs /\ Rows(meta)' = Rows(meta) /\ Lanes' = Lanes  BY <1>1 DEF Programs
<1>3. ASSUME NEW q \in Programs, NEW i \in Lanes PROVE SumsOf(q, i)'
  <2>1. CASE q = p
    <3>1. prog'[p] = [Fresh EXCEPT !.at = "done"]  BY <1>1
    <3> QED BY <2>1, <3>1, FreshSumsNext
  <2>2. CASE q # p
    <3>1. prog'[q] = prog[q] /\ SumsOf(q, i)  BY <1>1, <2>2 DEF SumInv
    <3> QED BY <1>1, <3>1, SumsStay
  <2> QED BY <2>1, <2>2
<1>4. ASSUME NEW q \in Programs, prog'[q].at = "done", NEW rh \in Rows(meta) \X Heads, Owns(meta, q, rh)
      PROVE  RowRight(q, rh)'
  <2>1. CASE q = p
    <3> DEFINE i == rh[1] - meta.cu[p[3]] - Tile(p) * TileM
    <3>1. i \in Lanes /\ rh[1] - meta.cu[p[3]] < NQ(p) /\ rh[2] = QHead(p)
      BY <1>4, <2>1 DEF Owns, NQ
    <3>2. Query(p, i) = rh[1] - meta.cu[p[3]]
      <4>1. meta \in Batches /\ p[3] \in BatchSeqs(meta) /\ Tile(p) \in Nat  BY ProgramNumbers
      <4>2. rh[1] \in Nat /\ meta.cu[p[3]] \in Nat  BY <4>1, RowsAreNat, BatchFacts
      <4> DEFINE a == Tile(p) * TileM
      <4>3. a \in Nat  BY <4>1, TileAssumption
      <4>4. Query(p, i) = a + (rh[1] - meta.cu[p[3]] - a)  BY DEF Query
      <4> HIDE DEF a
      <4> QED BY <4>2, <4>3, <4>4
    <3>3. i \in StoredLanes(p)  BY <3>1, <3>2 DEF StoredLanes
    <3>4. out'[rh] = [num |-> prog[p].acc[i], den |-> prog[p].l[i]]
      <4>1. rh \in DOMAIN out  BY DEF KernelInv
      <4> QED BY <3>1, <3>3, <4>1 DEF Store
    <3> HIDE DEF i
    <3>5. SumsOf(p, i)  BY <3>1 DEF SumInv
    <3>6. SameValue([num |-> prog[p].acc[i], den |-> prog[p].l[i]],
                    Reference(p[3], Query(p, i), QHead(p)))
      BY <1>1, <3>3, <3>5, StoredRight
    <3>7. Reference(p[3], rh[1] - meta.cu[p[3]], rh[2])' = Reference(p[3], Query(p, i), QHead(p))
      BY <1>1, <3>1, <3>2 DEF Reference
    <3>8. SameValue(out'[rh], Reference(p[3], Query(p, i), QHead(p)))  BY <3>4, <3>6
    <3> QED BY <2>1, <3>7, <3>8 DEF RowRight, SameValue
  <2>2. CASE q # p
    <3>1. prog[q].at = "done"  BY <1>1, <1>4, <2>2
    <3>2. RowRight(q, rh)  BY <1>4, <3>1 DEF SumInv, RowsRight, RowRight
    <3>3. out'[rh] = out[rh]
      <4> SUFFICES ASSUME out'[rh] # out[rh] PROVE FALSE  OBVIOUS
      <4>1. Owns(meta, p, rh)  BY StoreWrites
      <4>2. meta \in Batches /\ rh \in Nat \X Heads  BY RowsAreNat DEF KernelInv
      <4> QED BY <1>4, <2>2, <4>1, <4>2, OneOwner
    <3> QED BY <1>1, <3>2, <3>3, RowStays
  <2> QED BY <2>1, <2>2
<1>5. RowsRight'  BY <1>1, <1>2, <1>4 DEF RowsRight, RowRight, Owns
<1> QED BY <1>2, <1>3, <1>5 DEF SumInv

LEMMA LaunchSums ==
    ASSUME KernelInit
    PROVE  SumInv
<1>1. \A p \in Programs : prog[p] = Fresh  BY DEF KernelInit, Programs0, Programs
<1>2. \A p \in Programs : \A i \in Lanes : SumsOf(p, i)  BY <1>1, FreshSums
<1>3. RowsRight  BY <1>1 DEF RowsRight, Fresh
<1> QED BY <1>2, <1>3 DEF SumInv

LEMMA StepSums ==
    ASSUME KernelInv, KernelInv', SumInv, [KernelNext]_kernelVars
    PROVE  SumInv'
<1>1. ASSUME NEW p \in Programs, Begin(p) PROVE SumInv'  BY <1>1, BeginSums
<1>2. ASSUME NEW p \in Programs, Accumulate(p) PROVE SumInv'  BY <1>2, AccumulateKeepsSums
<1>3. ASSUME NEW p \in Programs, Store(p) PROVE SumInv'  BY <1>3, StoreKeepsSums
<1>4. CASE Relaunch
  <2>1. PICK b \in Batches : meta' = b /\ prog' = Programs0(b)  BY <1>4 DEF Relaunch
  <2>2. Programs' = Grid(b) /\ Lanes' = Lanes  BY <2>1 DEF Programs
  <2>3. \A p \in Programs' : prog'[p] = Fresh  BY <2>1, <2>2 DEF Programs0
  <2>4. Fresh = [Fresh EXCEPT !.at = "new"]  BY DEF Fresh
  <2>5. \A p \in Programs' : \A i \in Lanes : SumsOf(p, i)'  BY <2>3, <2>4, FreshSumsNext
  <2>6. RowsRight'  BY <2>3 DEF RowsRight, Fresh
  <2> QED BY <2>2, <2>5, <2>6 DEF SumInv
<1>5. CASE UNCHANGED kernelVars
  <2>1. UNCHANGED <<meta, score>> /\ prog' = prog /\ out' = out  BY <1>5 DEF kernelVars
  <2>2. Programs' = Programs /\ Rows(meta)' = Rows(meta) /\ Lanes' = Lanes  BY <2>1 DEF Programs
  <2>3. \A p \in Programs : \A i \in Lanes : SumsOf(p, i)'  BY <2>1, SumsStay DEF SumInv
  <2>4. ASSUME NEW p \in Programs, prog[p].at = "done", NEW rh \in Rows(meta) \X Heads, Owns(meta, p, rh)
        PROVE  RowRight(p, rh)'
    <3>1. RowRight(p, rh)  BY <2>4 DEF SumInv, RowsRight, RowRight
    <3> QED BY <2>1, <3>1, RowStays
  <2>5. RowsRight'  BY <2>1, <2>2, <2>4 DEF RowsRight, RowRight, Owns
  <2> QED BY <2>2, <2>3, <2>5 DEF SumInv
<1> QED BY <1>1, <1>2, <1>3, <1>4, <1>5 DEF KernelNext

\* Throughout a launch every lane holds the softmax of the keys it has gone over,
\* and every row that a program has stored is right.
THEOREM SumInvHolds == KernelSpec => [](KernelInv /\ SumInv)
<1>1. KernelInit => KernelInv /\ SumInv  BY LaunchInit, LaunchSums
<1>2. KernelInv /\ SumInv /\ [KernelNext]_kernelVars => (KernelInv /\ SumInv)'
  BY StepKernel, StepSums
<1> QED BY <1>1, <1>2, PTL DEF KernelSpec

\* When the programs of a launch have run, in whatever order, every row of every
\* head is the reference's: for every batch, tile size, table of blocks, number of
\* heads and score, the online softmax over tiles computes the same quotient.
THEOREM KernelMatchesReferenceHolds == KernelSpec => []KernelMatchesReference
<1>1. KernelInv /\ SumInv => KernelMatchesReference
  <2> SUFFICES ASSUME KernelInv, SumInv, Finished,
                      NEW s \in BatchSeqs(meta), NEW h \in Heads, NEW r \in RowsOf(meta, s)
               PROVE  SameValue(out[<<r, h>>], Reference(s, r - meta.cu[s], h))
    BY DEF KernelMatchesReference
  <2>1. meta \in Batches  BY DEF KernelInv
  <2>2. PICK p \in Programs : Owns(meta, p, <<r, h>>)
    BY <2>1, RowHasOneProgram DEF Programs
  <2>3. r \in Rows(meta)  BY <2>1, RowOfBatch
  <2>4. p[3] = s  BY <2>1, <2>2, RowHasOneProgram DEF Owns
  <2>5. prog[p].at = "done"  BY DEF Finished
  <2>6. <<r, h>> \in Rows(meta) \X Heads  BY <2>3
  <2> QED BY <2>2, <2>4, <2>5, <2>6 DEF SumInv, RowsRight
<1> QED BY <1>1, SumInvHolds, PTL

\* After its first tile of keys no row of a program, padding rows included, is
\* without a maximum or divides by nothing: exp(-inf - -inf) never happens.
THEOREM NoNaNHolds == KernelSpec => []NoNaN
<1>1. KernelInv /\ SumInv => NoNaN
  <2> SUFFICES ASSUME KernelInv, SumInv, NEW p \in Programs, prog[p].start > 0, NEW i \in Lanes
               PROVE  prog[p].m[i] # NegInf /\ prog[p].l[i] > 0
    BY DEF NoNaN
  <2>1. prog[p].m[i] # NegInf  BY DEF KernelInv, MaximaKnown
  <2>2. 0 \in KeysSeen(p, i)
    <3>1. prog[p].start \in Nat \ {0} /\ prog[p].at = "loop" /\ ~TileIdle(NQ(p), Tile(p), TileM)
      BY ProgramNumbers DEF KernelInv, MaximaKnown
    <3>2. L(p) \in Nat \ {0} /\ NQ(p) \in 1..L(p) /\ Tile(p) \in Nat  BY ProgramNumbers
    <3>3. 0 \in VisibleKeys(L(p), NQ(p), Tile(p) * TileM + i,
                            TileKeys(0, KvEnd(L(p), NQ(p), Tile(p), TileM), prog[p].start))
      BY <3>1, <3>2, TileAssumption, FirstTileSeesKeyZero DEF Lanes
    <3> QED BY <3>3 DEF KeysSeen, Query, End
  <2>3. SumsOf(p, i)  BY DEF SumInv
  <2> QED BY <2>1, <2>2, <2>3, SumsAreNat
<1> QED BY <1>1, SumInvHolds, PTL
=============================================================================
