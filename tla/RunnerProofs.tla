---------------------------- MODULE RunnerProofs ----------------------------
(***************************************************************************)
(* Flattening a batch into tensors and back changes nothing: the runner     *)
(* implements the scheduler's view of a forward pass, the attention         *)
(* backends agree on every row, requests that do not share their sampling   *)
(* parameters are served as if each were alone, and generate gives back     *)
(* what each of its prompts is owed.                                        *)
(***************************************************************************)
EXTENDS Engine, SchedulerProofs, WellFoundedInduction

AttP == INSTANCE AttentionProofs

-----------------------------------------------------------------------------
(* The layout of the flat tensors.                                           *)

\* The items of a batch are sequences with at least one new token.
LEMMA ItemLaws ==
    ASSUME IndInv, SchedInv
    PROVE  /\ batch \in Seq(Seqs) /\ Len(batch) \in Nat /\ Items = 1..Len(batch)
           /\ Lengths \in Seq(Nat) /\ Len(Lengths) = Len(batch)
           /\ \A i \in Items :
                 /\ batch[i] \in Seqs /\ batch[i] \in Scheduled
                 /\ Lengths[i] = Count(i) /\ Count(i) \in Nat \ {0} /\ Start(i) \in Nat
                 /\ Start(i) + Count(i) <= NumTokens(batch[i])
<1>1. batch \in Seq(Seqs) /\ Scheduled = Range(batch) /\ TypeOK /\ LengthsOK
  BY DEF SchedInv, SchedulerTypeOK, BatchExact, IndInv
<1>2. Len(batch) \in Nat /\ Items = 1..Len(batch)  BY <1>1 DEF Items
<1>3. ASSUME NEW i \in Items
      PROVE  /\ batch[i] \in Seqs /\ batch[i] \in Scheduled
             /\ Lengths[i] = Count(i) /\ Count(i) \in Nat \ {0} /\ Start(i) \in Nat
             /\ Start(i) + Count(i) <= NumTokens(batch[i])
  <2>1. batch[i] \in Scheduled  BY <1>1 DEF Items, Range
  <2>2. batch[i] \in Seqs /\ num_new[batch[i]] > 0  BY <2>1 DEF Scheduled
  <2>3. num_new[batch[i]] \in Nat /\ computed[batch[i]] \in Nat  BY <1>1, <2>2 DEF TypeOK
  <2>4. computed[batch[i]] + num_new[batch[i]] <= NumTokens(batch[i])  BY <1>1, <2>2 DEF LengthsOK
  <2> QED BY <2>1, <2>2, <2>3, <2>4 DEF Lengths, Count, Start
<1>4. Lengths \in Seq(Nat) /\ Len(Lengths) = Len(batch)
  <2>1. Lengths \in [1..Len(batch) -> Nat]  BY <1>2, <1>3 DEF Lengths
  <2> QED BY <1>2, <2>1
<1> QED BY <1>1, <1>2, <1>3, <1>4

NumRows == Cu[Len(batch) + 1]

\* Row r is the j-th new token of item i.
RowIs(r, i, j) == i \in Items /\ j \in 1..Count(i) /\ r = Cu[i] + j

LayoutExact ==
    /\ Cu \in [1..(Len(batch) + 1) -> Nat] /\ Cu[1] = 0
    /\ \A i \in Items : Cu[i] \in Nat /\ Cu[i + 1] = Cu[i] + Count(i) /\ i + 1 \in DOMAIN Cu
    /\ \A i, k \in Items : i < k => Cu[i] + Count(i) <= Cu[k]
    /\ \A r, i, j : RowIs(r, i, j) => r \in 1..NumRows /\ RowOrder(Lengths)[r] = <<i, j>>
    /\ \A r \in 1..NumRows : \E i \in Items : \E j \in 1..Count(i) : RowIs(r, i, j)
    /\ DOMAIN RowOrder(Lengths) = 1..NumRows

LEMMA Layout ==
    ASSUME IndInv, SchedInv
    PROVE  LayoutExact
<1> DEFINE n == Len(batch)
           order == RowOrder(Lengths)
<1>0. /\ n \in Nat /\ Items = 1..n /\ Lengths \in Seq(Nat) /\ Len(Lengths) = n
      /\ \A i \in Items : Lengths[i] = Count(i) /\ Count(i) \in Nat \ {0}
  BY ItemLaws
<1>1. AttP!PrefixSums(Lengths) = Cu /\ AttP!RowOrder(Lengths) = order
  BY DEF Cu, AttP!PrefixSums, PrefixSums, AttP!RowOrder, RowOrder, AttP!RowsOfItems, RowsOfItems,
         AttP!AppendedBefore, AppendedBefore, AttP!Cardinality, Cardinality
<1>2. /\ Cu \in [1..(n + 1) -> Nat] /\ Cu[1] = 0
      /\ \A i \in 1..n : Cu[i + 1] = Cu[i] + Lengths[i]
      /\ \A i, k \in 1..(n + 1) : i <= k => Cu[i] <= Cu[k]
  <2> DEFINE l == Lengths
  <2>1. l \in Seq(Nat)  BY <1>0
  <2> HIDE DEF l
  <2>2. LET cu == AttP!PrefixSums(l)
            m  == Len(l)
        IN  /\ cu \in [1..(m + 1) -> Nat] /\ cu[1] = 0
            /\ \A i \in 1..m : cu[i + 1] = cu[i] + l[i]
            /\ \A i, k \in 1..(m + 1) : i <= k => cu[i] <= cu[k]
    BY <2>1, PoolAssumption, AttP!PrefixSumLaws DEF AttP!BlockSizeAssumption
  <2> QED BY <1>0, <1>1, <2>2 DEF l
<1>3. /\ DOMAIN order = 1..Cu[n + 1]
      /\ \A i \in 1..n, j \in Nat \ {0} :
            j <= Lengths[i] => Cu[i] + j \in DOMAIN order /\ order[Cu[i] + j] = <<i, j>>
      /\ \A r \in DOMAIN order : \E i \in 1..n, j \in Nat \ {0} :
            j <= Lengths[i] /\ r = Cu[i] + j /\ order[r] = <<i, j>>
  <2> DEFINE l == Lengths
  <2>1. l \in Seq(Nat)  BY <1>0
  <2> HIDE DEF l
  <2>2. LET cu == AttP!PrefixSums(l)
            o  == AttP!RowOrder(l)
            m  == Len(l)
        IN  /\ DOMAIN o = 1..cu[m + 1]
            /\ \A i \in 1..m, j \in Nat \ {0} :
                  j <= l[i] => cu[i] + j \in DOMAIN o /\ o[cu[i] + j] = <<i, j>>
            /\ \A r \in DOMAIN o : \E i \in 1..m, j \in Nat \ {0} :
                  j <= l[i] /\ r = cu[i] + j /\ o[r] = <<i, j>>
    BY <2>1, PoolAssumption, AttP!RowOrderLaws DEF AttP!BlockSizeAssumption
  <2> QED BY <1>0, <1>1, <2>2 DEF l
<1> HIDE DEF order, n
<1>4. \A i \in Items : Cu[i] \in Nat /\ Cu[i + 1] = Cu[i] + Count(i) /\ i + 1 \in DOMAIN Cu
  BY <1>0, <1>2
<1>5. \A i, k \in Items : i < k => Cu[i] + Count(i) <= Cu[k]
  <2> TAKE i, k \in Items
  <2>1. i + 1 \in 1..(n + 1) /\ k \in 1..(n + 1) /\ (i < k => i + 1 <= k)  BY <1>0
  <2> QED BY <1>2, <1>4, <2>1
<1>6. ASSUME NEW r, NEW i, NEW j, RowIs(r, i, j)
      PROVE  r \in 1..NumRows /\ order[r] = <<i, j>>
  <2>1. i \in 1..n /\ j \in Nat \ {0} /\ j <= Lengths[i] /\ r = Cu[i] + j  BY <1>0, <1>6 DEF RowIs
  <2> QED BY <1>3, <2>1 DEF NumRows, n
<1>7. ASSUME NEW r \in 1..NumRows
      PROVE  \E i \in Items : \E j \in 1..Count(i) : RowIs(r, i, j)
  <2>1. PICK i \in 1..n, j \in Nat \ {0} : j <= Lengths[i] /\ r = Cu[i] + j  BY <1>3 DEF NumRows, n
  <2>2. i \in Items /\ j \in 1..Count(i)  BY <1>0, <2>1
  <2> QED BY <2>1, <2>2 DEF RowIs
<1> QED BY <1>2, <1>3, <1>4, <1>5, <1>6, <1>7 DEF LayoutExact, NumRows, n, order

-----------------------------------------------------------------------------
(* The entries of the flat tensors.                                          *)

\* The position in its sequence that item i's j-th new token has.
Position(i, j) == Start(i) + j - 1

\* Row r of the tensors is about the token that RowIs says it is about.
LEMMA TensorLaws ==
    ASSUME IndInv, SchedInv
    PROVE  /\ DOMAIN InputIds = 1..NumRows /\ DOMAIN RowPositions = 1..NumRows
           /\ DOMAIN SlotMapping = 1..NumRows
           /\ \A r, i, j : RowIs(r, i, j) =>
                 /\ r \in 1..NumRows
                 /\ InputIds[r] = tokens[batch[i]][Position(i, j) + 1]
                 /\ RowPositions[r] = Position(i, j)
                 /\ SlotMapping[r] = Slot(batch[i], Position(i, j))[1] * BlockSize
                                       + Slot(batch[i], Position(i, j))[2]
<1> DEFINE order == RowOrder(Lengths)
<1>1. LayoutExact  BY Layout
<1>2. DOMAIN order = 1..NumRows  BY <1>1 DEF LayoutExact
<1>3. /\ InputIds = [r \in DOMAIN order |-> tokens[batch[order[r][1]]][Start(order[r][1]) + order[r][2]]]
      /\ RowPositions = [r \in DOMAIN order |-> Start(order[r][1]) + order[r][2] - 1]
      /\ SlotMapping = [r \in DOMAIN order |->
            LET x == Start(order[r][1]) + order[r][2] - 1
            IN  table[batch[order[r][1]]][x \div BlockSize + 1] * BlockSize + (x % BlockSize)]
  BY DEF InputIds, RowPositions, SlotMapping, Flat
<1> HIDE DEF order
<1>4. ASSUME NEW r, NEW i, NEW j, RowIs(r, i, j)
      PROVE  /\ r \in 1..NumRows
             /\ InputIds[r] = tokens[batch[i]][Position(i, j) + 1]
             /\ RowPositions[r] = Position(i, j)
             /\ SlotMapping[r] = Slot(batch[i], Position(i, j))[1] * BlockSize
                                       + Slot(batch[i], Position(i, j))[2]
  <2>1. r \in 1..NumRows /\ order[r] = <<i, j>>  BY <1>1, <1>4 DEF LayoutExact, order
  <2>2. r \in DOMAIN order /\ order[r][1] = i /\ order[r][2] = j  BY <1>2, <2>1
  <2>3. Start(i) \in Nat /\ j \in Nat
    <3>1. i \in Items /\ j \in 1..Count(i)  BY <1>4 DEF RowIs
    <3>2. Start(i) \in Nat /\ Count(i) \in Nat  BY <3>1, ItemLaws
    <3> QED BY <3>1, <3>2
  <2>4. Position(i, j) + 1 = Start(i) + j  BY <2>3 DEF Position
  <2>5. InputIds[r] = tokens[batch[i]][Start(i) + j]  BY <1>3, <2>2
  <2>6. RowPositions[r] = Position(i, j)  BY <1>3, <2>2 DEF Position
  <2>7. SlotMapping[r] = table[batch[i]][Position(i, j) \div BlockSize + 1] * BlockSize
                            + (Position(i, j) % BlockSize)
    BY <1>3, <2>2 DEF Position
  <2>8. Slot(batch[i], Position(i, j))
           = <<table[batch[i]][Position(i, j) \div BlockSize + 1], Position(i, j) % BlockSize>>
    BY DEF Slot
  <2> QED BY <2>1, <2>4, <2>5, <2>6, <2>7, <2>8
<1>5. DOMAIN InputIds = 1..NumRows /\ DOMAIN RowPositions = 1..NumRows /\ DOMAIN SlotMapping = 1..NumRows
  BY <1>2, <1>3
<1> QED BY <1>4, <1>5

\* A row is a new position of its sequence, and every new position has a row.
LEMMA TokenRow ==
    ASSUME IndInv, SchedInv, NEW i \in Items, NEW j \in 1..Count(i)
    PROVE  /\ batch[i] \in Scheduled /\ batch[i] \in Seqs /\ i \in Nat /\ j \in Nat
           /\ Position(i, j) \in NewPositions(batch[i])
           /\ Position(i, j) \in Nat
           /\ Start(i) \in Nat /\ Count(i) \in Nat /\ Cu[i] \in Nat
           /\ RowIs(Cu[i] + j, i, j)
<1>1. /\ batch[i] \in Scheduled /\ batch[i] \in Seqs /\ Start(i) \in Nat /\ Count(i) \in Nat
      /\ i \in Nat
  <2>1. Items = 1..Len(batch)  BY ItemLaws
  <2> QED BY <2>1, ItemLaws
<1>2. Cu[i] \in Nat  BY Layout DEF LayoutExact
<1>3. Position(i, j) \in Start(i)..(Start(i) + Count(i) - 1) /\ Position(i, j) \in Nat
  BY <1>1 DEF Position
<1>4. NewPositions(batch[i]) = Start(i)..(Start(i) + Count(i) - 1)
  BY DEF NewPositions, Start, Count
<1>5. RowIs(Cu[i] + j, i, j)  BY DEF RowIs
<1>6. j \in Nat  BY <1>1
<1>7. Position(i, j) \in NewPositions(batch[i]) /\ Position(i, j) \in Nat  BY <1>3, <1>4
<1> QED BY <1>1, <1>2, <1>5, <1>6, <1>7

LEMMA RowOfPosition ==
    ASSUME IndInv, SchedInv, NEW i \in Items, NEW x \in NewPositions(batch[i])
    PROVE  /\ x - Start(i) + 1 \in 1..Count(i)
           /\ Position(i, x - Start(i) + 1) = x
<1>1. Start(i) \in Nat /\ Count(i) \in Nat  BY ItemLaws
<1>2. x \in Start(i)..(Start(i) + Count(i) - 1)  BY DEF NewPositions, Start, Count
<1> QED BY <1>1, <1>2 DEF Position

\* An item and a place in it determine a row, and a row determines them.
LEMMA RowUnique ==
    ASSUME IndInv, SchedInv, NEW r, NEW i, NEW j, NEW k, NEW l, RowIs(r, i, j), RowIs(r, k, l)
    PROVE  i = k /\ j = l
<1>1. <<i, j>> = <<k, l>>  BY Layout DEF LayoutExact
<1> QED BY <1>1

\* Every scheduled sequence is an item, once.
LEMMA ItemOfScheduled ==
    ASSUME IndInv, SchedInv
    PROVE  /\ \A s \in Scheduled : \E i \in Items : batch[i] = s
           /\ \A i, k \in Items : batch[i] = batch[k] => i = k
<1>1. Scheduled = Range(batch) /\ IsInjective(batch)  BY DEF SchedInv, BatchExact
<1> QED BY <1>1 DEF Items, Range, IsInjective

-----------------------------------------------------------------------------
(* Slots.                                                                    *)

\* A slot as one number, the form in which slot_mapping gives it.
FlatSlot(slot) == slot[1] * BlockSize + slot[2]

LEMMA FlatSlotInjective ==
    ASSUME NEW b \in Blocks, NEW o \in Offsets, NEW c \in Blocks, NEW d \in Offsets,
           b * BlockSize + o = c * BlockSize + d
    PROVE  b = c /\ o = d
<1>1. b \in Nat /\ c \in Nat  BY DEF Blocks
<1>2. (b * BlockSize + o) \div BlockSize = b /\ (b * BlockSize + o) % BlockSize = o
  BY <1>1, PositionLaws
<1>3. (c * BlockSize + d) \div BlockSize = c /\ (c * BlockSize + d) % BlockSize = d
  BY <1>1, PositionLaws
<1> QED BY <1>2, <1>3

\* Every position below the scheduled length has a slot of its own.
LEMMA PlaceLaws ==
    ASSUME IndInv, SchedInv, NEW i \in Items, NEW x \in 0..(Start(i) + Count(i) - 1)
    PROVE  /\ Slot(batch[i], x)[1] \in Blocks /\ Slot(batch[i], x)[2] \in Offsets
           /\ Slot(batch[i], x) = <<Slot(batch[i], x)[1], Slot(batch[i], x)[2]>>
           /\ x \div BlockSize + 1 \in DOMAIN table[batch[i]]
           /\ x \in Nat /\ x < computed[batch[i]] + num_new[batch[i]]
<1>1. batch[i] \in Seqs /\ Start(i) \in Nat /\ Count(i) \in Nat  BY ItemLaws
<1>2. x \in Nat /\ x < Start(i) + Count(i)  BY <1>1
<1>3. x < computed[batch[i]] + num_new[batch[i]]  BY <1>2 DEF Start, Count
<1>4. TypeOK /\ TableExact  BY DEF IndInv
<1>5. /\ Slot(batch[i], x)[1] \in Blocks /\ Slot(batch[i], x)[2] \in Offsets
      /\ x \div BlockSize + 1 \in DOMAIN table[batch[i]]
  BY <1>1, <1>2, <1>3, <1>4, SlotLaws
<1>6. Slot(batch[i], x) = <<Slot(batch[i], x)[1], Slot(batch[i], x)[2]>>  BY DEF Slot
<1> QED BY <1>2, <1>3, <1>5, <1>6

\* slot_mapping has the slot of a position in the rows that compute the
\* position, and in no others.
LEMMA WriterLaws ==
    ASSUME IndInv, SchedInv, NEW i \in Items, NEW x \in 0..(Start(i) + Count(i) - 1),
           NEW r \in DOMAIN SlotMapping
    PROVE  SlotMapping[r] = FlatSlot(Slot(batch[i], x))
              <=> x >= Start(i) /\ r = Cu[i] + (x - Start(i)) + 1
<1> DEFINE s == batch[i]
<1>1. r \in 1..NumRows  BY TensorLaws
<1>0. PICK k \in Items : \E j \in 1..Count(k) : RowIs(r, k, j)  BY <1>1, Layout DEF LayoutExact
<1>2. PICK j \in 1..Count(k) : RowIs(r, k, j)  BY <1>0
<1> DEFINE t == batch[k]
           y == Position(k, j)
<1>3. t \in Scheduled /\ t \in Seqs /\ y \in NewPositions(t) /\ y \in Nat
  <2> HIDE DEF s
  <2> QED BY TokenRow
<1>4. Slot(t, y)[1] \in Blocks /\ Slot(t, y)[2] \in Offsets /\ Slot(t, y) = <<Slot(t, y)[1], Slot(t, y)[2]>>
  BY <1>3, NewPositionLaws
<1>5. SlotMapping[r] = FlatSlot(Slot(t, y))  BY <1>2, TensorLaws DEF FlatSlot
<1>6. /\ Slot(s, x)[1] \in Blocks /\ Slot(s, x)[2] \in Offsets
      /\ Slot(s, x) = <<Slot(s, x)[1], Slot(s, x)[2]>>
      /\ x \in Nat /\ x < computed[s] + num_new[s]
  BY PlaceLaws
<1>7. s \in Seqs  BY ItemLaws
<1> HIDE DEF s, t, y
<1>8. ASSUME SlotMapping[r] = FlatSlot(Slot(s, x))
      PROVE  x >= Start(i) /\ r = Cu[i] + (x - Start(i)) + 1
  <2>1. Slot(t, y)[1] = Slot(s, x)[1] /\ Slot(t, y)[2] = Slot(s, x)[2]
    <3>1. Slot(t, y)[1] * BlockSize + Slot(t, y)[2] = Slot(s, x)[1] * BlockSize + Slot(s, x)[2]
      BY <1>5, <1>8 DEF FlatSlot
    <3> QED BY <1>4, <1>6, <3>1, FlatSlotInjective
  <2>2. Slot(s, x) = Slot(t, y)  BY <1>4, <1>6, <2>1
  <2>3. Slot(s, x) \in WrittenSlots(t)  BY <1>3, <2>2 DEF WrittenSlots
  <2>4. s = t /\ x \in NewPositions(t)  BY <1>3, <1>6, <1>7, <2>3, WrittenApart
  <2>5. x = y
    <3>1. y < computed[t] + num_new[t]  BY <1>3, NewPositionLaws
    <3> QED BY <1>3, <1>6, <1>7, <2>2, <2>4, <3>1, SlotInjective DEF IndInv
  <2>6. i = k  BY <2>4, ItemOfScheduled DEF s, t
  <2>7. /\ Start(i) \in Nat /\ Cu[i] \in Nat /\ j \in 1..Count(i) /\ Count(i) \in Nat
        /\ r = Cu[i] + j /\ x = Start(i) + j - 1
    <3>1. j \in 1..Count(i) /\ r = Cu[i] + j  BY <1>2, <2>6 DEF RowIs
    <3>2. x = Start(i) + j - 1  BY <2>5, <2>6 DEF y, Position
    <3>3. Start(i) \in Nat /\ Cu[i] \in Nat /\ Count(i) \in Nat  BY ItemLaws, Layout DEF LayoutExact
    <3> QED BY <3>1, <3>2, <3>3
  <2> QED BY <2>7
<1>9. ASSUME x >= Start(i), r = Cu[i] + (x - Start(i)) + 1
      PROVE  SlotMapping[r] = FlatSlot(Slot(s, x))
  <2> DEFINE l == x - Start(i) + 1
  <2>1. Start(i) \in Nat /\ Count(i) \in Nat /\ Cu[i] \in Nat  BY ItemLaws, Layout DEF LayoutExact
  <2>2. l \in 1..Count(i) /\ Position(i, l) = x /\ r = Cu[i] + l  BY <1>9, <2>1 DEF Position
  <2>3. RowIs(r, i, l)  BY <2>2 DEF RowIs
  <2> HIDE DEF l
  <2>4. SlotMapping[r] = Slot(batch[i], Position(i, l))[1] * BlockSize
                            + Slot(batch[i], Position(i, l))[2]
    BY <2>3, TensorLaws
  <2> QED BY <2>2, <2>4 DEF s, FlatSlot
<1> QED BY <1>8, <1>9 DEF s

-----------------------------------------------------------------------------
(* The metadata.                                                             *)

\* A table is not longer than the pool.
LEMMA TableLength ==
    ASSUME IndInv, NEW s \in Seqs
    PROVE  Len(table[s]) \in Nat /\ Len(table[s]) <= NumBlocks
<1> DEFINE n == Len(table[s])
<1>1. table[s] \in Seq(Blocks) /\ IsInjective(table[s])  BY DEF IndInv, TypeOK, TableInjective
<1>2. n \in Nat /\ DOMAIN table[s] = 1..n  BY <1>1, LenProperties
<1>3. table[s] \in Injection(1..n, Blocks)
  <2>1. table[s] \in [1..n -> Blocks]  BY <1>1, <1>2
  <2> QED BY <1>1, <1>2, <2>1 DEF Injection, IsInjective
<1> HIDE DEF n
<1>4. IsFiniteSet(Blocks) /\ Cardinality(Blocks) = NumBlocks
  <2>1. 0 \in Int /\ NumBlocks - 1 \in Int /\ ~(0 > NumBlocks - 1) /\ NumBlocks - 1 - 0 + 1 = NumBlocks
    BY PoolAssumption
  <2> QED BY <2>1, FS_Interval DEF Blocks
<1>5. Cardinality(1..n) <= Cardinality(Blocks)  BY <1>3, <1>4, FS_Injection
<1>6. Cardinality(1..n) = n
  <2>1. Cardinality(1..n) = IF 1 > n THEN 0 ELSE n - 1 + 1  BY <1>2, FS_Interval
  <2> QED BY <1>2, <2>1
<1> QED BY <1>2, <1>4, <1>5, <1>6 DEF n

\* No table of the batch is longer than the padded ones.
LEMMA LongestLaws ==
    ASSUME IndInv, SchedInv, batch # <<>>
    PROVE  Longest \in Nat /\ \A i \in Items : Len(table[batch[i]]) <= Longest
<1> DEFINE S == {Len(table[s]) : s \in Range(batch)}
<1>1. \A s \in Range(batch) : s \in Seqs  BY DEF SchedInv, SchedulerTypeOK, Range
<1>2. \A n \in S : n \in Nat /\ n <= NumBlocks  BY <1>1, TableLength
<1>3. \A i \in Items : batch[i] \in Range(batch)  BY DEF Items, Range
<1>4. S # {}
  <2>1. Len(batch) # 0 /\ Items = 1..Len(batch) /\ Len(batch) \in Nat
    BY ItemLaws, EmptySeq DEF SchedInv, SchedulerTypeOK
  <2>2. 1 \in Items  BY <2>1
  <2> QED BY <1>3, <2>2
<1>5. \A i \in Items : Len(table[batch[i]]) \in S  BY <1>3
<1>6. Longest = CHOOSE n \in S : \A m \in S : m <= n  BY DEF Longest
<1> HIDE DEF S
<1>7. \E n \in S : \A m \in S : m <= n
  <2>1. S \in SUBSET Int /\ NumBlocks \in Int /\ \A n \in S : n <= NumBlocks
    BY <1>2, PoolAssumption
  <2> QED BY <1>4, <2>1, PoolAssumption, AttP!MaximumExists DEF AttP!BlockSizeAssumption
<1>8. Longest \in S /\ \A m \in S : m <= Longest  BY <1>6, <1>7
<1> QED BY <1>2, <1>5, <1>8

\* Padding a table leaves its own entries where they are.
LEMMA PaddingLaws ==
    ASSUME IndInv, SchedInv, batch # <<>>, NEW i \in Items, NEW b \in DOMAIN table[batch[i]]
    PROVE  Padded(i)[b] = table[batch[i]][b]
<1> DEFINE t == table[batch[i]]
           z == Zeros(i)
           D == Blocks \cup {0}
<1>1. t \in Seq(Blocks) /\ Len(t) \in Nat  BY ItemLaws, TableLength DEF IndInv, TypeOK
<1>2. t \in Seq(D)
  <2>1. DOMAIN t = 1..Len(t) /\ \A k \in 1..Len(t) : t[k] \in Blocks  BY <1>1, ElementOfSeq, LenProperties
  <2>2. t = [k \in 1..Len(t) |-> t[k]]  BY <1>1, <2>1
  <2>3. t \in [1..Len(t) -> D]  BY <2>1, <2>2
  <2> QED BY <1>1, <2>3
<1>3. Longest \in Nat /\ Len(t) <= Longest  BY LongestLaws
<1>4. z \in Seq(D)
  <2> DEFINE n == Longest - Len(t)
  <2>1. n \in Nat  BY <1>1, <1>3
  <2>2. z = [k \in 1..n |-> 0]  BY DEF Zeros
  <2> HIDE DEF n, z
  <2>3. z \in [1..n -> D]  BY <2>2
  <2> QED BY <2>1, <2>3
<1>5. b \in 1..Len(t)  BY <1>1, LenProperties
<1>6. Padded(i) = t \o z  BY DEF Padded
<1>7. Len(z) \in Nat  BY <1>4, LenProperties
<1> HIDE DEF t, z, D
<1>8. b \in 1..(Len(t) + Len(z)) /\ b <= Len(t)  BY <1>1, <1>5, <1>7
<1> QED BY <1>2, <1>4, <1>6, <1>8, ConcatProperties DEF t

\* What the metadata say of item i: its rows, its context, and where its keys are.
LEMMA MetaLaws ==
    ASSUME IndInv, SchedInv, batch # <<>>, NEW i \in Items
    PROVE  /\ Meta.lens[i] = Start(i) + Count(i) /\ DOMAIN Meta.lens = Items
           /\ Meta.cu[i] = Cu[i] /\ Meta.cu[i + 1] = Cu[i] + Count(i)
           /\ Att!NumQ(Meta, i) = Count(i)
           /\ Att!RowsOf(Meta, i) = Cu[i]..(Cu[i] + Count(i) - 1)
           /\ \A k \in 0..(Start(i) + Count(i) - 1) : Att!SlotOf(Meta, i, k) = Slot(batch[i], k)
<1>1. Cu[i] \in Nat /\ Cu[i + 1] = Cu[i] + Count(i) /\ Count(i) \in Nat /\ Start(i) \in Nat
  BY Layout, ItemLaws DEF LayoutExact
<1>2. /\ Meta.lens = [k \in Items |-> Start(k) + Count(k)] /\ Meta.cu = Cu
      /\ Meta.tables = [k \in Items |-> Padded(k)]
  BY DEF Meta
<1>3. Att!NumQ(Meta, i) = Count(i)
  <2>1. Cu[i + 1] - Cu[i] = Count(i)  BY <1>1
  <2> QED BY <1>2, <2>1 DEF Att!NumQ
<1>4. Att!RowsOf(Meta, i) = Cu[i]..(Cu[i] + Count(i) - 1)  BY <1>1, <1>2 DEF Att!RowsOf
<1>5. ASSUME NEW k \in 0..(Start(i) + Count(i) - 1)
      PROVE  Att!SlotOf(Meta, i, k) = Slot(batch[i], k)
  <2> DEFINE b == k \div BlockSize + 1
  <2>1. b \in DOMAIN table[batch[i]]  BY PlaceLaws
  <2>2. Padded(i)[b] = table[batch[i]][b]  BY <2>1, PaddingLaws
  <2>3. Meta.tables[i] = Padded(i)  BY <1>2
  <2> QED BY <2>2, <2>3 DEF Att!SlotOf, Slot
<1> QED BY <1>1, <1>2, <1>3, <1>4, <1>5

\* A row is found among the rows of its item.
LEMMA ItemOfLaws ==
    ASSUME IndInv, SchedInv, batch # <<>>, NEW r, NEW i, NEW j, RowIs(r, i, j)
    PROVE  ItemOf(BuildInputs, r) = i
<1>1. i \in Items /\ j \in 1..Count(i) /\ r = Cu[i] + j  BY DEF RowIs
<1>2. BuildInputs.meta = Meta  BY DEF BuildInputs
<1>3. \A k \in Items : Cu[k] \in Nat /\ Count(k) \in Nat /\ Start(k) \in Nat
  BY Layout, ItemLaws DEF LayoutExact
<1>4. \A k \in Items : Att!RowsOf(Meta, k) = Cu[k]..(Cu[k] + Count(k) - 1)  BY MetaLaws
<1>5. r - 1 \in Att!RowsOf(Meta, i)
  <2>1. r - 1 \in Cu[i]..(Cu[i] + Count(i) - 1)  BY <1>1, <1>3
  <2> QED BY <1>1, <1>4, <2>1
<1>6. ASSUME NEW k \in Items, r - 1 \in Att!RowsOf(Meta, k) PROVE k = i
  <2> DEFINE l == r - Cu[k]
  <2>1. r - 1 \in Cu[k]..(Cu[k] + Count(k) - 1)  BY <1>4, <1>6
  <2>2. r \in Int /\ Cu[k] \in Nat /\ Count(k) \in Nat  BY <1>1, <1>3
  <2>3. l \in 1..Count(k) /\ r = Cu[k] + l  BY <2>1, <2>2
  <2>4. RowIs(r, k, l)  BY <2>3 DEF RowIs
  <2> QED BY <2>4, RowUnique
<1>7. DOMAIN Meta.lens = Items  BY <1>1, MetaLaws
<1>8. ItemOf(BuildInputs, r) = CHOOSE k \in Items : r - 1 \in Att!RowsOf(Meta, k)
  BY <1>2, <1>7 DEF ItemOf
<1> QED BY <1>1, <1>5, <1>6, <1>8

-----------------------------------------------------------------------------
(* What a row computes.                                                      *)

\* A slot is written by the row of its position, and a computed position by none.
LEMMA WritersLaws ==
    ASSUME IndInv, SchedInv, NEW i \in Items, NEW x \in 0..(Start(i) + Count(i) - 1)
    PROVE  /\ x < Start(i) => Writers(BuildInputs, FlatSlot(Slot(batch[i], x))) = {}
           /\ x >= Start(i) => Writers(BuildInputs, FlatSlot(Slot(batch[i], x)))
                                  = {Cu[i] + (x - Start(i)) + 1}
<1> DEFINE f == FlatSlot(Slot(batch[i], x))
           w == Cu[i] + (x - Start(i)) + 1
<1>1. Writers(BuildInputs, f) = {r \in DOMAIN SlotMapping : SlotMapping[r] = f}
  BY DEF Writers, BuildInputs
<1>2. \A r \in DOMAIN SlotMapping : SlotMapping[r] = f <=> x >= Start(i) /\ r = w
  BY WriterLaws
<1>3. Start(i) \in Nat /\ Count(i) \in Nat /\ Cu[i] \in Nat /\ x \in Nat
  <2>1. Start(i) \in Nat /\ Count(i) \in Nat /\ Cu[i] \in Nat  BY ItemLaws, Layout DEF LayoutExact
  <2> QED BY <2>1
<1> HIDE DEF f
<1>4. CASE x < Start(i)
  <2>1. ~(x >= Start(i))  BY <1>3, <1>4
  <2> QED BY <1>1, <1>2, <1>4, <2>1 DEF f
<1>5. CASE x >= Start(i)
  <2>1. w \in DOMAIN SlotMapping
    <3>1. x \in NewPositions(batch[i])  BY <1>3, <1>5 DEF NewPositions, Start, Count
    <3>2. x - Start(i) + 1 \in 1..Count(i)  BY <3>1, RowOfPosition
    <3>3. w = Cu[i] + (x - Start(i) + 1)  BY <1>3
    <3>4. RowIs(w, i, x - Start(i) + 1)  BY <3>2, <3>3 DEF RowIs
    <3> HIDE DEF w
    <3> QED BY <3>4, TensorLaws
  <2>2. ~(x < Start(i))  BY <1>3, <1>5
  <2> HIDE DEF w
  <2>3. Writers(BuildInputs, f) = {w}  BY <1>1, <1>2, <1>5, <2>1
  <2> QED BY <2>2, <2>3 DEF f, w
<1> QED BY <1>3, <1>4, <1>5

\* ids has, behind c, the j entries that t has behind a.
Copied(ids, c, t, a, j) == \A m \in 1..j : ids[c + m] = t[a + m]

\* A prefix of t, followed by the entries of t behind it, taken from ids.
LEMMA GluedPrefix ==
    ASSUME NEW S, NEW t \in Seq(S), NEW ids \in Seq(S), NEW a \in Nat, NEW c \in Nat,
           NEW j \in Nat, a + j <= Len(t), c + j <= Len(ids),
           Copied(ids, c, t, a, j)
    PROVE  SubSeq(t, 1, a) \o SubSeq(ids, c + 1, c + j) = SubSeq(t, 1, a + j)
<1> DEFINE p == SubSeq(t, 1, a)
           q == SubSeq(ids, c + 1, c + j)
           g == SubSeq(t, 1, a + j)
<1>0. \A m \in 1..j : ids[c + m] = t[a + m]  BY DEF Copied
<1>1. Len(t) \in Nat /\ Len(ids) \in Nat  BY LenProperties
<1>2. p \in Seq(S) /\ Len(p) = a /\ \A m \in 1..a : p[m] = t[m]
  BY <1>1, PrefixLaws
<1>3. g \in Seq(S) /\ Len(g) = a + j /\ \A m \in 1..(a + j) : g[m] = t[m]
  BY <1>1, PrefixLaws
<1>4. q \in Seq(S) /\ Len(q) = j /\ \A m \in 1..j : q[m] = ids[c + m]
  <2>1. \A m \in (c + 1)..(c + j) : m \in 1..Len(ids)  BY <1>1
  <2>2. \A m \in (c + 1)..(c + j) : ids[m] \in S  BY <2>1, ElementOfSeq
  <2>3. /\ q \in Seq(S) /\ Len(q) = IF c + 1 <= c + j THEN ((c + j) - (c + 1)) + 1 ELSE 0
        /\ \A m \in 1..(((c + j) - (c + 1)) + 1) : q[m] = ids[((c + 1) + m) - 1]
    <3>1. c + 1 \in Int /\ c + j \in Int  OBVIOUS
    <3> QED BY <2>2, <3>1, SubSeqProperties
  <2> HIDE DEF q
  <2>4. Len(q) = j  BY <2>3
  <2>5. ASSUME NEW m \in 1..j PROVE q[m] = ids[c + m]
    <3>1. m \in 1..(((c + j) - (c + 1)) + 1) /\ ((c + 1) + m) - 1 = c + m  OBVIOUS
    <3> QED BY <2>3, <3>1
  <2> QED BY <2>3, <2>4, <2>5
<1> HIDE DEF p, q, g
<1>5. /\ p \o q \in Seq(S) /\ Len(p \o q) = a + j
      /\ \A m \in 1..(a + j) : (p \o q)[m] = IF m <= a THEN p[m] ELSE q[m - a]
  <2>1. /\ p \o q \in Seq(S) /\ Len(p \o q) = Len(p) + Len(q)
        /\ \A m \in 1..(Len(p) + Len(q)) :
              (p \o q)[m] = IF m <= Len(p) THEN p[m] ELSE q[m - Len(p)]
    BY <1>2, <1>4, ConcatProperties
  <2>2. Len(p) = a /\ Len(q) = j  BY <1>2, <1>4
  <2> QED BY <2>1, <2>2, Zenon
<1>6. \A m \in 1..(a + j) : (p \o q)[m] = g[m]
  <2> TAKE m \in 1..(a + j)
  <2>1. CASE m <= a
    <3>1. (p \o q)[m] = p[m]  BY <1>5, <2>1
    <3>2. m \in 1..a  BY <2>1
    <3> QED BY <1>2, <1>3, <3>1, <3>2
  <2>2. CASE ~(m <= a)
    <3>1. m - a \in 1..j /\ a + (m - a) = m  BY <2>2
    <3>2. (p \o q)[m] = q[m - a]  BY <1>5, <2>2
    <3>3. q[m - a] = ids[c + (m - a)] /\ ids[c + (m - a)] = t[a + (m - a)]  BY <1>0, <1>4, <3>1
    <3> QED BY <1>3, <3>1, <3>2, <3>3
  <2> QED BY <2>1, <2>2
<1>7. p \o q = g
  <2>1. DOMAIN (p \o q) = 1..(a + j) /\ DOMAIN g = 1..(a + j)  BY <1>3, <1>5, LenProperties
  <2> QED BY <1>3, <1>5, <1>6, <2>1, SeqEqual
<1> QED BY <1>7 DEF p, q, g

\* The tokens of an item's rows up to its j-th are the sequence's own.
LEMMA IdsLaws ==
    ASSUME IndInv, SchedInv, NEW i \in Items, NEW j \in 1..Count(i)
    PROVE  /\ InputIds \in Seq(Tokens)
           /\ tokens[batch[i]] \in Seq(Tokens)
           /\ Start(i) + j <= Len(tokens[batch[i]])
           /\ SubSeq(tokens[batch[i]], 1, Start(i)) \o SubSeq(InputIds, Cu[i] + 1, Cu[i] + j)
                 = Context(batch[i], Position(i, j))
<1> DEFINE t == tokens[batch[i]]
<1>1. /\ batch[i] \in Seqs /\ Start(i) \in Nat /\ Count(i) \in Nat /\ Cu[i] \in Nat /\ j \in Nat
      /\ Start(i) + Count(i) <= NumTokens(batch[i])
  BY ItemLaws, TokenRow
<1>2. t \in Seq(Tokens) /\ Len(t) \in Nat  BY <1>1, LenProperties DEF IndInv, TypeOK, TokenStrings
<1>3. Start(i) + j <= Len(t)  BY <1>1, <1>2 DEF NumTokens
<1>4. InputIds \in Seq(Tokens)
  <2>1. ASSUME NEW r \in 1..NumRows PROVE InputIds[r] \in Tokens
    <3>1. PICK k \in Items : \E l \in 1..Count(k) : RowIs(r, k, l)  BY Layout DEF LayoutExact
    <3>2. PICK l \in 1..Count(k) : RowIs(r, k, l)  BY <3>1
    <3>3. /\ batch[k] \in Seqs /\ Start(k) \in Nat /\ Count(k) \in Nat /\ l \in Nat /\ l > 0
          /\ Start(k) + Count(k) <= NumTokens(batch[k])
      BY ItemLaws
    <3>4. tokens[batch[k]] \in Seq(Tokens)  BY <3>3 DEF IndInv, TypeOK, TokenStrings
    <3>5. Len(tokens[batch[k]]) \in Nat  BY <3>4, LenProperties
    <3>6. Position(k, l) + 1 \in 1..Len(tokens[batch[k]])
      BY <3>2, <3>3, <3>5 DEF Position, NumTokens
    <3>7. InputIds[r] = tokens[batch[k]][Position(k, l) + 1]  BY <3>2, TensorLaws
    <3> QED BY <3>4, <3>6, <3>7, ElementOfSeq
  <2>2. NumRows \in Nat
    <3>1. Len(batch) + 1 \in 1..(Len(batch) + 1)  BY ItemLaws
    <3> QED BY <3>1, Layout DEF LayoutExact, NumRows
  <2>3. DOMAIN InputIds = 1..NumRows  BY TensorLaws
  <2>4. InputIds \in [1..NumRows -> Tokens]
    <3>1. InputIds = [r \in DOMAIN RowOrder(Lengths) |-> InputIds[r]]  BY DEF InputIds, Flat
    <3>2. DOMAIN RowOrder(Lengths) = 1..NumRows  BY Layout DEF LayoutExact
    <3> QED BY <2>1, <3>1, <3>2
  <2> QED BY <2>2, <2>4
<1>5. Cu[i] + j <= Len(InputIds)
  <2>1. Cu[i] + j \in 1..NumRows  BY TokenRow, TensorLaws
  <2>2. DOMAIN InputIds = 1..NumRows  BY TensorLaws
  <2>3. DOMAIN InputIds = 1..Len(InputIds) /\ Len(InputIds) \in Nat  BY <1>4, LenProperties
  <2>4. Cu[i] + j \in 1..Len(InputIds)  BY <2>1, <2>2, <2>3
  <2> HIDE DEF t
  <2> QED BY <2>3, <2>4
<1>6. ASSUME NEW m \in 1..j PROVE InputIds[Cu[i] + m] = t[Start(i) + m]
  <2>1. m \in 1..Count(i)  BY <1>1
  <2>2. RowIs(Cu[i] + m, i, m)  BY <2>1 DEF RowIs
  <2>3. Position(i, m) + 1 = Start(i) + m  BY <1>1 DEF Position
  <2> QED BY <2>2, <2>3, TensorLaws
<1> HIDE DEF t
<1>7. SubSeq(t, 1, Start(i)) \o SubSeq(InputIds, Cu[i] + 1, Cu[i] + j) = SubSeq(t, 1, Start(i) + j)
  <2> DEFINE a   == Start(i)
             c   == Cu[i]
             ids == InputIds
  <2>1. a \in Nat /\ c \in Nat /\ j \in Nat  BY <1>1
  <2>2. t \in Seq(Tokens) /\ ids \in Seq(Tokens)  BY <1>2, <1>4
  <2>3. a + j <= Len(t) /\ c + j <= Len(ids)  BY <1>3, <1>5
  <2>4. Copied(ids, c, t, a, j)  BY <1>6 DEF Copied
  <2> HIDE DEF a, c, ids
  <2>5. SubSeq(t, 1, a) \o SubSeq(ids, c + 1, c + j) = SubSeq(t, 1, a + j)
    BY <2>1, <2>2, <2>3, <2>4, GluedPrefix
  <2> QED BY <2>5 DEF a, c, ids
<1>8. Context(batch[i], Position(i, j)) = SubSeq(t, 1, Start(i) + j)
  <2>1. Position(i, j) + 1 = Start(i) + j  BY <1>1 DEF Position
  <2> QED BY <2>1 DEF Context, t
<1> QED BY <1>2, <1>3, <1>4, <1>7, <1>8 DEF t

\* What attention reads for row r behind the item's first row, which has position
\* old: position k for each k in keys, as the beginning of text.
ReadsBeginning(in, i, first, old, text, keys) ==
    \A k \in keys :
       IF k < old
       THEN /\ Writers(in, FlatSlot(Att!SlotOf(in.meta, i, k))) = {}
            /\ AfterCopies[Att!SlotOf(in.meta, i, k)[1]][Att!SlotOf(in.meta, i, k)[2]]
                  = SubSeq(text, 1, k + 1)
       ELSE /\ Writers(in, FlatSlot(Att!SlotOf(in.meta, i, k))) = {first + k - old}
            /\ in.positions[first + k - old] = k

\* The text of row r, whose item has its first row at first, with position old.
ItemText(in, i, first, old, r) ==
    (IF old = 0 THEN <<>>
     ELSE AfterCopies[Att!SlotOf(in.meta, i, old - 1)[1]]
                     [Att!SlotOf(in.meta, i, old - 1)[2]])
        \o SubSeq(in.ids, first, r)

\* RowText, when everything attention reads is there.
LEMMA RowTextForm ==
    ASSUME NEW in, NEW r, NEW i, NEW first, NEW pos, NEW old, NEW text, NEW keys,
           i = ItemOf(in, r), first = in.meta.cu[i] + 1,
           pos = in.positions[r], old = in.positions[first],
           text = ItemText(in, i, first, old, r),
           keys = Att!ReferenceKeys(in.meta.lens[i], Att!NumQ(in.meta, i), r - first),
           keys = 0..pos,
           ReadsBeginning(in, i, first, old, text, keys)
    PROVE  RowText(in, r) = text
BY DEF RowText, FlatSlot, ItemText, ReadsBeginning

\* The keys of a query, with the numbers of the context named.
LEMMA ReferenceKeysForm ==
    ASSUME NEW L \in Nat, NEW n \in Nat, NEW q \in Nat, NEW x \in Nat,
           x = L - n + q, x <= L - 1
    PROVE  Att!ReferenceKeys(L, n, q) = 0..x
BY DEF Att!ReferenceKeys

\* A chunk of n tokens that starts at position a has its rows from c on: the
\* query of row r, and the row of position k.
LEMMA ChunkArithmetic ==
    ASSUME NEW a \in Nat, NEW n \in Nat, NEW c \in Nat
    PROVE  /\ \A j \in 1..n : /\ (c + j) - (c + 1) \in Nat
                              /\ a + j - 1 = (a + n) - n + ((c + j) - (c + 1))
           /\ \A k \in 0..(a + n - 1) : k >= a =>
                 /\ k - a + 1 \in 1..n /\ c + (k - a + 1) = c + 1 + k - a
                 /\ a + (k - a + 1) - 1 = k
OBVIOUS

\* The forward pass computes, in the row of a sequence's new token, exactly what
\* that sequence's own text says, whatever else is in the batch.
LEMMA RowTextExact ==
    ASSUME IndInv, SchedInv, KVFaithful, phase = "schedule", batch # <<>>,
           NEW r, NEW i, NEW j, RowIs(r, i, j)
    PROVE  RowText(BuildInputs, r) = Context(batch[i], Position(i, j))
<1> DEFINE in   == BuildInputs
           s    == batch[i]
           x    == Position(i, j)
           text == Context(s, x)
           keys == Att!ReferenceKeys(in.meta.lens[i], Att!NumQ(in.meta, i), r - (Cu[i] + 1))
<1>1. i \in Items /\ j \in 1..Count(i) /\ r = Cu[i] + j  BY DEF RowIs
<1>2. /\ s \in Seqs /\ Start(i) \in Nat /\ Count(i) \in Nat /\ Cu[i] \in Nat /\ j \in Nat /\ i \in Nat
      /\ x \in Nat
  BY <1>1, TokenRow
<1>3. /\ in.ids = InputIds /\ in.positions = RowPositions /\ in.meta = Meta
  BY DEF BuildInputs
<1>4. /\ Meta.lens[i] = Start(i) + Count(i) /\ Meta.cu[i] = Cu[i] /\ Att!NumQ(Meta, i) = Count(i)
      /\ \A k \in 0..(Start(i) + Count(i) - 1) : Att!SlotOf(Meta, i, k) = Slot(s, k)
  BY <1>1, MetaLaws
<1>5. in.meta.cu[i] + 1 = Cu[i] + 1  BY <1>3, <1>4
<1>6. in.positions[r] = x  BY <1>3, TensorLaws
<1>7. in.positions[Cu[i] + 1] = Start(i)
  <2>1. 1 \in 1..Count(i)  BY <1>1, <1>2
  <2>2. RowIs(Cu[i] + 1, i, 1)  BY <1>1, <2>1 DEF RowIs
  <2>3. Position(i, 1) = Start(i)  BY <1>2 DEF Position
  <2> QED BY <1>3, <2>2, <2>3, TensorLaws
<1>8. x = Start(i) + j - 1 /\ x <= Start(i) + Count(i) - 1  BY <1>1, <1>2 DEF Position
<1>9. keys = 0..x
  <2> DEFINE L == Start(i) + Count(i)
             q == r - (Cu[i] + 1)
  <2> HIDE DEF keys, x, s, in, text
  <2>1. L \in Nat /\ q \in Nat /\ x = L - Count(i) + q /\ x <= L - 1
    <3>1. L \in Nat /\ x <= L - 1  BY <1>2, <1>8
    <3>2. q \in Nat /\ Start(i) + j - 1 = L - Count(i) + q  BY <1>1, <1>2, ChunkArithmetic
    <3> QED BY <1>8, <3>1, <3>2
  <2>2. keys = Att!ReferenceKeys(L, Count(i), q)  BY <1>3, <1>4 DEF keys
  <2> HIDE DEF L, q
  <2> QED BY <1>2, <2>1, <2>2, ReferenceKeysForm
<1>10. \A k \in 0..x : k \in 0..(Start(i) + Count(i) - 1) /\ k \in Nat  BY <1>2, <1>8
<1>11. \A k \in 0..x : Att!SlotOf(in.meta, i, k) = Slot(s, k)  BY <1>3, <1>4, <1>10
<1>12. ASSUME NEW k \in 0..x, k < Start(i)
       PROVE  AfterCopies[Slot(s, k)[1]][Slot(s, k)[2]] = Context(s, k)
  <2>1. k \in 0..(computed[s] - 1)  BY <1>2, <1>12 DEF Start
  <2> QED BY <1>2, <2>1 DEF KVFaithful, Settled
<1>13. text = (IF Start(i) = 0 THEN <<>>
               ELSE AfterCopies[Att!SlotOf(in.meta, i, Start(i) - 1)[1]]
                               [Att!SlotOf(in.meta, i, Start(i) - 1)[2]])
                 \o SubSeq(in.ids, Cu[i] + 1, r)
  <2> DEFINE old == IF Start(i) = 0 THEN <<>>
                    ELSE AfterCopies[Att!SlotOf(in.meta, i, Start(i) - 1)[1]]
                                    [Att!SlotOf(in.meta, i, Start(i) - 1)[2]]
  <2>1. old = SubSeq(tokens[s], 1, Start(i))
    <3>1. CASE Start(i) = 0
      <4>1. SubSeq(tokens[s], 1, 0) = <<>>
        BY <1>1, IdsLaws, SubSeqEmpty
      <4> QED BY <3>1, <4>1
    <3>2. CASE Start(i) # 0
      <4> HIDE DEF x, s, in, text
      <4>1. Start(i) - 1 \in 0..x /\ Start(i) - 1 < Start(i) /\ Start(i) - 1 + 1 = Start(i)
        BY <1>1, <1>2, <1>8, <3>2
      <4>2. old = AfterCopies[Slot(s, Start(i) - 1)[1]][Slot(s, Start(i) - 1)[2]]
        BY <1>11, <3>2, <4>1
      <4>3. old = Context(s, Start(i) - 1)  BY <1>12, <4>1, <4>2
      <4> QED BY <4>1, <4>3 DEF Context
    <3> QED BY <3>1, <3>2
  <2>2. SubSeq(tokens[s], 1, Start(i)) \o SubSeq(InputIds, Cu[i] + 1, Cu[i] + j) = text
    BY <1>1, IdsLaws
  <2> HIDE DEF old, text, s
  <2>3. text = old \o SubSeq(in.ids, Cu[i] + 1, r)  BY <1>1, <1>3, <2>1, <2>2
  <2> QED BY <2>3 DEF old
<1>14. ASSUME NEW k \in 0..x
       PROVE  IF k < Start(i)
              THEN /\ Writers(in, FlatSlot(Att!SlotOf(in.meta, i, k))) = {}
                   /\ AfterCopies[Att!SlotOf(in.meta, i, k)[1]][Att!SlotOf(in.meta, i, k)[2]]
                         = SubSeq(text, 1, k + 1)
              ELSE /\ Writers(in, FlatSlot(Att!SlotOf(in.meta, i, k))) = {Cu[i] + 1 + k - Start(i)}
                   /\ in.positions[Cu[i] + 1 + k - Start(i)] = k
  <2>1. k \in Nat /\ k \in 0..(Start(i) + Count(i) - 1) /\ Att!SlotOf(in.meta, i, k) = Slot(s, k)
    BY <1>10, <1>11
  <2>2. /\ k < Start(i) => Writers(in, FlatSlot(Slot(s, k))) = {}
        /\ k >= Start(i) => Writers(in, FlatSlot(Slot(s, k))) = {Cu[i] + (k - Start(i)) + 1}
    BY <1>1, <2>1, WritersLaws
  <2>3. CASE k < Start(i)
    <3>1. AfterCopies[Slot(s, k)[1]][Slot(s, k)[2]] = Context(s, k)  BY <1>12, <2>3
    <3>2. SubSeq(text, 1, k + 1) = Context(s, k)
      <4> DEFINE t == tokens[s]
      <4>1. t \in Seq(Tokens) /\ Start(i) + j <= Len(t) /\ Len(t) \in Nat
        BY <1>1, IdsLaws, LenProperties
      <4>2. x + 1 \in 0..Len(t) /\ k + 1 \in 0..(x + 1)  BY <1>2, <1>8, <2>1, <4>1
      <4> HIDE DEF t, x
      <4>3. SubSeq(SubSeq(t, 1, x + 1), 1, k + 1) = SubSeq(t, 1, k + 1)
        BY <4>1, <4>2, PrefixOfPrefix
      <4> QED BY <4>3 DEF Context, t
    <3> QED BY <2>1, <2>2, <2>3, <3>1, <3>2
  <2>4. CASE ~(k < Start(i))
    <3>1. k >= Start(i) /\ Cu[i] + (k - Start(i)) + 1 = Cu[i] + 1 + k - Start(i)
      BY <1>2, <2>1, <2>4
    <3>2. in.positions[Cu[i] + 1 + k - Start(i)] = k
      <4> DEFINE l == k - Start(i) + 1
      <4> HIDE DEF x, s, in, text
      <4>1. l \in 1..Count(i) /\ Cu[i] + l = Cu[i] + 1 + k - Start(i) /\ Position(i, l) = k
        BY <1>2, <2>1, <3>1, ChunkArithmetic DEF Position
      <4>2. RowIs(Cu[i] + l, i, l)  BY <1>1, <4>1 DEF RowIs
      <4> HIDE DEF l
      <4>3. RowPositions[Cu[i] + l] = Position(i, l)  BY <4>2, TensorLaws
      <4> QED BY <1>3, <4>1, <4>3
    <3> QED BY <2>1, <2>2, <2>4, <3>1, <3>2
  <2> QED BY <2>3, <2>4
<1>15. ItemOf(in, r) = i  BY ItemOfLaws
<1> HIDE DEF in, s, x, text, keys
<1>16. RowText(in, r) = text
  <2> DEFINE first == Cu[i] + 1
             old   == Start(i)
  <2>1. first = in.meta.cu[i] + 1 /\ old = in.positions[first] /\ x = in.positions[r] /\ i = ItemOf(in, r)
    BY <1>5, <1>6, <1>7, <1>15
  <2>2. keys = Att!ReferenceKeys(in.meta.lens[i], Att!NumQ(in.meta, i), r - first) /\ keys = 0..x
    BY <1>9 DEF keys
  <2>3. text = ItemText(in, i, first, old, r)  BY <1>13 DEF ItemText
  <2>4. ReadsBeginning(in, i, first, old, text, keys)  BY <1>14, <2>2 DEF ReadsBeginning
  <2> HIDE DEF first, old
  <2> QED BY <2>1, <2>2, <2>3, <2>4, RowTextForm
<1> QED BY <1>16 DEF in, s, x, text

\* A slot that no row writes belongs to no new position.
LEMMA UnwrittenLaws ==
    ASSUME IndInv, SchedInv, NEW b \in Blocks, NEW o \in Offsets,
           Writers(BuildInputs, b * BlockSize + o) = {}, NEW s \in Scheduled
    PROVE  <<b, o>> \notin WrittenSlots(s)
<1> SUFFICES ASSUME <<b, o>> \in WrittenSlots(s) PROVE FALSE  OBVIOUS
<1>1. PICK x \in NewPositions(s) : <<b, o>> = Slot(s, x)  BY DEF WrittenSlots
<1>2. PICK i \in Items : batch[i] = s  BY ItemOfScheduled
<1> DEFINE j == x - Start(i) + 1
           r == Cu[i] + j
<1>3. j \in 1..Count(i) /\ Position(i, j) = x  BY <1>1, <1>2, RowOfPosition
<1> HIDE DEF j
<1>4. RowIs(r, i, j)  BY <1>2, <1>3 DEF RowIs
<1> HIDE DEF r
<1>5. r \in DOMAIN SlotMapping /\ SlotMapping[r] = Slot(s, x)[1] * BlockSize + Slot(s, x)[2]
  BY <1>2, <1>3, <1>4, TensorLaws
<1>6. Slot(s, x)[1] = b /\ Slot(s, x)[2] = o  BY <1>1
<1>7. SlotMapping[r] = b * BlockSize + o  BY <1>5, <1>6
<1>8. r \in Writers(BuildInputs, b * BlockSize + o)
  BY <1>5, <1>7 DEF Writers, BuildInputs
<1> QED BY <1>8

\* The slot of a row that writes it is that of the row's position.
LEMMA WriterSlot ==
    ASSUME IndInv, SchedInv, NEW b \in Blocks, NEW o \in Offsets,
           NEW r \in Writers(BuildInputs, b * BlockSize + o), NEW i, NEW j, RowIs(r, i, j)
    PROVE  Slot(batch[i], Position(i, j)) = <<b, o>>
<1> DEFINE x == Position(i, j)
           c == Slot(batch[i], x)[1]
           d == Slot(batch[i], x)[2]
<1>1. SlotMapping[r] = b * BlockSize + o  BY DEF Writers, BuildInputs
<1>2. SlotMapping[r] = c * BlockSize + d  BY TensorLaws
<1>3. i \in Items /\ j \in 1..Count(i)  BY DEF RowIs
<1>4. Start(i) \in Nat /\ Count(i) \in Nat  BY <1>3, ItemLaws
<1>5. x \in 0..(Start(i) + Count(i) - 1)  BY <1>3, <1>4 DEF Position
<1> HIDE DEF x
<1>6. c \in Blocks /\ d \in Offsets /\ Slot(batch[i], x) = <<c, d>>  BY <1>3, <1>5, PlaceLaws
<1> HIDE DEF c, d
<1>7. b = c /\ o = d  BY <1>1, <1>2, <1>6, FlatSlotInjective
<1> QED BY <1>6, <1>7 DEF x

\* The forward pass over the flat tensors leaves in the cache what it leaves when
\* the batch is run sequence by sequence.
LEMMA WrittenIsForward ==
    ASSUME IndInv, SchedInv, KVFaithful, phase = "schedule", batch # <<>>
    PROVE  Written(BuildInputs) = AfterForward
<1>1. ASSUME NEW b \in Blocks, NEW o \in Offsets
      PROVE  Written(BuildInputs)[b][o] = AfterForward[b][o]
  <2> DEFINE W == Writers(BuildInputs, b * BlockSize + o)
             r == CHOOSE r \in W : TRUE
  <2>1. CASE W = {}
    <3>1. Written(BuildInputs)[b][o] = AfterCopies[b][o]  BY <2>1 DEF Written
    <3>2. \A s \in Scheduled : <<b, o>> \notin WrittenSlots(s)  BY <2>1, UnwrittenLaws
    <3> QED BY <3>1, <3>2, ForwardKeeps
  <2>2. CASE W # {}
    <3>1. Written(BuildInputs)[b][o] = RowText(BuildInputs, r)  BY <2>2 DEF Written
    <3>2. r \in W  BY <2>2
    <3> HIDE DEF r
    <3>3. r \in 1..NumRows
      <4>1. r \in DOMAIN SlotMapping  BY <3>2 DEF Writers, BuildInputs
      <4> QED BY <4>1, TensorLaws
    <3>4. PICK i \in Items : \E j \in 1..Count(i) : RowIs(r, i, j)  BY <3>3, Layout DEF LayoutExact
    <3>5. PICK j \in 1..Count(i) : RowIs(r, i, j)  BY <3>4
    <3>6. RowText(BuildInputs, r) = Context(batch[i], Position(i, j))  BY <3>5, RowTextExact
    <3>7. batch[i] \in Scheduled /\ Position(i, j) \in NewPositions(batch[i])  BY TokenRow
    <3>8. Slot(batch[i], Position(i, j)) = <<b, o>>  BY <3>2, <3>5, WriterSlot
    <3>9. AfterForward[Slot(batch[i], Position(i, j))[1]][Slot(batch[i], Position(i, j))[2]]
             = Context(batch[i], Position(i, j))
      BY <3>7, ForwardWrites
    <3>10. AfterForward[b][o] = Context(batch[i], Position(i, j))  BY <3>8, <3>9
    <3> QED BY <3>1, <3>6, <3>10
  <2> QED BY <2>1, <2>2
<1> DEFINE w == Written(BuildInputs)
           a == AfterForward
<1>2. w = [b \in Blocks |-> [o \in Offsets |-> w[b][o]]]  BY DEF Written
<1>3. a = [b \in Blocks |-> [o \in Offsets |-> a[b][o]]]  BY DEF AfterForward
<1> HIDE DEF w, a
<1>4. \A b \in Blocks : \A o \in Offsets : w[b][o] = a[b][o]  BY <1>1 DEF w, a
<1> QED BY <1>2, <1>3, <1>4 DEF w, a

\* Running the flat tensors is running the batch.
LEMMA RunIsRun ==
    ASSUME IndInv, SchedInv, KVFaithful, RunnerRun
    PROVE  RunBatch
<1>1. /\ ScheduleDone /\ batch # <<>> /\ TakePendingCopies /\ kv' = Written(BuildInputs)
      /\ at' = "update" /\ preempted' = {} /\ budget' = 0
      /\ UNCHANGED <<queueVars, todo, batch, requestVars>>
  BY DEF RunnerRun
<1>2. phase = "schedule"  BY <1>1 DEF SchedInv, StageExact, ScheduleDone, IndInv, TypeOK
<1>3. Written(BuildInputs) = AfterForward  BY <1>1, <1>2, WrittenIsForward
<1> QED BY <1>1, <1>3 DEF RunBatch, Forward

-----------------------------------------------------------------------------
(* The sampler.                                                              *)

\* A finite set on which w is defined has an element that w values most.
LEMMA BestExists ==
    ASSUME NEW V, IsFiniteSet(V), V # {}, NEW w \in [V -> Nat]
    PROVE  \E t \in V : \A u \in V : w[u] <= w[t]
<1> DEFINE below(t) == {u \in V : w[u] < w[t]}
           C == {Cardinality(below(t)) : t \in V}
<1>1. \A t \in V : IsFiniteSet(below(t)) /\ Cardinality(below(t)) <= Cardinality(V)
  BY FS_Subset
<1>2. Cardinality(V) \in Nat /\ \A t \in V : Cardinality(below(t)) \in Nat
  BY <1>1, FS_CardinalityType
<1>3. C \in SUBSET Nat /\ C # {} /\ \A n \in C : n <= Cardinality(V)  BY <1>1, <1>2
<1>4. \A t \in V : Cardinality(below(t)) \in C  OBVIOUS
<1>5. PICK n \in C : \A m \in C : m <= n
  <2> HIDE DEF C
  <2>1. C \in SUBSET Int /\ Cardinality(V) \in Int  BY <1>2, <1>3
  <2> QED BY <1>3, <2>1, PoolAssumption, AttP!MaximumExists DEF AttP!BlockSizeAssumption
<1>6. PICK t \in V : n = Cardinality(below(t))  OBVIOUS
<1>7. ASSUME NEW u \in V PROVE w[u] <= w[t]
  <2> SUFFICES ASSUME w[t] < w[u] PROVE FALSE  OBVIOUS
  <2>1. below(t) \subseteq below(u) /\ t \in below(u) /\ t \notin below(t)
    <3>1. ASSUME NEW x \in V, w[x] < w[t] PROVE w[x] < w[u]
      <4>1. w[x] \in Nat /\ w[t] \in Nat /\ w[u] \in Nat  OBVIOUS
      <4> QED BY <3>1, <4>1
    <3>2. ~(w[t] < w[t])  OBVIOUS
    <3> QED BY <3>1, <3>2
  <2>2. Cardinality(below(u)) <= n  BY <1>4, <1>5
  <2> HIDE DEF below, C
  <2>3. /\ Cardinality(below(t)) <= Cardinality(below(u))
        /\ Cardinality(below(u)) = Cardinality(below(t)) => below(u) = below(t)
    BY <1>1, <2>1, FS_Subset
  <2>4. Cardinality(below(u)) \in Nat /\ Cardinality(below(t)) \in Nat  BY <1>2
  <2> QED BY <1>6, <2>1, <2>2, <2>3, <2>4
<1> QED BY <1>7

\* The mass of fewer tokens is not larger, and that of no token is 0.
LEMMA MassLaws ==
    ASSUME NEW V, IsFiniteSet(V), NEW w \in [V -> Nat], NEW S \in SUBSET V, NEW T \in SUBSET S
    PROVE  /\ Smp!Mass(w, S) \in Nat /\ Smp!Mass(w, T) \in Nat
           /\ Smp!Mass(w, T) <= Smp!Mass(w, S)
           /\ T = {} => Smp!Mass(w, T) = 0
<1> DEFINE units(X) == UNION {{t} \X (1..w[t]) : t \in X}
<1>1. PICK m \in Nat : \A t \in V : w[t] <= m
  <2>1. CASE V = {}
    <3>1. \A t \in V : w[t] <= 0  BY <2>1
    <3> QED BY <3>1
  <2>2. CASE V # {}
    <3>1. PICK t \in V : \A u \in V : w[u] <= w[t]  BY <2>2, BestExists
    <3> QED BY <3>1
  <2> QED BY <2>1, <2>2
<1>2. units(S) \subseteq V \X (1..m)
  <2> SUFFICES ASSUME NEW t \in S, NEW i \in 1..w[t] PROVE t \in V /\ i \in 1..m
    OBVIOUS
  <2>1. t \in V /\ w[t] \in Nat /\ w[t] <= m  BY <1>1
  <2> QED BY <2>1
<1>3. IsFiniteSet(V \X (1..m))
  <2>1. IsFiniteSet(1..m)  BY FS_Interval
  <2> QED BY <2>1, FS_Product
<1>4. units(T) \subseteq units(S)  OBVIOUS
<1>5. Smp!Mass(w, S) = Cardinality(units(S)) /\ Smp!Mass(w, T) = Cardinality(units(T))
  BY DEF Smp!Mass, Smp!Cardinality, Cardinality
<1>6. T = {} => units(T) = {}  OBVIOUS
<1> HIDE DEF units
<1>7. IsFiniteSet(units(S))  BY <1>2, <1>3, FS_Subset
<1>8. IsFiniteSet(units(T)) /\ Cardinality(units(T)) <= Cardinality(units(S))
  BY <1>4, <1>7, FS_Subset
<1>9. T = {} => Cardinality(units(T)) = 0  BY <1>6, FS_EmptySet
<1> QED BY <1>5, <1>7, <1>8, <1>9, FS_CardinalityType

\* A ranking has every token, and a likelier one earlier.
LEMMA RankingLaws ==
    ASSUME NEW V, IsFiniteSet(V), NEW w \in [V -> Nat], NEW r \in Smp!Rankings(w)
    PROVE  /\ Cardinality(V) \in Nat /\ DOMAIN r = 1..Cardinality(V)
           /\ \A i \in DOMAIN r : r[i] \in V
           /\ \A t \in V : \E i \in DOMAIN r : r[i] = t
           /\ \A i, j \in DOMAIN r : w[r[j]] > w[r[i]] => j < i
<1> DEFINE n == Cardinality(V)
<1>1. n \in Nat  BY FS_CardinalityType
<1>2. /\ r \in [1..n -> V] /\ IsInjective(r)
      /\ \A i, j \in DOMAIN r : i < j => w[r[i]] >= w[r[j]]
  <2>1. DOMAIN w = V  OBVIOUS
  <2> QED BY <2>1 DEF Smp!Rankings, Smp!IsInjective, IsInjective, Smp!Cardinality, Cardinality
<1>3. r \in Injection(1..n, V)  BY <1>2 DEF Injection, IsInjective
<1>4. Cardinality(1..n) = n
  <2>1. Cardinality(1..n) = IF 1 > n THEN 0 ELSE n - 1 + 1  BY <1>1, FS_Interval
  <2> QED BY <1>1, <2>1
<1>5. r \in Surjection(1..n, V)  BY <1>3, <1>4, FS_Injection
<1>6. \A t \in V : \E i \in DOMAIN r : r[i] = t  BY <1>2, <1>5 DEF Surjection
<1>7. ASSUME NEW i \in DOMAIN r, NEW j \in DOMAIN r, w[r[j]] > w[r[i]] PROVE j < i
  <2>1. i \in Nat /\ j \in Nat /\ w[r[i]] \in Nat /\ w[r[j]] \in Nat  BY <1>1, <1>2
  <2>2. ~(i < j)  BY <1>2, <1>7, <2>1
  <2>3. i # j  BY <1>7, <2>1
  <2> QED BY <2>1, <2>2, <2>3
<1> QED BY <1>1, <1>2, <1>6, <1>7

IsParams(p) == p.greedy \in BOOLEAN /\ p.top_k \in Int /\ p.top_p \in Nat \X Nat

Likelier(w, t) == {u \in DOMAIN w : w[u] > w[t]}

LEMMA TopKLaws ==
    ASSUME NEW n \in Nat \ {0}, NEW p, IsParams(p)
    PROVE  Smp!TopK(p, n) \in Nat \ {0} /\ p.top_p[1] \in Nat /\ p.top_p[2] \in Nat
BY DEF IsParams, Smp!TopK

LEMMA ProductLaws ==
    ASSUME NEW a \in Nat, NEW b \in Nat, NEW c \in Nat, a <= b
    PROVE  a * c \in Nat /\ a * c <= b * c
<1>1. b - a \in Nat /\ b = (b - a) + a  OBVIOUS
<1>2. (b - a) * c \in Nat /\ a * c \in Nat  BY <1>1
<1>3. b * c = (b - a) * c + a * c  BY <1>1
<1> QED BY <1>2, <1>3

\* A token that top-k and top-p leave is one that a row by itself may get.
LEMMA KeptLaws ==
    ASSUME NEW V, IsFiniteSet(V), V # {}, NEW w \in [V -> Nat], NEW p, IsParams(p),
           NEW r \in Smp!Rankings(w), NEW t \in Smp!Kept(w, p, r)
    PROVE  /\ t \in V
           /\ Cardinality(Likelier(w, t)) < Smp!TopK(p, Cardinality(V))
           /\ Smp!Mass(w, Likelier(w, t)) * p.top_p[2] <= p.top_p[1] * Smp!Mass(w, V)
<1> DEFINE n == Cardinality(V)
           k == Smp!TopK(p, n)
           L == Likelier(w, t)
<1>1. /\ n \in Nat /\ DOMAIN r = 1..n
      /\ \A i \in DOMAIN r : r[i] \in V
      /\ \A u \in V : \E i \in DOMAIN r : r[i] = u
      /\ \A i, j \in DOMAIN r : w[r[j]] > w[r[i]] => j < i
  BY RankingLaws
<1>2. PICK i \in DOMAIN r :
         /\ t = r[i]
         /\ i - 1 < k
         /\ Smp!Mass(w, {r[j] : j \in 1..(i - 1)}) * p.top_p[2] <= p.top_p[1] * Smp!Mass(w, V)
  <2>1. DOMAIN w = V  OBVIOUS
  <2> QED BY <2>1 DEF Smp!Kept, Smp!Cardinality, Cardinality
<1> DEFINE R == {r[j] : j \in 1..(i - 1)}
<1>3. n \in Nat \ {0} /\ i \in Nat /\ i <= n  BY <1>1, <1>2
<1>4. k \in Nat \ {0} /\ p.top_p[1] \in Nat /\ p.top_p[2] \in Nat
  <2> HIDE DEF n
  <2> QED BY <1>3, TopKLaws
<1>5. L \subseteq R
  <2> SUFFICES ASSUME NEW u \in L PROVE u \in R  OBVIOUS
  <2>1. u \in V /\ w[u] > w[t]  BY DEF Likelier
  <2>2. PICK j \in DOMAIN r : r[j] = u  BY <1>1, <2>1
  <2>3. j < i  BY <1>1, <1>2, <2>1, <2>2
  <2>4. j \in 1..(i - 1)  BY <1>1, <1>3, <2>2, <2>3
  <2> QED BY <2>2, <2>4
<1>6. R \in SUBSET V
  <2> SUFFICES ASSUME NEW j \in 1..(i - 1) PROVE r[j] \in V  OBVIOUS
  <2>1. j \in DOMAIN r  BY <1>1, <1>3
  <2> QED BY <1>1, <2>1
<1>7. Cardinality(L) <= i - 1
  <2> DEFINE q == [j \in 1..(i - 1) |-> r[j]]
  <2>1. q \in Surjection(1..(i - 1), R)  BY DEF Surjection
  <2>2. i - 1 \in Nat /\ i - 1 \in Int /\ 1 \in Int  BY <1>1, <1>2
  <2>3. IsFiniteSet(1..(i - 1)) /\ Cardinality(1..(i - 1)) = i - 1
    <3>1. /\ IsFiniteSet(1..(i - 1))
          /\ Cardinality(1..(i - 1)) = IF 1 > i - 1 THEN 0 ELSE (i - 1) - 1 + 1
      <4> DEFINE m == i - 1
      <4>1. m \in Int  BY <2>2
      <4> HIDE DEF m
      <4>2. IsFiniteSet(1..m) /\ Cardinality(1..m) = IF 1 > m THEN 0 ELSE m - 1 + 1
        BY <4>1, FS_Interval
      <4> QED BY <4>2 DEF m
    <3> QED BY <2>2, <3>1
  <2> HIDE DEF q, R, L
  <2>4. IsFiniteSet(R) /\ Cardinality(R) <= i - 1  BY <2>1, <2>3, FS_Surjection
  <2>5. Cardinality(L) <= Cardinality(R) /\ IsFiniteSet(L)  BY <1>5, <2>4, FS_Subset
  <2>6. Cardinality(L) \in Nat /\ Cardinality(R) \in Nat  BY <2>4, <2>5, FS_CardinalityType
  <2> QED BY <2>2, <2>4, <2>5, <2>6
<1>8. Cardinality(L) \in Nat
  <2>1. L \in SUBSET V  BY DEF Likelier
  <2> HIDE DEF L
  <2> QED BY <2>1, FS_Subset, FS_CardinalityType
<1> HIDE DEF L, R, k, n
<1>9. /\ Smp!Mass(w, L) \in Nat /\ Smp!Mass(w, R) \in Nat /\ Smp!Mass(w, L) <= Smp!Mass(w, R)
  BY <1>5, <1>6, MassLaws
<1>10. Smp!Mass(w, V) \in Nat
  <2>1. V \in SUBSET V  OBVIOUS
  <2> QED BY <2>1, MassLaws
<1>11. Smp!Mass(w, L) * p.top_p[2] <= p.top_p[1] * Smp!Mass(w, V)
  <2> DEFINE a == Smp!Mass(w, L)
             b == Smp!Mass(w, R)
             c == p.top_p[2]
             e == p.top_p[1]
             f == Smp!Mass(w, V)
  <2>1. a \in Nat /\ b \in Nat /\ c \in Nat /\ e \in Nat /\ f \in Nat /\ a <= b  BY <1>4, <1>9, <1>10
  <2>2. b * c <= e * f  BY <1>2 DEF R
  <2> HIDE DEF a, b, c, e, f
  <2>3. a * c <= b * c /\ a * c \in Nat  BY <2>1, ProductLaws
  <2>4. b * c \in Nat /\ e * f \in Nat  BY <2>1
  <2>5. a * c <= e * f  BY <2>2, <2>3, <2>4
  <2> QED BY <2>5 DEF a, c, e, f
<1>12. Cardinality(L) < k  BY <1>2, <1>3, <1>4, <1>7, <1>8 DEF k, n
<1>13. t \in V  BY <1>1, <1>2
<1> QED BY <1>11, <1>12, <1>13 DEF L, k, n

\* The first token of a ranking is always left.
LEMMA FirstKept ==
    ASSUME NEW V, IsFiniteSet(V), V # {}, NEW w \in [V -> Nat], NEW p, IsParams(p),
           NEW r \in Smp!Rankings(w)
    PROVE  \E t \in Smp!Kept(w, p, r) : t \in V /\ \A u \in V : w[u] <= w[t]
<1> DEFINE n == Cardinality(V)
<1>1. /\ n \in Nat /\ DOMAIN r = 1..n
      /\ \A i \in DOMAIN r : r[i] \in V
      /\ \A u \in V : \E i \in DOMAIN r : r[i] = u
      /\ \A i, j \in DOMAIN r : w[r[j]] > w[r[i]] => j < i
  BY RankingLaws
<1>2. n # 0  BY FS_EmptySet
<1>3. n \in Nat \ {0} /\ 1 \in DOMAIN r /\ 1 - 1 = 0  BY <1>1, <1>2
<1>4. /\ Smp!TopK(p, n) \in Nat \ {0} /\ p.top_p[1] \in Nat /\ p.top_p[2] \in Nat
  <2> HIDE DEF n
  <2> QED BY <1>3, TopKLaws
<1>5. {r[j] : j \in 1..(1 - 1)} = {}  BY <1>3
<1>6. Smp!Mass(w, {}) = 0 /\ Smp!Mass(w, V) \in Nat
  <2>1. V \in SUBSET V /\ {} \in SUBSET V  OBVIOUS
  <2> QED BY <2>1, MassLaws
<1>7. 0 * p.top_p[2] <= p.top_p[1] * Smp!Mass(w, V)
  <2> DEFINE e == p.top_p[1]
             f == Smp!Mass(w, V)
  <2>1. e \in Nat /\ f \in Nat  BY <1>4, <1>6
  <2> HIDE DEF e, f
  <2>2. e * f \in Nat /\ 0 * p.top_p[2] = 0  BY <1>4, <2>1
  <2> QED BY <2>2 DEF e, f
<1>8. r[1] \in Smp!Kept(w, p, r)
  <2>1. DOMAIN w = V  OBVIOUS
  <2>2. 1 - 1 < Smp!TopK(p, n)  BY <1>4
  <2>3. Smp!Mass(w, {r[j] : j \in 1..(1 - 1)}) * p.top_p[2] <= p.top_p[1] * Smp!Mass(w, V)
    BY <1>5, <1>6, <1>7
  <2> QED BY <1>3, <2>1, <2>2, <2>3 DEF Smp!Kept, Smp!Cardinality, Cardinality
<1>9. ASSUME NEW u \in V PROVE w[u] <= w[r[1]]
  <2>1. PICK i \in DOMAIN r : r[i] = u  BY <1>1
  <2>2. ~(i < 1)  BY <1>1, <2>1
  <2>3. ~(w[r[i]] > w[r[1]])  BY <1>1, <1>3, <2>1, <2>2
  <2>4. r[1] \in V  BY <1>1, <1>3
  <2>5. w[u] \in Nat /\ w[r[1]] \in Nat  BY <2>4
  <2> QED BY <2>1, <2>3, <2>5
<1> QED BY <1>1, <1>3, <1>8, <1>9

\* What may be drawn for a row of a batch, the row may get by itself.
LEMMA DrawnLaws ==
    ASSUME NEW V, IsFiniteSet(V), V # {}, NEW rows, NEW ps, NEW i \in DOMAIN ps,
           NEW w \in [V -> Nat], w = rows[i], NEW p, p = ps[i], IsParams(p),
           NEW t \in Smp!Drawn(rows, ps, i)
    PROVE  t \in Smp!Choices(w, p)
<1> DEFINE scaled == Smp!Scaled(w, p)
           logits == IF Smp!AnyFilters(rows, ps) THEN Smp!Filtered(scaled, p) ELSE {scaled}
           n      == Cardinality(V)
<1>0. DOMAIN w = V  OBVIOUS
<1>1. CASE Smp!AllGreedy(ps)
  <2>1. p.greedy  BY <1>1 DEF Smp!AllGreedy
  <2> QED BY <1>1, <2>1 DEF Smp!Drawn, Smp!Choices
<1>2. CASE ~Smp!AllGreedy(ps)
  <2>1. PICK x \in logits : t \in IF p.greedy THEN Smp!Best(x) ELSE Smp!Support(x)
    BY <1>2 DEF Smp!Drawn
  <2>2. CASE p.greedy
    <3>1. scaled = [u \in V |-> IF u \in Smp!Best(w) THEN 1 ELSE 0]  BY <1>0, <2>2 DEF Smp!Scaled
    <3>2. scaled \in [V -> Nat]  BY <3>1
    <3>3. PICK best \in V : best \in Smp!Best(w)  BY BestExists DEF Smp!Best
    <3>4. scaled[best] = 1 /\ \A u \in V : scaled[u] # 0 => u \in Smp!Best(w)  BY <3>1, <3>3
    <3> HIDE DEF scaled
    <3>5. x \in [V -> Nat] /\ \E m \in V : x[m] # 0
      <4>1. CASE Smp!AnyFilters(rows, ps)
        <5>1. PICK r \in Smp!Rankings(scaled) :
                 x = [u \in V |-> IF u \in Smp!Kept(scaled, p, r) THEN scaled[u] ELSE 0]
          BY <2>1, <3>2, <4>1 DEF Smp!Filtered
        <5>2. PICK m \in Smp!Kept(scaled, p, r) : m \in V /\ \A u \in V : scaled[u] <= scaled[m]
          BY <3>2, FirstKept
        <5>3. scaled[m] # 0
          <6>1. scaled[best] <= scaled[m] /\ scaled[m] \in Nat  BY <3>2, <5>2
          <6> QED BY <3>4, <6>1
        <5>4. x[m] = scaled[m]  BY <5>1, <5>2
        <5>5. x \in [V -> Nat]  BY <3>2, <5>1
        <5> QED BY <5>2, <5>3, <5>4, <5>5
      <4>2. CASE ~Smp!AnyFilters(rows, ps)
        <5>1. x = scaled  BY <2>1, <4>2
        <5> QED BY <3>2, <3>3, <3>4, <5>1
      <4> QED BY <4>1, <4>2
    <3>6. \A u \in V : x[u] # 0 => scaled[u] # 0
      <4>1. CASE Smp!AnyFilters(rows, ps)
        <5>1. PICK r \in Smp!Rankings(scaled) :
                 x = [u \in V |-> IF u \in Smp!Kept(scaled, p, r) THEN scaled[u] ELSE 0]
          BY <2>1, <3>2, <4>1 DEF Smp!Filtered
        <5> QED BY <5>1
      <4>2. CASE ~Smp!AnyFilters(rows, ps)
        <5> QED BY <2>1, <4>2
      <4> QED BY <4>1, <4>2
    <3>7. t \in V /\ \A u \in V : x[u] <= x[t]  BY <2>1, <2>2, <3>5 DEF Smp!Best
    <3>8. x[t] # 0
      <4>1. PICK m \in V : x[m] # 0  BY <3>5
      <4>2. x[m] \in Nat /\ x[t] \in Nat /\ x[m] <= x[t]  BY <3>5, <3>7
      <4> QED BY <4>1, <4>2
    <3>9. t \in Smp!Best(w)  BY <3>4, <3>6, <3>7, <3>8
    <3> QED BY <2>2, <3>9 DEF Smp!Choices
  <2>3. CASE ~p.greedy
    <3>1. scaled = w /\ t \in Smp!Support(x)  BY <2>1, <2>3 DEF Smp!Scaled
    <3>2. ASSUME t \in Smp!Support(w),
                 Cardinality(Likelier(w, t)) < Smp!TopK(p, n),
                 Smp!Mass(w, Likelier(w, t)) * p.top_p[2] <= p.top_p[1] * Smp!Mass(w, V)
          PROVE  t \in Smp!Choices(w, p)
      BY <1>0, <2>3, <3>2 DEF Smp!Choices, Likelier, Smp!Cardinality, Cardinality
    <3> HIDE DEF scaled
    <3>3. CASE Smp!AnyFilters(rows, ps)
      <4>1. PICK r \in Smp!Rankings(w) :
               x = [u \in V |-> IF u \in Smp!Kept(w, p, r) THEN w[u] ELSE 0]
        BY <1>0, <2>1, <3>1, <3>3 DEF Smp!Filtered
      <4>2. t \in V /\ x[t] > 0  BY <3>1, <4>1 DEF Smp!Support
      <4>3. t \in Smp!Kept(w, p, r) /\ w[t] > 0  BY <4>1, <4>2
      <4>4. t \in Smp!Support(w)  BY <1>0, <4>2, <4>3 DEF Smp!Support
      <4>5. /\ Cardinality(Likelier(w, t)) < Smp!TopK(p, n)
            /\ Smp!Mass(w, Likelier(w, t)) * p.top_p[2] <= p.top_p[1] * Smp!Mass(w, V)
        BY <4>3, KeptLaws
      <4> QED BY <3>2, <4>4, <4>5
    <3>4. CASE ~Smp!AnyFilters(rows, ps)
      <4>1. t \in Smp!Support(w) /\ t \in V  BY <2>1, <3>1, <3>4 DEF Smp!Support
      <4>2. ~Smp!Filters(p, n)
        BY <1>0, <3>4 DEF Smp!AnyFilters, Smp!Cardinality, Cardinality
      <4>3. n \in Nat /\ n # 0  BY FS_CardinalityType, FS_EmptySet
      <4> DEFINE L == Likelier(w, t)
      <4>4. L \in SUBSET V /\ t \notin L
        <5>1. ~(w[t] > w[t])  BY <4>1
        <5> QED BY <5>1 DEF Likelier
      <4> HIDE DEF L
      <4>5. Cardinality(L) < n
        <5>1. Cardinality(L) <= n /\ (n = Cardinality(L) => V = L) /\ Cardinality(L) \in Nat
          BY <4>4, FS_Subset, FS_CardinalityType
        <5> HIDE DEF n
        <5> QED BY <4>1, <4>3, <4>4, <5>1
      <4>6. Smp!TopK(p, n) \in Nat \ {0} /\ p.top_p[1] \in Nat /\ p.top_p[2] \in Nat
        <5> HIDE DEF n
        <5> QED BY <4>3, TopKLaws
      <4>7. Smp!TopK(p, n) >= n /\ p.top_p[2] <= p.top_p[1]
        <5> HIDE DEF n
        <5> QED BY <4>2, <4>3, <4>6 DEF Smp!Filters
      <4>8. Cardinality(L) < Smp!TopK(p, n)
        <5>1. Cardinality(L) \in Nat  BY <4>4, FS_Subset, FS_CardinalityType
        <5> HIDE DEF n
        <5> QED BY <4>3, <4>5, <4>6, <4>7, <5>1
      <4>9. Smp!Mass(w, L) * p.top_p[2] <= p.top_p[1] * Smp!Mass(w, V)
        <5> DEFINE a == Smp!Mass(w, L)
                   b == Smp!Mass(w, V)
                   c == p.top_p[2]
                   e == p.top_p[1]
        <5>0. V \in SUBSET V  OBVIOUS
        <5>1. a \in Nat /\ b \in Nat /\ a <= b  BY <4>4, <5>0, MassLaws
        <5>2. c \in Nat /\ e \in Nat /\ c <= e  BY <4>6, <4>7
        <5> HIDE DEF a, b, c, e
        <5>3. a * c <= b * c /\ a * c \in Nat  BY <5>1, <5>2, ProductLaws
        <5>4. c * b <= e * b /\ c * b \in Nat  BY <5>1, <5>2, ProductLaws
        <5>5. b * c = c * b /\ e * b \in Nat  BY <5>1, <5>2
        <5>6. a * c <= e * b  BY <5>3, <5>4, <5>5
        <5> QED BY <5>6 DEF a, b, c, e
      <4> QED BY <3>2, <4>1, <4>8, <4>9 DEF L
    <3> QED BY <3>3, <3>4
  <2> QED BY <2>2, <2>3
<1> QED BY <1>1, <1>2

\* A choice is a token.
LEMMA ChoicesLaws ==
    ASSUME NEW V, NEW w \in [V -> Nat], NEW p
    PROVE  Smp!Choices(w, p) \subseteq V
BY DEF Smp!Choices, Smp!Best, Smp!Support

-----------------------------------------------------------------------------
(* The tokens of a batch.                                                    *)

\* The rows that are sampled are the items that need it, each in its place.
LEMMA SampledLaws ==
    ASSUME IndInv, SchedInv
    PROVE  /\ \A k \in DOMAIN SampledItems :
                 SampledItems[k] \in Items /\ NeedsSampling(batch[SampledItems[k]])
           /\ \A i \in Items : NeedsSampling(batch[i]) => \E k \in DOMAIN SampledItems : SampledItems[k] = i
<1> DEFINE q == [i \in Items |-> i]
           K == {i \in Items : NeedsSampling(batch[i])}
<1>1. Items = 1..Len(batch) /\ Len(batch) \in Nat  BY ItemLaws
<1>2. q \in Seq(Items)  BY <1>1
<1>3. Range(q) = Items  BY DEF Range
<1>4. SampledItems = Retain(q, K)  BY DEF SampledItems
<1> HIDE DEF q
<1>5. Range(SampledItems) = Range(q) \cap K  BY <1>2, <1>4, RetainLaws
<1>6. \A k \in DOMAIN SampledItems : SampledItems[k] \in K  BY <1>3, <1>5 DEF Range
<1>7. \A i \in K : \E k \in DOMAIN SampledItems : SampledItems[k] = i  BY <1>3, <1>5 DEF Range
<1> QED BY <1>6, <1>7

LEMMA WholePrefix ==
    ASSUME NEW S, NEW t \in Seq(S)
    PROVE  SubSeq(t, 1, Len(t)) = t
<1> DEFINE p == SubSeq(t, 1, Len(t))
<1>1. Len(t) \in Nat /\ DOMAIN t = 1..Len(t)  BY LenProperties
<1>2. p \in Seq(S) /\ Len(p) = Len(t) /\ \A m \in 1..Len(t) : p[m] = t[m]
  BY <1>1, PrefixLaws
<1> HIDE DEF p
<1>3. DOMAIN p = 1..Len(t)  BY <1>2, LenProperties
<1>4. p = t  BY <1>1, <1>2, <1>3, SeqEqual
<1> QED BY <1>4 DEF p

\* What the model says after the text of a live request.
LEMMA WeightLaws ==
    ASSUME IndInv, NEW s \in Seqs, InUse(s)
    PROVE  /\ Weights(tokens[s]) \in [Tokens -> Nat] /\ Tokens # {} /\ IsFiniteSet(Tokens)
           /\ tokens[s] \in Seq(Tokens) /\ tokens[s] # <<>>
<1>1. tokens[s] \in Seq(Tokens) /\ NumTokens(s) \in Nat /\ NumTokens(s) <= MaxModelLen
  BY LengthFacts
<1>2. tokens[s] # <<>>  BY DEF InUse
<1>3. NumTokens(s) # 0  BY <1>1, <1>2, EmptySeq DEF NumTokens
<1>4. MaxModelLen \in Nat  BY LengthAssumption
<1>5. NumTokens(s) \in 1..MaxModelLen  BY <1>1, <1>3, <1>4
<1>6. tokens[s] \in [1..NumTokens(s) -> Tokens]  BY <1>1, LenProperties DEF NumTokens
<1>7. Weights(tokens[s]) \in [Tokens -> Nat]  BY <1>5, <1>6, WeightsAssumption
<1>8. Tokens # {}  BY <1>3, <1>1, <1>6
<1> QED BY <1>1, <1>2, <1>7, <1>8, VocabularyAssumption

\* The logits of a sampled row are what the model says after the whole text of
\* its sequence, and it is sampled with that sequence's parameters.
LEMMA LogitLaws ==
    ASSUME IndInv, SchedInv, KVFaithful, phase = "schedule", batch # <<>>,
           NEW k \in DOMAIN SampledItems, NEW s, s = batch[SampledItems[k]]
    PROVE  /\ s \in Seqs /\ InUse(s) /\ NeedsSampling(s)
           /\ LogitRows(BuildInputs)[k] = Weights(tokens[s])
           /\ k \in DOMAIN BuildInputs.params /\ BuildInputs.params[k] = Params[sp[s]]
           /\ IsParams(Params[sp[s]])
<1> DEFINE i == SampledItems[k]
           j == Count(i)
           in == BuildInputs
           r == in.logits[k] + 1
<1>1. i \in Items /\ NeedsSampling(s)  BY SampledLaws
<1> HIDE DEF i
<1>2. /\ s \in Seqs /\ s \in Scheduled /\ j \in Nat \ {0} /\ Start(i) \in Nat /\ s = batch[i]
      /\ Cu[i] \in Nat /\ Cu[i + 1] = Cu[i] + j /\ i \in Items
  BY <1>1, ItemLaws, Layout DEF LayoutExact, i
<1>3. NumTokens(s) \in Nat /\ tokens[s] \in Seq(Tokens) /\ Start(i) + j = NumTokens(s)
  BY <1>1, <1>2, LengthFacts DEF NeedsSampling, Target, Start, Count
<1>4. InUse(s)
  <2>1. NumTokens(s) # 0  BY <1>2, <1>3
  <2> QED BY <1>3, <2>1, EmptySeq DEF InUse, NumTokens
<1>5. r = Cu[i] + j
  <2>1. in.logits[k] = Cu[i + 1] - 1  BY DEF BuildInputs, LogitsIdx, i
  <2> QED BY <1>2, <2>1
<1>6. LogitRows(in)[k] = LogitRow(in, r)
  <2>1. k \in DOMAIN in.logits  BY DEF BuildInputs, LogitsIdx
  <2> QED BY <2>1 DEF LogitRows
<1> HIDE DEF r, in
<1>7. RowIs(r, i, j)  BY <1>2, <1>5 DEF RowIs
<1>8. RowText(in, r) = Context(s, Position(i, j))  BY <1>2, <1>7, RowTextExact DEF in
<1>9. Context(s, Position(i, j)) = tokens[s]
  <2>1. Position(i, j) + 1 = Len(tokens[s])  BY <1>2, <1>3 DEF Position, NumTokens
  <2> QED BY <1>3, <2>1, WholePrefix DEF Context
<1>10. LogitRow(in, r) = Weights(tokens[s])
  <2>1. RowText(in, r) = tokens[s] /\ tokens[s] # Noise  BY <1>4, <1>8, <1>9 DEF Noise, InUse
  <2> QED BY <2>1 DEF LogitRow
<1>11. k \in DOMAIN BuildInputs.params /\ BuildInputs.params[k] = Params[sp[s]]  BY DEF BuildInputs
<1>12. sp[s] \in Seqs  BY <1>2 DEF SchedInv, SchedulerTypeOK
<1>13. IsParams(Params[sp[s]])  BY <1>12, ParamsAssumption DEF IsParams
<1> QED BY <1>1, <1>2, <1>4, <1>6, <1>10, <1>11, <1>13 DEF in

\* s has a token that its own text and its own sampling parameters allow.
HasToken(s) ==
    /\ s \in DOMAIN sampled
    /\ sampled[s] \in Smp!Choices(Weights(tokens[s]), Params[sp[s]])

\* Between run and update every sequence that is owed a token has one.
RunnerInv == at = "update" => \A s \in Range(batch) : NeedsSampling(s) => HasToken(s)

\* zip gives each sequence the token that was drawn for its row.
LEMMA RunSamples ==
    ASSUME IndInv, SchedInv, KVFaithful, RunnerRun
    PROVE  RunnerInv'
<1>1. ScheduleDone /\ batch # <<>> /\ TakePendingCopies /\ UNCHANGED <<queueVars, todo, batch, requestVars>>
  BY DEF RunnerRun
<1>2. phase = "schedule"  BY <1>1 DEF SchedInv, StageExact, ScheduleDone, IndInv, TypeOK
<1>3. UNCHANGED <<tokens, computed, num_new, sp, batch>>
  BY <1>1 DEF TakePendingCopies, seqVars, requestVars, queueVars
<1> DEFINE rows == LogitRows(BuildInputs)
           ps   == BuildInputs.params
<1>4. ASSUME NEW s \in Range(batch), NeedsSampling(s)
      PROVE  /\ s \in DOMAIN sampled'
             /\ sampled'[s] \in Smp!Choices(Weights(tokens[s]), Params[sp[s]])
  <2>1. PICK i \in Items : batch[i] = s  BY DEF Range, Items
  <2>2. PICK l \in DOMAIN SampledItems : SampledItems[l] = i  BY <1>4, <2>1, SampledLaws
  <2> DEFINE k == CHOOSE k \in DOMAIN SampledItems : batch[SampledItems[k]] = s
  <2>3. k \in DOMAIN SampledItems /\ batch[SampledItems[k]] = s  BY <2>1, <2>2
  <2>4. ps # <<>>
    <3>1. k \in DOMAIN ps  BY <2>3 DEF BuildInputs
    <3>2. DOMAIN <<>> = {}  OBVIOUS
    <3> HIDE DEF ps
    <3> QED BY <3>1, <3>2
  <2>5. PICK drawn \in Smp!Sample(rows, ps) : sampled' = Zipped(drawn)
    BY <2>4 DEF RunnerRun
  <2>6. sampled'[s] = drawn[k] /\ s \in DOMAIN sampled'
    BY <2>3, <2>5 DEF Zipped
  <2>7. k \in DOMAIN rows  BY <2>3 DEF LogitRows, BuildInputs, LogitsIdx
  <2> HIDE DEF k
  <2>8. /\ s \in Seqs /\ InUse(s) /\ rows[k] = Weights(tokens[s])
        /\ k \in DOMAIN ps /\ ps[k] = Params[sp[s]] /\ IsParams(Params[sp[s]])
    BY <1>1, <1>2, <2>3, LogitLaws
  <2> HIDE DEF rows, ps
  <2>9. drawn[k] \in Smp!Drawn(rows, ps, k)  BY <2>7 DEF Smp!Sample
  <2> DEFINE w == Weights(tokens[s])
             p == Params[sp[s]]
  <2>10. w \in [Tokens -> Nat] /\ Tokens # {} /\ IsFiniteSet(Tokens)  BY <2>8, WeightLaws
  <2>11. w = rows[k] /\ p = ps[k] /\ IsParams(p)  BY <2>8
  <2> HIDE DEF w, p
  <2>12. drawn[k] \in Smp!Choices(w, p)  BY <2>8, <2>9, <2>10, <2>11, DrawnLaws
  <2> QED BY <2>6, <2>12 DEF w, p
<1>5. ASSUME NEW s \in Range(batch'), NeedsSampling(s)' PROVE HasToken(s)'
  <2>1. s \in Range(batch) /\ NeedsSampling(s)  BY <1>3, <1>5 DEF NeedsSampling, Target, NumTokens
  <2>2. tokens' = tokens /\ sp' = sp  BY <1>3
  <2> QED BY <1>4, <2>1, <2>2 DEF HasToken
<1> QED BY <1>5 DEF RunnerInv

\* A committed sequence leaves the tokens of the others alone.
LEMMA CommitSampled ==
    ASSUME SchedInv, RunnerInv, at = "update", NEW s,
           Range(batch') = Range(batch) \ {s}, sp' = sp,
           \A t \in Seqs \ {s} : /\ tokens'[t] = tokens[t] /\ computed'[t] = computed[t]
                                 /\ num_new'[t] = num_new[t],
           \A t \in DOMAIN sampled \ {s} : t \in DOMAIN sampled' /\ sampled'[t] = sampled[t]
    PROVE  RunnerInv'
<1> SUFFICES ASSUME NEW t \in Range(batch'), NeedsSampling(t)' PROVE HasToken(t)'
  BY DEF RunnerInv
<1>1. t \in Range(batch) /\ t \in Seqs /\ t # s
  <2>1. \A u \in Range(batch) : u \in Seqs  BY DEF SchedInv, SchedulerTypeOK, Range
  <2> QED BY <2>1
<1>2. tokens'[t] = tokens[t] /\ computed'[t] = computed[t] /\ num_new'[t] = num_new[t]  BY <1>1
<1>3. NeedsSampling(t)  BY <1>2 DEF NeedsSampling, Target, NumTokens
<1>4. HasToken(t)  BY <1>1, <1>3 DEF RunnerInv
<1>5. t \in DOMAIN sampled' /\ sampled'[t] = sampled[t]  BY <1>1, <1>4 DEF HasToken
<1>6. sp'[t] = sp[t]  OBVIOUS
<1> QED BY <1>2, <1>4, <1>5, <1>6 DEF HasToken

LEMMA ChunkSampled ==
    ASSUME IndInv, SchedInv, RunnerInv, UpdateChunk, UNCHANGED sampled
    PROVE  RunnerInv'
<1> DEFINE s == Head(batch)
<1>1. at = "update" /\ CommitWatermark(s, Target(s)) /\ NextItem  BY DEF UpdateChunk
<1>2. /\ Committed(s, Target(s)) /\ computed' = [computed EXCEPT ![s] = Target(s)]
      /\ tokens' = tokens
  BY <1>1 DEF CommitWatermark
<1>3. /\ Range(batch') = Range(batch) \ {s} /\ sp' = sp
      /\ \A t \in Seqs \ {s} : num_new'[t] = num_new[t]
  BY <1>1, <1>2, CommittedLaws
<1>4. \A t \in Seqs \ {s} : computed'[t] = computed[t] /\ tokens'[t] = tokens[t]
  BY <1>2 DEF IndInv, TypeOK
<1> HIDE DEF s
<1>5. \A t \in DOMAIN sampled \ {s} : t \in DOMAIN sampled' /\ sampled'[t] = sampled[t]
  OBVIOUS
<1> QED BY <1>1, <1>3, <1>4, <1>5, CommitSampled

\* The sampled token of the head of the batch is one that update may get.
LEMMA HeadSampled ==
    ASSUME IndInv, SchedInv, RunnerInv, UpdateSampled, NEW s, s = Head(batch)
    PROVE  /\ s \in Seqs /\ InUse(s) /\ s \in Range(running)
           /\ sampled[s] \in Smp!Choices(Weights(tokens[s]), Params[sp[s]])
           /\ sampled[s] \in SampledTokens
<1>1. at = "update" /\ NeedsSampling(s)  BY DEF UpdateSampled
<1>2. s \in Seqs /\ s \in Range(batch) /\ s \in Range(running)  BY <1>1, CommitLaws
<1>3. InUse(s)  BY <1>2, RunningHolds
<1>4. sampled[s] \in Smp!Choices(Weights(tokens[s]), Params[sp[s]])
  BY <1>1, <1>2 DEF RunnerInv, HasToken
<1>5. Weights(tokens[s]) \in [Tokens -> Nat]  BY <1>2, <1>3, WeightLaws
<1>6. Smp!Choices(Weights(tokens[s]), Params[sp[s]]) \subseteq Tokens  BY <1>5, ChoicesLaws
<1> QED BY <1>2, <1>3, <1>4, <1>6, VocabularyAssumption

LEMMA TokenSampled ==
    ASSUME IndInv, SchedInv, RunnerInv, UpdateSampled
    PROVE  RunnerInv'
<1> DEFINE s == Head(batch)
<1>1. /\ at = "update" /\ sampled' = [u \in DOMAIN sampled \ {s} |-> sampled[u]]
      /\ UpdateToken(sampled[s]) \/ UpdateFinish(sampled[s])
  BY DEF UpdateSampled
<1>2. /\ NextItem /\ Committed(s, Target(s))
      /\ \E x, y : computed' = [computed EXCEPT ![s] = x] /\ tokens' = [tokens EXCEPT ![s] = y]
  <2>1. CASE UpdateToken(sampled[s])
    BY <2>1 DEF UpdateToken, CommitToken
  <2>2. CASE UpdateFinish(sampled[s])
    BY <2>2 DEF UpdateFinish, CommitFinish
  <2> QED BY <1>1, <2>1, <2>2
<1>3. /\ Range(batch') = Range(batch) \ {s} /\ sp' = sp
      /\ \A t \in Seqs \ {s} : num_new'[t] = num_new[t]
  BY <1>1, <1>2, CommittedLaws
<1>4. \A t \in Seqs \ {s} : computed'[t] = computed[t] /\ tokens'[t] = tokens[t]
  BY <1>2 DEF IndInv, TypeOK
<1>5. \A t \in DOMAIN sampled \ {s} : t \in DOMAIN sampled' /\ sampled'[t] = sampled[t]
  BY <1>1
<1> HIDE DEF s
<1> QED BY <1>1, <1>3, <1>4, <1>5, CommitSampled

-----------------------------------------------------------------------------
(* The runner implements the scheduler.                                      *)

\* A runner step is a scheduler step.
LEMMA RunnerSimulates ==
    ASSUME IndInv, SchedInv, KVFaithful, RunnerInv, [RunnerNext]_runnerVars
    PROVE  [Next]_vars
<1>1. CASE Client \/ Schedule \/ UpdateChunk
  BY <1>1 DEF Next, Step, Schedule
<1>2. CASE RunnerRun  BY <1>2, RunIsRun DEF Next, Step
<1>3. CASE UpdateSampled
  <2>1. sampled[Head(batch)] \in SampledTokens  BY <1>3, HeadSampled
  <2> QED BY <1>3, <2>1 DEF UpdateSampled, Next, Step
<1>4. CASE UNCHANGED runnerVars  BY <1>4 DEF runnerVars
<1> QED BY <1>1, <1>2, <1>3, <1>4 DEF RunnerNext, RunnerStep

\* Only run and update leave the scheduler in update.
LEMMA RunnerKeeps ==
    ASSUME IndInv, SchedInv, KVFaithful, RunnerInv, [RunnerNext]_runnerVars
    PROVE  RunnerInv'
<1>1. CASE Client \/ Schedule
  <2>1. at' # "update"
    <3>1. CASE Client
      <4>1. ASSUME NEW s, NEW p, NEW o, NEW m, AddRequest(s, p, o, m) PROVE at' = "idle"
        BY <4>1 DEF AddRequest, stepVars
      <4>2. ASSUME NEW s, AbortRequest(s) PROVE at' = "idle"
        BY <4>2 DEF AbortRequest, stepVars
      <4>3. ASSUME NEW p, NEW c, NEW ts, NEW m, ForkRequest(p, c, ts, m) PROVE at' = "idle"
        BY <4>3 DEF ForkRequest, stepVars
      <4> QED BY <3>1, <4>1, <4>2, <4>3 DEF Client
    <3>2. CASE Schedule
      BY <3>2 DEF Schedule, StartStep, RunningDone, SkipRunning, ScheduleRunning, RunningExhausted,
                  PreemptTail, AdmitWaiting, EmptyStep, RunningLoop, AdmissionOpen, ScheduleDone
    <3> QED BY <1>1, <3>1, <3>2
  <2> QED BY <2>1 DEF RunnerInv
<1>2. CASE RunnerRun  BY <1>2, RunSamples
<1>3. CASE UpdateChunk /\ UNCHANGED sampled  BY <1>3, ChunkSampled
<1>4. CASE UpdateSampled  BY <1>4, TokenSampled
<1>5. CASE UNCHANGED runnerVars
  <2>1. UNCHANGED <<at, batch, tokens, computed, num_new, sp, sampled>>
    BY <1>5 DEF runnerVars, vars, kvVars, bmVars, seqVars, stepVars, requestVars
  <2> QED BY <2>1 DEF RunnerInv, HasToken, NeedsSampling, Target, NumTokens
<1> QED BY <1>1, <1>2, <1>3, <1>4, <1>5 DEF RunnerNext, RunnerStep

AllInv == IndInv /\ SharingInv /\ KVInv /\ SchedInv /\ RunnerInv

LEMMA InitAll ==
    ASSUME RunnerInit
    PROVE  AllInv
<1>1. Init /\ BMInit /\ KVInit  BY DEF RunnerInit, Init
<1>2. at = "idle"  BY <1>1 DEF Init
<1>3. RunnerInv  BY <1>2 DEF RunnerInv
<1> QED BY <1>1, <1>3, InitIndInv, InitShares, InitFaithful, InitSched DEF AllInv

LEMMA StepAll ==
    ASSUME AllInv, [RunnerNext]_runnerVars
    PROVE  AllInv' /\ [Next]_vars
<1>1. IndInv /\ SharingInv /\ KVInv /\ SchedInv /\ RunnerInv /\ KVFaithful  BY DEF AllInv, KVInv
<1>2. [Next]_vars  BY <1>1, RunnerSimulates
<1>3. [KVNext]_kvVars  BY <1>1, <1>2, StepSimulates
<1>4. [BMNext]_bmVars  BY <1>3, KVStepIsBMStep
<1>5. IndInv'  BY <1>1, <1>4, StepPreserves
<1>6. SharingInv'  BY <1>1, <1>4, StepShares
<1>7. KVInv'  BY <1>1, <1>3, StepFaithful
<1>8. SchedInv'  BY <1>1, <1>2, <1>5, StepSched
<1>9. RunnerInv'  BY <1>1, RunnerKeeps
<1> QED BY <1>2, <1>5, <1>6, <1>7, <1>8, <1>9 DEF AllInv

LEMMA RunnerInvariant == RunnerSpec => []AllInv
<1>1. RunnerInit => AllInv  BY InitAll
<1>2. AllInv /\ [RunnerNext]_runnerVars => AllInv'  BY StepAll
<1> QED BY <1>1, <1>2, PTL DEF RunnerSpec

\* ModelRunner.run over the flat tensors, whatever batch it is given, does to the
\* engine what running and sampling the sequences one by one would do.
THEOREM RunnerImplementsScheduler == RunnerSpec => SchedulerSpec
<1>1. RunnerInit => Init  BY DEF RunnerInit
<1>2. AllInv /\ [RunnerNext]_runnerVars => [Next]_vars  BY StepAll
<1> QED BY <1>1, <1>2, RunnerInvariant, PTL DEF RunnerSpec, SchedulerSpec, Spec

-----------------------------------------------------------------------------
(* The attention backends on the batches that are run.                       *)

\* AttentionProofs.tla is about its own instance of the operators.
LEMMA FlashLaws ==
    ASSUME NEW meta, meta.lens \in Seq(Nat), NEW i \in 1..Len(meta.lens), NEW q \in Int,
           Att!NumQ(meta, i) \in Int
    PROVE  Att!FlashKeys(meta, i, q) = Att!ReferenceKeys(meta.lens[i], Att!NumQ(meta, i), q)
<1>1. AttP!NumQ(meta, i) = Att!NumQ(meta, i)  BY DEF AttP!NumQ, Att!NumQ
<1>2. AttP!FlashKeys(meta, i, q) = Att!FlashKeys(meta, i, q)
  BY DEF AttP!FlashKeys, Att!FlashKeys, AttP!CuSeqlensK, Att!CuSeqlensK, AttP!PrefixSums,
         Att!PrefixSums, AttP!RowsOfItems, Att!RowsOfItems, AttP!NumQ, Att!NumQ,
         AttP!Cardinality, Att!Cardinality
<1>3. AttP!ReferenceKeys(meta.lens[i], Att!NumQ(meta, i), q)
         = Att!ReferenceKeys(meta.lens[i], Att!NumQ(meta, i), q)
  BY DEF AttP!ReferenceKeys, Att!ReferenceKeys
<1>4. i \in AttP!BatchSeqs(meta)  BY DEF AttP!BatchSeqs
<1>5. AttP!FlashKeys(meta, i, q) = AttP!ReferenceKeys(meta.lens[i], AttP!NumQ(meta, i), q)
  BY <1>1, <1>4, PoolAssumption, AttP!FlashReadsReferenceKeys DEF AttP!BlockSizeAssumption
<1> QED BY <1>1, <1>2, <1>3, <1>5

LEMMA TritonLaws ==
    ASSUME NEW L \in Nat \ {0}, NEW n \in 1..L, NEW q \in 0..(n - 1),
           NEW M \in Nat \ {0}, NEW N \in Nat \ {0}
    PROVE  Att!TritonKeys(L, n, q, M, N) = Att!ReferenceKeys(L, n, q)
<1>1. AttP!TritonKeys(L, n, q, M, N) = Att!TritonKeys(L, n, q, M, N)
  BY DEF AttP!TritonKeys, Att!TritonKeys, AttP!KvEnd, Att!KvEnd, AttP!CDiv, Att!CDiv,
         AttP!VisibleKeys, Att!VisibleKeys, AttP!QueryPos, Att!QueryPos, AttP!TileKeys,
         Att!TileKeys, AttP!Smaller, Att!Smaller
<1>2. AttP!ReferenceKeys(L, n, q) = Att!ReferenceKeys(L, n, q)
  BY DEF AttP!ReferenceKeys, Att!ReferenceKeys
<1>3. AttP!TritonKeys(L, n, q, M, N) = AttP!ReferenceKeys(L, n, q)
  BY PoolAssumption, AttP!TritonReadsReferenceKeys DEF AttP!BlockSizeAssumption
<1> QED BY <1>1, <1>2, <1>3

LEMMA GatherLaws ==
    ASSUME NEW meta, NEW i \in 1..Len(meta.lens), NEW L \in Nat \ {0}, meta.lens[i] = L,
           NEW t \in Seq(Nat), t = meta.tables[i], Len(t) >= NumBlocksForTokens(L),
           NEW k \in 0..(L - 1)
    PROVE  Att!SlotOf(meta, i, k) = Att!GatherKV(meta, i)[k]
<1>1. i \in AttP!BatchSeqs(meta)  BY DEF AttP!BatchSeqs
<1>2. AttP!CDiv(L, BlockSize) = NumBlocksForTokens(L)  BY DEF AttP!CDiv, NumBlocksForTokens
<1>3. AttP!GatherKV(meta, i)[k] = AttP!SlotOf(meta, i, k)
  BY <1>1, <1>2, PoolAssumption, AttP!GatherIsPaged DEF AttP!BlockSizeAssumption
<1>4. AttP!GatherKV(meta, i) = Att!GatherKV(meta, i)
  BY DEF AttP!GatherKV, Att!GatherKV, AttP!CDiv, Att!CDiv
<1>5. AttP!SlotOf(meta, i, k) = Att!SlotOf(meta, i, k)  BY DEF AttP!SlotOf, Att!SlotOf
<1> QED BY <1>3, <1>4, <1>5

\* A padded table covers the context.
LEMMA PaddedLaws ==
    ASSUME IndInv, SchedInv, batch # <<>>, NEW i \in Items
    PROVE  Padded(i) \in Seq(Nat) /\ Len(Padded(i)) >= NumBlocksForTokens(Start(i) + Count(i))
<1> DEFINE t == table[batch[i]]
           z == Zeros(i)
           n == Longest - Len(t)
<1>1. batch[i] \in Seqs /\ t \in Seq(Blocks) /\ Len(t) \in Nat
  BY ItemLaws, TableLength DEF IndInv, TypeOK
<1>2. n \in Nat  BY <1>1, LongestLaws
<1>3. z = [j \in 1..n |-> 0]  BY DEF Zeros
<1>4. t \in Seq(Nat)
  <2>1. t \in [1..Len(t) -> Blocks]  BY <1>1, LenProperties
  <2>2. Blocks \subseteq Nat  BY DEF Blocks
  <2> HIDE DEF t
  <2>3. t \in [1..Len(t) -> Nat]  BY <2>1, <2>2
  <2> QED BY <1>1, <2>3
<1>5. Len(t) = NumBlocksForTokens(Start(i) + Count(i))
  BY <1>1 DEF IndInv, TableExact, Start, Count
<1> HIDE DEF t, n, z
<1>6. z \in Seq(Nat)
  <2>1. z \in [1..n -> Nat]  BY <1>3
  <2> QED BY <1>2, <2>1
<1>7. Padded(i) = t \o z  BY DEF Padded, t, z
<1>8. t \o z \in Seq(Nat) /\ Len(t \o z) = Len(t) + Len(z)  BY <1>4, <1>6, ConcatProperties
<1>9. Len(z) \in Nat  BY <1>6, LenProperties
<1> QED BY <1>1, <1>5, <1>7, <1>8, <1>9

LEMMA BackendsLaws ==
    ASSUME IndInv, SchedInv
    PROVE  BackendsAgree
<1> SUFFICES ASSUME ScheduleDone, batch # <<>>, NEW i \in Items
             PROVE  LET numQ == Att!NumQ(Meta, i)
                        ctx  == Meta.lens[i]
                        keys(q) == Att!ReferenceKeys(ctx, numQ, q)
                    IN  /\ \A q \in 0..(numQ - 1) :
                              /\ \A M \in {1, 2, 4}, N \in {1, 2, 4} :
                                    Att!TritonKeys(ctx, numQ, q, M, N) = keys(q)
                              /\ Att!FlashKeys(Meta, i, q) = keys(q)
                        /\ \A k \in 0..(ctx - 1) :
                              /\ Att!SlotOf(Meta, i, k) = Att!GatherKV(Meta, i)[k]
                              /\ Att!SlotOf(Meta, i, k) = Slot(batch[i], k)
  BY DEF BackendsAgree
<1> DEFINE numQ == Att!NumQ(Meta, i)
           L    == Meta.lens[i]
           m    == Meta
<1>1. /\ L = Start(i) + Count(i) /\ numQ = Count(i) /\ DOMAIN Meta.lens = Items
      /\ \A k \in 0..(Start(i) + Count(i) - 1) : Att!SlotOf(Meta, i, k) = Slot(batch[i], k)
  BY MetaLaws
<1>2. Start(i) \in Nat /\ Count(i) \in Nat \ {0}  BY ItemLaws
<1>3. L \in Nat \ {0} /\ numQ \in 1..L /\ numQ \in Int  BY <1>1, <1>2
<1>4. Meta.lens \in Seq(Nat) /\ i \in 1..Len(Meta.lens)
  <2>1. Items = 1..Len(batch) /\ Len(batch) \in Nat  BY ItemLaws
  <2>2. Meta.lens = [k \in Items |-> Start(k) + Count(k)]  BY DEF Meta
  <2>3. \A k \in Items : Start(k) + Count(k) \in Nat  BY ItemLaws
  <2>4. Meta.lens \in [1..Len(batch) -> Nat]  BY <2>1, <2>2, <2>3
  <2>5. Meta.lens \in Seq(Nat) /\ Len(Meta.lens) = Len(batch)
    <3> DEFINE q == Meta.lens
    <3>1. q \in [1..Len(batch) -> Nat]  BY <2>4
    <3> HIDE DEF q
    <3>2. q \in Seq(Nat) /\ Len(q) = Len(batch)  BY <2>1, <3>1
    <3> QED BY <3>2 DEF q
  <2> QED BY <2>1, <2>5
<1>5. Meta.tables[i] = Padded(i)  BY DEF Meta
<1>6. Padded(i) \in Seq(Nat) /\ Len(Padded(i)) >= NumBlocksForTokens(L)  BY <1>1, PaddedLaws
<1>10. \A k \in 0..(L - 1) : Att!SlotOf(Meta, i, k) = Slot(batch[i], k)
  <2>1. L \in Int /\ Start(i) \in Int /\ Count(i) \in Int /\ L = Start(i) + Count(i)
    BY <1>1, <1>2, <1>3
  <2> HIDE DEF L, m, numQ
  <2>2. 0..(L - 1) = 0..(Start(i) + Count(i) - 1)  BY <2>1
  <2> QED BY <1>1, <2>2, Zenon
<1> HIDE DEF L, numQ
<1>7. ASSUME NEW q \in 0..(numQ - 1), NEW M \in {1, 2, 4}, NEW N \in {1, 2, 4}
      PROVE  Att!TritonKeys(L, numQ, q, M, N) = Att!ReferenceKeys(L, numQ, q)
  <2>1. M \in Nat \ {0} /\ N \in Nat \ {0}  OBVIOUS
  <2> QED BY <1>3, <2>1, TritonLaws
<1>8. ASSUME NEW q \in 0..(numQ - 1)
      PROVE  Att!FlashKeys(Meta, i, q) = Att!ReferenceKeys(L, numQ, q)
  <2>1. q \in Int  BY <1>3
  <2>2. m.lens \in Seq(Nat) /\ i \in 1..Len(m.lens) /\ Att!NumQ(m, i) \in Int
    BY <1>3, <1>4 DEF numQ
  <2> HIDE DEF m
  <2>3. Att!FlashKeys(m, i, q) = Att!ReferenceKeys(m.lens[i], Att!NumQ(m, i), q)
    BY <2>1, <2>2, FlashLaws
  <2> QED BY <2>3 DEF m, L, numQ
<1>9. ASSUME NEW k \in 0..(L - 1)
      PROVE  /\ Att!SlotOf(Meta, i, k) = Att!GatherKV(Meta, i)[k]
             /\ Att!SlotOf(Meta, i, k) = Slot(batch[i], k)
  <2> DEFINE t == Padded(i)
  <2>1. /\ i \in 1..Len(m.lens) /\ m.lens[i] = L /\ t = m.tables[i]
        /\ t \in Seq(Nat) /\ Len(t) >= NumBlocksForTokens(L)
    BY <1>4, <1>5, <1>6 DEF L
  <2> HIDE DEF m, t
  <2>2. Att!SlotOf(m, i, k) = Att!GatherKV(m, i)[k]  BY <1>3, <2>1, GatherLaws
  <2>4. Att!SlotOf(Meta, i, k) = Slot(batch[i], k)  BY <1>10
  <2> QED BY <2>2, <2>4 DEF m
<1> QED BY <1>7, <1>8, <1>9 DEF L, numQ

\* For every batch that is run, the three backends read the same keys of the
\* same slots in every row, and none that comes from the padding of a table.
THEOREM BackendsAgreeHolds == RunnerSpec => []BackendsAgree
<1>1. AllInv => BackendsAgree  BY BackendsLaws DEF AllInv
<1> QED BY <1>1, RunnerInvariant, PTL

-----------------------------------------------------------------------------
(* The whole engine implements the dense one.                                *)

\* The length at which a request ends: limit of DenseEngine.tla.
Limit(s) == IF InUse(s) THEN Lower(prompt_len[s] + asked[s], MaxModelLen) ELSE 0
Limits   == [s \in Seqs |-> Limit(s)]

\* What a client sees of a request's status: reason of DenseEngine.tla.
Reason(s) == IF InUse(s) THEN "LIVE" ELSE status[s]
Reasons   == [s \in Seqs |-> Reason(s)]

LEMMA DenseVars ==
    /\ Dense!denseVars = <<tokens, Limits, Reasons>>
    /\ \A s, x, lim, why : Dense!Become(s, x, lim, why)
          <=> /\ tokens' = [tokens EXCEPT ![s] = x]
              /\ Limits' = [Limits EXCEPT ![s] = lim]
              /\ Reasons' = [Reasons EXCEPT ![s] = why]
    /\ \A s : Dense!Live(s) <=> InUse(s)
    /\ \A a, b : Dense!Least(a, b) = Lower(a, b)
BY DEF Dense!denseVars, Dense!Become, Dense!Live, Dense!Least, Limits, Limit, Reasons, Reason,
       InUse, Lower

LEMMA DenseVarsNext == (Dense!denseVars = <<tokens, Limits, Reasons>>)'
<1>1. Dense!denseVars = <<tokens, Limits, Reasons>>  BY DenseVars
<1> QED BY <1>1, PTL

\* A step that leaves the texts, their limits and how requests ended alone.
LEMMA DenseFrame ==
    ASSUME UNCHANGED <<tokens, prompt_len, asked>>,
           \A s \in Seqs : ~InUse(s) => status'[s] = status[s]
    PROVE  UNCHANGED Dense!denseVars
<1>1. Limits' = Limits  BY DEF Limits, Limit, InUse
<1>2. tokens' = tokens  OBVIOUS
<1>3. Reasons' = Reasons
  <2>1. ASSUME NEW s \in Seqs PROVE Reason(s)' = Reason(s)
    BY <1>2, <2>1 DEF Reason, InUse
  <2> QED BY <2>1 DEF Reasons
<1>4. /\ Dense!denseVars = <<tokens, Limits, Reasons>>
      /\ (Dense!denseVars)' = <<tokens', Limits', Reasons'>>
  BY DenseVars, DenseVarsNext
<1> QED BY <1>1, <1>2, <1>3, <1>4

\* Of the steps, only update with a token touches a text or ends a request.
LEMMA QuietFrame ==
    ASSUME IndInv, SchedInv, Schedule \/ RunnerRun \/ UpdateChunk
    PROVE  /\ UNCHANGED <<tokens, prompt_len, asked>>
           /\ \A s \in Seqs : ~InUse(s) => status'[s] = status[s]
<1>1. CASE StartStep \/ RunningDone \/ SkipRunning \/ EmptyStep
  BY <1>1
  DEF StartStep, RunningDone, SkipRunning, EmptyStep, kvVars, bmVars, seqVars, requestVars
<1>2. CASE ScheduleRunning
  BY <1>2 DEF ScheduleRunning, ContinueBlocks, requestVars
<1>3. CASE RunningExhausted
  BY <1>3 DEF RunningExhausted, RollBackBlocks, bmVars, seqVars, requestVars
<1>4. CASE PreemptTail
  <2>1. InUse(Victim) /\ Victim \in Seqs
    <3>1. at = "preempting"  BY <1>4 DEF PreemptTail
    <3> QED BY <3>1, VictimPending
  <2>2. /\ UNCHANGED <<tokens, prompt_len, asked>>
        /\ status' = [status EXCEPT ![Victim] = "WAITING"]
    BY <1>4 DEF PreemptTail, PreemptBlocks
  <2> HIDE DEF Victim
  <2> QED BY <2>1, <2>2 DEF SchedInv, SchedulerTypeOK
<1>5. CASE AdmitWaiting
  <2> DEFINE h == Head(waiting)
  <2>1. InUse(h) /\ h \in Seqs
    <3>1. waiting # <<>>  BY <1>5 DEF AdmitWaiting, AdmissionOpen
    <3>2. h \in Range(waiting)  BY <3>1, TailLaws DEF SchedInv, SchedulerTypeOK
    <3> QED BY <3>2, WaitingHolds
  <2>2. /\ UNCHANGED <<tokens, prompt_len, asked>>
        /\ status' = [status EXCEPT ![h] = "RUNNING"]
    BY <1>5 DEF AdmitWaiting, AdmitBlocks
  <2> HIDE DEF h
  <2> QED BY <2>1, <2>2 DEF SchedInv, SchedulerTypeOK
<1>6. CASE RunnerRun
  BY <1>6 DEF RunnerRun, TakePendingCopies, seqVars, requestVars
<1>7. CASE UpdateChunk
  BY <1>7 DEF UpdateChunk, CommitWatermark, NextItem
<1> QED BY <1>1, <1>2, <1>3, <1>4, <1>5, <1>6, <1>7 DEF Schedule

\* A step that changes one request.
LEMMA DenseBecomes ==
    ASSUME IndInv, NEW s \in Seqs, NEW x, NEW lim, NEW why,
           tokens' = [tokens EXCEPT ![s] = x],
           \A t \in Seqs \ {s} :
               /\ prompt_len'[t] = prompt_len[t] /\ asked'[t] = asked[t]
               /\ status'[t] = status[t],
           lim = IF x # <<>> THEN Lower(prompt_len'[s] + asked'[s], MaxModelLen) ELSE 0,
           why = IF x # <<>> THEN "LIVE" ELSE status'[s]
    PROVE  Dense!Become(s, x, lim, why)
<1>1. tokens'[s] = x /\ \A t \in Seqs \ {s} : tokens'[t] = tokens[t]  BY DEF IndInv, TypeOK
<1>2. Limits'[s] = lim
  <2>1. Limits'[s] = IF tokens'[s] # <<>> THEN Lower(prompt_len'[s] + asked'[s], MaxModelLen) ELSE 0
    BY DEF Limits, Limit, InUse, Lower
  <2> QED BY <1>1, <2>1
<1>3. ASSUME NEW t \in Seqs \ {s} PROVE Limits'[t] = Limits[t]
  <2>1. Limits'[t] = IF tokens'[t] # <<>> THEN Lower(prompt_len'[t] + asked'[t], MaxModelLen) ELSE 0
    BY DEF Limits, Limit, InUse, Lower
  <2>2. Limits[t] = IF tokens[t] # <<>> THEN Lower(prompt_len[t] + asked[t], MaxModelLen) ELSE 0
    BY DEF Limits, Limit, InUse, Lower
  <2> QED BY <1>1, <2>1, <2>2
<1>4. Limits' = [t \in Seqs |-> Limits'[t]] /\ Limits = [t \in Seqs |-> Limits[t]]
  BY DEF Limits
<1>5. Limits' = [Limits EXCEPT ![s] = lim]  BY <1>2, <1>3, <1>4
<1>6. Reasons'[s] = why
  <2>1. Reasons'[s] = IF tokens'[s] # <<>> THEN "LIVE" ELSE status'[s]
    BY DEF Reasons, Reason, InUse
  <2> QED BY <1>1, <2>1
<1>7. ASSUME NEW t \in Seqs \ {s} PROVE Reasons'[t] = Reasons[t]
  <2>1. Reasons'[t] = IF tokens'[t] # <<>> THEN "LIVE" ELSE status'[t]
    BY DEF Reasons, Reason, InUse
  <2>2. Reasons[t] = IF tokens[t] # <<>> THEN "LIVE" ELSE status[t]
    BY DEF Reasons, Reason, InUse
  <2>3. tokens'[t] = tokens[t] /\ status'[t] = status[t]  BY <1>1
  <2> QED BY <2>1, <2>2, <2>3
<1>8. Reasons' = [t \in Seqs |-> Reasons'[t]] /\ Reasons = [t \in Seqs |-> Reasons[t]]
  BY DEF Reasons
<1>9. Reasons' = [Reasons EXCEPT ![s] = why]  BY <1>6, <1>7, <1>8
<1>10. tokens' = [tokens EXCEPT ![s] = x]  OBVIOUS
<1> QED BY <1>5, <1>9, <1>10, DenseVars

LEMMA DenseSubmits ==
    ASSUME IndInv, SchedInv, ~ShareParams, NEW s \in Seqs, NEW o \in Seqs, NEW p \in Prompts,
           NEW m \in MaxTokensOf(o), AddRequest(s, p, o, m)
    PROVE  Dense!DenseNext
<1>1. o = s /\ m \in MaxTokensChoices  BY DEF AddRequest, Add, MaxTokensOf
<1>2. /\ ~InUse(s) /\ tokens' = [tokens EXCEPT ![s] = p]
      /\ asked' = [asked EXCEPT ![s] = m] /\ prompt_len' = [prompt_len EXCEPT ![s] = Len(p)]
      /\ status' = [status EXCEPT ![s] = "WAITING"]
  BY DEF AddRequest, Add
<1>3. DOMAIN asked = Seqs /\ DOMAIN prompt_len = Seqs /\ DOMAIN status = Seqs
  BY DEF SchedInv, SchedulerTypeOK
<1>4. /\ prompt_len'[s] = Len(p) /\ asked'[s] = m
      /\ \A t \in Seqs \ {s} : /\ prompt_len'[t] = prompt_len[t] /\ asked'[t] = asked[t]
                             /\ status'[t] = status[t]
  BY <1>2, <1>3
<1>5. p # <<>>
  <2>1. p \in Seq(Tokens) /\ Len(p) \in 1..(MaxModelLen - 1)  BY PromptsAssumption
  <2>2. Len(<<>>) = 0  OBVIOUS
  <2> QED BY <2>1, <2>2
<1> DEFINE lim == Lower(Len(p) + m, MaxModelLen)
<1>6. lim = IF p # <<>> THEN Lower(prompt_len'[s] + asked'[s], MaxModelLen) ELSE 0  BY <1>4, <1>5
<1> HIDE DEF lim
<1>7. Dense!Become(s, p, lim, "LIVE")
  <2> DEFINE x == p
             why == "LIVE"
  <2>1. /\ tokens' = [tokens EXCEPT ![s] = x]
        /\ lim = IF x # <<>> THEN Lower(prompt_len'[s] + asked'[s], MaxModelLen) ELSE 0
        /\ why = IF x # <<>> THEN "LIVE" ELSE status'[s]
    BY <1>2, <1>5, <1>6
  <2> HIDE DEF x, why
  <2>2. Dense!Become(s, x, lim, why)  BY <1>4, <2>1, DenseBecomes
  <2> QED BY <2>2 DEF x, why
<1>8. Dense!Submit(s, p, m)  BY <1>2, <1>7, DenseVars DEF Dense!Submit, lim
<1> QED BY <1>1, <1>8 DEF Dense!DenseNext

LEMMA DenseDrops ==
    ASSUME IndInv, SchedInv, NEW s \in Seqs, AbortRequest(s)
    PROVE  Dense!DenseNext
<1>1. /\ InUse(s) /\ tokens' = [tokens EXCEPT ![s] = <<>>]
      /\ asked' = [asked EXCEPT ![s] = 0] /\ prompt_len' = [prompt_len EXCEPT ![s] = 0]
      /\ status' = [status EXCEPT ![s] = "FINISHED_ABORTED"]
  BY DEF AbortRequest, AbortBlocks, Forget
<1>2. /\ status'[s] = "FINISHED_ABORTED"
      /\ \A t \in Seqs \ {s} : /\ prompt_len'[t] = prompt_len[t] /\ asked'[t] = asked[t]
                             /\ status'[t] = status[t]
  BY <1>1 DEF SchedInv, SchedulerTypeOK
<1> DEFINE x == <<>>
           lim == 0
           why == "FINISHED_ABORTED"
<1>3. /\ tokens' = [tokens EXCEPT ![s] = x]
      /\ lim = IF x # <<>> THEN Lower(prompt_len'[s] + asked'[s], MaxModelLen) ELSE 0
      /\ why = IF x # <<>> THEN "LIVE" ELSE status'[s]
  BY <1>1, <1>2
<1> HIDE DEF x, lim, why
<1>4. Dense!Become(s, x, lim, why)  BY <1>2, <1>3, DenseBecomes
<1>5. Dense!Drop(s)  BY <1>1, <1>4, DenseVars DEF Dense!Drop, x, lim, why
<1> QED BY <1>5 DEF Dense!DenseNext

LEMMA DenseSplits ==
    ASSUME IndInv, SchedInv, NEW p \in Seqs, NEW c \in Seqs, NEW m \in MaxTokensChoices,
           NEW ts \in Branches(p), ForkRequest(p, c, ts, m)
    PROVE  Dense!DenseNext
<1>1. /\ ~InUse(c) /\ tokens' = [tokens EXCEPT ![c] = ts] /\ p \in Range(running)
      /\ asked' = [asked EXCEPT ![c] = m] /\ prompt_len' = [prompt_len EXCEPT ![c] = Len(ts)]
      /\ status' = [status EXCEPT ![c] = "RUNNING"]
  BY DEF ForkRequest, ForkBlocks
<1>2. /\ prompt_len'[c] = Len(ts) /\ asked'[c] = m
      /\ \A t \in Seqs \ {c} : /\ prompt_len'[t] = prompt_len[t] /\ asked'[t] = asked[t]
                             /\ status'[t] = status[t]
  BY <1>1 DEF SchedInv, SchedulerTypeOK
<1>3. InUse(p)  BY <1>1, RunningHolds
<1>4. /\ tokens[p] \in Seq(Tokens) /\ NumTokens(p) = Len(tokens[p]) /\ NumTokens(p) \in Nat
      /\ computed[p] \in Nat /\ computed[p] < NumTokens(p)
  BY <1>3, LengthFacts DEF NumTokens
<1>5. computed[p] > 0  BY ForkSimulates DEF MayFork
<1>6. computed[p] \in 1..(Len(tokens[p]) - 1)  BY <1>4, <1>5
<1>7. ts \in Dense!Offshoots(p)
  <2>1. CASE ts = tokens[p]  BY <2>1 DEF Dense!Offshoots
  <2>2. CASE ts # tokens[p]
    <3>1. PICK t \in Tokens : ts = Append(SubSeq(tokens[p], 1, computed[p]), t)
      BY <2>2 DEF Branches
    <3> DEFINE n == computed[p]
    <3>2. n \in 1..(Len(tokens[p]) - 1) /\ ts = Append(SubSeq(tokens[p], 1, n), t)  BY <1>6, <3>1
    <3> HIDE DEF n
    <3>3. \E i \in 1..(Len(tokens[p]) - 1), u \in Tokens : ts = Append(SubSeq(tokens[p], 1, i), u)
      BY <3>2, Zenon
    <3>4. ts \in {Append(SubSeq(tokens[p], 1, i), u) : i \in 1..(Len(tokens[p]) - 1), u \in Tokens}
      BY <3>3
    <3> QED BY <3>4 DEF Dense!Offshoots
  <2> QED BY <2>1, <2>2
<1>8. ts # <<>>
  <2>1. CASE ts = tokens[p]  BY <1>3, <2>1 DEF InUse
  <2>2. CASE ts # tokens[p]
    <3>1. PICK t \in Tokens : ts = Append(SubSeq(tokens[p], 1, computed[p]), t)
      BY <2>2 DEF Branches
    <3>2. SubSeq(tokens[p], 1, computed[p]) \in Seq(Tokens)
      <4>1. computed[p] \in 0..Len(tokens[p])  BY <1>4
      <4> QED BY <1>4, <4>1, PrefixLaws
    <3> QED BY <3>1, <3>2, AppendRange
  <2> QED BY <2>1, <2>2
<1> DEFINE lim == Lower(Len(ts) + m, MaxModelLen)
<1>9. lim = IF ts # <<>> THEN Lower(prompt_len'[c] + asked'[c], MaxModelLen) ELSE 0  BY <1>2, <1>8
<1> HIDE DEF lim
<1>10. Dense!Become(c, ts, lim, "LIVE")
  <2> DEFINE x == ts
             why == "LIVE"
  <2>1. /\ tokens' = [tokens EXCEPT ![c] = x]
        /\ lim = IF x # <<>> THEN Lower(prompt_len'[c] + asked'[c], MaxModelLen) ELSE 0
        /\ why = IF x # <<>> THEN "LIVE" ELSE status'[c]
    BY <1>1, <1>8, <1>9
  <2> HIDE DEF x, why
  <2>2. Dense!Become(c, x, lim, why)  BY <1>2, <2>1, DenseBecomes
  <2> QED BY <2>2 DEF x, why
<1>11. Dense!Split(p, c, ts, m)  BY <1>1, <1>3, <1>10, DenseVars DEF Dense!Split, lim
<1> QED BY <1>7, <1>11 DEF Dense!DenseNext

\* A live request is short of its limit, and the next token reaches it exactly
\* when update's two tests say so.
LEMMA LimitReached ==
    ASSUME IndInv, SchedInv, LengthExact, NEW s \in Seqs, InUse(s)
    PROVE  IF LengthReached(s) THEN NumTokens(s) + 1 = Limit(s) ELSE NumTokens(s) + 1 < Limit(s)
<1> DEFINE c == Clamped(prompt_len[s], asked[s])
<1>1. /\ NumTokens(s) \in Nat /\ prompt_len[s] \in Nat /\ MaxModelLen \in Nat
      /\ prompt_len[s] <= NumTokens(s) /\ NumTokens(s) < MaxModelLen
      /\ asked[s] \in Nat /\ c \in Nat /\ max_tokens[s] \in {asked[s], c}
      /\ c <= asked[s] /\ c <= MaxModelLen - prompt_len[s]
      /\ c = asked[s] \/ c = MaxModelLen - prompt_len[s]
      /\ NumTokens(s) - prompt_len[s] < c
  BY LengthNumbers
<1>2. sp[s] = s  BY DEF LengthExact
<1> HIDE DEF c
<1>3. LengthReached(s) <=> \/ NumTokens(s) - prompt_len[s] + 1 >= max_tokens[s]
                           \/ NumTokens(s) + 1 >= MaxModelLen
  BY <1>2 DEF LengthReached, Generated
<1>4. Limit(s) = Lower(prompt_len[s] + asked[s], MaxModelLen)  BY DEF Limit
<1>5. Limit(s) = prompt_len[s] + c  BY <1>1, <1>4 DEF Lower
<1> QED BY <1>1, <1>3, <1>5

LEMMA DenseGrows ==
    ASSUME NEW s \in Seqs, NEW t \in Tokens, Dense!Extend(s, t) \/ Dense!Finish(s, t)
    PROVE  Dense!DenseNext
BY Zenon DEF Dense!DenseNext

\* What update does to the text of the head of the batch.
LEMMA DenseSampled ==
    ASSUME IndInv, SchedInv, RunnerInv, LengthExact, UpdateSampled
    PROVE  Dense!DenseNext
<1>0. /\ Head(batch) \in Seqs /\ InUse(Head(batch)) /\ sampled[Head(batch)] \in Tokens
      /\ sampled[Head(batch)] \in
            Smp!Choices(Weights(tokens[Head(batch)]), Params[sp[Head(batch)]])
  BY HeadSampled, VocabularyAssumption
<1>s. PICK s \in Seqs : s = Head(batch)  BY <1>0
<1>t. PICK t \in Tokens : t = sampled[s]  BY <1>0, <1>s
<1>1. UpdateToken(t) \/ UpdateFinish(t)  BY <1>s, <1>t DEF UpdateSampled
<1>2. /\ s \in Seqs /\ InUse(s) /\ t \in Smp!Choices(Weights(tokens[s]), Params[sp[s]])
      /\ t \in Tokens
  BY <1>0, <1>s, <1>t
<1>3. sp[s] = s  BY <1>2 DEF LengthExact
<1>4. t \in MayDraw(s, tokens[s])  BY <1>2, <1>3 DEF MayDraw
<1>5. Limits[s] = Limit(s) /\ NumTokens(s) = Len(tokens[s])  BY <1>2 DEF Limits, NumTokens
<1>6. IF LengthReached(s) THEN Len(tokens[s]) + 1 = Limits[s] ELSE Len(tokens[s]) + 1 < Limits[s]
  BY <1>2, <1>5, LimitReached
<1>7. tokens[s] \in Seq(Tokens)  BY <1>2, LengthFacts
<1>8. CASE UpdateToken(t)
  <2> DEFINE x   == Append(tokens[s], t)
             lim == Limits[s]
             why == "LIVE"
  <2>1. /\ t \notin StopTokens /\ ~LengthReached(s) /\ tokens' = [tokens EXCEPT ![s] = x]
        /\ prompt_len' = prompt_len /\ asked' = asked /\ status' = status
    BY <1>8, <1>s DEF UpdateToken, CommitToken
  <2>2. x # <<>>  BY <1>2, <1>7, AppendRange
  <2>3. lim = Lower(prompt_len[s] + asked[s], MaxModelLen)  BY <1>2, <1>5 DEF Limit
  <2>4. lim = IF x # <<>> THEN Lower(prompt_len'[s] + asked'[s], MaxModelLen) ELSE 0
    BY <2>1, <2>2, <2>3
  <2>5. why = IF x # <<>> THEN "LIVE" ELSE status'[s]  BY <2>2
  <2> HIDE DEF x, lim, why
  <2>6. Dense!Become(s, x, lim, why)  BY <1>2, <2>1, <2>4, <2>5, DenseBecomes
  <2>7. Dense!Extend(s, t)
    BY <1>2, <1>4, <1>6, <2>1, <2>6, DenseVars DEF Dense!Extend, x, lim, why, Limits, Limit
  <2> QED BY <1>2, <2>7, DenseGrows
<1>9. CASE UpdateFinish(t)
  <2> DEFINE x   == <<>>
             lim == 0
             why == IF t \in StopTokens THEN "FINISHED_STOPPED" ELSE "FINISHED_LENGTH"
  <2>1. /\ t \in StopTokens \/ LengthReached(s)
        /\ tokens' = [tokens EXCEPT ![s] = <<>>]
        /\ asked' = [asked EXCEPT ![s] = 0] /\ prompt_len' = [prompt_len EXCEPT ![s] = 0]
        /\ status' = [status EXCEPT ![s] = why]
    BY <1>9, <1>s DEF UpdateFinish, CommitFinish, Forget
  <2> HIDE DEF why
  <2>2. /\ status'[s] = why
        /\ \A u \in Seqs \ {s} : /\ prompt_len'[u] = prompt_len[u] /\ asked'[u] = asked[u]
                               /\ status'[u] = status[u]
    BY <1>2, <2>1 DEF SchedInv, SchedulerTypeOK
  <2>3. /\ tokens' = [tokens EXCEPT ![s] = x]
        /\ lim = IF x # <<>> THEN Lower(prompt_len'[s] + asked'[s], MaxModelLen) ELSE 0
        /\ why = IF x # <<>> THEN "LIVE" ELSE status'[s]
    BY <2>1, <2>2
  <2> HIDE DEF x, lim
  <2>4. Dense!Become(s, x, lim, why)  BY <1>2, <2>2, <2>3, DenseBecomes
  <2>5. Dense!Finish(s, t)
    BY <1>2, <1>4, <1>6, <2>1, <2>4, DenseVars DEF Dense!Finish, x, lim, why, Limits, Limit
  <2> QED BY <1>2, <2>5, DenseGrows
<1> QED BY <1>1, <1>8, <1>9

\* All the rest of the engine is invisible to its clients.
LEMMA DenseStep ==
    ASSUME ~ShareParams, IndInv, SchedInv, KVFaithful, RunnerInv, LengthExact,
           [RunnerNext]_runnerVars
    PROVE  [Dense!DenseNext]_(Dense!denseVars)
<1>1. ASSUME NEW s \in Seqs, NEW o \in Seqs, NEW p \in Prompts,
             NEW m \in MaxTokensOf(o), AddRequest(s, p, o, m)
      PROVE  Dense!DenseNext
  BY <1>1, DenseSubmits
<1>2. ASSUME NEW s \in Seqs, AbortRequest(s) PROVE Dense!DenseNext
  BY <1>2, DenseDrops
<1>3. ASSUME NEW p \in Seqs, NEW c \in Seqs, NEW m \in MaxTokensChoices, NEW ts \in Branches(p),
             ForkRequest(p, c, ts, m)
      PROVE  Dense!DenseNext
  BY <1>3, DenseSplits
<1>4. CASE Client  BY <1>1, <1>2, <1>3, <1>4 DEF Client
<1>5. CASE Schedule \/ RunnerRun \/ UpdateChunk
  BY <1>5, QuietFrame, DenseFrame
<1>6. CASE UpdateSampled  BY <1>6, DenseSampled
<1>7. CASE UNCHANGED runnerVars
  BY <1>7, DenseFrame
  DEF runnerVars, vars, kvVars, bmVars, seqVars, requestVars
<1> QED BY <1>4, <1>5, <1>6, <1>7 DEF RunnerNext, RunnerStep

\* Whatever the batches, the chunks, the preemptions and the shared blocks were,
\* each request is continued from its own text with a token that its own
\* sampling parameters allow, and ends at a stop token, at its limit or when its
\* client aborts it, as its status says.
THEOREM DenseRefinement == ~ShareParams => (RunnerSpec => ImplementsDense)
<1> SUFFICES ASSUME ~ShareParams PROVE RunnerSpec => ImplementsDense  OBVIOUS
<1>1. RunnerInit => Dense!DenseInit
  <2> SUFFICES ASSUME RunnerInit PROVE Dense!DenseInit  OBVIOUS
  <2>1. tokens = [s \in Seqs |-> <<>>] /\ status = [s \in Seqs |-> "UNUSED"]
    BY DEF RunnerInit, Init, BMInit
  <2>2. \A s \in Seqs : ~InUse(s)  BY <2>1 DEF InUse
  <2> QED BY <2>1, <2>2 DEF Dense!DenseInit
<1>2. RunnerInit => LengthExact
  <2>1. RunnerInit => \A s \in Seqs : ~InUse(s)  BY DEF RunnerInit, Init, BMInit, InUse
  <2> QED BY <2>1 DEF LengthExact
<1>3. AllInv /\ LengthExact /\ [RunnerNext]_runnerVars => LengthExact'
  <2> SUFFICES ASSUME AllInv, LengthExact, [RunnerNext]_runnerVars PROVE LengthExact'  OBVIOUS
  <2>1. [Next]_vars  BY RunnerSimulates DEF AllInv, KVInv
  <2> QED BY <2>1, StepLength DEF AllInv
<1>4. AllInv /\ LengthExact /\ [RunnerNext]_runnerVars => [Dense!DenseNext]_(Dense!denseVars)
  BY DenseStep DEF AllInv, KVInv
<1> QED BY <1>1, <1>2, <1>3, <1>4, RunnerInvariant, PTL
     DEF RunnerSpec, ImplementsDense, Dense!DenseSpec

-----------------------------------------------------------------------------
(* The text of a request.                                                    *)

\* x is p continued by tokens that s may draw, one after the other.
Grown(s, x, p) ==
    /\ Len(p) <= Len(x) /\ SubSeq(x, 1, Len(p)) = p
    /\ \A n \in Len(p)..(Len(x) - 1) : x[n + 1] \in MayDraw(s, SubSeq(x, 1, n))

\* No token of x after p ends a request.
Unstopped(x, p) == \A n \in (Len(p) + 1)..Len(x) : x[n] \notin StopTokens

LEMMA GrownEnter ==
    ASSUME NEW s, NEW p \in Seq(Tokens)
    PROVE  Grown(s, p, p) /\ Unstopped(p, p)
<1>1. Len(p) \in Nat  BY LenProperties
<1>2. SubSeq(p, 1, Len(p)) = p
  <2> DEFINE q == SubSeq(p, 1, Len(p))
  <2>1. q \in Seq(Tokens) /\ Len(q) = Len(p) /\ \A n \in 1..Len(p) : q[n] = p[n]
    BY <1>1, PrefixLaws
  <2> HIDE DEF q
  <2>2. q = p  BY <2>1, SeqEqual
  <2> QED BY <2>2 DEF q
<1> QED BY <1>1, <1>2 DEF Grown, Unstopped

\* One more token.
LEMMA LongerLaws ==
    ASSUME NEW x \in Seq(Tokens), NEW t \in Tokens, NEW y, y = Append(x, t)
    PROVE  /\ y \in Seq(Tokens) /\ Len(x) \in Nat /\ Len(y) = Len(x) + 1
           /\ y[Len(x) + 1] = t /\ \A n \in 1..Len(x) : y[n] = x[n]
           /\ \A n \in 0..Len(x) : SubSeq(y, 1, n) = SubSeq(x, 1, n)
<1>1. Len(x) \in Nat  BY LenProperties
<1>2. /\ y \in Seq(Tokens) /\ Len(y) = Len(x) + 1
      /\ y[Len(x) + 1] = t /\ \A n \in 1..Len(x) : y[n] = x[n]
  BY AppendProperties
<1>3. ASSUME NEW n \in 0..Len(x) PROVE SubSeq(y, 1, n) = SubSeq(x, 1, n)
  <2> DEFINE a == SubSeq(x, 1, n)
             b == SubSeq(y, 1, n)
  <2>1. n \in 0..Len(y)  BY <1>1, <1>2
  <2>2. a \in Seq(Tokens) /\ Len(a) = n /\ \A i \in 1..n : a[i] = x[i]  BY PrefixLaws
  <2>3. b \in Seq(Tokens) /\ Len(b) = n /\ \A i \in 1..n : b[i] = y[i]
    BY <1>2, <2>1, PrefixLaws
  <2> HIDE DEF a, b
  <2>4. \A i \in 1..n : i \in 1..Len(x)  BY <1>1
  <2>5. b = a  BY <1>2, <2>2, <2>3, <2>4, SeqEqual
  <2> QED BY <2>5 DEF a, b
<1> QED BY <1>1, <1>2, <1>3

LEMMA GrownLonger ==
    ASSUME NEW s, NEW p \in Seq(Tokens), NEW x \in Seq(Tokens), NEW t \in Tokens,
           Grown(s, x, p), t \in MayDraw(s, x), NEW y, y = Append(x, t)
    PROVE  Grown(s, y, p)
<1>1. /\ y \in Seq(Tokens) /\ Len(x) \in Nat /\ Len(y) = Len(x) + 1 /\ y[Len(x) + 1] = t
      /\ \A n \in 1..Len(x) : y[n] = x[n]
      /\ \A n \in 0..Len(x) : SubSeq(y, 1, n) = SubSeq(x, 1, n)
  BY LongerLaws
<1>2. Len(p) \in Nat /\ Len(p) <= Len(x)  BY LenProperties DEF Grown
<1>3. SubSeq(y, 1, Len(p)) = p
  <2>1. Len(p) \in 0..Len(x)  BY <1>1, <1>2
  <2> QED BY <1>1, <2>1 DEF Grown
<1>4. SubSeq(x, 1, Len(x)) = x
  <2> DEFINE q == SubSeq(x, 1, Len(x))
  <2>1. q \in Seq(Tokens) /\ Len(q) = Len(x) /\ \A n \in 1..Len(x) : q[n] = x[n]
    BY <1>1, PrefixLaws
  <2> HIDE DEF q
  <2>2. q = x  BY <2>1, SeqEqual
  <2> QED BY <2>2 DEF q
<1>5. ASSUME NEW n \in Len(p)..(Len(y) - 1) PROVE y[n + 1] \in MayDraw(s, SubSeq(y, 1, n))
  <2>1. n \in 0..Len(x)  BY <1>1, <1>2
  <2>2. SubSeq(y, 1, n) = SubSeq(x, 1, n)  BY <1>1, <2>1
  <2>3. CASE n = Len(x)  BY <1>1, <1>4, <2>2, <2>3
  <2>4. CASE n # Len(x)
    <3>1. n \in Len(p)..(Len(x) - 1) /\ n + 1 \in 1..Len(x)  BY <1>1, <1>2, <2>1, <2>4
    <3>2. x[n + 1] \in MayDraw(s, SubSeq(x, 1, n))  BY <3>1 DEF Grown
    <3> QED BY <1>1, <2>2, <3>1, <3>2
  <2> QED BY <2>3, <2>4
<1>6. Len(p) <= Len(y)  BY <1>1, <1>2
<1> QED BY <1>3, <1>5, <1>6 DEF Grown

LEMMA UnstoppedLonger ==
    ASSUME NEW p \in Seq(Tokens), NEW x \in Seq(Tokens), NEW t \in Tokens \ StopTokens,
           Unstopped(x, p), NEW y, y = Append(x, t)
    PROVE  Unstopped(y, p)
<1>1. /\ Len(x) \in Nat /\ Len(y) = Len(x) + 1 /\ y[Len(x) + 1] = t
      /\ \A n \in 1..Len(x) : y[n] = x[n]
  BY LongerLaws
<1>2. Len(p) \in Nat  BY LenProperties
<1>3. ASSUME NEW n \in (Len(p) + 1)..Len(y) PROVE y[n] \notin StopTokens
  <2>1. CASE n = Len(x) + 1  BY <1>1, <2>1
  <2>2. CASE n # Len(x) + 1
    <3>1. n \in (Len(p) + 1)..Len(x) /\ n \in 1..Len(x)  BY <1>1, <1>2, <2>2
    <3> QED BY <1>1, <3>1 DEF Unstopped
  <2> QED BY <2>1, <2>2
<1> QED BY <1>3 DEF Unstopped

\* The members of a part of a sequence.
LEMMA SliceRange ==
    ASSUME NEW S, NEW y \in Seq(S), NEW a \in Nat, NEW b \in Nat, 0 < a, b <= Len(y)
    PROVE  \A v \in Range(SubSeq(y, a, b)) : \E n \in a..b : v = y[n]
<1> DEFINE q == SubSeq(y, a, b)
<1>1. Len(y) \in Nat  BY LenProperties
<1>2. \A n \in a..b : n \in 1..Len(y)  BY <1>1
<1>3. \A n \in a..b : y[n] \in S  BY <1>2, ElementOfSeq
<1>4. /\ q \in Seq(S) /\ Len(q) = IF a <= b THEN (b - a) + 1 ELSE 0
      /\ \A n \in 1..((b - a) + 1) : q[n] = y[(a + n) - 1]
  <2>1. a \in Int /\ b \in Int  OBVIOUS
  <2> QED BY <1>3, <2>1, SubSeqProperties
<1> HIDE DEF q
<1>5. ASSUME NEW n \in DOMAIN q PROVE \E k \in a..b : q[n] = y[k]
  <2>1. Len(q) \in Nat /\ n \in 1..Len(q)  BY <1>4, LenProperties
  <2>2. n \in 1..((b - a) + 1) /\ (a + n) - 1 \in a..b  BY <1>4, <2>1
  <2> QED BY <1>4, <2>2
<1> QED BY <1>5 DEF Range, q

\* The part of an ended text between its prompt and its last token.
LEMMA MiddleLaws ==
    ASSUME NEW p \in Seq(Tokens), NEW x \in Seq(Tokens), NEW t \in Tokens,
           Len(p) <= Len(x), Unstopped(x, p), NEW y, y = Append(x, t)
    PROVE  /\ Last(y) = t /\ Len(y) > Len(p)
           /\ Range(SubSeq(y, Len(p) + 1, Len(y) - 1)) \cap StopTokens = {}
<1>1. /\ y \in Seq(Tokens) /\ Len(x) \in Nat /\ Len(y) = Len(x) + 1 /\ y[Len(x) + 1] = t
      /\ \A n \in 1..Len(x) : y[n] = x[n]
  BY LongerLaws
<1>2. Len(p) \in Nat  BY LenProperties
<1> DEFINE a == Len(p) + 1
           b == Len(y) - 1
<1>3. a \in Nat /\ b \in Nat /\ 0 < a /\ b <= Len(y) /\ b = Len(x)  BY <1>1, <1>2
<1>4. \A n \in a..b : n \in 1..Len(x)  BY <1>1, <1>2
<1>5. \A n \in a..b : y[n] \notin StopTokens  BY <1>1, <1>3, <1>4 DEF Unstopped
<1> HIDE DEF a, b
<1>6. \A v \in Range(SubSeq(y, a, b)) : \E n \in a..b : v = y[n]  BY <1>1, <1>3, SliceRange
<1>7. Range(SubSeq(y, a, b)) \cap StopTokens = {}  BY <1>5, <1>6
<1>8. Len(y) > Len(p)  BY <1>1, <1>2
<1>9. Last(y) = t  BY <1>1 DEF Last
<1> QED BY <1>7, <1>8, <1>9 DEF a, b

-----------------------------------------------------------------------------
(* What generate returns.                                                    *)

\* A request of the active call while it is in the engine.
Ongoing(s, p, m) ==
    /\ prompt_len[s] = Len(p) /\ asked[s] = m
    /\ Grown(s, tokens[s], p) /\ Unstopped(tokens[s], p)

Served(s, p, m) ==
    p \in Prompts /\ IF InUse(s) THEN Ongoing(s, p, m) ELSE Complete(s, p, m)

\* The i-th request of the active call.
ServedAt(i) == Served(call.ids[i], call.requests[i][1], call.requests[i][2])

\* What every call looks like.
CallShape ==
    Calling =>
        /\ call \in [requests : Seq(Requests), shared : BOOLEAN, ids : Seq(Seqs)]
        /\ Len(call.ids) <= Len(call.requests) /\ (call.shared => ShareParams)

\* The call keeps its handles apart; nothing runs while it adds its prompts; and
\* each of its requests is on its way to what it is owed, or there.
CallInv ==
    Calling =>
        /\ IsInjective(call.ids)
        /\ Adding => at = "idle" /\ \A i \in DOMAIN call.ids : InUse(call.ids[i])
        /\ \A i \in DOMAIN call.ids : ServedAt(i)

\* generate's arguments, between two of its steps.
LEMMA StepShape ==
    ASSUME CallShape, [EngineNext]_engineVars
    PROVE  CallShape'
<1>1. CASE ~Calling'  BY <1>1 DEF CallShape
<1>2. ASSUME NEW s, NEW p, NEW m, Submit(s, p, m) PROVE ~Calling'
  BY <1>2 DEF Submit, Calling
<1>3. ASSUME NEW s, Cancel(s) PROVE ~Calling'
  BY <1>3 DEF Cancel, Calling
<1>4. CASE GenerateRaises \/ Return
  BY <1>1, <1>4 DEF GenerateRaises, Return, Calling
<1>5. ASSUME NEW requests \in BoundedSeq(Requests, MaxPrompts), NEW shared \in BOOLEAN,
             Generate(requests, shared)
      PROVE  CallShape'
  <2> DEFINE e == <<>>
  <2>1. /\ call' = [requests |-> requests, shared |-> shared, ids |-> e]
        /\ shared => ShareParams
    BY <1>5 DEF Generate
  <2>2. requests \in Seq(Requests)
    <3>1. PICK n \in 0..MaxPrompts : requests \in [1..n -> Requests]  BY DEF BoundedSeq, SeqOf
    <3>2. n \in Nat  BY CallAssumption
    <3> QED BY <3>1, <3>2, SeqDef
  <2>3. e \in Seq(Seqs) /\ Len(e) = 0 /\ Len(requests) \in Nat  BY <2>2, LenProperties
  <2> HIDE DEF e
  <2> QED BY <2>1, <2>2, <2>3 DEF CallShape
<1>6. ASSUME NEW s \in Seqs, GenerateAdd(s) PROVE CallShape'
  <2>1. PICK ids, requests, shared :
           ids = call.ids /\ requests = call.requests /\ shared = call.shared
    OBVIOUS
  <2>2. /\ call = [requests |-> requests, shared |-> shared, ids |-> ids]
        /\ requests \in Seq(Requests) /\ shared \in BOOLEAN /\ ids \in Seq(Seqs)
        /\ Len(ids) < Len(requests) /\ (shared => ShareParams)
    BY <1>6, <2>1 DEF GenerateAdd, Adding, CallShape
  <2>3. PICK new : new = Append(ids, s)  OBVIOUS
  <2>4. call' = [requests |-> requests, shared |-> shared, ids |-> new]
    BY <1>6, <2>1, <2>2, <2>3 DEF GenerateAdd, IdsWith
  <2>5. new \in Seq(Seqs) /\ Len(new) = Len(ids) + 1  BY <2>2, <2>3, AppendProperties
  <2>6. Len(new) <= Len(requests)
    <3>1. Len(ids) \in Nat /\ Len(requests) \in Nat  BY <2>2, LenProperties
    <3> QED BY <2>2, <2>5, <3>1
  <2> QED BY <2>2, <2>4, <2>5, <2>6 DEF CallShape
<1>7. ASSUME UNCHANGED call PROVE CallShape'  BY <1>7 DEF CallShape, Calling
<1> QED
  BY <1>1, <1>2, <1>3, <1>4, <1>5, <1>6, <1>7
  DEF EngineNext, EngineClient, CallStep, EngineStep, engineVars

\* A request that the scheduler takes is one of the prompts of the model.
LEMMA RequestLaws ==
    ASSUME CallShape, NEW s \in Seqs, GenerateAdd(s)
    PROVE  /\ Calling /\ Adding /\ NextRequest[1] \in Prompts /\ NextRequest[2] \in MaxTokensChoices
           /\ Len(call.ids) \in Nat /\ Len(call.ids) + 1 \in DOMAIN call.requests
<1>1. /\ Calling /\ Adding /\ Acceptable(NextRequest[1]) /\ NextRequest[1] # <<>>
      /\ Len(call.ids) < Len(call.requests)
  BY DEF GenerateAdd, AddRequest, Adding
<1>2. call.requests \in Seq(Requests) /\ call.ids \in Seq(Seqs)  BY <1>1 DEF CallShape
<1>3. Len(call.ids) \in Nat /\ Len(call.requests) \in Nat  BY <1>2, LenProperties
<1>4. Len(call.ids) + 1 \in 1..Len(call.requests)  BY <1>1, <1>3
<1>5. NextRequest \in Requests  BY <1>2, <1>4, ElementOfSeq DEF NextRequest
<1>6. NextRequest[1] \in Prompts \cup BadPrompts /\ NextRequest[2] \in MaxTokensChoices
  BY <1>5 DEF Requests
<1>7. NextRequest[1] \notin BadPrompts  BY <1>1, CallAssumption
<1>8. DOMAIN call.requests = 1..Len(call.requests)  BY <1>2, LenProperties
<1> QED BY <1>1, <1>3, <1>4, <1>6, <1>7, <1>8

\* The request API only adds, aborts and steps.
LEMMA EngineSimulates ==
    ASSUME CallShape, [EngineNext]_engineVars
    PROVE  [RunnerNext]_runnerVars
<1>1. ASSUME NEW s \in Seqs, NEW o \in Seqs, NEW p \in Prompts,
             NEW m \in MaxTokensOf(o),
             AddRequest(s, p, o, m), UNCHANGED sampled
      PROVE  RunnerNext
  <2>1. Client  BY <1>1 DEF Client
  <2> QED BY <1>1, <2>1 DEF RunnerNext
<1>2. ASSUME NEW s \in Seqs, NEW p \in Prompts, NEW m \in MaxTokensChoices, Submit(s, p, m)
      PROVE  RunnerNext
  <2>1. m \in MaxTokensOf(s)  BY <1>2 DEF Submit, AddRequest, Add, MaxTokensOf
  <2>2. AddRequest(s, p, s, m) /\ UNCHANGED sampled  BY <1>2 DEF Submit
  <2> QED BY <1>1, <2>1, <2>2
<1>3. ASSUME NEW s \in Seqs, Cancel(s) PROVE RunnerNext
  BY <1>3 DEF Cancel, RunnerNext, Client
<1>4. ASSUME NEW s \in Seqs, GenerateAdd(s) PROVE RunnerNext
  <2>1. /\ NextRequest[1] \in Prompts /\ NextRequest[2] \in MaxTokensChoices
        /\ Calling /\ call.ids \in Seq(Seqs)
    BY <1>4, RequestLaws DEF CallShape
  <2> DEFINE o == Owner(s)
             m == IF o = s THEN NextRequest[2] ELSE max_tokens[o]
  <2>2. o \in Seqs
    <3>1. CASE o = s  BY <3>1
    <3>2. CASE o # s
      <4>1. call.ids # <<>> /\ o = Head(call.ids)  BY <3>2 DEF Owner
      <4> QED BY <2>1, <4>1, TailLaws
    <3> QED BY <3>1, <3>2
  <2>3. AddRequest(s, NextRequest[1], o, m) /\ UNCHANGED sampled  BY <1>4 DEF GenerateAdd
  <2>4. m \in MaxTokensOf(o)  BY <2>1, <2>3 DEF AddRequest, Add, MaxTokensOf
  <2> HIDE DEF o, m
  <2> QED BY <1>1, <2>1, <2>2, <2>3, <2>4
<1>5. CASE EngineStep  BY <1>5 DEF EngineStep, RunnerNext
<1>6. ASSUME UNCHANGED runnerVars PROVE [RunnerNext]_runnerVars  BY <1>6
<1>7. CASE \/ \E requests \in BoundedSeq(Requests, MaxPrompts), shared \in BOOLEAN : Generate(requests, shared)
           \/ GenerateRaises \/ Return
  BY <1>6, <1>7 DEF Generate, GenerateRaises, Return
<1>8. CASE UNCHANGED engineVars  BY <1>6, <1>8 DEF engineVars
<1> QED BY <1>2, <1>3, <1>4, <1>5, <1>7, <1>8 DEF EngineNext, EngineClient, CallStep

\* y is p continued by tokens that s may draw, the last of them t, and no earlier
\* one ends a request.
Ended(s, y, t, p) ==
    /\ SubSeq(y, 1, Len(p)) = p /\ Len(y) > Len(p) /\ Last(y) = t
    /\ \A n \in Len(p)..(Len(y) - 1) : y[n + 1] \in MayDraw(s, SubSeq(y, 1, n))
    /\ Range(SubSeq(y, Len(p) + 1, Len(y) - 1)) \cap StopTokens = {}

\* A request that leaves ends its text with the token it was given last.
LEMMA TextEnds ==
    ASSUME NEW s, NEW p \in Seq(Tokens), NEW x \in Seq(Tokens), NEW t \in Tokens,
           Grown(s, x, p), Unstopped(x, p), t \in MayDraw(s, x), NEW y, y = Append(x, t)
    PROVE  Ended(s, y, t, p)
<1>1. Grown(s, y, p)  BY GrownLonger
<1>2. Len(p) <= Len(x)  BY DEF Grown
<1>3. /\ Last(y) = t /\ Len(y) > Len(p)
      /\ Range(SubSeq(y, Len(p) + 1, Len(y) - 1)) \cap StopTokens = {}
  BY <1>2, MiddleLaws
<1> QED BY <1>1, <1>3 DEF Grown, Ended

\* The token that run drew for the head of the batch continues its text.
LEMMA HeadDraws ==
    ASSUME IndInv, SchedInv, RunnerInv, LengthExact, UpdateSampled, NEW s, s = Head(batch)
    PROVE  /\ s \in Seqs /\ InUse(s) /\ status[s] = "RUNNING" /\ tokens[s] \in Seq(Tokens)
           /\ sampled[s] \in Tokens /\ sampled[s] \in MayDraw(s, tokens[s])
<1>1. /\ s \in Seqs /\ InUse(s) /\ s \in Range(running)
      /\ sampled[s] \in Smp!Choices(Weights(tokens[s]), Params[sp[s]])
      /\ sampled[s] \in Tokens
  BY HeadSampled, VocabularyAssumption
<1>2. sp[s] = s  BY <1>1 DEF LengthExact
<1>3. status[s] = "RUNNING" /\ tokens[s] \in Seq(Tokens)  BY <1>1, RunningHolds, LengthFacts
<1> QED BY <1>1, <1>2, <1>3 DEF MayDraw

\* The head of the batch gets a token and goes on.
LEMMA HeadGoesOn ==
    ASSUME IndInv, SchedInv, RunnerInv, LengthExact, UpdateSampled, NEW s, s = Head(batch),
           UpdateToken(sampled[s]), NEW p \in Seq(Tokens), NEW m, Ongoing(s, p, m)
    PROVE  InUse(s)' /\ Ongoing(s, p, m)'
<1> DEFINE t == sampled[s]
           x == tokens[s]
           y == Append(x, t)
<1>1. /\ s \in Seqs /\ x \in Seq(Tokens) /\ t \in Tokens /\ t \in MayDraw(s, x)
  BY HeadDraws
<1>2. /\ t \notin StopTokens /\ tokens' = [tokens EXCEPT ![s] = y]
      /\ prompt_len' = prompt_len /\ asked' = asked
  BY DEF UpdateToken, CommitToken
<1>3. tokens'[s] = y  BY <1>1, <1>2 DEF IndInv, TypeOK
<1>4. Grown(s, x, p) /\ Unstopped(x, p) /\ prompt_len[s] = Len(p) /\ asked[s] = m
  BY DEF Ongoing
<1> HIDE DEF t, x
<1>5. Grown(s, y, p)  BY <1>1, <1>4, GrownLonger
<1>6. Unstopped(y, p)  BY <1>1, <1>2, <1>4, UnstoppedLonger
<1>7. y # <<>>  BY <1>1, AppendRange
<1> HIDE DEF y
<1> QED BY <1>2, <1>3, <1>4, <1>5, <1>6, <1>7 DEF InUse, Ongoing

\* The head of the batch gets its last token: its text is what it was owed.
LEMMA HeadEnds ==
    ASSUME IndInv, SchedInv, RunnerInv, LengthExact, UpdateSampled, EngineStep, NEW s, s = Head(batch),
           s \in Owed, UpdateFinish(sampled[s]), NEW p \in Seq(Tokens), NEW m, Ongoing(s, p, m)
    PROVE  ~InUse(s)' /\ Complete(s, p, m)'
<1> DEFINE t == sampled[s]
           x == tokens[s]
           y == Append(x, t)
           f == IF t \in StopTokens THEN "FINISHED_STOPPED" ELSE "FINISHED_LENGTH"
<1>1. /\ s \in Seqs /\ InUse(s) /\ status[s] = "RUNNING"
      /\ x \in Seq(Tokens) /\ t \in Tokens /\ t \in MayDraw(s, x)
  BY HeadDraws
<1>2. tokens' = [tokens EXCEPT ![s] = <<>>] /\ status' = [status EXCEPT ![s] = f]
  BY DEF UpdateFinish, CommitFinish
<1>3. tokens'[s] = <<>> /\ status'[s] = f
  BY <1>1, <1>2 DEF IndInv, TypeOK, SchedInv, SchedulerTypeOK
<1>4. ~InUse(s)'  BY <1>3 DEF InUse
<1>5. final'[s] = y  BY <1>1, <1>4 DEF EngineStep
<1>6. Grown(s, x, p) /\ Unstopped(x, p) /\ prompt_len[s] = Len(p) /\ asked[s] = m
  BY DEF Ongoing
<1>7. f = "FINISHED_LENGTH" => Generated(s) + 1 = Clamped(Len(p), m)
  BY <1>1, <1>3, <1>6, LengthFinish
<1>8. Generated(s) = Len(x) - Len(p)  BY <1>6 DEF Generated, NumTokens
<1>9. Len(x) \in Nat /\ Len(p) \in Nat  BY <1>1, LenProperties
<1> HIDE DEF t, x
<1>10. Len(y) = Len(x) + 1  BY <1>1, AppendProperties
<1>11. f = "FINISHED_LENGTH" => Len(y) - Len(p) = Clamped(Len(p), m)
  <2> DEFINE c == Clamped(Len(p), m)
  <2> HIDE DEF c, f, y
  <2> SUFFICES ASSUME f = "FINISHED_LENGTH" PROVE Len(y) - Len(p) = c  BY DEF c
  <2>1. (Len(x) - Len(p)) + 1 = c  BY <1>7, <1>8 DEF c
  <2>2. Len(y) - Len(p) = (Len(x) - Len(p)) + 1  BY <1>9, <1>10
  <2> QED BY <2>1, <2>2
<1>12. y = Append(x, t)  OBVIOUS
<1> HIDE DEF y
<1>13. Ended(s, y, t, p)  BY <1>1, <1>6, <1>12, TextEnds
<1>14. Complete(s, p, m)'  BY <1>3, <1>5, <1>11, <1>13 DEF Complete, Ended, f
<1> QED BY <1>4, <1>14

\* A step of the engine serves the requests of the call.
LEMMA StepServes ==
    ASSUME AllInv, LengthExact, EngineStep, NEW u \in Seqs, u \in Owed,
           NEW p, NEW m, Served(u, p, m)
    PROVE  Served(u, p, m)'
<1>1. /\ IndInv /\ SchedInv /\ RunnerInv /\ p \in Prompts /\ p \in Seq(Tokens)
  BY PromptsAssumption DEF AllInv, Served
<1>2. ASSUME tokens'[u] = tokens[u], prompt_len'[u] = prompt_len[u], asked'[u] = asked[u],
             ~InUse(u) => status'[u] = status[u]
      PROVE  Served(u, p, m)'
  <2>1. InUse(u)' <=> InUse(u)  BY <1>2 DEF InUse
  <2>2. CASE InUse(u)  BY <1>1, <1>2, <2>1, <2>2 DEF Served, Ongoing
  <2>3. CASE ~InUse(u)
    <3>1. final'[u] = final[u]  BY <2>3 DEF EngineStep
    <3>2. Complete(u, p, m)  BY <2>3 DEF Served
    <3>3. Complete(u, p, m)'  BY <1>2, <2>3, <3>1, <3>2 DEF Complete
    <3> QED BY <1>1, <2>1, <2>3, <3>3 DEF Served
  <2> QED BY <2>2, <2>3
<1>3. CASE Schedule \/ RunnerRun \/ UpdateChunk  BY <1>1, <1>2, <1>3, QuietFrame
<1>4. CASE UpdateSampled
  <2> DEFINE s == Head(batch)
  <2>1. UpdateToken(sampled[s]) \/ UpdateFinish(sampled[s])  BY <1>4 DEF UpdateSampled
  <2>2. s \in Seqs /\ InUse(s)  BY <1>1, <1>4, HeadDraws
  <2>3. CASE u = s
    <3>1. Ongoing(u, p, m)  BY <2>2, <2>3 DEF Served
    <3>2. CASE UpdateToken(sampled[s])
      <4>1. InUse(u)' /\ Ongoing(u, p, m)'  BY <1>1, <1>4, <2>3, <3>1, <3>2, HeadGoesOn
      <4> QED BY <1>1, <4>1 DEF Served
    <3>3. CASE UpdateFinish(sampled[s])
      <4>1. ~InUse(u)' /\ Complete(u, p, m)'  BY <1>1, <1>4, <2>3, <3>1, <3>3, HeadEnds
      <4> QED BY <1>1, <4>1 DEF Served
    <3> QED BY <2>1, <3>2, <3>3
  <2>4. CASE u # s
    <3>1. CASE UpdateToken(sampled[s])
      <4>1. /\ tokens' = [tokens EXCEPT ![s] = Append(tokens[s], sampled[s])]
            /\ prompt_len' = prompt_len /\ asked' = asked /\ status' = status
        BY <3>1 DEF UpdateToken, CommitToken
      <4> HIDE DEF s
      <4>2. tokens'[u] = tokens[u]  BY <1>1, <2>4, <4>1 DEF IndInv, TypeOK
      <4> QED BY <1>2, <4>1, <4>2
    <3>2. CASE UpdateFinish(sampled[s])
      <4> DEFINE f == IF sampled[s] \in StopTokens THEN "FINISHED_STOPPED" ELSE "FINISHED_LENGTH"
      <4>1. /\ tokens' = [tokens EXCEPT ![s] = <<>>] /\ status' = [status EXCEPT ![s] = f]
            /\ prompt_len' = [prompt_len EXCEPT ![s] = 0] /\ asked' = [asked EXCEPT ![s] = 0]
        BY <3>2 DEF UpdateFinish, CommitFinish, Forget
      <4> HIDE DEF s, f
      <4>2. /\ tokens'[u] = tokens[u] /\ status'[u] = status[u]
            /\ prompt_len'[u] = prompt_len[u] /\ asked'[u] = asked[u]
        BY <1>1, <2>4, <4>1 DEF IndInv, TypeOK, SchedInv, SchedulerTypeOK
      <4> QED BY <1>2, <4>2
    <3> QED BY <2>1, <3>1, <3>2
  <2> QED BY <2>3, <2>4
<1> QED BY <1>3, <1>4 DEF EngineStep, RunnerStep

LEMMA ServedForms ==
    ASSUME NEW i, NEW u, NEW p, NEW m
    PROVE  /\ u = call.ids[i] /\ p = call.requests[i][1] /\ m = call.requests[i][2] =>
                 (ServedAt(i) <=> Served(u, p, m))
           /\ u = call'.ids[i] /\ p = call'.requests[i][1] /\ m = call'.requests[i][2] =>
                 (ServedAt(i)' <=> Served(u, p, m)')
BY DEF ServedAt, Served, Ongoing, Complete

\* generate takes one more prompt.
LEMMA AddServes ==
    ASSUME ~ShareParams, IndInv, SchedInv, CallShape, CallInv, NEW s \in Seqs, GenerateAdd(s)
    PROVE  CallInv'
<1>1. PICK p, m : p = NextRequest[1] /\ m = NextRequest[2]  OBVIOUS
<1>2. PICK ids, requests, n, new : /\ ids = call.ids /\ requests = call.requests
                                   /\ n = Len(ids) /\ new = Append(ids, s)
  OBVIOUS
<1>3. /\ call = [requests |-> requests, shared |-> FALSE, ids |-> ids]
      /\ requests \in Seq(Requests) /\ ids \in Seq(Seqs)
      /\ IsInjective(ids) /\ Len(ids) < Len(requests)
      /\ at = "idle" /\ \A i \in DOMAIN ids : InUse(ids[i]) /\ ServedAt(i)
  BY <1>2 DEF GenerateAdd, Adding, CallShape, CallInv
<1>4. /\ p \in Prompts /\ n \in Nat /\ n + 1 \in DOMAIN requests
      /\ p = requests[n + 1][1] /\ m = requests[n + 1][2]
  BY <1>1, <1>2, RequestLaws DEF NextRequest
<1>5. p \in Seq(Tokens) /\ p # <<>>
  <2>1. p \in Seq(Tokens) /\ Len(p) \in 1..(MaxModelLen - 1)  BY <1>4, PromptsAssumption
  <2>2. Len(<<>>) = 0  OBVIOUS
  <2> QED BY <2>1, <2>2
<1>6. /\ call' = [call EXCEPT !.ids = new] /\ ~InUse(s)
      /\ tokens' = [tokens EXCEPT ![s] = p] /\ prompt_len' = [prompt_len EXCEPT ![s] = Len(p)]
      /\ asked' = [asked EXCEPT ![s] = m] /\ at' = at
  <2>1. Owner(s) = s  BY <1>3 DEF Owner
  <2>2. call' = [call EXCEPT !.ids = new] /\ AddRequest(s, p, s, m)
    BY <1>1, <1>2, <2>1 DEF GenerateAdd, IdsWith
  <2> QED BY <2>2 DEF AddRequest, Add, stepVars
<1>7. s \notin Range(ids)  BY <1>3, <1>6 DEF Range
<1>8. new \in Seq(Seqs) /\ IsInjective(new)  BY <1>2, <1>3, <1>7, AppendLaws
<1>9. /\ n = Len(ids) /\ Len(new) = n + 1 /\ new[n + 1] = s
      /\ \A i \in 1..n : new[i] = ids[i]
  BY <1>2, <1>3, AppendProperties
<1>10. DOMAIN new = 1..(n + 1) /\ DOMAIN ids = 1..n /\ Len(requests) \in Nat
  BY <1>3, <1>8, <1>9, LenProperties
<1>11. /\ tokens'[s] = p /\ prompt_len'[s] = Len(p) /\ asked'[s] = m
       /\ \A u \in Seqs \ {s} : /\ tokens'[u] = tokens[u] /\ prompt_len'[u] = prompt_len[u]
                                /\ asked'[u] = asked[u]
  BY <1>6 DEF IndInv, TypeOK, SchedInv, SchedulerTypeOK
<1>12. call' = [requests |-> requests, shared |-> FALSE, ids |-> new]  BY <1>3, <1>6
<1>13. InUse(s)' /\ ServedAt(n + 1)'
  <2>1. InUse(s)'  BY <1>5, <1>11 DEF InUse
  <2>2. Grown(s, p, p) /\ Unstopped(p, p)  BY <1>5, GrownEnter
  <2>3. Ongoing(s, p, m)'  BY <1>11, <2>2 DEF Ongoing
  <2>4. Served(s, p, m)'  BY <1>4, <2>1, <2>3 DEF Served
  <2>5. s = call'.ids[n + 1] /\ p = call'.requests[n + 1][1] /\ m = call'.requests[n + 1][2]
    BY <1>4, <1>9, <1>12
  <2>6. ServedAt(n + 1)'  BY <2>4, <2>5, ServedForms
  <2> QED BY <2>1, <2>6
<1>14. ASSUME NEW i \in 1..n PROVE InUse(ids[i])' /\ ServedAt(i)'
  <2>1. PICK u, q, k : u = ids[i] /\ q = requests[i][1] /\ k = requests[i][2]  OBVIOUS
  <2>2. u \in Seqs /\ u # s /\ InUse(u) /\ ServedAt(i)
    <3>1. i \in DOMAIN ids /\ u \in Range(ids)  BY <1>10, <2>1 DEF Range
    <3>2. i \in 1..Len(ids)  BY <1>2
    <3>3. ids[i] \in Seqs  BY <1>3, <3>2, ElementOfSeq
    <3> QED BY <1>3, <1>7, <2>1, <3>1, <3>3
  <2>3. Ongoing(u, q, k) /\ q \in Prompts  BY <1>2, <2>1, <2>2, ServedForms DEF Served
  <2>4. InUse(u)' /\ Ongoing(u, q, k)'  BY <1>11, <2>2, <2>3 DEF InUse, Ongoing
  <2>5. Served(u, q, k)'  BY <2>3, <2>4 DEF Served
  <2>6. u = call'.ids[i] /\ q = call'.requests[i][1] /\ k = call'.requests[i][2]
    BY <1>9, <1>12, <2>1
  <2>7. ServedAt(i)'  BY <2>5, <2>6, ServedForms
  <2>8. InUse(ids[i])'  BY <2>1, <2>4
  <2> QED BY <2>7, <2>8
<1>15. \A i \in DOMAIN new : InUse(new[i])' /\ ServedAt(i)'
  <2> SUFFICES ASSUME NEW i \in DOMAIN new PROVE InUse(new[i])' /\ ServedAt(i)'  OBVIOUS
  <2>1. CASE i = n + 1  BY <1>9, <1>13, <2>1
  <2>2. CASE i # n + 1
    <3>1. i \in 1..n  BY <1>4, <1>10, <2>2
    <3> QED BY <1>9, <1>14, <3>1
  <2> QED BY <2>1, <2>2
<1>16. call'.ids = new  BY <1>12
<1> QED BY <1>3, <1>6, <1>8, <1>15, <1>16 DEF CallInv

\* The call as the engine steps, and nothing else happens to it.
LEMMA StepCall ==
    ASSUME AllInv, LengthExact, CallShape, CallInv, EngineStep
    PROVE  CallInv'
<1> SUFFICES ASSUME Calling' PROVE CallInv'  BY DEF CallInv
<1>1. PICK ids, requests : ids = call.ids /\ requests = call.requests  OBVIOUS
<1>2. call' = call /\ Calling /\ ~Adding  BY DEF EngineStep, Calling
<1>3. /\ ids \in Seq(Seqs) /\ requests \in Seq(Requests)
      /\ Len(ids) <= Len(requests) /\ IsInjective(ids)
      /\ \A i \in DOMAIN ids : ServedAt(i)
  BY <1>1, <1>2 DEF CallShape, CallInv
<1>4. call'.ids = ids /\ call'.requests = requests /\ ~Adding'
  BY <1>1, <1>2 DEF Adding, Calling
<1>5. Len(ids) \in Nat /\ Len(requests) \in Nat /\ DOMAIN ids = 1..Len(ids)
      /\ DOMAIN requests = 1..Len(requests)
  BY <1>3, LenProperties
<1>6. ASSUME NEW i \in DOMAIN ids PROVE ServedAt(i)'
  <2>1. PICK u, p, m : u = ids[i] /\ p = requests[i][1] /\ m = requests[i][2]  OBVIOUS
  <2>2. i \in 1..Len(ids) /\ i \in 1..Len(requests)  BY <1>3, <1>5
  <2>3. ids[i] \in Seqs /\ ids[i] \in Range(ids)  BY <1>3, <2>2, ElementOfSeq DEF Range
  <2>4. u \in Seqs /\ u \in Owed  BY <1>1, <1>2, <2>1, <2>3 DEF Owed
  <2>5. Served(u, p, m)  BY <1>1, <1>3, <2>1, ServedForms
  <2>6. Served(u, p, m)'  BY <2>4, <2>5, StepServes
  <2>7. u = call'.ids[i] /\ p = call'.requests[i][1] /\ m = call'.requests[i][2]
    BY <1>4, <2>1
  <2> QED BY <2>6, <2>7, ServedForms
<1> QED BY <1>2, <1>3, <1>4, <1>6 DEF CallInv

LEMMA CallKept ==
    ASSUME ~ShareParams, AllInv, LengthExact, CallShape, CallInv, [EngineNext]_engineVars
    PROVE  CallInv'
<1>1. CASE ~Calling'  BY <1>1 DEF CallInv
<1>2. ASSUME NEW s, NEW p, NEW m, Submit(s, p, m) PROVE ~Calling'
  BY <1>2 DEF Submit, Calling
<1>3. ASSUME NEW s, Cancel(s) PROVE ~Calling'
  BY <1>3 DEF Cancel, Calling
<1>4. CASE GenerateRaises \/ Return
  BY <1>1, <1>4 DEF GenerateRaises, Return, Calling
<1>5. ASSUME NEW requests, NEW shared, Generate(requests, shared) PROVE CallInv'
  <2> DEFINE e == <<>>
  <2>1. call' = [requests |-> requests, shared |-> shared, ids |-> e] /\ at' = "idle"
    BY <1>5 DEF Generate, runnerVars, vars, stepVars
  <2>2. IsInjective(e) /\ DOMAIN e = {}  BY DEF IsInjective
  <2> HIDE DEF e
  <2>3. call'.ids = e  BY <2>1
  <2> QED BY <2>1, <2>2, <2>3 DEF CallInv
<1>6. ASSUME NEW s \in Seqs, GenerateAdd(s) PROVE CallInv'
  BY <1>6, AddServes DEF AllInv
<1>7. CASE EngineStep  BY <1>7, StepCall
<1>8. CASE UNCHANGED engineVars
  <2>1. UNCHANGED <<call, final, at, tokens, prompt_len, asked, status>>
    BY <1>8 DEF engineVars, runnerVars, vars, kvVars, bmVars, seqVars, stepVars, requestVars
  <2> QED BY <2>1
       DEF CallInv, Calling, Adding, ServedAt, Served, Ongoing, Complete, InUse
<1> QED
  BY <1>1, <1>2, <1>3, <1>4, <1>5, <1>6, <1>7, <1>8 DEF EngineNext, EngineClient, CallStep

LEMMA ShapeInvariant == EngineSpec => []CallShape
<1>1. EngineInit => CallShape  BY DEF EngineInit, CallShape, Calling
<1>2. CallShape /\ [EngineNext]_engineVars => CallShape'  BY StepShape
<1> QED BY <1>1, <1>2, PTL DEF EngineSpec

\* The request API is a client of the runner: whatever is proved of the runner
\* holds while generate is used, whether its requests share an object or not.
THEOREM EngineRunsRunner == EngineSpec => RunnerSpec
<1>1. EngineInit => RunnerInit  BY DEF EngineInit
<1>2. CallShape /\ [EngineNext]_engineVars => [RunnerNext]_runnerVars  BY EngineSimulates
<1> QED BY <1>1, <1>2, ShapeInvariant, PTL DEF EngineSpec, RunnerSpec

EngineInv == AllInv /\ LengthExact /\ CallShape /\ CallInv

LEMMA EngineInvariant == ~ShareParams => (EngineSpec => []EngineInv)
<1> SUFFICES ASSUME ~ShareParams PROVE EngineSpec => []EngineInv  OBVIOUS
<1>1. EngineInit => EngineInv
  <2> SUFFICES ASSUME EngineInit PROVE EngineInv  OBVIOUS
  <2>1. RunnerInit /\ call = NoCall  BY DEF EngineInit
  <2>2. \A s \in Seqs : ~InUse(s)  BY <2>1 DEF RunnerInit, Init, BMInit, InUse
  <2>3. LengthExact  BY <2>2 DEF LengthExact
  <2>4. CallShape /\ CallInv  BY <2>1 DEF CallShape, CallInv, Calling
  <2> QED BY <2>1, <2>3, <2>4, InitAll DEF EngineInv
<1>2. EngineInv /\ [EngineNext]_engineVars => EngineInv'
  <2> SUFFICES ASSUME EngineInv, [EngineNext]_engineVars PROVE EngineInv'  OBVIOUS
  <2>1. AllInv /\ LengthExact /\ CallShape /\ CallInv  BY DEF EngineInv
  <2>2. AllInv' /\ [Next]_vars  BY <2>1, EngineSimulates, StepAll
  <2>3. LengthExact'  BY <2>1, <2>2, StepLength DEF AllInv
  <2>4. CallShape' /\ CallInv'  BY <2>1, StepShape, CallKept
  <2> QED BY <2>2, <2>3, <2>4 DEF EngineInv
<1> QED BY <1>1, <1>2, PTL DEF EngineSpec

\* What generate gives back is, for every prompt in order, what a dense engine
\* without cache, batches and preemption may have answered to it alone.
THEOREM OutputsAreDenseHolds == ~ShareParams => (EngineSpec => []OutputsAreDense)
<1> SUFFICES ASSUME ~ShareParams PROVE EngineSpec => []OutputsAreDense  OBVIOUS
<1>1. EngineInv => OutputsAreDense
  <2> SUFFICES ASSUME EngineInv, Returning PROVE OutputsAreDense  BY DEF OutputsAreDense
  <2>1. /\ call \in [requests : Seq(Requests), shared : BOOLEAN, ids : Seq(Seqs)]
        /\ Len(call.ids) <= Len(call.requests) /\ ~(Len(call.ids) < Len(call.requests))
        /\ \A i \in DOMAIN call.ids : ServedAt(i)
    BY DEF EngineInv, CallShape, CallInv, Returning, Adding
  <2>2. call.ids \in Seq(Seqs) /\ call.requests \in Seq(Requests)  BY <2>1
  <2>3. Len(call.ids) \in Nat /\ Len(call.requests) \in Nat /\ DOMAIN call.ids = 1..Len(call.ids)
    BY <2>2, LenProperties
  <2>4. Len(call.ids) = Len(call.requests)  BY <2>1, <2>3
  <2>5. \A s \in Seqs : ~InUse(s)
    <3>1. QueueParts  BY QueueForms DEF EngineInv, AllInv, SchedInv
    <3>2. waiting = <<>> /\ running = <<>>  BY DEF Returning, HasUnfinished
    <3>3. Range(<<>>) = {}  BY DEF Range
    <3> QED BY <3>1, <3>2, <3>3 DEF QueueParts
  <2>6. ASSUME NEW i \in DOMAIN call.ids
        PROVE  Complete(call.ids[i], call.requests[i][1], call.requests[i][2])
    <3>1. call.ids[i] \in Seqs  BY <2>2, <2>3, ElementOfSeq
    <3> QED BY <2>1, <2>5, <3>1 DEF ServedAt, Served
  <2> QED BY <2>4, <2>6 DEF OutputsAreDense
<1> QED BY <1>1, EngineInvariant, PTL
=============================================================================
