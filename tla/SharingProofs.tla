---------------------------- MODULE SharingProofs ----------------------------
(***************************************************************************)
(* Sharing is safe, for every number of sequences, blocks and tokens: two   *)
(* sequences that share a computed block agree on its tokens, and the       *)
(* copy-on-write copies of a step can be applied at once.  The three        *)
(* properties are inductive together, on top of IndInv of BlockManager.     *)
(*                                                                          *)
(* The second half is about what is shared through the prefix cache: its    *)
(* chains are evicted from their ends.                                      *)
(***************************************************************************)
EXTENDS BlockManagerProofs

SharingInv == SharedPrefixAgrees /\ CopyTargetsScheduled /\ CopiesWellDefined

-----------------------------------------------------------------------------
(* Steps that change what one sequence holds.                                *)

\* When only s changes, it is enough that s agrees with the others.
LEMMA SharingStep ==
    ASSUME SharedPrefixAgrees, NEW s \in Seqs,
           \A t \in Seqs \ {s} : /\ table'[t] = table[t] /\ computed'[t] = computed[t]
                                 /\ tokens'[t] = tokens[t],
           IsInjective(table'[s]),
           \A t \in Seqs \ {s} : \A i \in DOMAIN table'[s] : \A j \in DOMAIN table[t] :
              table'[s][i] = table[t][j] =>
                 /\ i = j
                 /\ \A x \in 1..(i * BlockSize) :
                       x <= computed'[s] /\ x <= computed[t] => tokens'[s][x] = tokens[t][x]
    PROVE  SharedPrefixAgrees'
<1>1. ASSUME NEW u \in Seqs, NEW t \in Seqs,
             NEW i \in DOMAIN table'[u], NEW j \in DOMAIN table'[t], table'[u][i] = table'[t][j]
      PROVE  /\ i = j
             /\ \A x \in 1..(i * BlockSize) :
                   x <= computed'[u] /\ x <= computed'[t] => tokens'[u][x] = tokens'[t][x]
  <2>1. CASE u # s /\ t # s
    BY <1>1, <2>1 DEF SharedPrefixAgrees
  <2>2. CASE u = s /\ t # s  BY <1>1, <2>2
  <2>3. CASE u # s /\ t = s  BY <1>1, <2>3
  <2>4. CASE u = s /\ t = s  BY <1>1, <2>4 DEF IsInjective
  <2> QED BY <2>1, <2>2, <2>3, <2>4
<1> QED BY <1>1 DEF SharedPrefixAgrees

\* The destination of a pending copy is a block in use, in one table, unhashed.
LEMMA TargetFacts ==
    ASSUME IndInv, CopyTargetsScheduled, NEW i \in DOMAIN cow
    PROVE  \E u \in Seqs : /\ num_new[u] > 0 /\ Holders(cow[i][2]) = {u}
                           /\ cow[i][2] \in WrittenBlocks(u)
                           /\ cow[i][2] \in Blocks /\ cow[i][2] \in Range(table[u])
                           /\ ref[cow[i][2]] > 0 /\ hash[cow[i][2]] = NoHash
<1> USE DEF IndInv
<1>1. PICK u \in Scheduled : Holders(cow[i][2]) = {u} /\ cow[i][2] \in WrittenBlocks(u)
  BY DEF CopyTargetsScheduled
<1>2. u \in Seqs /\ num_new[u] > 0  BY DEF Scheduled
<1> DEFINE d == cow[i][2]
<1>3. PICK j \in DOMAIN table[u] : table[u][j] = d /\ j > computed[u] \div BlockSize
  BY <1>1, <1>2, WrittenLaws
<1>4. d \in Blocks /\ d \in Range(table[u])  BY <1>2, <1>3, TableFacts
<1>5. ref[d] > 0  BY <1>2, <1>4, HolderCounts
<1>6. hash[d] = NoHash  BY <1>2, <1>3, UnfilledUnhashed
<1> QED BY <1>1, <1>2, <1>4, <1>5, <1>6

\* A destination stays its owner's when another sequence changes without
\* taking it.
LEMMA TargetKept ==
    ASSUME NEW s \in Seqs, NEW u \in Seqs \ {s}, NEW d,
           Holders(d) = {u}, d \in WrittenBlocks(u),
           \A t \in Seqs \ {s} : /\ table'[t] = table[t] /\ computed'[t] = computed[t]
                                 /\ num_new'[t] = num_new[t],
           d \notin Range(table'[s])
    PROVE  {t \in Seqs : d \in Range(table'[t])} = {u} /\ d \in WrittenBlocks(u)'
<1>1. \A t \in Seqs : d \in Range(table[t]) <=> t = u  BY DEF Holders
<1>2. \A t \in Seqs : d \in Range(table'[t]) <=> t = u  BY <1>1
<1>3. WrittenBlocks(u)' = WrittenBlocks(u)  BY DEF WrittenBlocks
<1> QED BY <1>2, <1>3

\* So the pending copies stay as they are.
LEMMA TargetsStep ==
    ASSUME IndInv, CopyTargetsScheduled, CopiesWellDefined, NEW s \in Seqs, num_new[s] = 0,
           \A t \in Seqs \ {s} : /\ table'[t] = table[t] /\ computed'[t] = computed[t]
                                 /\ num_new'[t] = num_new[t],
           \A i \in DOMAIN cow : cow[i][2] \notin Range(table'[s]),
           cow' = cow
    PROVE  CopyTargetsScheduled' /\ CopiesWellDefined'
<1>1. ASSUME NEW i \in DOMAIN cow
      PROVE  \E u \in Scheduled' : {t \in Seqs : cow[i][2] \in Range(table'[t])} = {u}
                                   /\ cow[i][2] \in WrittenBlocks(u)'
  <2>1. PICK u \in Seqs : /\ num_new[u] > 0 /\ Holders(cow[i][2]) = {u}
                          /\ cow[i][2] \in WrittenBlocks(u)
    BY TargetFacts
  <2>2. u # s  BY <2>1
  <2> DEFINE d == cow[i][2]
  <2>3. Holders(d) = {u} /\ d \in WrittenBlocks(u) /\ d \notin Range(table'[s])  BY <2>1
  <2> HIDE DEF d
  <2>4. {t \in Seqs : d \in Range(table'[t])} = {u} /\ d \in WrittenBlocks(u)'
    BY <2>2, <2>3, TargetKept
  <2>5. u \in Scheduled'  BY <2>1, <2>2 DEF Scheduled
  <2> QED BY <2>4, <2>5 DEF d
<1>2. CopyTargetsScheduled'  BY <1>1 DEF CopyTargetsScheduled, Holders
<1>3. CopiesWellDefined'  BY DEF CopiesWellDefined
<1> QED BY <1>2, <1>3

-----------------------------------------------------------------------------
(* The operations.                                                           *)

\* A block of the longest hit that another table has too is at the same place
\* there, after the same tokens.
LEMMA HitsAgree ==
    ASSUME IndInv, NEW s \in Seqs, NEW t \in Seqs, NEW i \in Nat, NEW j \in DOMAIN table[t],
           hash[table[t][j]] = BlockPrefix(s, i), hash[table[t][j]] # NoHash,
           i * BlockSize <= NumTokens(s)
    PROVE  i = j /\ \A x \in 1..(i * BlockSize) : tokens[s][x] = tokens[t][x]
<1> USE DEF IndInv
<1> DEFINE m == i * BlockSize
           k == j * BlockSize
<1>1. BlockPrefix(t, j) = BlockPrefix(s, i) /\ k <= computed[t]
  BY DEF HashMatchesHolder
<1>2. /\ j \in Nat /\ m \in Nat /\ k \in Nat
      /\ tokens[s] \in Seq(Tokens) /\ Len(tokens[s]) \in Nat
      /\ tokens[t] \in Seq(Tokens) /\ Len(tokens[t]) \in Nat /\ computed[t] \in Nat
  <2>1. j \in 1..Len(table[t]) /\ Len(table[t]) \in Nat  BY TableFacts
  <2>2. j \in Nat  BY <2>1
  <2>3. /\ tokens[s] \in Seq(Tokens) /\ tokens[t] \in Seq(Tokens) /\ computed[t] \in Nat
    BY DEF TypeOK, TokenStrings
  <2> QED BY <2>2, <2>3, LenProperties, CeilOfMultiple
<1>3. k <= Len(tokens[t])
  <2>1. num_new[t] \in Nat /\ computed[t] + num_new[t] <= Len(tokens[t])
    BY DEF LengthsOK, NumTokens, TypeOK
  <2> QED BY <1>1, <1>2, <2>1
<1> HIDE DEF m, k
<1>4. m \in 0..Len(tokens[s]) /\ k \in 0..Len(tokens[t])
  BY <1>2, <1>3 DEF NumTokens, m
<1>5. /\ Len(BlockPrefix(s, i)) = m
      /\ \A x \in 1..m : BlockPrefix(s, i)[x] = tokens[s][x]
  BY <1>2, <1>4, PrefixLaws DEF BlockPrefix, m
<1>6. /\ Len(BlockPrefix(t, j)) = k
      /\ \A x \in 1..k : BlockPrefix(t, j)[x] = tokens[t][x]
  BY <1>2, <1>4, PrefixLaws DEF BlockPrefix, k
<1>7. m = k  BY <1>1, <1>5, <1>6
<1>8. i = j
  <2>1. i < j => m < k  BY <1>2, MultiplesOrdered DEF m, k
  <2>2. j < i => k < m  BY <1>2, MultiplesOrdered DEF m, k
  <2> QED BY <1>2, <1>7, <2>1, <2>2
<1> QED BY <1>1, <1>5, <1>6, <1>7, <1>8 DEF m

\* A sequence without blocks is not scheduled.
LEMMA UnheldUnscheduled ==
    ASSUME TypeOK, TableExact, NEW s \in Seqs, table[s] = <<>>
    PROVE  num_new[s] = 0 /\ computed[s] = 0
<1> DEFINE x == computed[s] + num_new[s]
<1>1. computed[s] \in Nat /\ num_new[s] \in Nat /\ Len(<<>>) = 0  BY EmptySeq DEF TypeOK
<1>2. x \in Nat  BY <1>1
<1>3. NumBlocksForTokens(x) = 0  BY <1>1 DEF TableExact
<1>4. x <= 0 * BlockSize  BY <1>2, <1>3, CeilBounds
<1> QED BY <1>1, <1>4, PoolAssumption

\* What a fork's child starts from agrees with its parent up to the watermark.
LEMMA BranchLaws ==
    ASSUME IndInv, NEW p \in Seqs, InUse(p), NEW ts \in Branches(p)
    PROVE  \A x \in 1..computed[p] : ts[x] = tokens[p][x]
<1> USE DEF IndInv
<1> DEFINE w == computed[p]
<1>1. /\ tokens[p] \in Seq(Tokens) /\ Len(tokens[p]) \in Nat
      /\ w \in Nat /\ w < Len(tokens[p])
  <2>1. tokens[p] \in Seq(Tokens) /\ w \in Nat  BY DEF TypeOK, TokenStrings
  <2> QED BY <2>1, LenProperties DEF LengthsOK, NumTokens
<1> HIDE DEF w
<1>2. CASE ts # tokens[p]
  <2>1. PICK y \in Tokens : ts = Append(SubSeq(tokens[p], 1, w), y)
    BY <1>2 DEF Branches, w
  <2> DEFINE q == SubSeq(tokens[p], 1, w)
  <2>2. w \in 0..Len(tokens[p])  BY <1>1
  <2>3. q \in Seq(Tokens) /\ Len(q) = w /\ \A x \in 1..w : q[x] = tokens[p][x]
    BY <1>1, <2>2, PrefixLaws
  <2>4. ts = Append(q, y)  BY <2>1
  <2> HIDE DEF q
  <2>5. \A x \in 1..w : ts[x] = q[x]  BY <2>3, <2>4, AppendProperties
  <2> QED BY <2>3, <2>5 DEF w
<1> QED BY <1>2

\* allocate_slots, for a sequence that continues or is admitted.
LEMMA AllocationShares ==
    ASSUME IndInv, SharingInv, NEW s \in Seqs, NEW n \in Nat \ {0},
           NEW hits \in Seq(Blocks), IsInjective(hits),
           hits = <<>> \/ (table[s] = <<>> /\ computed[s] = 0),
           InUse(s), num_new[s] = 0,
           \A i \in DOMAIN hits : hash[hits[i]] = BlockPrefix(s, i) /\ hash[hits[i]] # NoHash,
           computed[s] + Len(hits) * BlockSize + n <= NumTokens(s),
           AllocateSlots(s, n, hits),
           computed' = [computed EXCEPT ![s] = computed[s] + Len(hits) * BlockSize],
           num_new' = [num_new EXCEPT ![s] = n],
           UNCHANGED <<tokens, phase>>
    PROVE  SharingInv'
<1> USE DEF IndInv, SharingInv
<1>1. PICK P \in SUBSET Blocks, C \in SUBSET Blocks, T \in Seq(Blocks) :
         AllocationResult(s, n, hits, P, C, T)
  BY AllocationEffect
<1> DEFINE k == Len(hits)
           w == WriteIndex(s, hits)
           copy == NeedsCopy(s, n, hits)
<1>2. /\ \A b \in P : ref[b] = 0
      /\ copy => hits = <<>>
      /\ Range(T) = ((Range(table[s]) \cup Range(hits)) \ C) \cup P
      /\ \A i \in DOMAIN T : T[i] \in P \/ /\ i \in DOMAIN (table[s] \o hits)
                                           /\ T[i] = (table[s] \o hits)[i]
      /\ IF copy THEN /\ w \in DOMAIN table[s] /\ w \in DOMAIN T /\ T[w] \in P
                      /\ cow' = Append(cow, <<table[s][w], T[w]>>)
                 ELSE cow' = cow
      /\ IsInjective(T)
      /\ table' = [table EXCEPT ![s] = T]
  <2>1. copy => w \in DOMAIN table[s]  BY <1>1 DEF AllocationResult
  <2>2. copy => hits = <<>>  BY <1>1 DEF AllocationResult
  <2>3. table[s] \o <<>> = table[s]  BY ConcatEmptySeq DEF TypeOK
  <2>4. \A i \in DOMAIN (table[s] \o hits) : i \in DOMAIN T  BY <1>1 DEF AllocationResult
  <2>5. copy => w \in DOMAIN T  BY <2>1, <2>2, <2>3, <2>4
  <2> QED BY <1>1, <2>5 DEF AllocationResult
<1>3. /\ k \in Nat /\ computed[s] \in Nat /\ DOMAIN hits = 1..k
      /\ computed \in [Seqs -> Nat] /\ num_new \in [Seqs -> Nat] /\ table \in [Seqs -> Seq(Blocks)]
      /\ NumTokens(s) \in Nat /\ DOMAIN T = 1..Len(T)
  <2>1. tokens[s] \in Seq(Tokens)  BY DEF TypeOK, TokenStrings
  <2> QED BY <2>1, LenProperties DEF TypeOK, NumTokens
<1> HIDE DEF k, w, copy
<1>4. /\ table'[s] = T /\ num_new'[s] = n
      /\ \A t \in Seqs \ {s} : /\ table'[t] = table[t] /\ computed'[t] = computed[t]
                               /\ num_new'[t] = num_new[t]
  BY <1>2, <1>3
<1>5. Range(<<>>) = {} /\ table[s] \o <<>> = table[s] /\ <<>> \o hits = hits
  BY <1>3, ConcatEmptySeq DEF Range
<1>6. \A t \in Seqs : \A b \in Range(table[t]) : b \in Blocks /\ ref[b] > 0 /\ b \notin P
  <2>1. \A t \in Seqs : \A b \in Range(table[t]) : b \in Blocks /\ ref[b] > 0
    BY TableFacts, HolderCounts
  <2> QED BY <1>2, <2>1
<1>7. SharedPrefixAgrees'
  <2>1. ASSUME NEW t \in Seqs \ {s}, NEW i \in DOMAIN table'[s], NEW j \in DOMAIN table[t],
               table'[s][i] = table[t][j]
        PROVE  /\ i = j
               /\ \A x \in 1..(i * BlockSize) :
                     x <= computed'[s] /\ x <= computed[t] => tokens'[s][x] = tokens[t][x]
    <3>1. T[i] = table[t][j] /\ i \in DOMAIN T  BY <1>4, <2>1
    <3>2. T[i] \notin P
      <4>1. table[t][j] \in Range(table[t])  BY DEF Range
      <4> QED BY <1>6, <3>1, <4>1
    <3>3. i \in DOMAIN (table[s] \o hits) /\ T[i] = (table[s] \o hits)[i]  BY <1>2, <3>1, <3>2
    <3>4. CASE hits = <<>>
      <4>1. i \in DOMAIN table[s] /\ table[s][i] = table[t][j]  BY <1>5, <3>1, <3>3, <3>4
      <4>2. computed'[s] = computed[s]
        <5>1. k = 0 /\ computed'[s] = computed[s] + k * BlockSize  BY <1>3, <3>4 DEF k
        <5>2. 0 * BlockSize = 0  BY PoolAssumption
        <5> QED BY <1>3, <5>1, <5>2
      <4> QED BY <4>1, <4>2 DEF SharedPrefixAgrees
    <3>5. CASE table[s] = <<>> /\ computed[s] = 0
      <4>1. i \in DOMAIN hits /\ T[i] = hits[i]  BY <1>5, <3>3, <3>5
      <4>2. i \in Nat /\ i <= k  BY <1>3, <4>1
      <4>3. hash[table[t][j]] = BlockPrefix(s, i) /\ hash[table[t][j]] # NoHash
        BY <3>1, <4>1
      <4>4. i * BlockSize <= NumTokens(s)
        <5>1. i * BlockSize \in Nat /\ k * BlockSize \in Nat  BY <1>3, <4>2, CeilOfMultiple
        <5>2. i < k => i * BlockSize < k * BlockSize  BY <1>3, <4>2, MultiplesOrdered
        <5>3. i = k \/ i < k  BY <1>3, <4>2
        <5>4. computed[s] + k * BlockSize + n <= NumTokens(s)  BY DEF k
        <5> QED BY <1>3, <5>1, <5>2, <5>3, <5>4
      <4>5. i = j /\ \A x \in 1..(i * BlockSize) : tokens[s][x] = tokens[t][x]
        BY <4>2, <4>3, <4>4, HitsAgree
      <4> QED BY <4>5
    <3> QED BY <3>4, <3>5
  <2>2. IsInjective(table'[s])  BY <1>2, <1>4
  <2> QED BY <1>4, <2>1, <2>2, SharingStep
<1>8. ASSUME NEW i \in DOMAIN cow
      PROVE  cow[i][2] \notin Range(T)
  <2>1. PICK u \in Seqs : /\ num_new[u] > 0 /\ Holders(cow[i][2]) = {u}
                          /\ ref[cow[i][2]] > 0 /\ hash[cow[i][2]] = NoHash
    BY TargetFacts
  <2>2. cow[i][2] \notin P  BY <1>2, <2>1
  <2>3. cow[i][2] \notin Range(table[s])  BY <2>1 DEF Holders
  <2>4. cow[i][2] \notin Range(hits)  BY <2>1 DEF Range
  <2> QED BY <1>2, <2>2, <2>3, <2>4
<1>9. CASE ~copy
  <2>1. CopyTargetsScheduled' /\ CopiesWellDefined'
    BY <1>2, <1>4, <1>8, <1>9, TargetsStep
  <2> QED BY <1>7, <2>1
<1>10. CASE copy
  <2> DEFINE a == table[s][w]
             d == T[w]
             N == Len(cow)
  <2>1. cow \in Seq(Blocks \X Blocks) /\ a \in Blocks /\ d \in Blocks
    BY <1>2, <1>10, TableFacts DEF TypeOK
  <2>2. /\ N \in Nat /\ DOMAIN cow = 1..N /\ DOMAIN cow' = 1..(N + 1)
        /\ \A i \in 1..N : cow'[i] = cow[i]
        /\ cow'[N + 1] = <<a, d>>
    <3>1. cow' = Append(cow, <<a, d>>) /\ <<a, d>> \in Blocks \X Blocks
      BY <1>2, <1>10, <2>1
    <3> QED BY <2>1, <3>1, AppendProperties, LenProperties
  <2> HIDE DEF N
  <2>3. w = computed[s] \div BlockSize + 1 /\ computed'[s] = computed[s]
    <3>1. k = 0 /\ 0 * BlockSize = 0  BY <1>2, <1>10, PoolAssumption DEF k
    <3>2. computed'[s] = computed[s] + k * BlockSize /\ FirstWrite(s, hits) = computed[s] + k * BlockSize
      BY <1>3 DEF FirstWrite, k
    <3>3. computed[s] + k * BlockSize = computed[s]  BY <1>3, <3>1
    <3> QED BY <3>2, <3>3 DEF w, WriteIndex
  <2>4. d \in WrittenBlocks(s)'
    <3>1. 0 \in 0..(n - 1) /\ computed'[s] + 0 = computed[s]  BY <1>3, <2>3
    <3>2. d = table'[s][(computed'[s] + 0) \div BlockSize + 1]  BY <1>4, <2>3, <3>1
    <3> QED BY <1>4, <3>1, <3>2 DEF WrittenBlocks
  <2>5. d \in P /\ d \in Range(T)  BY <1>2, <1>10 DEF Range
  <2>6. {t \in Seqs : d \in Range(table'[t])} = {s}  BY <1>4, <1>6, <2>5
  <2>7. \A i \in 1..N : cow[i][2] # d /\ cow[i][2] # a
    <3>1. a \in Range(table[s])  BY <1>2, <1>10, TableFacts
    <3> SUFFICES ASSUME NEW i \in 1..N PROVE cow[i][2] # d /\ cow[i][2] # a
      OBVIOUS
    <3>2. PICK u \in Seqs : num_new[u] > 0 /\ Holders(cow[i][2]) = {u}
      BY <2>2, TargetFacts
    <3>3. cow[i][2] # d  BY <1>8, <2>2, <2>5
    <3>4. cow[i][2] \notin Range(table[s])  BY <3>2 DEF Holders
    <3> QED BY <3>1, <3>3, <3>4
  <2> HIDE DEF a, d
  <2>8. ASSUME NEW i \in DOMAIN cow'
        PROVE  \E u \in Scheduled' : {t \in Seqs : cow'[i][2] \in Range(table'[t])} = {u}
                                     /\ cow'[i][2] \in WrittenBlocks(u)'
    <3>1. CASE i = N + 1
      <4>1. s \in Scheduled'  BY <1>4 DEF Scheduled
      <4>2. cow'[i][2] = d  BY <2>2, <3>1
      <4> QED BY <2>4, <2>6, <4>1, <4>2
    <3>2. CASE i # N + 1
      <4>1. i \in DOMAIN cow /\ cow'[i] = cow[i]  BY <2>2, <3>2
      <4>2. PICK u \in Seqs : /\ num_new[u] > 0 /\ Holders(cow[i][2]) = {u}
                              /\ cow[i][2] \in WrittenBlocks(u)
        BY <4>1, TargetFacts
      <4> DEFINE e == cow[i][2]
      <4>3. u # s /\ e \notin Range(table'[s]) /\ Holders(e) = {u} /\ e \in WrittenBlocks(u)
        BY <1>4, <1>8, <4>1, <4>2
      <4> HIDE DEF e
      <4>4. {t \in Seqs : e \in Range(table'[t])} = {u} /\ e \in WrittenBlocks(u)'
        BY <1>4, <4>3, TargetKept
      <4>5. u \in Scheduled'  BY <1>4, <4>2, <4>3 DEF Scheduled
      <4> QED BY <4>1, <4>4, <4>5 DEF e
    <3> QED BY <3>1, <3>2
  <2>9. CopyTargetsScheduled'  BY <2>8 DEF CopyTargetsScheduled, Holders
  <2>10. CopiesWellDefined'
    <3> SUFFICES ASSUME NEW i \in 1..(N + 1), NEW j \in 1..(N + 1), i < j
                 PROVE  cow'[i][2] # cow'[j][2] /\ cow'[i][2] # cow'[j][1]
      BY <2>2 DEF CopiesWellDefined
    <3>1. i \in 1..N /\ cow'[i] = cow[i]  BY <2>2
    <3>2. CASE j = N + 1  BY <2>2, <2>7, <3>1, <3>2
    <3>3. CASE j # N + 1
      <4>1. j \in 1..N /\ cow'[j] = cow[j]  BY <2>2, <3>3
      <4> QED BY <2>2, <3>1, <4>1 DEF CopiesWellDefined
    <3> QED BY <3>2, <3>3
  <2> QED BY <1>7, <2>9, <2>10
<1> QED BY <1>9, <1>10

\* Admission of a waiting request: the hits are exactly where their hash says.
LEMMA AdmitShares ==
    ASSUME IndInv, SharingInv, NEW s \in Seqs, Admit(s)
    PROVE  SharingInv'
<1>1. PICK n \in 1..MaxModelLen, k \in 0..MaxModelLen : MayAdmit(s, n, k) /\ AdmitBlocks(s, n, k)
  BY DEF Admit
<1> DEFINE hits == GetComputedBlocks(s, k)
<1>2. n \in Nat \ {0} /\ k \in Nat  BY LengthAssumption
<1>3. /\ IsLongestHit(s, k) /\ AllocateSlots(s, n, hits)
      /\ computed' = [computed EXCEPT ![s] = k * BlockSize]
      /\ num_new' = [num_new EXCEPT ![s] = n]
      /\ UNCHANGED <<tokens, phase>>
  BY <1>1 DEF AdmitBlocks
<1>4. /\ InUse(s) /\ table[s] = <<>> /\ computed[s] = 0
      /\ n <= NumTokens(s) - k * BlockSize
  BY <1>1 DEF MayAdmit
<1>5. /\ hits \in Seq(Blocks) /\ Len(hits) = k /\ IsInjective(hits)
      /\ \A i \in DOMAIN hits : hash[hits[i]] = BlockPrefix(s, i) /\ hash[hits[i]] # NoHash
  BY <1>2, <1>3, <1>4, HitLaws
<1>6. num_new[s] = 0  BY <1>4, UnheldUnscheduled DEF IndInv
<1>7. k * BlockSize \in Nat /\ NumTokens(s) \in Nat
  <2>1. tokens[s] \in Seq(Tokens)  BY DEF IndInv, TypeOK, TokenStrings
  <2> QED BY <1>2, <2>1, CeilOfMultiple, LenProperties DEF NumTokens
<1> HIDE DEF hits
<1>8. /\ computed[s] + Len(hits) * BlockSize = k * BlockSize
      /\ computed[s] + Len(hits) * BlockSize + n <= NumTokens(s)
  BY <1>2, <1>4, <1>5, <1>7
<1> QED BY <1>2, <1>3, <1>4, <1>5, <1>6, <1>8, AllocationShares

\* A running sequence goes on, with a private copy where it needs one.
LEMMA ContinueShares ==
    ASSUME IndInv, SharingInv, NEW s \in Seqs, Continue(s)
    PROVE  SharingInv'
<1>1. PICK n \in 1..MaxModelLen : MayContinue(s, n) /\ ContinueBlocks(s, n)
  BY DEF Continue
<1>2. n \in Nat \ {0}  BY LengthAssumption
<1>3. /\ AllocateSlots(s, n, <<>>) /\ num_new' = [num_new EXCEPT ![s] = n]
      /\ UNCHANGED <<tokens, computed, phase>>
      /\ InUse(s) /\ num_new[s] = 0 /\ n <= NumTokens(s) - computed[s]
  BY <1>1 DEF ContinueBlocks, MayContinue
<1>4. <<>> \in Seq(Blocks) /\ Len(<<>>) = 0 /\ IsInjective(<<>>) /\ DOMAIN <<>> = {}
  BY EmptySeq DEF IsInjective
<1>5. computed \in [Seqs -> Nat] /\ NumTokens(s) \in Nat
  <2>1. tokens[s] \in Seq(Tokens)  BY DEF IndInv, TypeOK, TokenStrings
  <2> QED BY <2>1, LenProperties DEF IndInv, TypeOK, NumTokens
<1>6. computed[s] + Len(<<>>) * BlockSize = computed[s]
  <2>1. 0 * BlockSize = 0  BY PoolAssumption
  <2> QED BY <1>4, <1>5, <2>1
<1>7. computed' = [computed EXCEPT ![s] = computed[s] + Len(<<>>) * BlockSize]
  BY <1>3, <1>5, <1>6
<1>8. computed[s] + Len(<<>>) * BlockSize + n <= NumTokens(s)
  BY <1>2, <1>3, <1>5, <1>6
<1> QED BY <1>2, <1>3, <1>4, <1>7, <1>8, AllocationShares

\* A roll-back changes no table and no pending copy.
LEMMA RollBackShares ==
    ASSUME IndInv, SharingInv, NEW s \in Seqs, RollBack(s)
    PROVE  SharingInv'
<1>1. UNCHANGED <<table, cow, tokens, computed, num_new>>
  BY DEF RollBack, RollBackBlocks, AllocateRollsBack
<1> QED BY <1>1 DEF SharingInv, SharedPrefixAgrees, CopyTargetsScheduled, CopiesWellDefined,
                    Scheduled, Holders, WrittenBlocks

\* Releasing the blocks of an unscheduled sequence, or entering a new request:
\* s is left without blocks.
LEMMA EmptyTableShares ==
    ASSUME IndInv, SharingInv, NEW s \in Seqs, num_new[s] = 0,
           table'[s] = <<>>,
           \A t \in Seqs \ {s} : /\ table'[t] = table[t] /\ computed'[t] = computed[t]
                                 /\ tokens'[t] = tokens[t] /\ num_new'[t] = num_new[t],
           cow' = cow
    PROVE  SharingInv'
<1> USE DEF SharingInv
<1>1. DOMAIN <<>> = {} /\ Range(<<>>) = {} /\ IsInjective(<<>>)
  BY DEF Range, IsInjective
<1>2. SharedPrefixAgrees'
  <2>1. DOMAIN table'[s] = {} /\ IsInjective(table'[s])  BY <1>1
  <2> QED BY <2>1, SharingStep
<1>3. CopyTargetsScheduled' /\ CopiesWellDefined'
  <2>1. Range(table'[s]) = {}  BY <1>1
  <2> QED BY <2>1, TargetsStep
<1> QED BY <1>2, <1>3

\* A new request.
LEMMA AddShares ==
    ASSUME IndInv, SharingInv, NEW s \in Seqs, NEW p \in Prompts, Add(s, p)
    PROVE  SharingInv'
<1>1. /\ ~InUse(s) /\ tokens' = [tokens EXCEPT ![s] = p]
      /\ UNCHANGED <<computed, table, num_new, phase, poolVars>>
  BY DEF Add
<1>2. table[s] = <<>> /\ num_new[s] = 0  BY <1>1 DEF IndInv, LengthsOK
<1>3. \A t \in Seqs \ {s} : tokens'[t] = tokens[t]  BY <1>1 DEF IndInv, TypeOK
<1> QED BY <1>1, <1>2, <1>3, EmptyTableShares DEF poolVars

\* Preemption and abort.
LEMMA DropShares ==
    ASSUME IndInv, SharingInv, NEW s \in Seqs, num_new[s] = 0, FreeBlocks(s, hash),
           computed' = [computed EXCEPT ![s] = 0],
           tokens' = tokens \/ tokens' = [tokens EXCEPT ![s] = <<>>],
           UNCHANGED <<num_new, cow>>
    PROVE  SharingInv'
<1>1. table'[s] = <<>> /\ \A t \in Seqs \ {s} : table'[t] = table[t]  BY FreeKeepsBooks
<1>2. \A t \in Seqs \ {s} : computed'[t] = computed[t] /\ tokens'[t] = tokens[t]
  BY DEF IndInv, TypeOK
<1> QED BY <1>1, <1>2, EmptyTableShares

LEMMA PreemptShares ==
    ASSUME IndInv, SharingInv, NEW s \in Seqs, Preempt(s)
    PROVE  SharingInv'
BY DropShares DEF Preempt, MayPreempt, PreemptBlocks

LEMMA AbortShares ==
    ASSUME IndInv, SharingInv, NEW s \in Seqs, Abort(s)
    PROVE  SharingInv'
<1>1. num_new[s] = 0
  <2>1. num_new[s] \in Nat  BY DEF IndInv, TypeOK
  <2>2. ~(num_new[s] > 0)  BY DEF Abort, BetweenSteps, Scheduled
  <2> QED BY <2>1, <2>2
<1> QED BY <1>1, DropShares DEF Abort, AbortBlocks

\* A forked child agrees with whoever its parent agrees with, up to the
\* watermark; no copy is pending between steps.
LEMMA ForkShares ==
    ASSUME IndInv, SharingInv, NEW p \in Seqs, NEW c \in Seqs, Fork(p, c)
    PROVE  SharingInv'
<1> USE DEF SharingInv
<1>1. PICK ts \in Branches(p) : MayFork(p, c) /\ ForkBlocks(p, c, ts)
  BY DEF Fork
<1>2. /\ InUse(p) /\ ~InUse(c) /\ p # c
      /\ tokens' = [tokens EXCEPT ![c] = ts] /\ table' = [table EXCEPT ![c] = table[p]]
      /\ computed' = [computed EXCEPT ![c] = computed[p]]
      /\ UNCHANGED <<num_new, cow>>
      /\ Scheduled = {}
  BY <1>1 DEF MayFork, ForkBlocks, BetweenSteps
<1>3. /\ tokens'[c] = ts /\ table'[c] = table[p] /\ computed'[c] = computed[p]
      /\ \A t \in Seqs \ {c} : /\ tokens'[t] = tokens[t] /\ computed'[t] = computed[t]
                               /\ table'[t] = table[t]
  BY <1>2 DEF IndInv, TypeOK
<1>4. \A x \in 1..computed[p] : ts[x] = tokens[p][x]
  BY <1>1, <1>2, BranchLaws
<1>5. SharedPrefixAgrees'
  <2>1. ASSUME NEW t \in Seqs \ {c}, NEW i \in DOMAIN table'[c], NEW j \in DOMAIN table[t],
               table'[c][i] = table[t][j]
        PROVE  /\ i = j
               /\ \A x \in 1..(i * BlockSize) :
                     x <= computed'[c] /\ x <= computed[t] => tokens'[c][x] = tokens[t][x]
    <3>1. i \in DOMAIN table[p] /\ table[p][i] = table[t][j]  BY <1>3, <2>1
    <3>2. /\ i = j
          /\ \A x \in 1..(i * BlockSize) :
                x <= computed[p] /\ x <= computed[t] => tokens[p][x] = tokens[t][x]
      BY <3>1 DEF SharedPrefixAgrees
    <3>3. \A x \in 1..(i * BlockSize) : x <= computed'[c] => tokens'[c][x] = tokens[p][x]
      <4>1. computed[p] \in Nat  BY DEF IndInv, TypeOK
      <4>2. \A x \in Int : 1 <= x /\ x <= computed[p] => x \in 1..computed[p]  BY <4>1
      <4> QED BY <1>3, <1>4, <4>2
    <3> QED BY <1>3, <3>2, <3>3
  <2>2. IsInjective(table'[c])  BY <1>3 DEF IndInv, TableInjective
  <2> QED BY <1>3, <2>1, <2>2, SharingStep
<1>6. DOMAIN cow = {}  BY <1>2 DEF CopyTargetsScheduled
<1>7. CopyTargetsScheduled' /\ CopiesWellDefined'
  BY <1>2, <1>6 DEF CopyTargetsScheduled, CopiesWellDefined
<1> QED BY <1>5, <1>7

\* The forward pass takes the pending copies.
LEMMA RunShares ==
    ASSUME IndInv, SharingInv, Run
    PROVE  SharingInv'
<1>1. cow' = <<>> /\ UNCHANGED <<tokens, computed, table>>
  BY DEF Run, TakePendingCopies, seqVars
<1>2. DOMAIN <<>> = {}  OBVIOUS
<1> QED BY <1>1, <1>2 DEF SharingInv, SharedPrefixAgrees, CopyTargetsScheduled, CopiesWellDefined

\* The results of a scheduled sequence that goes on: what it shares lies below
\* its old watermark, and its tokens are only extended.
LEMMA CommitKeepsSharing ==
    ASSUME IndInv, SharingInv, NEW s \in Seqs, num_new[s] > 0, cow = <<>>, cow' = cow,
           NEW ts, NEW after,
           \A x \in 1..Len(tokens[s]) : ts[x] = tokens[s][x],
           tokens' = [tokens EXCEPT ![s] = ts],
           computed' = [computed EXCEPT ![s] = after],
           UNCHANGED table
    PROVE  SharingInv'
<1> USE DEF SharingInv, IndInv
<1>1. /\ tokens'[s] = ts /\ computed'[s] = after
      /\ \A t \in Seqs \ {s} : tokens'[t] = tokens[t] /\ computed'[t] = computed[t]
  BY DEF TypeOK
<1>2. ASSUME NEW t \in Seqs \ {s}, NEW i \in DOMAIN table[s], NEW j \in DOMAIN table[t],
             table[s][i] = table[t][j]
      PROVE  /\ i = j
             /\ \A x \in 1..(i * BlockSize) :
                   x <= computed'[s] /\ x <= computed[t] => tokens'[s][x] = tokens[t][x]
  <2>1. /\ i = j
        /\ \A x \in 1..(i * BlockSize) :
              x <= computed[s] /\ x <= computed[t] => tokens[s][x] = tokens[t][x]
    BY <1>2 DEF SharedPrefixAgrees
  <2>2. ~(i > computed[s] \div BlockSize)
    <3>1. table[s][i] \in Range(table[t])  BY <1>2 DEF Range
    <3>2. s \in Scheduled  BY DEF Scheduled
    <3> QED BY <3>1, <3>2 DEF FillsOwnBlocks
  <2>3. i \in Nat /\ computed[s] \in Nat /\ computed[s] \div BlockSize \in Nat
    <3>1. i \in 1..Len(table[s]) /\ Len(table[s]) \in Nat  BY TableFacts
    <3>2. computed[s] \in Nat  BY DEF TypeOK
    <3>3. i \in Nat  BY <3>1
    <3> QED BY <3>2, <3>3, DivBounds
  <2>4. i * BlockSize <= computed[s] /\ i * BlockSize \in Nat
    BY <2>2, <2>3, FullBlocks, CeilOfMultiple
  <2>5. computed[s] <= Len(tokens[s]) /\ Len(tokens[s]) \in Nat
    <3>1. tokens[s] \in Seq(Tokens) /\ num_new[s] \in Nat  BY DEF TypeOK, TokenStrings
    <3>2. Len(tokens[s]) \in Nat  BY <3>1, LenProperties
    <3>3. computed[s] + num_new[s] <= Len(tokens[s])  BY DEF LengthsOK, NumTokens
    <3> QED BY <2>3, <3>1, <3>2, <3>3
  <2>6. ASSUME NEW x \in 1..(i * BlockSize)
        PROVE  x <= computed[s] /\ x \in 1..Len(tokens[s])
    <3> DEFINE m == i * BlockSize
    <3>1. x \in 1..m /\ m \in Nat /\ m <= computed[s]  BY <2>4
    <3> HIDE DEF m
    <3> QED BY <2>3, <2>5, <3>1
  <2> QED BY <1>1, <2>1, <2>6
<1>3. SharedPrefixAgrees'
  <2>1. IsInjective(table'[s])  BY DEF TableInjective
  <2> QED BY <1>1, <1>2, <2>1, SharingStep
<1>4. DOMAIN cow' = {}  OBVIOUS
<1> QED BY <1>3, <1>4 DEF CopyTargetsScheduled, CopiesWellDefined

\* The results of any scheduled sequence.
LEMMA CommitShares ==
    ASSUME IndInv, SharingInv, NEW s \in Seqs, Commit(s)
    PROVE  SharingInv'
<1>1. PICK after \in 1..MaxModelLen :
         /\ MayCommit(s, after)
         /\ \/ after < NumTokens(s) /\ CommitWatermark(s, after)
            \/ /\ after = NumTokens(s) /\ after + 1 < MaxModelLen
               /\ \E t \in SampledTokens : CommitToken(s, after, t)
            \/ after = NumTokens(s) /\ CommitFinish(s, after)
  BY DEF Commit
<1>2. num_new[s] > 0 /\ cow = <<>>  BY <1>1 DEF MayCommit, IndInv, CopiesTaken
<1>3. tokens \in [Seqs -> TokenStrings] /\ tokens[s] \in Seq(Tokens)
      /\ computed \in [Seqs -> Nat] /\ num_new \in [Seqs -> Nat]
  BY DEF IndInv, TypeOK, TokenStrings
<1>4. CASE CommitWatermark(s, after)
  <2> DEFINE ts == tokens[s]
  <2>1. /\ tokens' = [tokens EXCEPT ![s] = ts] /\ computed' = [computed EXCEPT ![s] = after]
        /\ cow' = cow /\ UNCHANGED table
    BY <1>3, <1>4 DEF CommitWatermark, Committed
  <2>2. \A x \in 1..Len(tokens[s]) : ts[x] = tokens[s][x]  OBVIOUS
  <2> HIDE DEF ts
  <2> QED BY <1>2, <2>1, <2>2, CommitKeepsSharing
<1>5. CASE \E t \in SampledTokens : CommitToken(s, after, t)
  <2>1. PICK t \in SampledTokens : CommitToken(s, after, t)  BY <1>5
  <2> DEFINE ts == Append(tokens[s], t)
  <2>2. \A x \in 1..Len(tokens[s]) : ts[x] = tokens[s][x]
    <3>1. t \in Tokens  BY SampledAssumption
    <3> QED BY <1>3, <3>1, AppendProperties
  <2>3. /\ tokens' = [tokens EXCEPT ![s] = ts] /\ computed' = [computed EXCEPT ![s] = after]
        /\ cow' = cow /\ UNCHANGED table
    BY <2>1 DEF CommitToken, Committed
  <2> HIDE DEF ts
  <2> QED BY <1>2, <2>2, <2>3, CommitKeepsSharing
<1>6. CASE CommitFinish(s, after)
  <2> USE DEF SharingInv
  <2>1. FreeBlocks(s, HashAfterCaching(s, after))  BY <1>6 DEF CommitFinish
  <2>2. table'[s] = <<>> /\ \A t \in Seqs \ {s} : table'[t] = table[t]
    BY <2>1, FreeKeepsBooks
  <2>3. \A t \in Seqs \ {s} : computed'[t] = computed[t] /\ tokens'[t] = tokens[t]
    BY <1>3, <1>6 DEF CommitFinish
  <2>4. DOMAIN <<>> = {} /\ IsInjective(<<>>)  BY DEF IsInjective
  <2>5. SharedPrefixAgrees'
    <3>1. DOMAIN table'[s] = {} /\ IsInjective(table'[s])  BY <2>2, <2>4
    <3> QED BY <2>2, <2>3, <3>1, SharingStep
  <2>6. DOMAIN cow' = {}  BY <1>2, <1>6, <2>4 DEF CommitFinish, Committed
  <2> QED BY <2>5, <2>6 DEF CopyTargetsScheduled, CopiesWellDefined
<1> QED BY <1>1, <1>4, <1>5, <1>6

-----------------------------------------------------------------------------
(* The theorems.                                                             *)

\* At the start nothing is shared and nothing is to be copied.
LEMMA InitShares == BMInit => SharingInv
<1>1. DOMAIN <<>> = {}  OBVIOUS
<1> QED BY <1>1 DEF BMInit, SharingInv, SharedPrefixAgrees, CopyTargetsScheduled, CopiesWellDefined

\* Every step preserves the invariant.
LEMMA StepShares ==
    ASSUME IndInv, SharingInv, [BMNext]_bmVars
    PROVE  SharingInv'
<1>1. ASSUME NEW s \in Seqs, NEW p \in Prompts, Add(s, p) PROVE SharingInv'
  BY <1>1, AddShares
<1>2. ASSUME NEW s \in Seqs, Admit(s) PROVE SharingInv'     BY <1>2, AdmitShares
<1>3. ASSUME NEW s \in Seqs, Continue(s) PROVE SharingInv'  BY <1>3, ContinueShares
<1>4. ASSUME NEW s \in Seqs, RollBack(s) PROVE SharingInv'  BY <1>4, RollBackShares
<1>5. ASSUME NEW s \in Seqs, Preempt(s) PROVE SharingInv'   BY <1>5, PreemptShares
<1>6. ASSUME NEW s \in Seqs, Abort(s) PROVE SharingInv'     BY <1>6, AbortShares
<1>7. ASSUME NEW p \in Seqs, NEW c \in Seqs, Fork(p, c) PROVE SharingInv'
  BY <1>7, ForkShares
<1>8. ASSUME NEW s \in Seqs, Commit(s) PROVE SharingInv'    BY <1>8, CommitShares
<1>9. ASSUME Run PROVE SharingInv'                          BY <1>9, RunShares
<1>10. ASSUME UNCHANGED bmVars PROVE SharingInv'
  BY <1>10 DEF bmVars, seqVars, poolVars, SharingInv, SharedPrefixAgrees, CopyTargetsScheduled,
               CopiesWellDefined, Scheduled, Holders, WrittenBlocks
<1> QED BY <1>1, <1>2, <1>3, <1>4, <1>5, <1>6, <1>7, <1>8, <1>9, <1>10 DEF BMNext, PoolNext

\* The three properties hold in every reachable state, together with IndInv.
LEMMA SharingInvHolds == BMSpec => [](IndInv /\ SharingInv)
<1>1. BMInit => IndInv /\ SharingInv  BY InitIndInv, InitShares
<1>2. IndInv /\ SharingInv /\ [BMNext]_bmVars => (IndInv /\ SharingInv)'
  BY StepPreserves, StepShares
<1> QED BY <1>1, <1>2, PTL DEF BMSpec

\* Two sequences that share a computed block agree on every token it holds,
\* whether the block came from the prefix cache or from a fork, and whatever was
\* preempted, copied or evicted since (get_computed_blocks, fork).
THEOREM SharedPrefixAgreesHolds == BMSpec => []SharedPrefixAgrees
<1>1. IndInv /\ SharingInv => SharedPrefixAgrees  BY DEF SharingInv
<1> QED BY <1>1, SharingInvHolds, PTL

\* A pending copy's destination is written by the one scheduled sequence that
\* holds it: no copy of allocate_slots outlives its step, and none is made for a
\* block that was released in between.
THEOREM CopyTargetsScheduledHolds == BMSpec => []CopyTargetsScheduled
<1>1. IndInv /\ SharingInv => CopyTargetsScheduled  BY DEF SharingInv
<1> QED BY <1>1, SharingInvHolds, PTL

\* The copies of one step never overlap, so KVCache.apply_copies may gather all
\* sources and then scatter to all destinations.
THEOREM CopiesWellDefinedHolds == BMSpec => []CopiesWellDefined
<1>1. IndInv /\ SharingInv => CopiesWellDefined  BY DEF SharingInv
<1> QED BY <1>1, SharingInvHolds, PTL

-----------------------------------------------------------------------------
(* Why the prefix cache never keeps an entry whose predecessor is gone.      *)
(* _free_block queues the deepest blocks first and _allocate_block evicts    *)
(* from the head of the queue, so as long as every free predecessor is       *)
(* queued behind its free successors (SuccessorsFirst), an eviction takes    *)
(* the successors first.  Keeping that order needs to know which blocks of   *)
(* a table have hashes: the first ones (HashedFromStart).                    *)
(*                                                                           *)
(* The argument is made about a hash assignment H, a family of tables T,     *)
(* reference counts R and a queue q, because the commit of a finished        *)
(* request registers its blocks and releases them in one step.               *)

-----------------------------------------------------------------------------
(* The order of a queue.                                                     *)

\* Keeping a subset keeps the order.
LEMMA BeforeRetain ==
    ASSUME NEW B, NEW q \in Seq(B), NEW K, NEW a \in K, NEW b \in K, Before(q, a, b)
    PROVE  Before(Retain(q, K), a, b)
<1> DEFINE n == Len(q)
           I == Positions(q, K)
           r == Retain(q, K)
<1>1. n \in Nat /\ DOMAIN q = 1..n  BY LenProperties
<1>2. PICK i \in DOMAIN q, j \in DOMAIN q : i < j /\ q[i] = a /\ q[j] = b  BY DEF Before
<1>3. I \in SUBSET (1..n) /\ i \in I /\ j \in I  BY <1>1, <1>2 DEF Positions
<1>4. r = [m \in 1..Cardinality(I) |-> q[Nth(I, m)]]  BY DEF Retain
<1> HIDE DEF n, I, r
<1>5. Rank(I, i) \in 1..Cardinality(I) /\ Rank(I, j) \in 1..Cardinality(I)
  BY <1>1, <1>3, RankType
<1>6. Rank(I, i) < Rank(I, j)  BY <1>1, <1>2, <1>3, RankIncreases
<1>7. Nth(I, Rank(I, i)) = i /\ Nth(I, Rank(I, j)) = j  BY <1>1, <1>3, NthInjective
<1>8. r[Rank(I, i)] = a /\ r[Rank(I, j)] = b  BY <1>2, <1>4, <1>5, <1>7
<1>9. DOMAIN r = 1..Cardinality(I)  BY <1>4
<1>10. Before(r, a, b)  BY <1>5, <1>6, <1>8, <1>9 DEF Before
<1> QED BY <1>10 DEF r

\* A concatenation has the order of its parts, the first part first.
LEMMA BeforeConcat ==
    ASSUME NEW B, NEW p \in Seq(B), NEW q \in Seq(B), NEW a, NEW b,
           \/ Before(p, a, b)
           \/ Before(q, a, b)
           \/ a \in Range(p) /\ b \in Range(q)
    PROVE  Before(p \o q, a, b)
<1> DEFINE m == Len(p)
           n == Len(q)
           r == p \o q
<1>1. m \in Nat /\ DOMAIN p = 1..m /\ n \in Nat /\ DOMAIN q = 1..n
  BY LenProperties
<1>2. /\ r \in Seq(B) /\ Len(r) = m + n
      /\ \A i \in 1..(m + n) : r[i] = IF i <= m THEN p[i] ELSE q[i - m]
  BY ConcatProperties
<1> HIDE DEF m, n, r
<1>3. DOMAIN r = 1..(m + n)  BY <1>2, LenProperties
<1>4. \A i \in 1..m : i \in DOMAIN r /\ r[i] = p[i]
  <2> TAKE i \in 1..m
  <2>1. i \in 1..(m + n) /\ i <= m  BY <1>1
  <2> QED BY <1>2, <1>3, <2>1
<1>5. \A i \in 1..n : i + m \in DOMAIN r /\ r[i + m] = q[i]
  <2> TAKE i \in 1..n
  <2>1. i + m \in 1..(m + n) /\ ~(i + m <= m) /\ (i + m) - m = i  BY <1>1
  <2>2. r[i + m] = q[(i + m) - m]  BY <1>2, <2>1
  <2> QED BY <1>3, <2>1, <2>2
<1>6. \E i, j \in DOMAIN r : i < j /\ r[i] = a /\ r[j] = b
  <2>1. CASE Before(p, a, b)
    <3>1. PICK i \in 1..m, j \in 1..m : i < j /\ p[i] = a /\ p[j] = b
      BY <1>1, <2>1 DEF Before
    <3>2. /\ i \in DOMAIN r /\ r[i] = a
          /\ j \in DOMAIN r /\ r[j] = b
      BY <1>4, <3>1
    <3> QED BY <3>1, <3>2
  <2>2. CASE Before(q, a, b)
    <3>1. PICK i \in 1..n, j \in 1..n : i < j /\ q[i] = a /\ q[j] = b
      BY <1>1, <2>2 DEF Before
    <3>2. /\ i + m \in DOMAIN r /\ r[i + m] = a
          /\ j + m \in DOMAIN r /\ r[j + m] = b
      BY <1>5, <3>1
    <3>3. i + m < j + m  BY <1>1, <3>1
    <3> QED BY <3>2, <3>3
  <2>3. CASE a \in Range(p) /\ b \in Range(q)
    <3>1. PICK i \in 1..m : p[i] = a  BY <1>1, <2>3 DEF Range
    <3>2. PICK j \in 1..n : q[j] = b  BY <1>1, <2>3 DEF Range
    <3>3. /\ i \in DOMAIN r /\ r[i] = a
          /\ j + m \in DOMAIN r /\ r[j + m] = b
      BY <1>4, <1>5, <3>1, <3>2
    <3>4. i < j + m  BY <1>1
    <3> QED BY <3>3, <3>4
  <2> QED BY <2>1, <2>2, <2>3
<1> QED BY <1>6 DEF Before, r

\* Reversing turns a successor into a predecessor.
LEMMA BeforeReverse ==
    ASSUME NEW B, NEW q \in Seq(B), NEW i \in DOMAIN q, NEW j \in DOMAIN q, j < i
    PROVE  Before(Reverse(q), q[i], q[j])
<1> DEFINE n == Len(q)
           r == Reverse(q)
<1>1. n \in Nat /\ DOMAIN q = 1..n  BY LenProperties
<1>2. r = [m \in 1..n |-> q[(n - m) + 1]]  BY DEF Reverse
<1> HIDE DEF n, r
<1>3. /\ (n - i) + 1 \in 1..n /\ (n - j) + 1 \in 1..n /\ (n - i) + 1 < (n - j) + 1
      /\ (n - ((n - i) + 1)) + 1 = i /\ (n - ((n - j) + 1)) + 1 = j
  BY <1>1
<1>4. DOMAIN r = 1..n  BY <1>2
<1>5. r[(n - i) + 1] = q[i] /\ r[(n - j) + 1] = q[j]  BY <1>2, <1>3
<1>6. Before(r, q[i], q[j])  BY <1>3, <1>4, <1>5 DEF Before
<1> QED BY <1>6 DEF r

\* What is left of a queue after its first k elements were taken: if b was
\* taken so was everything before it, and the rest keeps its order.
LEMMA BeforeCut ==
    ASSUME NEW B, NEW q \in Seq(B), IsInjective(q), NEW k \in 0..Len(q),
           NEW a, NEW b, Before(q, a, b)
    PROVE  LET rest == SubSeq(q, k + 1, Len(q))
           IN  /\ a \in Range(rest) => Before(rest, a, b)
               /\ a \in Range(rest) => b \in Range(rest)
<1> DEFINE n    == Len(q)
           rest == SubSeq(q, k + 1, n)
<1>1. n \in Nat /\ DOMAIN q = 1..n /\ k \in Nat /\ k <= n  BY LenProperties
<1>2. PICK i \in DOMAIN q, j \in DOMAIN q : i < j /\ q[i] = a /\ q[j] = b  BY DEF Before
<1>3. SUFFICES ASSUME a \in Range(rest)
               PROVE  Before(rest, a, b) /\ b \in Range(rest)
  OBVIOUS
<1>4. /\ rest \in Seq(B) /\ Len(rest) = IF k + 1 <= n THEN (n - (k + 1)) + 1 ELSE 0
      /\ \A m \in 1..((n - (k + 1)) + 1) : rest[m] = q[((k + 1) + m) - 1]
  <2>1. \A m \in (k + 1)..n : m \in 1..n  BY <1>1
  <2>2. \A m \in (k + 1)..n : q[m] \in B  BY <2>1, ElementOfSeq
  <2>3. k + 1 \in Int /\ n \in Int  BY <1>1
  <2> QED BY <2>2, <2>3, SubSeqProperties
<1> HIDE DEF n, rest
<1>5. Len(rest) = n - k /\ \A m \in 1..(n - k) : rest[m] = q[k + m]
  <2>1. (n - (k + 1)) + 1 = n - k /\ \A m \in 1..(n - k) : ((k + 1) + m) - 1 = k + m
    BY <1>1
  <2>2. Len(rest) = n - k  BY <1>1, <1>4
  <2> QED BY <1>4, <2>1, <2>2
<1>6. DOMAIN rest = 1..(n - k)  BY <1>4, <1>5, LenProperties
<1>7. PICK m \in 1..(n - k) : rest[m] = a  BY <1>3, <1>6 DEF Range
<1>8. i = k + m
  <2>1. k + m \in DOMAIN q /\ q[k + m] = a  BY <1>1, <1>5, <1>7
  <2> QED BY <1>2, <2>1 DEF IsInjective
<1>9. j - k \in 1..(n - k) /\ m < j - k /\ k + (j - k) = j  BY <1>1, <1>2, <1>8
<1>10. rest[j - k] = b  BY <1>2, <1>5, <1>9
<1>11. Before(rest, a, b)  BY <1>6, <1>7, <1>9, <1>10 DEF Before
<1>12. b \in Range(rest)  BY <1>6, <1>9, <1>10 DEF Range
<1> QED BY <1>11, <1>12 DEF rest, n

\* What is in order is in the queue.
LEMMA BeforeMembers ==
    ASSUME NEW q, NEW a, NEW b, Before(q, a, b)
    PROVE  a \in Range(q) /\ b \in Range(q)
BY DEF Before, Range

-----------------------------------------------------------------------------
(* Chains of hashes.                                                         *)

\* Every entry's predecessor is an entry.
Linked(H) ==
    \A a \in Blocks : Len(H[a]) > BlockSize => \E b \in Blocks : H[b] = Parent(H[a])

\* A hashed block of a table has the length of its place, and the block before
\* it is its predecessor.
Chained(H, T) ==
    \A s \in Seqs : \A i \in DOMAIN T[s] :
        H[T[s][i]] # NoHash =>
            /\ Len(H[T[s][i]]) = i * BlockSize
            /\ i > 1 => H[T[s][i - 1]] = Parent(H[T[s][i]])

\* No two blocks have one hash.
Unique(H) == \A a, b \in Blocks : H[a] = H[b] /\ H[a] # NoHash => a = b

\* A free predecessor is queued behind its successors.
Later(H, R, q) ==
    \A a, b \in Blocks :
        Len(H[a]) > BlockSize /\ H[b] = Parent(H[a]) /\ R[b] = 0 => Before(q, a, b)

Ordered(H, T, R, q) == Linked(H) /\ Chained(H, T) /\ Unique(H) /\ Later(H, R, q)

\* The predecessor of a hash is a hash of its own, one block shorter.
LEMMA ParentLaws ==
    ASSUME NEW h \in Seq(Tokens), Len(h) > BlockSize
    PROVE  /\ Parent(h) \in Seq(Tokens) /\ Len(Parent(h)) = Len(h) - BlockSize
           /\ Parent(h) # NoHash /\ h # NoHash
<1>1. BlockSize \in Nat \ {0} /\ Len(h) \in Nat  BY PoolAssumption, LenProperties
<1>2. Len(h) - BlockSize \in 0..Len(h) /\ Len(h) - BlockSize # 0  BY <1>1
<1>3. Parent(h) \in Seq(Tokens) /\ Len(Parent(h)) = Len(h) - BlockSize
  BY <1>2, PrefixLaws DEF Parent
<1>4. Len(<<>>) = 0  BY EmptySeq
<1>5. Parent(h) # NoHash  BY <1>2, <1>3, <1>4 DEF NoHash
<1>6. h # NoHash  BY <1>1, <1>4 DEF NoHash
<1> QED BY <1>3, <1>5, <1>6

\* The predecessor of the prefix that ends with block i ends with block i - 1.
LEMMA PrefixParent ==
    ASSUME TypeOK, NEW s \in Seqs, NEW i \in Nat \ {0}, i * BlockSize <= NumTokens(s)
    PROVE  /\ Len(BlockPrefix(s, i)) = i * BlockSize
           /\ BlockPrefix(s, i) \in Seq(Tokens) /\ BlockPrefix(s, i) # NoHash
           /\ i > 1 => Parent(BlockPrefix(s, i)) = BlockPrefix(s, i - 1)
           /\ i > 1 <=> i * BlockSize > BlockSize
<1> DEFINE t == tokens[s]
           x == i * BlockSize
           y == (i - 1) * BlockSize
           p == SubSeq(t, 1, x)
<1>1. t \in Seq(Tokens) /\ Len(t) \in Nat /\ BlockSize \in Nat \ {0}
  <2>1. t \in Seq(Tokens)  BY DEF TypeOK, TokenStrings
  <2> QED BY <2>1, LenProperties, PoolAssumption
<1>2. x \in Nat /\ y \in Nat /\ x - BlockSize = y /\ x <= Len(t) /\ x > 0
  <2>1. i - 1 \in Nat  OBVIOUS
  <2>2. x \in Nat /\ y \in Nat  BY <2>1, CeilOfMultiple
  <2>3. x - BlockSize = y
    <3>1. \A m, B \in Nat : (m - 1) * B = m * B - B  OBVIOUS
    <3> QED BY <1>1, <3>1
  <2>4. x <= Len(t)  BY DEF NumTokens
  <2> QED BY <1>1, <2>2, <2>3, <2>4
<1>3. i > 1 <=> x > BlockSize
  <2>1. 1 < i => 1 * BlockSize < i * BlockSize  BY MultiplesOrdered
  <2>2. 1 * BlockSize = BlockSize  BY <1>1
  <2>3. i = 1 => x = BlockSize  BY <2>2
  <2> QED BY <1>1, <1>2, <2>1, <2>2, <2>3
<1> HIDE DEF x, y, t
<1>4. p \in Seq(Tokens) /\ Len(p) = x /\ \A m \in 1..x : p[m] = t[m]
  BY <1>1, <1>2, PrefixLaws
<1>5. p # NoHash
  <2>1. Len(<<>>) = 0  BY EmptySeq
  <2> QED BY <1>2, <1>4, <2>1 DEF NoHash
<1> HIDE DEF p
<1>6. SubSeq(p, 1, Len(p) - BlockSize) = SubSeq(t, 1, y)
  <2>1. y \in 0..Len(p) /\ y <= Len(t) /\ \A m \in 1..y : p[m] = t[m]
    BY <1>1, <1>2, <1>4
  <2>2. SubSeq(p, 1, y) = SubSeq(t, 1, y)  BY <1>1, <1>4, <2>1, PrefixEqual
  <2> QED BY <1>2, <1>4, <2>2
<1> QED BY <1>3, <1>4, <1>5, <1>6 DEF Parent, BlockPrefix, p, x, y, t

\* A place in a table is a positive number, and there is a place before it.
LEMMA PlaceBefore ==
    ASSUME NEW T \in Seq(Blocks), NEW i \in DOMAIN T
    PROVE  /\ i \in Nat \ {0} /\ T[i] \in Blocks /\ T[i] \in Range(T)
           /\ i > 1 => i - 1 \in DOMAIN T /\ T[i - 1] \in Blocks /\ T[i - 1] \in Range(T)
<1>1. Len(T) \in Nat /\ DOMAIN T = 1..Len(T) /\ \A j \in 1..Len(T) : T[j] \in Blocks
  BY LenProperties, ElementOfSeq
<1>2. i \in Nat \ {0} /\ (i > 1 => i - 1 \in DOMAIN T)  BY <1>1
<1> QED BY <1>1, <1>2 DEF Range

\* A computed prefix is within the tokens.
LEMMA ComputedWithin ==
    ASSUME TypeOK, LengthsOK, NEW s \in Seqs
    PROVE  /\ computed[s] \in Nat /\ num_new[s] \in Nat /\ NumTokens(s) \in Nat
           /\ computed[s] <= NumTokens(s) /\ computed[s] + num_new[s] <= NumTokens(s)
<1>1. computed[s] \in Nat /\ num_new[s] \in Nat /\ tokens[s] \in Seq(Tokens)
  BY DEF TypeOK, TokenStrings
<1>2. NumTokens(s) \in Nat  BY <1>1, LenProperties DEF NumTokens
<1>3. computed[s] + num_new[s] <= NumTokens(s)  BY DEF LengthsOK
<1> QED BY <1>1, <1>2, <1>3

\* EvictionOrder, said of the blocks' hashes alone.
LEMMA OrderedForm ==
    ASSUME IndInv
    PROVE  EvictionOrder <=> Ordered(hash, table, ref, free)
<1> USE DEF IndInv
<1>1. hash \in [Blocks -> Seq(Tokens)] /\ DOMAIN cached \subseteq Seq(Tokens) \ {NoHash}
  BY DEF TypeOK
<1>2. /\ \A h \in DOMAIN cached : cached[h] \in Blocks /\ hash[cached[h]] = h /\ h # NoHash
      /\ \A b \in Blocks : hash[b] # NoHash => hash[b] \in DOMAIN cached /\ cached[hash[b]] = b
  BY DEF CacheConsistent, TypeOK
<1>3. Unique(hash)  BY <1>2 DEF Unique
<1>4. CachePrefixClosed <=> Linked(hash)
  <2>1. ASSUME CachePrefixClosed, NEW a \in Blocks, Len(hash[a]) > BlockSize
        PROVE  \E b \in Blocks : hash[b] = Parent(hash[a])
    <3>1. hash[a] # NoHash  BY <1>1, <2>1, ParentLaws
    <3>2. Parent(hash[a]) \in DOMAIN cached
      BY <1>2, <2>1, <3>1 DEF CachePrefixClosed, Parent
    <3> QED BY <1>2, <3>2
  <2>2. ASSUME Linked(hash), NEW h \in DOMAIN cached, Len(h) > BlockSize
        PROVE  SubSeq(h, 1, Len(h) - BlockSize) \in DOMAIN cached
    <3>1. cached[h] \in Blocks /\ hash[cached[h]] = h /\ h \in Seq(Tokens)  BY <1>1, <1>2
    <3>2. PICK b \in Blocks : hash[b] = Parent(h)  BY <2>2, <3>1 DEF Linked
    <3>3. Parent(h) # NoHash  BY <2>2, <3>1, ParentLaws
    <3> QED BY <1>2, <3>2, <3>3 DEF Parent
  <2> QED BY <2>1, <2>2 DEF CachePrefixClosed, Linked
<1>5. HashedFromStart <=> Chained(hash, table)
  <2>1. ASSUME NEW s \in Seqs, NEW i \in DOMAIN table[s], hash[table[s][i]] # NoHash
        PROVE  /\ hash[table[s][i]] = BlockPrefix(s, i) /\ i \in Nat \ {0}
               /\ Len(hash[table[s][i]]) = i * BlockSize
               /\ i > 1 => Parent(hash[table[s][i]]) = BlockPrefix(s, i - 1)
               /\ i > 1 => Parent(hash[table[s][i]]) # NoHash
    <3>1. table[s] \in Seq(Blocks)  BY TableFacts
    <3>2. i \in Nat \ {0}  BY <3>1, PlaceBefore
    <3>3. hash[table[s][i]] = BlockPrefix(s, i) /\ i * BlockSize <= computed[s]
      BY <2>1 DEF HashMatchesHolder
    <3>4. i * BlockSize \in Int  BY <3>2, MultiplesOrdered
    <3>5. i * BlockSize <= NumTokens(s)  BY <3>3, <3>4, ComputedWithin
    <3>6. /\ Len(BlockPrefix(s, i)) = i * BlockSize /\ BlockPrefix(s, i) \in Seq(Tokens)
          /\ i > 1 => Parent(BlockPrefix(s, i)) = BlockPrefix(s, i - 1)
          /\ i > 1 => i * BlockSize > BlockSize
      BY <3>2, <3>5, PrefixParent
    <3>7. i > 1 => Parent(BlockPrefix(s, i)) # NoHash  BY <3>6, ParentLaws
    <3> QED BY <3>2, <3>3, <3>6, <3>7
  <2>2. ASSUME HashedFromStart, NEW s \in Seqs, NEW i \in DOMAIN table[s],
               hash[table[s][i]] # NoHash, i > 1
        PROVE  hash[table[s][i - 1]] = Parent(hash[table[s][i]])
    <3>1. i - 1 \in DOMAIN table[s]
      <4>1. table[s] \in Seq(Blocks)  BY TableFacts
      <4> QED BY <2>2, <4>1, PlaceBefore
    <3>2. hash[table[s][i - 1]] # NoHash  BY <2>2 DEF HashedFromStart
    <3>3. hash[table[s][i - 1]] = BlockPrefix(s, i - 1)  BY <2>1, <3>1, <3>2
    <3> QED BY <2>1, <2>2, <3>3
  <2>3. ASSUME Chained(hash, table), NEW s \in Seqs, NEW i \in DOMAIN table[s],
               i > 1, hash[table[s][i]] # NoHash
        PROVE  hash[table[s][i - 1]] # NoHash
    BY <2>1, <2>3 DEF Chained
  <2> QED BY <2>1, <2>2, <2>3 DEF HashedFromStart, Chained
<1>6. SuccessorsFirst <=> Later(hash, ref, free)  BY DEF SuccessorsFirst, Later
<1> QED BY <1>3, <1>4, <1>5, <1>6 DEF EvictionOrder, Ordered

-----------------------------------------------------------------------------
(* Release.                                                                  *)

\* Who holds a hashed block holds its predecessor.
LEMMA ParentHeld ==
    ASSUME NEW H, H \in [Blocks -> Seq(Tokens)], TypeOK, Chained(H, table), Unique(H),
           NEW a \in Blocks, NEW b \in Blocks, Len(H[a]) > BlockSize, H[b] = Parent(H[a]),
           NEW s \in Seqs, NEW i \in DOMAIN table[s], table[s][i] = a
    PROVE  i > 1 /\ i - 1 \in DOMAIN table[s] /\ table[s][i - 1] = b
<1>1. H[a] \in Seq(Tokens) /\ H[a] # NoHash /\ H[b] # NoHash  BY ParentLaws
<1>2. table[s] \in Seq(Blocks)  BY TableFacts
<1>3. i \in Nat \ {0} /\ (i > 1 => i - 1 \in DOMAIN table[s] /\ table[s][i - 1] \in Blocks)
  BY <1>2, PlaceBefore
<1>4. Len(H[a]) = i * BlockSize /\ (i > 1 => H[table[s][i - 1]] = H[b])
  BY <1>1 DEF Chained
<1>5. i > 1
  <2>1. 1 * BlockSize = BlockSize  BY PoolAssumption
  <2> QED BY <1>3, <1>4, <2>1
<1> QED BY <1>1, <1>3, <1>4, <1>5 DEF Unique

\* A release queues a predecessor behind its successors: one that was free
\* already is in the queue, and one that is released now was held by the same
\* sequence, one place further on.
LEMMA ReleaseKeepsOrder ==
    ASSUME IndInv, NEW s \in Seqs, NEW H, H \in [Blocks -> Seq(Tokens)],
           Ordered(H, table, ref, free), FreeBlocks(s, H)
    PROVE  Ordered(H, table', ref', free')
<1> USE DEF IndInv
<1> DEFINE T    == table[s]
           rev  == Reverse(T)
           last == LastHeldBy(s)
           back == Retain(rev, last)
<1>1. /\ ref' = [b \in Blocks |-> IF b \in Range(T) THEN ref[b] - 1 ELSE ref[b]]
      /\ free' = free \o back
      /\ table' = [table EXCEPT ![s] = <<>>]
  BY DEF FreeBlocks, ReleaseOrder
<1>2. /\ T \in Seq(Blocks) /\ Range(T) \subseteq Blocks /\ IsInjective(T)
      /\ free \in Seq(Blocks) /\ ref \in [Blocks -> Nat] /\ table \in [Seqs -> Seq(Blocks)]
      /\ Range(free) = {b \in Blocks : ref[b] = 0}
  BY TableFacts DEF TypeOK, FreeIffUnreferenced, TableInjective
<1>3. rev \in Seq(Blocks) /\ Range(rev) = Range(T) /\ back \in Seq(Blocks)
      /\ Range(back) = Range(T) \cap last
  <2>1. rev \in Seq(Blocks) /\ Range(rev) = Range(T)  BY <1>2, ReverseLaws
  <2> HIDE DEF rev
  <2>2. back \in Seq(Blocks) /\ Range(back) = Range(rev) \cap last  BY <2>1, RetainLaws
  <2> QED BY <2>1, <2>2
<1>4. last = {b \in Range(T) : ref[b] = 1}  BY DEF LastHeldBy
<1> HIDE DEF T, rev, last, back
<1>5. Linked(H) /\ Unique(H)  BY DEF Ordered
<1>6. Chained(H, table')
  <2>1. DOMAIN <<>> = {}  OBVIOUS
  <2>2. \A t \in Seqs : table'[t] = table[t] \/ table'[t] = <<>>  BY <1>1, <1>2
  <2>3. Chained(H, table)  BY DEF Ordered
  <2> QED BY <2>1, <2>2, <2>3 DEF Chained
<1>7. ASSUME NEW a \in Blocks, NEW b \in Blocks,
             Len(H[a]) > BlockSize, H[b] = Parent(H[a]), ref'[b] = 0
      PROVE  Before(free', a, b)
  <2>1. CASE b \notin Range(T)
    <3>1. ref[b] = 0  BY <1>1, <1>7, <2>1
    <3>2. Before(free, a, b)  BY <1>7, <3>1 DEF Ordered, Later
    <3> QED BY <1>1, <1>2, <1>3, <3>2, BeforeConcat
  <2>2. CASE b \in Range(T)
    <3>1. ref[b] = 1
      <4>1. ref[b] - 1 = 0 /\ ref[b] \in Nat  BY <1>1, <1>2, <1>7, <2>2
      <4> QED BY <4>1
    <3>2. b \in last  BY <1>4, <2>2, <3>1
    <3>3. CASE ref[a] = 0
      <4>1. a \in Range(free) /\ b \in Range(back)  BY <1>2, <1>3, <2>2, <3>2, <3>3
      <4> QED BY <1>1, <1>2, <1>3, <4>1, BeforeConcat
    <3>4. CASE ref[a] # 0
      <4>1. \A t \in Seqs : \A i \in DOMAIN table[t] :
               table[t][i] = a => /\ i \in Nat /\ i > 1 /\ i - 1 \in DOMAIN table[t]
                                  /\ table[t][i - 1] = b /\ t = s
        <5> TAKE t \in Seqs
        <5> TAKE i \in DOMAIN table[t]
        <5> HAVE table[t][i] = a
        <5>1. /\ i > 1 /\ i - 1 \in DOMAIN table[t]
              /\ table[t][i - 1] = b
          BY <1>7, ParentHeld DEF Ordered
        <5>2. b \in Range(table[t]) /\ b \in Range(table[s])
          BY <2>2, <5>1 DEF Range, T
        <5>3. t = s  BY <3>1, <5>2, HolderCounts
        <5>4. i \in Nat
          <6>1. table[t] \in Seq(Blocks)  BY <1>2
          <6> QED BY <6>1, PlaceBefore
        <5> QED BY <5>1, <5>3, <5>4
      <4>2. Holders(a) \subseteq {s}
        BY <4>1 DEF Holders, Range
      <4>3. ref[a] = 1
        <5>1. ref[a] = Cardinality(Holders(a)) /\ ref[a] # 0
          BY <3>4 DEF RefCountExact
        <5>2. Holders(a) # {}  BY <5>1, FS_EmptySet
        <5>3. Holders(a) = {s}  BY <4>2, <5>2
        <5> QED BY <5>1, <5>3, FS_Singleton
      <4>4. s \in Holders(a)
        <5>1. ref[a] = Cardinality(Holders(a)) /\ ref[a] # 0
          BY <3>4 DEF RefCountExact
        <5>2. Holders(a) # {}  BY <5>1, FS_EmptySet
        <5> QED BY <4>2, <5>2
      <4>5. PICK i \in DOMAIN T : T[i] = a
        BY <4>4 DEF Holders, Range, T
      <4>6. i - 1 \in DOMAIN T /\ T[i - 1] = b /\ i - 1 < i
        BY <4>1, <4>5 DEF T
      <4>7. Before(rev, a, b)
        <5>1. Before(Reverse(T), T[i], T[i - 1])  BY <1>2, <4>6, BeforeReverse
        <5> QED BY <4>5, <4>6, <5>1 DEF rev
      <4>8. a \in last
        <5>1. a \in Range(T)  BY <4>5 DEF Range
        <5> QED BY <1>4, <4>3, <5>1
      <4>9. Before(back, a, b)
        <5>1. Before(Retain(rev, last), a, b)  BY <1>3, <3>2, <4>7, <4>8, BeforeRetain
        <5> QED BY <5>1 DEF back
      <4> QED BY <1>1, <1>2, <1>3, <4>9, BeforeConcat
    <3> QED BY <3>3, <3>4
  <2> QED BY <2>1, <2>2
<1> QED BY <1>5, <1>6, <1>7 DEF Ordered, Later

-----------------------------------------------------------------------------
(* Registration of full blocks.                                              *)

\* A block that cache_full_blocks registers follows a hashed one.
LEMMA NewlyCachedFollows ==
    ASSUME IndInv, NEW s \in Seqs, num_new[s] > 0,
           CacheFullBlocks(s, computed[s] + num_new[s]),
           NEW i \in DOMAIN table[s], i > 1,
           hash[table[s][i]] = NoHash,
           HashAfterCaching(s, computed[s] + num_new[s])[table[s][i]] # NoHash
    PROVE  HashAfterCaching(s, computed[s] + num_new[s])[table[s][i - 1]] # NoHash
<1> USE DEF IndInv
<1> DEFINE after == computed[s] + num_new[s]
           first == computed[s] \div BlockSize
           H     == HashAfterCaching(s, after)
           new   == NewlyCached(s, after)
           T     == table[s]
<1>1. /\ computed[s] \in Nat /\ num_new[s] \in Nat /\ after \in Nat /\ after <= NumTokens(s)
      /\ NumTokens(s) \in Nat
  BY ComputedWithin
<1>2. first \in Nat /\ after \div BlockSize \in Nat  BY <1>1, DivBounds
<1>3. T \in Seq(Blocks) /\ IsInjective(T)  BY TableFacts DEF TableInjective
<1>4. i \in Nat /\ T[i] \in Blocks /\ i - 1 \in DOMAIN T /\ T[i - 1] \in Blocks
  BY <1>3, PlaceBefore
<1>5. H = [b \in Blocks |-> IF \E j \in new : T[j] = b
                            THEN ChainHash(s, CHOOSE j \in new : T[j] = b)
                            ELSE hash[b]]
  BY DEF HashAfterCaching
<1>6. /\ \A j \in new : /\ j \in Nat /\ j > first /\ j <= after \div BlockSize /\ ~ChainBroken(s)
                        /\ \A k \in (first + 1)..j : k \in new
  <2> SUFFICES ASSUME NEW j \in new
               PROVE  /\ j \in Nat /\ j > first /\ j <= after \div BlockSize /\ ~ChainBroken(s)
                      /\ \A k \in (first + 1)..j : k \in new
    OBVIOUS
  <2>1. /\ EnablePrefixCaching /\ ~ChainBroken(s)
        /\ j \in (first + 1)..(after \div BlockSize)
        /\ \A k \in (first + 1)..j : ChainHash(s, k) \notin DOMAIN cached
    BY DEF NewlyCached
  <2>2. j \in Nat /\ j > first /\ j <= after \div BlockSize  BY <1>2, <2>1
  <2>3. \A k \in (first + 1)..j : /\ k \in (first + 1)..(after \div BlockSize)
                                  /\ \A l \in (first + 1)..k : l \in (first + 1)..j
    BY <1>2, <2>2
  <2>4. \A k \in (first + 1)..j : k \in new
    BY <2>1, <2>3 DEF NewlyCached
  <2> QED BY <2>1, <2>2, <2>4
<1>7. \A j \in new : j * BlockSize <= NumTokens(s)
  <2> TAKE j \in new
  <2>1. j \in Nat /\ j <= after \div BlockSize  BY <1>6
  <2>2. j * BlockSize <= after /\ j * BlockSize \in Int  BY <1>1, <2>1, FullBlocks, MultiplesOrdered
  <2> QED BY <1>1, <2>2
<1>8. \A j \in new : ChainHash(s, j) # NoHash
  <2> TAKE j \in new
  <2>1. j \in Nat /\ j > computed[s] \div BlockSize /\ ~ChainBroken(s)  BY <1>6
  <2>2. j * BlockSize <= NumTokens(s)  BY <1>7
  <2> HIDE DEF new
  <2> QED BY <2>1, <2>2, ChainHashIsPrefix
<1>9. i \in DOMAIN T /\ hash[T[i]] = NoHash /\ H[T[i]] # NoHash  OBVIOUS
<1>10. first > 0 /\ ~ChainBroken(s) => hash[T[first]] # NoHash  BY DEF ChainBroken
<1> HIDE DEF new, H, T, after, first
<1>11. PICK j \in new : T[j] = T[i]  BY <1>4, <1>5, <1>9
<1>12. j \in DOMAIN T => j = i  BY <1>3, <1>9, <1>11 DEF IsInjective
<1>13. j \in DOMAIN T
  <2>1. j \in Nat /\ j > first /\ j <= after \div BlockSize  BY <1>6
  <2>2. Len(T) = NumBlocksForTokens(after)  BY DEF TableExact, T, after
  <2>3. after \div BlockSize <= NumBlocksForTokens(after)  BY <1>1, CeilAgainstFloor
  <2>4. DOMAIN T = 1..Len(T) /\ Len(T) \in Nat  BY <1>3, LenProperties
  <2>5. j >= 1 /\ j <= Len(T)  BY <1>2, <2>1, <2>2, <2>3, <2>4
  <2> QED BY <2>1, <2>4, <2>5
<1>14. j = i  BY <1>12, <1>13
<1>15. CASE i - 1 = first
  <2>1. first > 0 /\ ~ChainBroken(s)  BY <1>4, <1>6, <1>11, <1>15
  <2>2. hash[T[i - 1]] # NoHash  BY <1>10, <1>15, <2>1
  <2>3. ASSUME \E k \in new : T[k] = T[i - 1]
        PROVE  H[T[i - 1]] # NoHash
    <3>1. (CHOOSE k \in new : T[k] = T[i - 1]) \in new  BY <2>3
    <3> QED BY <1>4, <1>5, <1>8, <2>3, <3>1
  <2>4. ASSUME ~\E k \in new : T[k] = T[i - 1]
        PROVE  H[T[i - 1]] # NoHash
    BY <1>4, <1>5, <2>2, <2>4
  <2>5. H[T[i - 1]] # NoHash  BY <2>3, <2>4
  <2> QED BY <2>5 DEF H, T, after
<1>16. CASE i - 1 # first
  <2>1. i - 1 \in (first + 1)..i
    <3>1. i > first /\ i \in Nat  BY <1>6, <1>14
    <3> QED BY <1>2, <1>16, <3>1
  <2>2. i - 1 \in new  BY <1>6, <1>14, <2>1
  <2>3. (CHOOSE k \in new : T[k] = T[i - 1]) \in new  BY <2>2
  <2>4. H[T[i - 1]] # NoHash  BY <1>4, <1>5, <1>8, <2>2, <2>3
  <2> QED BY <2>4 DEF H, T, after
<1> QED BY <1>15, <1>16

\* Registration keeps the order: what gets a hash is a run of blocks of one
\* table, each after its predecessor, and all of them in use.
LEMMA CachingKeepsOrder ==
    ASSUME IndInv, NEW s \in Seqs, num_new[s] > 0,
           CacheFullBlocks(s, computed[s] + num_new[s]),
           Ordered(hash, table, ref, free)
    PROVE  /\ HashAfterCaching(s, computed[s] + num_new[s]) \in [Blocks -> Seq(Tokens)]
           /\ Ordered(HashAfterCaching(s, computed[s] + num_new[s]), table, ref, free)
<1> USE DEF IndInv
<1> DEFINE after == computed[s] + num_new[s]
           H     == HashAfterCaching(s, after)
<1>1. /\ H \in [Blocks -> Seq(Tokens)]
      /\ \A b \in Blocks : H[b] # NoHash => H[b] \in DOMAIN cached' /\ cached'[H[b]] = b
      /\ \A b \in Blocks : H[b] = hash[b] \/
            \E i \in DOMAIN table[s] : /\ table[s][i] = b /\ H[b] = BlockPrefix(s, i)
                                       /\ i > computed[s] \div BlockSize
                                       /\ i * BlockSize <= after
  BY CachingEffect
<1>2. \A t \in Seqs : \A i \in DOMAIN table[t] :
         H[table[t][i]] # NoHash =>
            /\ H[table[t][i]] = BlockPrefix(t, i)
            /\ i * BlockSize <= IF t = s THEN after ELSE computed[t]
  BY CachingKeepsPlaces
<1>3. \A i \in DOMAIN table[s] :
         i > 1 /\ hash[table[s][i]] = NoHash /\ H[table[s][i]] # NoHash
            => H[table[s][i - 1]] # NoHash
  BY NewlyCachedFollows
<1>4. \A t \in Seqs : /\ table[t] \in Seq(Blocks)
                      /\ computed[t] \in Nat /\ num_new[t] \in Nat /\ NumTokens(t) \in Nat
                      /\ computed[t] <= NumTokens(t) /\ computed[t] + num_new[t] <= NumTokens(t)
  BY TableFacts, ComputedWithin
<1>5. hash \in [Blocks -> Seq(Tokens)]  BY DEF TypeOK
<1> HIDE DEF H
\* A new hash is on a block of s that had none; a hash is never changed.
<1>6. ASSUME NEW b \in Blocks, H[b] # hash[b]
      PROVE  /\ hash[b] = NoHash /\ H[b] # NoHash /\ b \in Range(table[s])
             /\ \A t \in Seqs : b \in Range(table[t]) => t = s
  <2>1. PICK i \in DOMAIN table[s] : /\ table[s][i] = b /\ H[b] = BlockPrefix(s, i)
                                     /\ i > computed[s] \div BlockSize
                                     /\ i * BlockSize <= after
    BY <1>1, <1>6
  <2>2. hash[b] = NoHash  BY <2>1, UnfilledUnhashed
  <2>3. b \in Range(table[s])  BY <2>1 DEF Range
  <2>4. \A t \in Seqs : b \in Range(table[t]) => t = s
    BY <2>1 DEF FillsOwnBlocks, Scheduled
  <2> QED BY <1>6, <2>2, <2>3, <2>4
<1>7. ASSUME NEW t \in Seqs, NEW i \in DOMAIN table[t], H[table[t][i]] # NoHash
      PROVE  /\ Len(H[table[t][i]]) = i * BlockSize
             /\ i > 1 => H[table[t][i - 1]] = Parent(H[table[t][i]])
  <2>1. i \in Nat \ {0} /\ table[t][i] \in Blocks /\ table[t][i] \in Range(table[t])
        /\ (i > 1 => i - 1 \in DOMAIN table[t] /\ table[t][i - 1] \in Blocks)
    BY <1>4, PlaceBefore
  <2>2. H[table[t][i]] = BlockPrefix(t, i) /\ i * BlockSize <= IF t = s THEN after ELSE computed[t]
    BY <1>2, <1>7
  <2>3. i * BlockSize <= NumTokens(t)
    <3>1. i * BlockSize \in Int  BY <2>1, MultiplesOrdered
    <3> QED BY <1>4, <2>2, <3>1
  <2>4. /\ Len(BlockPrefix(t, i)) = i * BlockSize
        /\ i > 1 => Parent(BlockPrefix(t, i)) = BlockPrefix(t, i - 1)
    BY <2>1, <2>3, PrefixParent
  <2>5. ASSUME i > 1
        PROVE  H[table[t][i - 1]] # NoHash
    <3>1. CASE hash[table[t][i]] # NoHash
      <4>1. hash[table[t][i - 1]] # NoHash
        <5>1. HashedFromStart  BY OrderedForm DEF EvictionOrder
        <5> QED BY <2>5, <3>1, <5>1 DEF HashedFromStart
      <4> QED BY <1>6, <2>1, <2>5, <4>1
    <3>2. CASE hash[table[t][i]] = NoHash
      <4>1. t = s  BY <1>6, <1>7, <2>1, <3>2
      <4> QED BY <1>3, <1>7, <2>5, <3>2, <4>1
    <3> QED BY <3>1, <3>2
  <2>6. ASSUME i > 1
        PROVE  H[table[t][i - 1]] = Parent(H[table[t][i]])
    <3>1. H[table[t][i - 1]] = BlockPrefix(t, i - 1)  BY <1>2, <2>1, <2>5, <2>6
    <3> QED BY <2>2, <2>4, <2>6, <3>1
  <2> QED BY <2>2, <2>4, <2>6
<1>8. Chained(H, table)  BY <1>7 DEF Chained
<1>9. Unique(H)
  <2>1. ASSUME NEW a \in Blocks, NEW b \in Blocks, H[a] = H[b], H[a] # NoHash
        PROVE  a = b
    <3>1. cached'[H[a]] = a /\ cached'[H[b]] = b  BY <1>1, <2>1
    <3> QED BY <2>1, <3>1
  <2> QED BY <2>1 DEF Unique
\* A new entry's predecessor is in the table of s too, just before it.
<1>10. ASSUME NEW a \in Blocks, Len(H[a]) > BlockSize, H[a] # hash[a]
       PROVE  \E b \in Range(table[s]) : b \in Blocks /\ H[b] = Parent(H[a])
  <2>1. PICK i \in DOMAIN table[s] : table[s][i] = a  BY <1>6, <1>10 DEF Range
  <2>2. i \in Nat \ {0} /\ (i > 1 => table[s][i - 1] \in Blocks /\ table[s][i - 1] \in Range(table[s]))
    BY <1>4, PlaceBefore
  <2>3. H[a] # NoHash  BY <1>6, <1>10
  <2>4. Len(H[a]) = i * BlockSize /\ (i > 1 => H[table[s][i - 1]] = Parent(H[a]))
    BY <1>7, <2>1, <2>3
  <2>5. i > 1
    <3>1. 1 * BlockSize = BlockSize  BY PoolAssumption
    <3>2. i # 1  BY <1>10, <2>4, <3>1, PoolAssumption
    <3> QED BY <2>2, <3>2
  <2> QED BY <2>2, <2>4, <2>5
<1>11. \A a \in Blocks : Len(H[a]) > BlockSize => Parent(H[a]) # NoHash
  BY <1>1, ParentLaws
<1>12. Linked(H)
  <2>1. ASSUME NEW a \in Blocks, Len(H[a]) > BlockSize
        PROVE  \E b \in Blocks : H[b] = Parent(H[a])
    <3>1. CASE H[a] = hash[a]
      <4>1. PICK b \in Blocks : hash[b] = Parent(hash[a])
        BY <2>1, <3>1 DEF Ordered, Linked
      <4>2. hash[b] # NoHash  BY <1>11, <2>1, <3>1, <4>1
      <4>3. H[b] = hash[b]  BY <1>6, <4>2
      <4> QED BY <3>1, <4>1, <4>3
    <3>2. CASE H[a] # hash[a]  BY <1>10, <2>1, <3>2
    <3> QED BY <3>1, <3>2
  <2> QED BY <2>1 DEF Linked
<1>13. Later(H, ref, free)
  <2>1. ASSUME NEW a \in Blocks, NEW b \in Blocks,
               Len(H[a]) > BlockSize, H[b] = Parent(H[a]), ref[b] = 0
        PROVE  Before(free, a, b)
    <3>1. b \notin Range(table[s])
      <4>1. b \in Range(table[s]) => ref[b] > 0  BY HolderCounts
      <4> QED BY <2>1, <4>1
    <3>2. H[b] = hash[b]  BY <1>6, <3>1
    <3>3. H[a] = hash[a]
      <4>1. SUFFICES ASSUME H[a] # hash[a]
                     PROVE  FALSE
        OBVIOUS
      <4>2. PICK c \in Range(table[s]) : c \in Blocks /\ H[c] = Parent(H[a])  BY <1>10, <2>1, <4>1
      <4>3. H[c] = H[b] /\ H[b] # NoHash  BY <1>11, <2>1, <4>2
      <4>4. c = b  BY <1>9, <4>2, <4>3 DEF Unique
      <4> QED BY <3>1, <4>2, <4>4
    <3> QED BY <2>1, <3>2, <3>3 DEF Ordered, Later
  <2> QED BY <2>1 DEF Later
<1>14. Ordered(H, table, ref, free)  BY <1>8, <1>9, <1>12, <1>13 DEF Ordered
<1> QED BY <1>1, <1>14 DEF H

-----------------------------------------------------------------------------
(* Allocation.                                                               *)

\* A run of cache hits contains the predecessors of its blocks.
LEMMA HitsHoldParents ==
    ASSUME IndInv, NEW s \in Seqs, NEW hits \in Seq(Blocks),
           \A i \in DOMAIN hits : /\ hash[hits[i]] = BlockPrefix(s, i)
                                  /\ hash[hits[i]] # NoHash /\ i * BlockSize <= NumTokens(s),
           NEW i \in DOMAIN hits
    PROVE  /\ Len(hash[hits[i]]) = i * BlockSize
           /\ i > 1 => hash[hits[i - 1]] = Parent(hash[hits[i]])
           /\ \A b \in Blocks :
                 Len(hash[hits[i]]) > BlockSize /\ hash[b] = Parent(hash[hits[i]])
                    => b \in Range(hits)
<1> USE DEF IndInv
<1>1. i \in Nat \ {0} /\ (i > 1 => /\ i - 1 \in DOMAIN hits /\ hits[i - 1] \in Blocks
                                   /\ hits[i - 1] \in Range(hits))
  BY PlaceBefore
<1>2. /\ Len(BlockPrefix(s, i)) = i * BlockSize
      /\ i > 1 => Parent(BlockPrefix(s, i)) = BlockPrefix(s, i - 1)
      /\ i > 1 <=> i * BlockSize > BlockSize
  BY <1>1, PrefixParent
<1>3. i > 1 => hash[hits[i - 1]] = Parent(hash[hits[i]]) /\ hash[hits[i - 1]] # NoHash
  BY <1>1, <1>2
<1>4. Unique(hash)
  <2>1. \A b \in Blocks : hash[b] # NoHash => cached[hash[b]] = b  BY DEF CacheConsistent
  <2> QED BY <2>1 DEF Unique
<1>5. ASSUME NEW b \in Blocks, Len(hash[hits[i]]) > BlockSize, hash[b] = Parent(hash[hits[i]])
      PROVE  b \in Range(hits)
  <2>1. i > 1  BY <1>2, <1>5
  <2>2. hits[i - 1] = b  BY <1>1, <1>3, <1>4, <1>5, <2>1 DEF Unique
  <2> QED BY <1>1, <2>1, <2>2
<1> QED BY <1>2, <1>3, <1>5

\* An allocation leaves the blocks it does not take in their order, and it takes
\* none before one it leaves.
LEMMA TakenFromHead ==
    ASSUME IndInv, NEW s \in Seqs, NEW n \in Nat, NEW hits \in Seq(Blocks), IsInjective(hits),
           AllocateSlots(s, n, hits), NEW a, NEW b, Before(free, a, b),
           a \notin Range(hits), b \notin Range(hits), a \in Range(free')
    PROVE  Before(free', a, b)
<1> USE DEF IndInv
<1> DEFINE queue == AvailableQueue(hits)
           taken == IF NeedsCopy(s, n, hits) THEN NumBlocksNeeded(s, n, hits) + 1
                    ELSE NumBlocksNeeded(s, n, hits)
           K     == Range(free) \ Range(hits)
<1>1. free \in Seq(Blocks) /\ IsInjective(free)  BY DEF TypeOK, FreeIffUnreferenced
<1>2. queue = Retain(free, K)  BY DEF AvailableQueue, Without
<1>3. queue \in Seq(Blocks) /\ IsInjective(queue)  BY <1>1, <1>2, RetainLaws
<1>4. taken \in Nat
  <2>1. NumBlocksNeeded(s, n, hits) \in Nat  BY NeededType
  <2> QED BY <2>1
<1>5. taken <= Len(queue) /\ free' = SubSeq(queue, taken + 1, Len(queue))
  BY DEF AllocateSlots
<1>6. a \in K /\ b \in K  BY BeforeMembers
<1> HIDE DEF queue, taken, K
<1>7. taken \in 0..Len(queue)
  <2>1. Len(queue) \in Nat  BY <1>3, LenProperties
  <2> QED BY <1>4, <1>5, <2>1
<1>8. Before(queue, a, b)  BY <1>1, <1>2, <1>6, BeforeRetain
<1> DEFINE rest == SubSeq(queue, taken + 1, Len(queue))
<1>9. a \in Range(rest)  BY <1>5
<1>10. Before(rest, a, b)  BY <1>3, <1>7, <1>8, <1>9, BeforeCut
<1>11. free' = rest  BY <1>5
<1> HIDE DEF rest
<1> QED BY <1>10, <1>11 DEF Before

\* An allocation keeps the order.  What it evicts comes from the head of the
\* queue, successors first; what it adds to a table has lost its hash.
LEMMA AllocationKeepsOrder ==
    ASSUME IndInv, NEW s \in Seqs, NEW n \in Nat, NEW hits \in Seq(Blocks), IsInjective(hits),
           hits = <<>> \/ (table[s] = <<>> /\ computed[s] = 0),
           \A i \in DOMAIN hits : /\ hash[hits[i]] = BlockPrefix(s, i)
                                  /\ hash[hits[i]] # NoHash /\ i * BlockSize <= NumTokens(s),
           AllocateSlots(s, n, hits),
           Ordered(hash, table, ref, free)
    PROVE  Ordered(hash', table', ref', free')
<1> USE DEF IndInv
<1> DEFINE held == table[s] \o hits
           copy == NeedsCopy(s, n, hits)
           w    == WriteIndex(s, hits)
<1>1. PICK P \in SUBSET Blocks, C \in SUBSET Blocks, T \in Seq(Blocks) :
         AllocationResult(s, n, hits, P, C, T)
  BY AllocationEffect
<1>2. /\ \A b \in P : ref[b] = 0 /\ b \notin Range(hits)
      /\ \A b \in C : b \in Range(table[s]) /\ ref[b] > 1 /\ b \notin Range(hits)
      /\ \A i \in DOMAIN T : T[i] \in P \/ (i \in DOMAIN held /\ T[i] = held[i])
      /\ \A i \in DOMAIN held : i \in DOMAIN T /\ (~(copy /\ i = w) => T[i] = held[i])
      /\ copy => w \in DOMAIN table[s]
      /\ table' = [table EXCEPT ![s] = T]
      /\ ref' = RefAfterAllocation(P, Range(hits), C)
      /\ Range(free') = (Range(free) \ Range(hits)) \ P
      /\ Evict(P)
  <2>1. /\ \A b \in P : ref[b] = 0 /\ b \notin Range(hits)
        /\ \A b \in C : b \in Range(table[s]) /\ ref[b] > 1 /\ b \notin Range(hits)
    <3>1. Range(<<>>) = {}  BY DEF Range
    <3> QED BY <1>1, <3>1 DEF AllocationResult
  <2>2. copy => w \in DOMAIN table[s]  BY <1>1 DEF AllocationResult
  <2> QED BY <1>1, <2>1, <2>2 DEF AllocationResult
<1>3. /\ hash' \in [Blocks -> Seq(Tokens)]
      /\ \A b \in Blocks : hash'[b] = IF b \in P THEN NoHash ELSE hash[b]
  BY <1>2, EvictKeepsCache
<1>4. hash \in [Blocks -> Seq(Tokens)] /\ ref \in [Blocks -> Nat] /\ table \in [Seqs -> Seq(Blocks)]
      /\ Range(free) = {b \in Blocks : ref[b] = 0}
  BY DEF TypeOK, FreeIffUnreferenced
<1>5. /\ \A b \in Blocks : ref'[b] = IF b \in P THEN 1
                 ELSE ref[b] + (IF b \in Range(hits) THEN 1 ELSE 0) - (IF b \in C THEN 1 ELSE 0)
  BY <1>2 DEF RefAfterAllocation
<1>6. ASSUME NEW a, NEW b, Before(free, a, b),
             a \notin Range(hits), b \notin Range(hits), a \in Range(free')
      PROVE  Before(free', a, b)
  BY <1>6, TakenFromHead
<1>7. \A i \in DOMAIN hits :
         /\ Len(hash[hits[i]]) = i * BlockSize
         /\ i > 1 => hash[hits[i - 1]] = Parent(hash[hits[i]])
         /\ \A b \in Blocks :
               Len(hash[hits[i]]) > BlockSize /\ hash[b] = Parent(hash[hits[i]])
                  => b \in Range(hits)
  BY HitsHoldParents
\* Whose predecessor is no hit is no hit.
<1>8. ASSUME NEW a \in Blocks, NEW b \in Blocks,
             Len(hash[a]) > BlockSize, hash[b] = Parent(hash[a]), b \notin Range(hits)
      PROVE  a \notin Range(hits)
  BY <1>7, <1>8 DEF Range
<1>9. \A t \in Seqs : \A i \in DOMAIN table[t] : table[t][i] \in Blocks /\ table[t][i] \notin P
  <2> TAKE t \in Seqs
  <2> TAKE i \in DOMAIN table[t]
  <2>1. table[t][i] \in Blocks /\ table[t][i] \in Range(table[t])  BY TableFacts
  <2>2. ref[table[t][i]] > 0  BY <2>1, HolderCounts
  <2> QED BY <1>2, <2>1, <2>2
<1>10. hits = <<>> => held = table[s]
  <2>1. table[s] \o <<>> = table[s]  BY <1>4, ConcatEmptySeq
  <2> QED BY <2>1
<1>11. hits # <<>> => held = hits /\ ~copy
  <2>1. <<>> \o hits = hits  BY ConcatEmptySeq
  <2>2. table[s] = <<>> /\ computed[s] = 0 => held = hits  BY <2>1
  <2>3. DOMAIN <<>> = {}  OBVIOUS
  <2> HIDE DEF held, w, copy
  <2> QED BY <1>2, <2>2, <2>3
<1>12. copy => w > computed[s] \div BlockSize /\ w \in Nat
  <2>1. SUFFICES ASSUME copy PROVE w > computed[s] \div BlockSize /\ w \in Nat
    OBVIOUS
  <2>2. Len(<<>>) = 0 /\ computed[s] \in Nat  BY EmptySeq DEF TypeOK
  <2>3. computed[s] \div BlockSize \in Nat  BY <2>2, DivBounds
  <2>4. Len(<<>>) * BlockSize = 0  BY <2>2, PoolAssumption
  <2>5. FirstWrite(s, <<>>) = computed[s]  BY <2>2, <2>4 DEF FirstWrite
  <2>6. w = computed[s] \div BlockSize + 1  BY <1>11, <2>1, <2>5 DEF WriteIndex
  <2> QED BY <2>3, <2>6
<1> HIDE DEF held, copy, w
<1>13. \A a \in Blocks : Len(hash[a]) > BlockSize => hash[a] # NoHash /\ Parent(hash[a]) # NoHash
  BY <1>4, ParentLaws
<1>14. \A a \in Blocks : Len(hash'[a]) > BlockSize => a \notin P /\ hash'[a] = hash[a]
  <2> TAKE a \in Blocks
  <2> HAVE Len(hash'[a]) > BlockSize
  <2>1. hash'[a] # NoHash  BY <1>3, ParentLaws
  <2> QED BY <1>3, <2>1
\* What is evicted has no successor left.
<1>15. ASSUME NEW a \in Blocks, NEW b \in Blocks,
              Len(hash[a]) > BlockSize, hash[b] = Parent(hash[a]), a \notin P
       PROVE  b \notin P
  <2>1. SUFFICES ASSUME b \in P
                 PROVE  FALSE
    OBVIOUS
  <2>2. ref[b] = 0 /\ b \notin Range(hits)  BY <1>2, <2>1
  <2>3. Before(free, a, b)  BY <1>15, <2>2 DEF Ordered, Later
  <2>4. a \notin Range(hits) /\ a \in Range(free)  BY <1>8, <1>15, <2>2, <2>3, BeforeMembers
  <2>5. Before(free', a, b)  BY <1>2, <1>6, <1>15, <2>2, <2>3, <2>4
  <2>6. b \in Range(free')  BY <2>5, BeforeMembers
  <2> QED BY <1>2, <2>1, <2>6
<1>16. Linked(hash')
  <2>1. ASSUME NEW a \in Blocks, Len(hash'[a]) > BlockSize
        PROVE  \E b \in Blocks : hash'[b] = Parent(hash'[a])
    <3>1. a \notin P /\ hash'[a] = hash[a] /\ Len(hash[a]) > BlockSize  BY <1>14, <2>1
    <3>2. PICK b \in Blocks : hash[b] = Parent(hash[a])  BY <3>1 DEF Ordered, Linked
    <3>3. b \notin P  BY <1>15, <3>1, <3>2
    <3> QED BY <1>3, <3>1, <3>2, <3>3
  <2> QED BY <2>1 DEF Linked
<1>17. Unique(hash')
  <2>1. Unique(hash)  BY DEF Ordered
  <2> QED BY <1>3, <2>1 DEF Unique
<1>18. Later(hash', ref', free')
  <2>1. ASSUME NEW a \in Blocks, NEW b \in Blocks,
               Len(hash'[a]) > BlockSize, hash'[b] = Parent(hash'[a]), ref'[b] = 0
        PROVE  Before(free', a, b)
    <3>1. a \notin P /\ hash'[a] = hash[a] /\ Len(hash[a]) > BlockSize  BY <1>14, <2>1
    <3>2. hash'[b] # NoHash  BY <1>13, <2>1, <3>1
    <3>3. b \notin P /\ hash'[b] = hash[b]  BY <1>3, <3>2
    <3>4. ref[b] = 0 /\ b \notin Range(hits)
      <4>1. ref[b] \in Nat  BY <1>4
      <4>2. ref[b] + (IF b \in Range(hits) THEN 1 ELSE 0) - (IF b \in C THEN 1 ELSE 0) = 0
        BY <1>5, <2>1, <3>3
      <4>3. b \notin C  BY <1>2, <4>1, <4>2
      <4> QED BY <4>1, <4>2, <4>3
    <3>5. Before(free, a, b)  BY <2>1, <3>1, <3>3, <3>4 DEF Ordered, Later
    <3>6. a \notin Range(hits) /\ a \in Range(free)
      BY <1>8, <2>1, <3>1, <3>3, <3>4, <3>5, BeforeMembers
    <3>7. a \in Range(free')  BY <1>2, <3>1, <3>6
    <3> QED BY <1>6, <3>4, <3>5, <3>6, <3>7
  <2> QED BY <2>1 DEF Later
<1>19. ASSUME NEW t \in Seqs, NEW i \in DOMAIN table[t], hash[table[t][i]] # NoHash
       PROVE  /\ Len(hash[table[t][i]]) = i * BlockSize
              /\ i > 1 => hash[table[t][i - 1]] = Parent(hash[table[t][i]])
  BY <1>19 DEF Ordered, Chained
<1>20. ASSUME NEW t \in Seqs, NEW i \in DOMAIN table'[t], hash'[table'[t][i]] # NoHash
       PROVE  /\ Len(hash'[table'[t][i]]) = i * BlockSize
              /\ i > 1 => hash'[table'[t][i - 1]] = Parent(hash'[table'[t][i]])
  <2>1. CASE t # s
    <3>1. table'[t] = table[t]  BY <1>2, <1>4, <2>1
    <3>2. table[t][i] \in Blocks /\ table[t][i] \notin P  BY <1>9, <1>20, <3>1
    <3>3. hash'[table[t][i]] = hash[table[t][i]]  BY <1>3, <3>2
    <3>4. i > 1 => hash'[table[t][i - 1]] = hash[table[t][i - 1]]
      <4>1. i > 1 => i - 1 \in DOMAIN table[t]  BY <1>4, <1>20, <3>1, PlaceBefore
      <4> QED BY <1>3, <1>9, <4>1
    <3> QED BY <1>19, <1>20, <3>1, <3>3, <3>4
  <2>2. CASE t = s
    <3>1. table'[t] = T /\ i \in DOMAIN T  BY <1>2, <1>4, <1>20, <2>2
    <3>2. T[i] \in Blocks /\ i \in Nat /\ (i > 1 => i - 1 \in DOMAIN T /\ T[i - 1] \in Blocks)
      BY <3>1, PlaceBefore
    <3>3. T[i] \notin P  BY <1>3, <1>20, <3>1, <3>2
    <3>4. i \in DOMAIN held /\ T[i] = held[i]  BY <1>2, <3>1, <3>3
    <3>5. hash'[T[i]] = hash[held[i]] /\ hash[held[i]] # NoHash  BY <1>3, <1>20, <3>1, <3>2, <3>3, <3>4
    <3>6. held \in Seq(Blocks)  BY <1>4, <1>10, <1>11
    <3>7. i > 1 => i - 1 \in DOMAIN held /\ held[i - 1] \in Blocks /\ held[i - 1] \in Range(held)
      BY <3>4, <3>6, PlaceBefore
    <3>8. /\ Len(hash[held[i]]) = i * BlockSize
          /\ i > 1 => hash[held[i - 1]] = Parent(hash[held[i]])
      <4>1. CASE hits = <<>>  BY <1>10, <1>19, <3>4, <3>5, <4>1
      <4>2. CASE hits # <<>>  BY <1>7, <1>11, <3>4, <4>2
      <4> QED BY <4>1, <4>2
    <3>9. ASSUME i > 1
          PROVE  T[i - 1] = held[i - 1]
      <4>1. SUFFICES ASSUME copy, i - 1 = w
                     PROVE  FALSE
        BY <1>2, <3>7, <3>9
      <4>2. held = table[s]  BY <1>10, <1>11, <4>1
      <4>3. i > computed[s] \div BlockSize
        <5>1. computed[s] \div BlockSize \in Nat
          <6>1. computed[s] \in Nat  BY DEF TypeOK
          <6> QED BY <6>1, DivBounds
        <5> QED BY <1>12, <3>2, <4>1, <5>1
      <4>4. hash[table[s][i]] = NoHash  BY <3>4, <4>2, <4>3, UnfilledUnhashed
      <4> QED BY <3>5, <4>2, <4>4
    <3>10. ASSUME i > 1
           PROVE  held[i - 1] \notin P
      <4>1. CASE hits = <<>>  BY <1>9, <1>10, <3>7, <3>10, <4>1
      <4>2. CASE hits # <<>>  BY <1>2, <1>11, <3>7, <3>10, <4>2
      <4> QED BY <4>1, <4>2
    <3>11. i > 1 => hash'[T[i - 1]] = hash[held[i - 1]]  BY <1>3, <3>7, <3>9, <3>10
    <3> QED BY <3>1, <3>5, <3>8, <3>11
  <2> QED BY <2>1, <2>2
<1>21. Chained(hash', table')  BY <1>20 DEF Chained
<1> QED BY <1>16, <1>17, <1>18, <1>21 DEF Ordered

\* A rolled back allocation has evicted every free block: what is still hashed
\* is in a table, after its predecessor.
LEMMA RollBackKeepsOrder ==
    ASSUME IndInv, NEW s \in Seqs, RollBack(s), Ordered(hash, table, ref, free)
    PROVE  Ordered(hash', table', ref', free')
<1> USE DEF IndInv
<1>1. PICK n \in 1..MaxModelLen : RollBackBlocks(s, n)  BY DEF RollBack
<1> DEFINE P == Range(AvailableQueue(<<>>))
<1>2. Evict(P) /\ UNCHANGED <<table, ref>>
  BY <1>1, RollBackUndoes DEF RollBackBlocks, AllocateRollsBack
<1>3. P = {b \in Blocks : ref[b] = 0}
  <2>1. free \in Seq(Blocks) /\ Range(free) = {b \in Blocks : ref[b] = 0}
    BY DEF TypeOK, FreeIffUnreferenced
  <2>2. Range(<<>>) = {}  BY DEF Range
  <2> QED BY <2>1, <2>2, WithoutLaws DEF AvailableQueue
<1> HIDE DEF P
<1>4. /\ hash' \in [Blocks -> Seq(Tokens)]
      /\ \A b \in Blocks : hash'[b] = IF b \in P THEN NoHash ELSE hash[b]
  <2>1. P \in SUBSET Blocks  BY <1>3
  <2> QED BY <1>2, <2>1, EvictKeepsCache
<1>5. \A t \in Seqs : \A i \in DOMAIN table[t] : table[t][i] \in Blocks /\ table[t][i] \notin P
  <2> TAKE t \in Seqs
  <2> TAKE i \in DOMAIN table[t]
  <2>1. table[t][i] \in Blocks /\ table[t][i] \in Range(table[t])  BY TableFacts
  <2>2. ref[table[t][i]] > 0  BY <2>1, HolderCounts
  <2> QED BY <1>3, <2>1, <2>2
<1>6. \A t \in Seqs : \A i \in DOMAIN table[t] :
         hash'[table[t][i]] = hash[table[t][i]]
  BY <1>4, <1>5
<1>7. ASSUME NEW t \in Seqs, NEW i \in DOMAIN table[t]
      PROVE  /\ i \in Nat /\ (i > 1 => i - 1 \in DOMAIN table[t])
             /\ i > 1 => hash'[table[t][i - 1]] = hash[table[t][i - 1]]
  <2>1. table[t] \in Seq(Blocks)  BY TableFacts
  <2>2. i \in Nat /\ (i > 1 => i - 1 \in DOMAIN table[t])  BY <2>1, PlaceBefore
  <2> QED BY <1>6, <2>2
<1>8. Chained(hash', table')
  <2>1. ASSUME NEW t \in Seqs, NEW i \in DOMAIN table[t], hash'[table[t][i]] # NoHash
        PROVE  /\ Len(hash'[table[t][i]]) = i * BlockSize
               /\ i > 1 => hash'[table[t][i - 1]] = Parent(hash'[table[t][i]])
    <3>1. hash[table[t][i]] # NoHash /\ hash'[table[t][i]] = hash[table[t][i]]  BY <1>6, <2>1
    <3>2. /\ Len(hash[table[t][i]]) = i * BlockSize
          /\ i > 1 => hash[table[t][i - 1]] = Parent(hash[table[t][i]])
      BY <3>1 DEF Ordered, Chained
    <3> QED BY <1>7, <3>1, <3>2
  <2>2. Chained(hash', table)  BY <2>1 DEF Chained
  <2> QED BY <1>2, <2>2
<1>9. Unique(hash')
  <2>1. Unique(hash)  BY DEF Ordered
  <2> QED BY <1>4, <2>1 DEF Unique
<1>10. \A a \in Blocks : Len(hash'[a]) > BlockSize =>
          /\ hash'[a] = hash[a] /\ a \notin P /\ Len(hash[a]) > BlockSize
          /\ Parent(hash'[a]) # NoHash
  <2> TAKE a \in Blocks
  <2> HAVE Len(hash'[a]) > BlockSize
  <2>1. hash'[a] # NoHash /\ Parent(hash'[a]) # NoHash  BY <1>4, ParentLaws
  <2>2. hash'[a] = hash[a] /\ a \notin P  BY <1>4, <2>1
  <2> QED BY <2>1, <2>2
<1>11. Linked(hash')
  <2>1. ASSUME NEW a \in Blocks, Len(hash'[a]) > BlockSize
        PROVE  \E b \in Blocks : hash'[b] = Parent(hash'[a])
    <3>1. hash'[a] = hash[a] /\ Len(hash[a]) > BlockSize /\ ref[a] # 0  BY <1>3, <1>10, <2>1
    <3>2. PICK b \in Blocks : hash[b] = Parent(hash[a])  BY <3>1 DEF Ordered, Linked
    <3>3. Holders(a) # {}  BY <3>1, FS_EmptySet DEF RefCountExact
    <3>4. PICK t \in Seqs : a \in Range(table[t])  BY <3>3 DEF Holders
    <3>5. PICK i \in DOMAIN table[t] : table[t][i] = a  BY <3>4 DEF Range
    <3>6. i > 1 /\ i - 1 \in DOMAIN table[t] /\ table[t][i - 1] = b
      <4>1. hash \in [Blocks -> Seq(Tokens)]  BY DEF TypeOK
      <4>2. Chained(hash, table) /\ Unique(hash)  BY DEF Ordered
      <4>3. TypeOK  OBVIOUS
      <4>4. Len(hash[a]) > BlockSize /\ hash[b] = Parent(hash[a])  BY <3>1, <3>2
      <4> HIDE DEF IndInv
      <4> QED BY <2>1, <3>2, <3>4, <3>5, <4>1, <4>2, <4>3, <4>4, ParentHeld
    <3>7. hash'[b] = hash[b]  BY <1>6, <3>6
    <3> QED BY <3>1, <3>2, <3>7
  <2> QED BY <2>1 DEF Linked
<1>12. Later(hash', ref', free')
  <2>1. ASSUME NEW a \in Blocks, NEW b \in Blocks,
               Len(hash'[a]) > BlockSize, hash'[b] = Parent(hash'[a]), ref'[b] = 0
        PROVE  FALSE
    <3>1. hash'[b] # NoHash  BY <1>10, <2>1
    <3>2. b \notin P  BY <1>4, <3>1
    <3> QED BY <1>2, <1>3, <2>1, <3>2
  <2> QED BY <2>1 DEF Later
<1> QED BY <1>8, <1>9, <1>11, <1>12 DEF Ordered

-----------------------------------------------------------------------------
(* Every step.                                                               *)

\* An admission with its cache hits.
LEMMA AdmitKeepsOrder ==
    ASSUME IndInv, NEW s \in Seqs, Admit(s), Ordered(hash, table, ref, free)
    PROVE  Ordered(hash', table', ref', free')
<1> USE DEF IndInv
<1>1. PICK n \in 1..MaxModelLen, k \in 0..MaxModelLen : MayAdmit(s, n, k) /\ AdmitBlocks(s, n, k)
  BY DEF Admit
<1> DEFINE hits == GetComputedBlocks(s, k)
<1>2. n \in Nat \ {0} /\ k \in Nat  BY LengthAssumption
<1>3. /\ IsLongestHit(s, k) /\ AllocateSlots(s, n, hits)
      /\ InUse(s) /\ table[s] = <<>> /\ computed[s] = 0
      /\ n <= NumTokens(s) - k * BlockSize
  BY <1>1 DEF AdmitBlocks, MayAdmit
<1>4. /\ hits \in Seq(Blocks) /\ Len(hits) = k /\ IsInjective(hits)
      /\ \A i \in DOMAIN hits : hash[hits[i]] = BlockPrefix(s, i) /\ hash[hits[i]] # NoHash
  BY <1>2, <1>3, HitLaws
<1> HIDE DEF hits
<1>5. k * BlockSize <= NumTokens(s)
  <2>1. k * BlockSize \in Nat /\ NumTokens(s) \in Nat  BY <1>2, CeilOfMultiple, ComputedWithin
  <2> QED BY <1>2, <1>3, <2>1
<1>6. \A i \in DOMAIN hits : i * BlockSize <= NumTokens(s)
  <2> TAKE i \in DOMAIN hits
  <2>1. i \in Nat /\ i <= k
    <3>1. DOMAIN hits = 1..k  BY <1>4, LenProperties
    <3> QED BY <1>2, <3>1
  <2>2. i * BlockSize \in Int /\ k * BlockSize \in Int /\ NumTokens(s) \in Int
    BY <1>2, <2>1, MultiplesOrdered, ComputedWithin
  <2>3. i < k => i * BlockSize < k * BlockSize  BY <1>2, <2>1, MultiplesOrdered
  <2>4. i = k => i * BlockSize = k * BlockSize  OBVIOUS
  <2> QED BY <1>2, <1>5, <2>1, <2>2, <2>3, <2>4
<1> QED BY <1>2, <1>3, <1>4, <1>6, AllocationKeepsOrder

\* The next tokens of a running sequence.
LEMMA ContinueKeepsOrder ==
    ASSUME IndInv, NEW s \in Seqs, Continue(s), Ordered(hash, table, ref, free)
    PROVE  Ordered(hash', table', ref', free')
<1>1. PICK n \in 1..MaxModelLen : AllocateSlots(s, n, <<>>)
  BY DEF Continue, ContinueBlocks
<1>2. n \in Nat  BY LengthAssumption
<1>3. <<>> \in Seq(Blocks) /\ IsInjective(<<>>) /\ DOMAIN <<>> = {}
  BY EmptySeq DEF IsInjective
<1> DEFINE hits == <<>>
<1>4. hits = <<>> /\ hits \in Seq(Blocks) /\ IsInjective(hits) /\ DOMAIN hits = {}
      /\ AllocateSlots(s, n, hits)
  BY <1>1, <1>3
<1> HIDE DEF hits
<1> QED BY <1>2, <1>4, AllocationKeepsOrder

\* The results of a sequence that goes on or finishes.
LEMMA CommitKeepsOrder ==
    ASSUME IndInv, EnablePrefixCaching, NEW s \in Seqs, Commit(s), Ordered(hash, table, ref, free)
    PROVE  Ordered(hash', table', ref', free')
<1>1. PICK after \in 1..MaxModelLen :
         /\ MayCommit(s, after)
         /\ \/ CommitWatermark(s, after)
            \/ \E t \in SampledTokens : CommitToken(s, after, t)
            \/ CommitFinish(s, after)
  BY DEF Commit
<1> DEFINE H == HashAfterCaching(s, after)
<1>2. /\ num_new[s] > 0 /\ after = computed[s] + num_new[s]
      /\ CacheFullBlocks(s, after)
  BY <1>1 DEF MayCommit, CommitWatermark, CommitToken, CommitFinish, Committed
<1>3. H \in [Blocks -> Seq(Tokens)] /\ Ordered(H, table, ref, free)
  BY <1>2, CachingKeepsOrder
<1>4. \/ hash' = H /\ UNCHANGED <<table, ref, free>>
      \/ FreeBlocks(s, H) /\ hash' = H
  BY <1>1 DEF CommitWatermark, CommitToken, CommitFinish, FreeBlocks
<1> HIDE DEF H
<1>5. CASE hash' = H /\ UNCHANGED <<table, ref, free>>  BY <1>3, <1>5
<1>6. CASE FreeBlocks(s, H) /\ hash' = H  BY <1>3, <1>6, ReleaseKeepsOrder
<1> QED BY <1>4, <1>5, <1>6

\* Preempting or aborting a sequence.
LEMMA DropKeepsOrder ==
    ASSUME IndInv, EnablePrefixCaching, NEW s \in Seqs, FreeBlocks(s, hash),
           Ordered(hash, table, ref, free)
    PROVE  Ordered(hash', table', ref', free')
<1>1. hash \in [Blocks -> Seq(Tokens)]  BY DEF IndInv, TypeOK
<1>2. hash' = hash  BY DEF FreeBlocks
<1>3. Ordered(hash, table', ref', free')  BY <1>1, ReleaseKeepsOrder
<1> QED BY <1>2, <1>3

\* A fork shares a whole table.
LEMMA ForkKeepsOrder ==
    ASSUME IndInv, NEW p \in Seqs, NEW c \in Seqs, Fork(p, c), Ordered(hash, table, ref, free)
    PROVE  Ordered(hash', table', ref', free')
<1>1. /\ table' = [table EXCEPT ![c] = table[p]]
      /\ ref' = [b \in Blocks |-> IF b \in Range(table[p]) THEN ref[b] + 1 ELSE ref[b]]
      /\ UNCHANGED <<hash, free>>
  BY DEF Fork, ForkBlocks
<1>2. table \in [Seqs -> Seq(Blocks)] /\ ref \in [Blocks -> Nat]  BY DEF IndInv, TypeOK
<1>3. \A t \in Seqs : \E u \in Seqs : table'[t] = table[u]  BY <1>1, <1>2
<1>4. Chained(hash, table')
  <2>1. ASSUME NEW t \in Seqs, NEW i \in DOMAIN table'[t], hash[table'[t][i]] # NoHash
        PROVE  /\ Len(hash[table'[t][i]]) = i * BlockSize
               /\ i > 1 => hash[table'[t][i - 1]] = Parent(hash[table'[t][i]])
    <3>1. PICK u \in Seqs : table'[t] = table[u]  BY <1>3
    <3> QED BY <2>1, <3>1 DEF Ordered, Chained
  <2> QED BY <2>1 DEF Chained
<1>5. \A b \in Blocks : ref'[b] = 0 => ref[b] = 0  BY <1>1, <1>2
<1>6. Later(hash, ref', free)  BY <1>5 DEF Ordered, Later
<1> QED BY <1>1, <1>4, <1>6 DEF Ordered

\* Without prefix caching there is nothing to order.
LEMMA NoHashesOrdered ==
    ASSUME IndInv, ~EnablePrefixCaching
    PROVE  Ordered(hash, table, ref, free)
<1>1. CachePrefixClosed
  BY DEF IndInv, NothingCached, CachePrefixClosed
<1>2. \A b \in Blocks : hash[b] = NoHash  BY NoHashes DEF IndInv
<1>3. HashedFromStart
  <2>1. \A s \in Seqs : \A i \in DOMAIN table[s] : table[s][i] \in Blocks
    BY TableFacts DEF IndInv
  <2> QED BY <1>2, <2>1 DEF HashedFromStart
<1>4. SuccessorsFirst
  <2>1. Len(NoHash) = 0  BY EmptySeq DEF NoHash
  <2> QED BY <1>2, <2>1, PoolAssumption DEF SuccessorsFirst
<1> QED BY <1>1, <1>3, <1>4, OrderedForm DEF EvictionOrder

\* The order in the present state.
OrderedNow == Ordered(hash, table, ref, free)

\* NoHashesOrdered, said of the next state.
LEMMA NoHashesOrderedNext ==
    ASSUME ~EnablePrefixCaching
    PROVE  IndInv' => OrderedNow'
<1>1. IndInv => OrderedNow  BY NoHashesOrdered DEF OrderedNow
<1> QED BY <1>1, PTL

\* Every step of the block manager keeps the order.
LEMMA StepKeepsOrder ==
    ASSUME IndInv, IndInv', Ordered(hash, table, ref, free), [BMNext]_bmVars
    PROVE  Ordered(hash', table', ref', free')
<1> DEFINE Goal == Ordered(hash', table', ref', free')
<1> SUFFICES Goal  OBVIOUS
<1>1. CASE ~EnablePrefixCaching  BY <1>1, NoHashesOrderedNext DEF OrderedNow
<1>2. CASE EnablePrefixCaching
  <2>1. ASSUME NEW s \in Seqs, NEW p \in Prompts, Add(s, p) PROVE Goal
    BY <2>1 DEF Add, poolVars
  <2>2. ASSUME NEW s \in Seqs, Admit(s) PROVE Goal      BY <2>2, AdmitKeepsOrder
  <2>3. ASSUME NEW s \in Seqs, Continue(s) PROVE Goal   BY <2>3, ContinueKeepsOrder
  <2>4. ASSUME NEW s \in Seqs, RollBack(s) PROVE Goal   BY <2>4, RollBackKeepsOrder
  <2>5. ASSUME NEW s \in Seqs, Preempt(s) PROVE Goal
    BY <1>2, <2>5, DropKeepsOrder DEF Preempt, PreemptBlocks
  <2>6. ASSUME NEW s \in Seqs, Abort(s) PROVE Goal
    BY <1>2, <2>6, DropKeepsOrder DEF Abort, AbortBlocks
  <2>7. ASSUME NEW p \in Seqs, NEW c \in Seqs, Fork(p, c) PROVE Goal
    BY <2>7, ForkKeepsOrder
  <2>8. ASSUME NEW s \in Seqs, Commit(s) PROVE Goal     BY <1>2, <2>8, CommitKeepsOrder
  <2>9. ASSUME Run PROVE Goal
    BY <2>9 DEF Run, TakePendingCopies, seqVars
  <2>10. ASSUME UNCHANGED bmVars PROVE Goal
    BY <2>10 DEF bmVars, seqVars, poolVars
  <2> HIDE DEF Goal
  <2> QED BY <2>1, <2>2, <2>3, <2>4, <2>5, <2>6, <2>7, <2>8, <2>9, <2>10 DEF BMNext, PoolNext
<1> QED BY <1>1, <1>2

\* At the start nothing is hashed.
LEMMA InitOrder == BMInit => EvictionOrder
<1> SUFFICES ASSUME BMInit PROVE EvictionOrder
  OBVIOUS
<1>1. DOMAIN cached = {} /\ \A s \in Seqs : DOMAIN table[s] = {}  BY DEF BMInit
<1>2. Len(NoHash) = 0 /\ \A b \in Blocks : hash[b] = NoHash  BY EmptySeq DEF BMInit, NoHash
<1>3. SuccessorsFirst  BY <1>2, PoolAssumption DEF SuccessorsFirst
<1> QED BY <1>1, <1>3 DEF EvictionOrder, CachePrefixClosed, HashedFromStart

\* OrderedForm, said of the next state.
LEMMA OrderedFormNext == IndInv' => (EvictionOrder' <=> OrderedNow')
<1>1. IndInv => (EvictionOrder <=> OrderedNow)  BY OrderedForm DEF OrderedNow
<1> QED BY <1>1, PTL

\* A step, from EvictionOrder to EvictionOrder.
LEMMA StepKeepsEvictionOrder == IndInv /\ EvictionOrder /\ [BMNext]_bmVars => EvictionOrder'
<1> SUFFICES ASSUME IndInv, EvictionOrder, [BMNext]_bmVars
             PROVE  EvictionOrder'
  OBVIOUS
<1>1. IndInv'  BY StepPreserves
<1>2. Ordered(hash, table, ref, free)  BY OrderedForm
<1>3. Ordered(hash', table', ref', free')  BY <1>1, <1>2, StepKeepsOrder
<1>4. OrderedNow'  BY <1>3 DEF OrderedNow
<1> QED BY <1>1, <1>4, OrderedFormNext

\* In every reachable state a table's hashed blocks are its first ones, and a
\* free block's cached successors are free and will be evicted before it
\* (block_manager.py: free, _free_block, _allocate_block, cache_full_blocks).
THEOREM EvictionOrderHolds == BMSpec => []EvictionOrder
<1>1. BMInit => IndInv /\ EvictionOrder  BY InitIndInv, InitOrder
<1>2. IndInv /\ EvictionOrder /\ [BMNext]_bmVars => (IndInv /\ EvictionOrder)'
  BY StepPreserves, StepKeepsEvictionOrder
<1> QED BY <1>1, <1>2, PTL DEF BMSpec

\* The prefix cache never offers an entry whose predecessor is gone, which
\* get_computed_blocks could not reach: a chain is evicted from its end.
THEOREM CachePrefixClosedHolds == BMSpec => []CachePrefixClosed
<1>1. EvictionOrder => CachePrefixClosed  BY DEF EvictionOrder
<1> QED BY <1>1, EvictionOrderHolds, PTL
=============================================================================
