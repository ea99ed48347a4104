---------------------------- MODULE PagedKVProofs ----------------------------
(***************************************************************************)
(* The physical cache is faithful, for every number of sequences, blocks    *)
(* and tokens: what attention finds behind a computed position is the       *)
(* sequence's own prefix, and a cached block holds what its hash promises.   *)
(* Both are inductive together with one fact about the step in progress:    *)
(* once the batch has run, its new positions are filled too.                *)
(***************************************************************************)
EXTENDS PagedKV, SharingProofs

\* After the forward the scheduled positions hold their own prefix.
BatchComputed ==
    phase = "update" =>
        \A s \in Scheduled : \A x \in NewPositions(s) :
            kv[Slot(s, x)[1]][Slot(s, x)[2]] = Context(s, x)

KVInv == KVFaithful /\ CacheFaithful /\ BatchComputed

-----------------------------------------------------------------------------
(* Slots.                                                                    *)

\* Division with remainder.
LEMMA DivMod ==
    ASSUME NEW x \in Nat
    PROVE  /\ x \div BlockSize \in Nat /\ x % BlockSize \in Offsets /\ x % BlockSize \in Nat
           /\ (x \div BlockSize) * BlockSize \in Nat
           /\ x = (x \div BlockSize) * BlockSize + (x % BlockSize)
<1>1. x \div BlockSize \in Nat /\ (x \div BlockSize) * BlockSize \in Nat
  BY DivBounds, CeilOfMultiple
<1>2. x % BlockSize \in Nat /\ x % BlockSize \in Offsets  BY PoolAssumption DEF Offsets
<1>3. x = (x \div BlockSize) * BlockSize + (x % BlockSize)  BY PoolAssumption
<1> QED BY <1>1, <1>2, <1>3

\* A slot below the scheduled length lies in a block of the table.
LEMMA SlotLaws ==
    ASSUME TypeOK, TableExact, NEW s \in Seqs, NEW x \in Nat, x < computed[s] + num_new[s]
    PROVE  /\ x \div BlockSize + 1 \in DOMAIN table[s]
           /\ Slot(s, x)[1] = table[s][x \div BlockSize + 1]
           /\ Slot(s, x)[2] = x % BlockSize
           /\ Slot(s, x)[1] \in Blocks /\ Slot(s, x)[1] \in Range(table[s])
           /\ Slot(s, x)[2] \in Offsets
<1> DEFINE d == x \div BlockSize
           n == computed[s] + num_new[s]
           a == NumBlocksForTokens(n)
<1>1. n \in Nat  BY DEF TypeOK
<1>2. d \in Nat /\ d * BlockSize <= x  BY DivBounds
<1>3. a \in Nat /\ n <= a * BlockSize  BY <1>1, CeilBounds
<1>4. Len(table[s]) = a  BY DEF TableExact
<1> HIDE DEF d, a
<1>5. d < a
  <2>1. d * BlockSize \in Int /\ a * BlockSize \in Int  BY <1>2, <1>3, MultiplesOrdered
  <2>2. d * BlockSize < a * BlockSize  BY <1>1, <1>2, <1>3, <2>1
  <2> QED BY <1>2, <1>3, <2>2, MultiplesOrdered
<1>6. d + 1 \in DOMAIN table[s]
  <2>1. d + 1 \in 1..Len(table[s])  BY <1>2, <1>3, <1>4, <1>5
  <2> QED BY <2>1, TableFacts
<1>7. table[s][d + 1] \in Blocks /\ table[s][d + 1] \in Range(table[s])  BY <1>6, TableFacts
<1>8. x % BlockSize \in Offsets  BY DivMod
<1> QED BY <1>6, <1>7, <1>8 DEF d, Slot

\* Different positions of a sequence have different slots.
LEMMA SlotInjective ==
    ASSUME TypeOK, TableExact, TableInjective, NEW s \in Seqs, NEW x \in Nat, NEW y \in Nat,
           x < computed[s] + num_new[s], y < computed[s] + num_new[s],
           Slot(s, x) = Slot(s, y)
    PROVE  x = y
<1>1. x \div BlockSize + 1 = y \div BlockSize + 1
  <2>1. table[s][x \div BlockSize + 1] = table[s][y \div BlockSize + 1]  BY SlotLaws
  <2> QED BY <2>1, SlotLaws DEF TableInjective, IsInjective
<1>2. x % BlockSize = y % BlockSize  BY SlotLaws
<1>3. x \div BlockSize = y \div BlockSize  BY <1>1, DivMod
<1> QED BY <1>2, <1>3, DivMod

\* The slots that a scheduled sequence writes are in no other table, and are
\* not those of its computed positions.
LEMMA WrittenApart ==
    ASSUME IndInv, NEW s \in Scheduled, NEW t \in Seqs, NEW x \in Nat,
           x < computed[t] + num_new[t], Slot(t, x) \in WrittenSlots(s)
    PROVE  t = s /\ x >= computed[s] /\ x \in NewPositions(s)
<1> USE DEF IndInv
<1>1. PICK y \in NewPositions(s) : Slot(t, x) = Slot(s, y)  BY DEF WrittenSlots
<1>2. s \in Seqs /\ computed[s] \in Nat /\ num_new[s] \in Nat  BY DEF Scheduled, TypeOK
<1>3. y \in Nat /\ y >= computed[s] /\ y < computed[s] + num_new[s]
  BY <1>2 DEF NewPositions
<1>4. Slot(s, y)[1] = table[s][y \div BlockSize + 1] /\ y \div BlockSize + 1 \in DOMAIN table[s]
  BY <1>2, <1>3, SlotLaws
<1>5. Slot(t, x)[1] \in Range(table[t])  BY SlotLaws
<1>6. y \div BlockSize + 1 > computed[s] \div BlockSize
  <2> DEFINE f == computed[s] \div BlockSize
             d == y \div BlockSize
  <2>1. f \in Nat /\ f * BlockSize <= computed[s]  BY <1>2, DivBounds
  <2>2. d \in Nat /\ y < (d + 1) * BlockSize  BY <1>3, DivBounds
  <2> HIDE DEF f, d
  <2>3. d + 1 \in Int /\ f * BlockSize \in Int /\ (d + 1) * BlockSize \in Int
    BY <2>1, <2>2, MultiplesOrdered
  <2>4. f * BlockSize < (d + 1) * BlockSize  BY <1>2, <1>3, <2>1, <2>2, <2>3
  <2>5. f < d + 1  BY <2>1, <2>3, <2>4, MultiplesOrdered
  <2> QED BY <2>1, <2>2, <2>5 DEF f, d
<1>7. t = s  BY <1>1, <1>4, <1>5, <1>6 DEF FillsOwnBlocks
<1>8. x = y  BY <1>1, <1>2, <1>3, <1>7, SlotInjective
<1> QED BY <1>3, <1>7, <1>8

-----------------------------------------------------------------------------
(* Copies.                                                                   *)

\* Where the content of b comes from when the copies in c are made.
Origin(c, b) ==
    IF \E i \in DOMAIN c : c[i][2] = b THEN c[CHOOSE i \in DOMAIN c : c[i][2] = b][1] ELSE b

\* A block that is no destination keeps its content.
LEMMA OriginKept ==
    ASSUME NEW c, NEW b, \A i \in DOMAIN c : c[i][2] # b
    PROVE  Origin(c, b) = b
BY DEF Origin

\* A destination takes the content of its source, when it is one only once.
LEMMA OriginOfTarget ==
    ASSUME NEW c, NEW i \in DOMAIN c, \A j \in DOMAIN c : c[j][2] = c[i][2] => j = i
    PROVE  Origin(c, c[i][2]) = c[i][1]
<1>1. (CHOOSE j \in DOMAIN c : c[j][2] = c[i][2]) = i  OBVIOUS
<1> QED BY <1>1 DEF Origin

\* Memory as the next forward finds it, block by block.
LEMMA SettledLaws ==
    ASSUME IndInv, NEW b \in Blocks
    PROVE  /\ AfterCopies[b] = kv[Origin(cow, b)]
           /\ Settled[b] = kv[Origin(cow, b)]
<1>1. AfterCopies[b] = kv[Origin(cow, b)]  BY DEF AfterCopies, Origin
<1>2. CASE phase = "update"
  <2>1. DOMAIN cow = {}  BY <1>2 DEF IndInv, CopiesTaken
  <2>2. Origin(cow, b) = b  BY <2>1, OriginKept
  <2> QED BY <1>1, <1>2, <2>2 DEF Settled
<1>3. CASE phase = "schedule"  BY <1>1, <1>3 DEF Settled
<1> QED BY <1>1, <1>2, <1>3 DEF IndInv, TypeOK

\* KVFaithful, with the copies written out.
Holds(s, x) == kv[Origin(cow, table[s][x \div BlockSize + 1])][x % BlockSize] = Context(s, x)

AllHold == \A s \in Seqs : \A x \in 0..(computed[s] - 1) : Holds(s, x)

LEMMA FaithfulLaws == IndInv => (KVFaithful <=> AllHold)
<1> SUFFICES ASSUME IndInv PROVE KVFaithful <=> AllHold  OBVIOUS
<1>1. ASSUME NEW s \in Seqs, NEW x \in 0..(computed[s] - 1)
      PROVE  Settled[Slot(s, x)[1]][Slot(s, x)[2]]
               = kv[Origin(cow, table[s][x \div BlockSize + 1])][x % BlockSize]
  <2>1. x \in Nat /\ x < computed[s] + num_new[s]
    <3>1. computed[s] \in Nat /\ num_new[s] \in Nat  BY DEF IndInv, TypeOK
    <3> QED BY <3>1
  <2>2. /\ Slot(s, x)[1] = table[s][x \div BlockSize + 1] /\ Slot(s, x)[1] \in Blocks
        /\ Slot(s, x)[2] = x % BlockSize
    BY <2>1, SlotLaws DEF IndInv
  <2> QED BY <2>2, SettledLaws
<1> QED BY <1>1 DEF KVFaithful, Holds, AllHold

LEMMA FaithfulLawsNext == IndInv' => (KVFaithful' <=> AllHold')
BY FaithfulLaws, PTL

\* No block is a destination twice; d is none yet.
TargetsDiffer == \A i, j \in DOMAIN cow : cow[i][2] = cow[j][2] => i = j
NoTarget(d)   == \A i \in DOMAIN cow : cow[i][2] # d

\* Only d is redirected, to a.
Redirects(a, d) ==
    /\ Origin(cow', d) = a
    /\ \A b : b # d => Origin(cow', b) = Origin(cow, b)

\* One more copy, into a block that was no destination, redirects that block only.
LEMMA OriginAppend ==
    ASSUME cow \in Seq(Blocks \X Blocks), NEW a \in Blocks, NEW d \in Blocks,
           TargetsDiffer, NoTarget(d), cow' = Append(cow, <<a, d>>)
    PROVE  Redirects(a, d)
<1> USE DEF TargetsDiffer, NoTarget
<1> DEFINE n == Len(cow)
<1>1. /\ n \in Nat /\ DOMAIN cow = 1..n /\ DOMAIN cow' = 1..(n + 1)
      /\ \A i \in 1..n : cow'[i] = cow[i]
      /\ cow'[n + 1] = <<a, d>>
  <2>1. <<a, d>> \in Blocks \X Blocks  OBVIOUS
  <2> QED BY <2>1, AppendProperties, LenProperties
<1> HIDE DEF n
<1>2. \A j \in 1..(n + 1) : j = n + 1 \/ j \in 1..n  BY <1>1
<1>3. Origin(cow', d) = a
  <2>1. n + 1 \in DOMAIN cow' /\ cow'[n + 1][2] = d /\ cow'[n + 1][1] = a  BY <1>1
  <2>2. \A j \in DOMAIN cow' : cow'[j][2] = cow'[n + 1][2] => j = n + 1  BY <1>1, <1>2, <2>1
  <2> QED BY <2>1, <2>2, OriginOfTarget
<1>4. ASSUME NEW b, b # d
      PROVE  Origin(cow', b) = Origin(cow, b)
  <2>1. CASE \E i \in 1..n : cow[i][2] = b
    <3>1. PICK i \in 1..n : cow[i][2] = b  BY <2>1
    <3>2. i \in DOMAIN cow /\ i \in DOMAIN cow' /\ cow'[i] = cow[i]  BY <1>1
    <3>3. Origin(cow, b) = cow[i][1]  BY <3>1, <3>2, OriginOfTarget
    <3>4. ASSUME NEW j \in DOMAIN cow', cow'[j][2] = cow'[i][2] PROVE j = i
      <4>1. cow'[j][2] = b /\ cow'[n + 1][2] = d  BY <1>1, <3>1, <3>2, <3>4
      <4>2. j \in 1..n  BY <1>1, <1>2, <1>4, <4>1
      <4>3. j \in DOMAIN cow /\ cow[j][2] = cow[i][2]  BY <1>1, <3>1, <4>1, <4>2
      <4> QED BY <3>2, <4>3
    <3>5. Origin(cow', b) = cow'[i][1]  BY <3>1, <3>2, <3>4, OriginOfTarget
    <3> QED BY <3>2, <3>3, <3>5
  <2>2. CASE ~\E i \in 1..n : cow[i][2] = b
    <3>1. \A i \in DOMAIN cow : cow[i][2] # b  BY <1>1, <2>2
    <3>2. \A i \in DOMAIN cow' : cow'[i][2] # b  BY <1>1, <1>2, <1>4, <2>2
    <3> QED BY <3>1, <3>2, OriginKept
  <2> QED BY <2>1, <2>2
<1> QED BY <1>3, <1>4 DEF Redirects

-----------------------------------------------------------------------------
(* Contexts.                                                                 *)

\* A prefix of a prefix.
LEMMA PrefixOfPrefix ==
    ASSUME NEW B, NEW q \in Seq(B), NEW k \in 0..Len(q), NEW m \in 0..k
    PROVE  SubSeq(SubSeq(q, 1, k), 1, m) = SubSeq(q, 1, m)
<1> DEFINE p == SubSeq(q, 1, k)
<1>1. p \in Seq(B) /\ Len(p) = k /\ \A i \in 1..k : p[i] = q[i]  BY PrefixLaws
<1> HIDE DEF p
<1>2. Len(q) \in Nat  BY LenProperties
<1>3. m \in 0..Len(p) /\ m <= Len(q)  BY <1>1, <1>2
<1>4. \A i \in 1..m : p[i] = q[i]  BY <1>1, <1>2
<1>5. SubSeq(p, 1, m) = SubSeq(q, 1, m)  BY <1>1, <1>3, <1>4, PrefixEqual
<1> QED BY <1>5 DEF p

\* Offset o of block q + 1 is position q * BlockSize + o.
LEMMA PositionLaws ==
    ASSUME NEW q \in Nat, NEW o \in Offsets
    PROVE  /\ q * BlockSize + o \in Nat
           /\ (q * BlockSize + o) \div BlockSize = q
           /\ (q * BlockSize + o) % BlockSize = o
           /\ q * BlockSize + o < (q + 1) * BlockSize
<1> DEFINE x == q * BlockSize + o
           d == x \div BlockSize
           r == x % BlockSize
<1>1. q * BlockSize \in Nat /\ o \in Nat /\ o < BlockSize
  BY CeilOfMultiple, PoolAssumption DEF Offsets
<1>2. x \in Nat  BY <1>1
<1>3. (q + 1) * BlockSize = q * BlockSize + BlockSize  BY MultiplesOrdered
<1>4. d \in Nat /\ r \in Nat /\ r < BlockSize /\ x = d * BlockSize + r /\ d * BlockSize \in Nat
  BY <1>2, DivMod, PoolAssumption DEF Offsets
<1>5. d = q
  <2> HIDE DEF d, r
  <2>1. d < q => (d + 1) * BlockSize <= q * BlockSize  BY <1>4, MultiplesOrdered
  <2>2. (d + 1) * BlockSize = d * BlockSize + BlockSize  BY <1>4, MultiplesOrdered
  <2>3. q < d => (q + 1) * BlockSize <= d * BlockSize  BY <1>4, MultiplesOrdered
  <2> QED BY <1>1, <1>3, <1>4, <2>1, <2>2, <2>3, PoolAssumption
<1>6. r = o
  <2> HIDE DEF d, r
  <2> QED BY <1>1, <1>4, <1>5
<1>7. x < (q + 1) * BlockSize  BY <1>1, <1>3, PoolAssumption
<1> QED BY <1>2, <1>5, <1>6, <1>7

\* What block q + 1's hash promises at offset o is the context of that position.
LEMMA PromisedContext ==
    ASSUME TypeOK, NEW s \in Seqs, NEW q \in Nat, NEW o \in Offsets,
           (q + 1) * BlockSize <= NumTokens(s)
    PROVE  LET h == BlockPrefix(s, q + 1)
           IN  SubSeq(h, 1, Len(h) - BlockSize + o + 1) = Context(s, q * BlockSize + o)
<1> DEFINE h == BlockPrefix(s, q + 1)
           k == (q + 1) * BlockSize
           x == q * BlockSize + o
           t == tokens[s]
<1>1. t \in Seq(Tokens) /\ Len(t) \in Nat  BY LenProperties DEF TypeOK, TokenStrings
<1>2. k \in Nat /\ q * BlockSize \in Nat /\ k = q * BlockSize + BlockSize /\ o \in Nat
  BY CeilOfMultiple, MultiplesOrdered, PoolAssumption DEF Offsets
<1>3. x \in Nat /\ x < k  BY PositionLaws
<1>4. k <= Len(t)  BY DEF NumTokens
<1> HIDE DEF k
<1>5. Len(h) = k
  <2>1. k \in 0..Len(t)  BY <1>1, <1>2, <1>4
  <2> QED BY <1>1, <2>1, PrefixLaws DEF BlockPrefix, k
<1>6. Len(h) - BlockSize + o + 1 = x + 1  BY <1>2, <1>5, PoolAssumption
<1>7. k \in 0..Len(t) /\ x + 1 \in 0..k  BY <1>1, <1>2, <1>3, <1>4
<1>8. SubSeq(SubSeq(t, 1, k), 1, x + 1) = SubSeq(t, 1, x + 1)
  <2> HIDE DEF x
  <2> QED BY <1>1, <1>7, PrefixOfPrefix
<1> QED BY <1>6, <1>8 DEF BlockPrefix, Context, k

-----------------------------------------------------------------------------
(* Steps that leave the memory alone.                                        *)

\* An entry that stays in the cache stays true.
LEMMA CacheKept ==
    ASSUME CacheFaithful, kv' = kv,
           \A h \in DOMAIN cached' : h \in DOMAIN cached /\ cached'[h] = cached[h]
    PROVE  CacheFaithful'
BY DEF CacheFaithful

\* When one sequence changes between steps, or is done with its step, the others'
\* positions stay faithful.
LEMMA OneChanges ==
    ASSUME IndInv, IndInv', KVInv, NEW s \in Seqs, kv' = kv,
           \A t \in Seqs \ {s} : /\ table'[t] = table[t] /\ computed'[t] = computed[t]
                                 /\ tokens'[t] = tokens[t] /\ num_new'[t] = num_new[t],
           \A t \in Seqs \ {s} : \A b \in Range(table[t]) : Origin(cow', b) = Origin(cow, b),
           phase' = "update" => phase = "update" /\ num_new'[s] = 0,
           \A x \in 0..(computed'[s] - 1) :
              kv[Origin(cow', table'[s][x \div BlockSize + 1])][x % BlockSize]
                 = SubSeq(tokens'[s], 1, x + 1)
    PROVE  KVFaithful' /\ BatchComputed'
<1> USE DEF KVInv
<1>1. ASSUME NEW t \in Seqs, NEW x \in 0..(computed'[t] - 1)
      PROVE  Holds(t, x)'
  <2>1. CASE t = s  BY <1>1, <2>1 DEF Holds, Context
  <2>2. CASE t # s
    <3>1. x \in 0..(computed[t] - 1)  BY <1>1, <2>2
    <3>2. Holds(t, x)  BY <3>1, FaithfulLaws DEF AllHold
    <3>3. x \in Nat /\ x < computed[t] + num_new[t]
      <4>1. computed[t] \in Nat /\ num_new[t] \in Nat  BY DEF IndInv, TypeOK
      <4> QED BY <3>1, <4>1
    <3>4. table[t][x \div BlockSize + 1] \in Range(table[t])  BY <3>3, SlotLaws DEF IndInv
    <3> QED BY <2>2, <3>2, <3>4 DEF Holds, Context
  <2> QED BY <2>1, <2>2
<1>2. KVFaithful'  BY <1>1, FaithfulLawsNext DEF AllHold
<1>3. BatchComputed'
  <2> SUFFICES ASSUME phase' = "update", NEW t \in Seqs, num_new'[t] > 0,
                      NEW x \in NewPositions(t)'
               PROVE  kv'[Slot(t, x)[1]'][Slot(t, x)[2]'] = Context(t, x)'
    BY DEF BatchComputed, Scheduled
  <2>1. t # s  OBVIOUS
  <2>2. t \in Scheduled /\ x \in NewPositions(t)  BY <2>1 DEF Scheduled, NewPositions
  <2>3. kv[Slot(t, x)[1]][Slot(t, x)[2]] = Context(t, x)  BY <2>2 DEF BatchComputed
  <2> QED BY <2>1, <2>3 DEF Slot, Context
<1> QED BY <1>2, <1>3

\* Nothing was computed for s yet, or nothing is any more.
LEMMA EmptyTableFaithful ==
    ASSUME IndInv, IndInv', KVInv, NEW s \in Seqs, kv' = kv, cow' = cow,
           computed'[s] = 0, num_new'[s] = 0, phase' = phase,
           \A t \in Seqs \ {s} : /\ table'[t] = table[t] /\ computed'[t] = computed[t]
                                 /\ tokens'[t] = tokens[t] /\ num_new'[t] = num_new[t],
           cached' = cached
    PROVE  KVInv'
<1>1. 0..(computed'[s] - 1) = {}  OBVIOUS
<1>2. KVFaithful' /\ BatchComputed'  BY <1>1, OneChanges
<1>3. CacheFaithful'  BY CacheKept DEF KVInv
<1> QED BY <1>2, <1>3 DEF KVInv

LEMMA AddFaithful ==
    ASSUME IndInv, IndInv', KVInv, kv' = kv, NEW s \in Seqs, NEW p \in Prompts, Add(s, p)
    PROVE  KVInv'
<1>1. /\ ~InUse(s) /\ tokens' = [tokens EXCEPT ![s] = p]
      /\ UNCHANGED <<computed, table, num_new, phase, poolVars>>
  BY DEF Add
<1>2. computed[s] = 0 /\ num_new[s] = 0  BY <1>1 DEF IndInv, LengthsOK
<1>3. \A t \in Seqs \ {s} : tokens'[t] = tokens[t]  BY <1>1 DEF IndInv, TypeOK
<1> QED BY <1>1, <1>2, <1>3, EmptyTableFaithful DEF poolVars

LEMMA DropFaithful ==
    ASSUME IndInv, IndInv', KVInv, kv' = kv, NEW s \in Seqs, num_new[s] = 0, FreeBlocks(s, hash),
           computed' = [computed EXCEPT ![s] = 0],
           tokens' = tokens \/ tokens' = [tokens EXCEPT ![s] = <<>>],
           UNCHANGED <<num_new, phase, cached, cow>>
    PROVE  KVInv'
<1>1. \A t \in Seqs \ {s} : table'[t] = table[t]  BY FreeKeepsBooks
<1>2. computed'[s] = 0 /\ \A t \in Seqs \ {s} : computed'[t] = computed[t] /\ tokens'[t] = tokens[t]
  BY DEF IndInv, TypeOK
<1> QED BY <1>1, <1>2, EmptyTableFaithful

LEMMA PreemptFaithful ==
    ASSUME IndInv, IndInv', KVInv, kv' = kv, NEW s \in Seqs, Preempt(s)
    PROVE  KVInv'
BY DropFaithful DEF Preempt, MayPreempt, PreemptBlocks

LEMMA AbortFaithful ==
    ASSUME IndInv, IndInv', KVInv, kv' = kv, NEW s \in Seqs, Abort(s)
    PROVE  KVInv'
<1>1. num_new[s] = 0
  <2>1. num_new[s] \in Nat  BY DEF IndInv, TypeOK
  <2>2. ~(num_new[s] > 0)  BY DEF Abort, BetweenSteps, Scheduled
  <2> QED BY <2>1, <2>2
<1> QED BY <1>1, DropFaithful DEF Abort, AbortBlocks

\* Blocks given out again lose their entries, whether or not they are kept.
LEMMA EvictFaithful ==
    ASSUME CacheFaithful, kv' = kv, NEW P, Evict(P)
    PROVE  CacheFaithful'
<1>1. \A h \in DOMAIN cached' : h \in DOMAIN cached /\ cached'[h] = cached[h]  BY DEF Evict
<1> QED BY <1>1, CacheKept

LEMMA RollBackFaithful ==
    ASSUME IndInv, IndInv', KVInv, kv' = kv, NEW s \in Seqs, RollBack(s)
    PROVE  KVInv'
<1>1. /\ UNCHANGED <<table, cow, tokens, computed, num_new, phase>> /\ phase = "schedule"
      /\ \E P : Evict(P)
  BY DEF RollBack, RollBackBlocks, AllocateRollsBack, MayContinue
<1>2. CacheFaithful'  BY <1>1, EvictFaithful DEF KVInv
<1>3. AllHold'
  <2>1. AllHold  BY FaithfulLaws DEF KVInv
  <2> QED BY <1>1, <2>1 DEF AllHold, Holds, Context
<1>4. KVFaithful'  BY <1>3, FaithfulLawsNext
<1>5. BatchComputed'  BY <1>1 DEF BatchComputed
<1> QED BY <1>2, <1>4, <1>5 DEF KVInv

\* The child of a fork reads the parent's blocks up to the watermark.
LEMMA ForkFaithful ==
    ASSUME IndInv, IndInv', KVInv, kv' = kv, NEW p \in Seqs, NEW c \in Seqs, Fork(p, c)
    PROVE  KVInv'
<1>1. PICK ts \in Branches(p) : MayFork(p, c) /\ ForkBlocks(p, c, ts)
  BY DEF Fork
<1>2. /\ InUse(p) /\ ~InUse(c) /\ p # c
      /\ tokens' = [tokens EXCEPT ![c] = ts] /\ table' = [table EXCEPT ![c] = table[p]]
      /\ computed' = [computed EXCEPT ![c] = computed[p]]
      /\ UNCHANGED <<num_new, cow, phase, cached>>
      /\ phase = "schedule"
  BY <1>1 DEF MayFork, ForkBlocks, BetweenSteps
<1>3. /\ tokens'[c] = ts /\ table'[c] = table[p] /\ computed'[c] = computed[p]
      /\ \A t \in Seqs \ {c} : /\ tokens'[t] = tokens[t] /\ computed'[t] = computed[t]
                               /\ table'[t] = table[t]
  BY <1>2 DEF IndInv, TypeOK
<1>4. \A x \in 1..computed[p] : ts[x] = tokens[p][x]
  BY <1>1, <1>2, BranchLaws
<1>5. /\ tokens[p] \in Seq(Tokens) /\ Len(tokens[p]) \in Nat
      /\ computed[p] \in Nat /\ computed[p] < Len(tokens[p])
  <2>1. tokens[p] \in Seq(Tokens) /\ computed[p] \in Nat  BY DEF IndInv, TypeOK, TokenStrings
  <2> QED BY <1>2, <2>1, LenProperties DEF IndInv, LengthsOK, NumTokens
<1>6. ts \in Seq(Tokens) /\ Len(ts) \in Nat /\ computed[p] < Len(ts)
  <2>1. ts \in Seq(Tokens) /\ computed'[c] < Len(ts)
    <3>1. InUse(c)'
      <4>1. computed'[c] + num_new'[c] <= Len(tokens'[c]) /\ num_new'[c] \in Nat
        BY DEF IndInv, TypeOK, LengthsOK, NumTokens
      <4>2. ~InUse(c)' => tokens'[c] = <<>> /\ computed'[c] = 0  BY DEF IndInv, LengthsOK, InUse
      <4>3. computed[p] > 0  BY <1>1 DEF MayFork
      <4> QED BY <1>3, <4>2, <4>3
    <3> QED BY <1>3, <3>1 DEF IndInv, TypeOK, TokenStrings, LengthsOK, NumTokens
  <2> QED BY <1>3, <2>1, LenProperties
<1>7. ASSUME NEW x \in 0..(computed'[c] - 1)
      PROVE  kv[Origin(cow', table'[c][x \div BlockSize + 1])][x % BlockSize]
                = SubSeq(tokens'[c], 1, x + 1)
  <2>1. x \in 0..(computed[p] - 1)  BY <1>3
  <2>2. Holds(p, x)  BY <2>1, FaithfulLaws DEF AllHold, KVInv
  <2>3. x + 1 \in 0..Len(tokens[p]) /\ x + 1 <= Len(ts) /\ x + 1 <= computed[p] /\ x + 1 \in Nat
    BY <1>5, <1>6, <2>1
  <2>4. \A i \in 1..(x + 1) : tokens[p][i] = ts[i]
    <3>1. \A i \in 1..(x + 1) : i \in 1..computed[p]  BY <1>5, <2>3
    <3> QED BY <1>4, <3>1
  <2> DEFINE m == x + 1
  <2> HIDE DEF m
  <2>5. SubSeq(tokens[p], 1, m) = SubSeq(ts, 1, m)
    BY <1>5, <1>6, <2>3, <2>4, PrefixEqual DEF m
  <2> QED BY <1>2, <1>3, <2>2, <2>5 DEF Holds, Context, m
<1>8. KVFaithful' /\ BatchComputed'  BY <1>2, <1>3, <1>7, OneChanges
<1>9. CacheFaithful'  BY <1>2, CacheKept DEF KVInv
<1> QED BY <1>8, <1>9 DEF KVInv

-----------------------------------------------------------------------------
(* Allocation.                                                               *)

\* A block given to s, hit or kept, holds what s's watermark will claim of it:
\* the hits by their hash, the private copy through the copy that is pending.
LEMMA AllocationFaithful ==
    ASSUME IndInv, IndInv', SharingInv, KVInv, kv' = kv, NEW s \in Seqs, NEW n \in Nat \ {0},
           NEW hits \in Seq(Blocks), IsInjective(hits),
           hits = <<>> \/ (table[s] = <<>> /\ computed[s] = 0),
           num_new[s] = 0,
           \A i \in DOMAIN hits : /\ BlockPrefix(s, i) \in DOMAIN cached
                                  /\ hits[i] = cached[BlockPrefix(s, i)],
           computed[s] + Len(hits) * BlockSize + n <= NumTokens(s),
           AllocateSlots(s, n, hits),
           computed' = [computed EXCEPT ![s] = computed[s] + Len(hits) * BlockSize],
           num_new' = [num_new EXCEPT ![s] = n],
           phase = "schedule", UNCHANGED <<tokens, phase>>
    PROVE  KVInv'
<1>1. PICK P \in SUBSET Blocks, C \in SUBSET Blocks, T \in Seq(Blocks) :
         AllocationResult(s, n, hits, P, C, T)
  BY AllocationEffect DEF IndInv
<1> DEFINE k == Len(hits)
           w == WriteIndex(s, hits)
           copy == NeedsCopy(s, n, hits)
<1>2. /\ \A b \in P : ref[b] = 0
      /\ copy => hits = <<>>
      /\ \A i \in DOMAIN (table[s] \o hits) :
            i \in DOMAIN T /\ (~(copy /\ i = w) => T[i] = (table[s] \o hits)[i])
      /\ copy => /\ w \in DOMAIN table[s] /\ T[w] \in P
                 /\ cow' = Append(cow, <<table[s][w], T[w]>>)
      /\ ~copy => cow' = cow
      /\ table' = [table EXCEPT ![s] = T]
      /\ Evict(P)
  BY <1>1 DEF AllocationResult
<1> HIDE DEF copy, w
<1>3. /\ k \in Nat /\ computed[s] \in Nat /\ DOMAIN hits = 1..k /\ num_new[s] \in Nat
      /\ computed \in [Seqs -> Nat] /\ num_new \in [Seqs -> Nat] /\ table \in [Seqs -> Seq(Blocks)]
      /\ NumTokens(s) \in Nat /\ cow \in Seq(Blocks \X Blocks)
  <2>1. tokens[s] \in Seq(Tokens)  BY DEF IndInv, TypeOK, TokenStrings
  <2> QED BY <2>1, LenProperties DEF IndInv, TypeOK, NumTokens
<1>4. /\ table'[s] = T /\ num_new'[s] = n /\ computed'[s] = computed[s] + k * BlockSize
      /\ \A t \in Seqs \ {s} : /\ table'[t] = table[t] /\ computed'[t] = computed[t]
                               /\ tokens'[t] = tokens[t] /\ num_new'[t] = num_new[t]
  BY <1>2, <1>3
<1> HIDE DEF k
<1>5. table[s] \o <<>> = table[s] /\ <<>> \o hits = hits
  BY <1>3, ConcatEmptySeq
<1>6. \A t \in Seqs : \A b \in Range(table[t]) : b \in Blocks /\ b \notin P
  <2>1. \A t \in Seqs : \A b \in Range(table[t]) : b \in Blocks /\ ref[b] > 0
    BY TableFacts, HolderCounts DEF IndInv
  <2> QED BY <1>2, <2>1
<1>7. \A i \in DOMAIN cow : /\ cow[i][2] \notin P /\ cow[i][2] \notin Range(table[s])
                            /\ hash[cow[i][2]] = NoHash
  <2> SUFFICES ASSUME NEW i \in DOMAIN cow
               PROVE  /\ cow[i][2] \notin P /\ cow[i][2] \notin Range(table[s])
                      /\ hash[cow[i][2]] = NoHash
    OBVIOUS
  <2>1. PICK u \in Seqs : /\ num_new[u] > 0 /\ Holders(cow[i][2]) = {u}
                          /\ ref[cow[i][2]] > 0 /\ hash[cow[i][2]] = NoHash
    BY TargetFacts DEF SharingInv
  <2>2. cow[i][2] \notin P  BY <1>2, <2>1
  <2>3. u # s  BY <2>1, <1>3
  <2> QED BY <2>1, <2>2, <2>3 DEF Holders
<1>8. ASSUME copy
      PROVE  Redirects(table[s][w], T[w])
  <2> DEFINE a == table[s][w]
             d == T[w]
  <2>1. a \in Blocks /\ d \in Blocks  BY <1>2, <1>8, TableFacts DEF IndInv
  <2>2. NoTarget(d)  BY <1>2, <1>7, <1>8 DEF NoTarget
  <2>3. TargetsDiffer
    <3>1. DOMAIN cow = 1..Len(cow) /\ Len(cow) \in Nat  BY <1>3, LenProperties
    <3>2. \A i, j \in DOMAIN cow : i < j \/ j < i \/ i = j  BY <3>1
    <3> QED BY <3>2 DEF SharingInv, CopiesWellDefined, TargetsDiffer
  <2>4. cow' = Append(cow, <<a, d>>)  BY <1>2, <1>8
  <2>5. cow \in Seq(Blocks \X Blocks)  BY <1>3
  <2> QED BY <2>1, <2>2, <2>3, <2>4, <2>5, OriginAppend
<1>9. \A t \in Seqs : \A b \in Range(table[t]) : Origin(cow', b) = Origin(cow, b)
  BY <1>2, <1>6, <1>8 DEF Redirects
<1>10. ASSUME NEW x \in 0..(computed'[s] - 1)
       PROVE  kv[Origin(cow', table'[s][x \div BlockSize + 1])][x % BlockSize]
                 = SubSeq(tokens'[s], 1, x + 1)
  <2> DEFINE i == x \div BlockSize + 1
             o == x % BlockSize
  <2>1. x \in Nat /\ x < computed[s] + k * BlockSize
    <3>1. k * BlockSize \in Nat  BY <1>3, CeilOfMultiple
    <3> QED BY <1>3, <1>4, <3>1
  <2>2. CASE hits = <<>>
    <3>1. k = 0 /\ 0 * BlockSize = 0  BY <2>2, PoolAssumption DEF k
    <3>2. x < computed[s] /\ x \in 0..(computed[s] - 1) /\ x < computed[s] + num_new[s]
      BY <1>3, <2>1, <3>1
    <3>3. i \in DOMAIN table[s] /\ table[s][i] \in Range(table[s])
      BY <2>1, <3>2, SlotLaws DEF IndInv
    <3>4. kv[Origin(cow, table[s][i])][o] = Context(s, x)
      BY <3>2, FaithfulLaws DEF AllHold, Holds, KVInv
    <3>5. Origin(cow', T[i]) = Origin(cow, table[s][i])
      <4>1. CASE copy /\ i = w
        <5>1. Origin(cow', T[i]) = table[s][i]  BY <1>8, <4>1 DEF Redirects
        <5>2. \A j \in DOMAIN cow : cow[j][2] # table[s][i]  BY <1>7, <3>3
        <5> QED BY <5>1, <5>2, OriginKept
      <4>2. CASE ~(copy /\ i = w)
        <5>1. T[i] = table[s][i]  BY <1>2, <1>5, <2>2, <3>3, <4>2
        <5> QED BY <1>9, <3>3, <5>1
      <4> QED BY <4>1, <4>2
    <3> QED BY <1>4, <3>4, <3>5 DEF Context
  <2>3. CASE hits # <<>> /\ table[s] = <<>> /\ computed[s] = 0
    <3> DEFINE q == x \div BlockSize
    <3>1. q \in Nat /\ o \in Offsets /\ q * BlockSize <= x /\ x = q * BlockSize + o
          /\ q * BlockSize \in Nat
      BY <2>1, DivMod, DivBounds
    <3>2. x < k * BlockSize /\ k * BlockSize \in Nat
      <4>1. k * BlockSize \in Nat  BY <1>3, CeilOfMultiple
      <4> QED BY <2>1, <2>3, <4>1
    <3> HIDE DEF q, o
    <3>3. q < k
      <4>1. q * BlockSize < k * BlockSize  BY <2>1, <3>1, <3>2
      <4> QED BY <1>3, <3>1, <4>1, MultiplesOrdered
    <3>4. q + 1 \in DOMAIN hits /\ q + 1 \in DOMAIN (table[s] \o hits)
      BY <1>3, <1>5, <2>3, <3>1, <3>3
    <3>5. ~copy  BY <1>2, <2>3
    <3>6. T[q + 1] = hits[q + 1]  BY <1>2, <1>5, <2>3, <3>4, <3>5
    <3> DEFINE h == BlockPrefix(s, q + 1)
    <3>7. h \in DOMAIN cached /\ hits[q + 1] = cached[h] /\ hash[cached[h]] = h /\ h # NoHash
      BY <3>4 DEF IndInv, CacheConsistent, TypeOK
    <3>8. Origin(cow', T[q + 1]) = cached[h]
      <4>1. \A j \in DOMAIN cow : cow[j][2] # cached[h]  BY <1>7, <3>7
      <4> QED BY <1>2, <3>5, <3>6, <3>7, <4>1, OriginKept
    <3>9. kv[cached[h]][o] = SubSeq(h, 1, Len(h) - BlockSize + o + 1)
      BY <3>1, <3>7 DEF KVInv, CacheFaithful
    <3>10. SubSeq(h, 1, Len(h) - BlockSize + o + 1) = Context(s, q * BlockSize + o)
      <4>1. (q + 1) * BlockSize <= NumTokens(s)
        <5>1. (q + 1) * BlockSize = q * BlockSize + BlockSize  BY <3>1, MultiplesOrdered
        <5>2. (q + 1) * BlockSize <= k * BlockSize \/ q + 1 = k
          BY <1>3, <3>1, <3>3, MultiplesOrdered
        <5>3. (q + 1) * BlockSize <= k * BlockSize  BY <3>2, <5>2
        <5>4. computed[s] + k * BlockSize + n <= NumTokens(s)  BY DEF k
        <5>5. (q + 1) * BlockSize \in Int  BY <3>1, MultiplesOrdered
        <5> QED BY <1>3, <3>2, <5>3, <5>4, <5>5
      <4> QED BY <3>1, <4>1, PromisedContext DEF IndInv
    <3> QED BY <1>4, <3>1, <3>8, <3>9, <3>10 DEF q, o, Context
  <2> QED BY <2>2, <2>3
<1>11. phase' # "update"  OBVIOUS
<1>12. KVFaithful' /\ BatchComputed'
  <2>1. \A t \in Seqs \ {s} : \A b \in Range(table[t]) : Origin(cow', b) = Origin(cow, b)
    BY <1>9
  <2> QED BY <1>4, <1>10, <1>11, <2>1, OneChanges
<1>13. CacheFaithful'  BY <1>2, EvictFaithful DEF KVInv
<1> QED BY <1>12, <1>13 DEF KVInv

LEMMA AdmitFaithful ==
    ASSUME IndInv, IndInv', SharingInv, KVInv, kv' = kv, NEW s \in Seqs, Admit(s)
    PROVE  KVInv'
<1>1. PICK n \in 1..MaxModelLen, k \in 0..MaxModelLen : MayAdmit(s, n, k) /\ AdmitBlocks(s, n, k)
  BY DEF Admit
<1> DEFINE hits == GetComputedBlocks(s, k)
<1>2. n \in Nat \ {0} /\ k \in Nat  BY LengthAssumption
<1>3. /\ IsLongestHit(s, k) /\ AllocateSlots(s, n, hits)
      /\ computed' = [computed EXCEPT ![s] = k * BlockSize]
      /\ num_new' = [num_new EXCEPT ![s] = n]
      /\ UNCHANGED <<tokens, phase>>
  BY <1>1 DEF AdmitBlocks
<1>4. /\ InUse(s) /\ table[s] = <<>> /\ computed[s] = 0 /\ phase = "schedule"
      /\ n <= NumTokens(s) - k * BlockSize
  BY <1>1 DEF MayAdmit
<1>5. hits \in Seq(Blocks) /\ Len(hits) = k /\ IsInjective(hits)
  BY <1>2, <1>3, <1>4, HitLaws
<1>6. num_new[s] = 0  BY <1>4, UnheldUnscheduled DEF IndInv
<1>7. k * BlockSize \in Nat /\ NumTokens(s) \in Nat
  <2>1. tokens[s] \in Seq(Tokens)  BY DEF IndInv, TypeOK, TokenStrings
  <2> QED BY <1>2, <2>1, CeilOfMultiple, LenProperties DEF NumTokens
<1>8. \A i \in DOMAIN hits : BlockPrefix(s, i) \in DOMAIN cached /\ hits[i] = cached[BlockPrefix(s, i)]
  <2>1. DOMAIN hits = 1..k  BY DEF GetComputedBlocks
  <2>2. \A i \in 1..k : hits[i] = cached[BlockPrefix(s, i)]  BY DEF GetComputedBlocks
  <2>3. \A i \in 1..k : BlockPrefix(s, i) \in DOMAIN cached
    <3>1. k # 0 => \A i \in 1..k : BlockPrefix(s, i) \in DOMAIN cached  BY <1>3 DEF IsLongestHit
    <3> QED BY <3>1
  <2> QED BY <2>1, <2>2, <2>3
<1> HIDE DEF hits
<1>9. /\ computed[s] + Len(hits) * BlockSize = k * BlockSize
      /\ computed[s] + Len(hits) * BlockSize + n <= NumTokens(s)
  BY <1>2, <1>4, <1>5, <1>7
<1> QED BY <1>2, <1>3, <1>4, <1>5, <1>6, <1>8, <1>9, AllocationFaithful

LEMMA ContinueFaithful ==
    ASSUME IndInv, IndInv', SharingInv, KVInv, kv' = kv, NEW s \in Seqs, Continue(s)
    PROVE  KVInv'
<1>1. PICK n \in 1..MaxModelLen : MayContinue(s, n) /\ ContinueBlocks(s, n)
  BY DEF Continue
<1>2. n \in Nat \ {0}  BY LengthAssumption
<1>3. /\ AllocateSlots(s, n, <<>>) /\ num_new' = [num_new EXCEPT ![s] = n]
      /\ UNCHANGED <<tokens, computed, phase>> /\ phase = "schedule"
      /\ num_new[s] = 0 /\ n <= NumTokens(s) - computed[s]
  BY <1>1 DEF ContinueBlocks, MayContinue
<1>4. <<>> \in Seq(Blocks) /\ Len(<<>>) = 0 /\ IsInjective(<<>>) /\ DOMAIN <<>> = {}
  BY EmptySeq DEF IsInjective
<1>5. computed \in [Seqs -> Nat] /\ NumTokens(s) \in Nat
  <2>1. tokens[s] \in Seq(Tokens)  BY DEF IndInv, TypeOK, TokenStrings
  <2> QED BY <2>1, LenProperties DEF IndInv, TypeOK, NumTokens
<1>6. computed[s] + Len(<<>>) * BlockSize = computed[s]
  <2>1. 0 * BlockSize = 0  BY PoolAssumption
  <2> QED BY <1>4, <1>5, <2>1
<1>7. computed' = [computed EXCEPT ![s] = computed[s] + Len(<<>>) * BlockSize]
  BY <1>3, <1>5, <1>6
<1>8. computed[s] + Len(<<>>) * BlockSize + n <= NumTokens(s)
  BY <1>2, <1>3, <1>5, <1>6
<1> QED BY <1>2, <1>3, <1>4, <1>7, <1>8, AllocationFaithful

-----------------------------------------------------------------------------
(* Commit.                                                                   *)

\* Between the forward and the commit a scheduled sequence's positions are filled.
LEMMA PositionsFilled ==
    ASSUME IndInv, KVInv, phase = "update", NEW s \in Scheduled, NEW x \in Nat,
           x < computed[s] + num_new[s]
    PROVE  kv[table[s][x \div BlockSize + 1]][x % BlockSize] = Context(s, x)
<1>1. s \in Seqs /\ computed[s] \in Nat /\ num_new[s] \in Nat  BY DEF Scheduled, IndInv, TypeOK
<1>2. CASE x < computed[s]
  <2>1. x \in 0..(computed[s] - 1)  BY <1>1, <1>2
  <2>2. Holds(s, x)  BY <1>1, <2>1, FaithfulLaws DEF AllHold, KVInv
  <2>3. \A b : Origin(cow, b) = b
    <3>1. DOMAIN cow = {}  BY DEF IndInv, CopiesTaken
    <3> QED BY <3>1, OriginKept
  <2> QED BY <2>2, <2>3 DEF Holds
<1>3. CASE ~(x < computed[s])
  <2>1. x \in NewPositions(s)  BY <1>1, <1>3 DEF NewPositions
  <2>2. kv[Slot(s, x)[1]][Slot(s, x)[2]] = Context(s, x)  BY <2>1 DEF KVInv, BatchComputed
  <2> QED BY <2>2 DEF Slot
<1> QED BY <1>2, <1>3

\* A block registered now holds the prefix that its hash stands for.
LEMMA CachingFaithful ==
    ASSUME IndInv, KVInv, phase = "update", NEW s \in Scheduled, kv' = kv,
           CacheFullBlocks(s, computed[s] + num_new[s])
    PROVE  CacheFaithful'
<1> DEFINE after == computed[s] + num_new[s]
           H     == HashAfterCaching(s, after)
<1>1. s \in Seqs /\ num_new[s] > 0 /\ computed[s] \in Nat /\ num_new[s] \in Nat
  BY DEF Scheduled, IndInv, TypeOK
<1>2. /\ \A h \in DOMAIN cached' : cached'[h] \in Blocks /\ H[cached'[h]] = h /\ h # NoHash
      /\ \A b \in Blocks : H[b] = hash[b] \/
            \E i \in DOMAIN table[s] : /\ table[s][i] = b /\ H[b] = BlockPrefix(s, i)
                                       /\ i * BlockSize <= after
  BY <1>1, CachingEffect
<1>3. after \in Nat /\ after <= NumTokens(s)  BY <1>1 DEF IndInv, LengthsOK
<1> HIDE DEF H, after
<1> SUFFICES ASSUME NEW h \in DOMAIN cached', NEW o \in Offsets
             PROVE  kv[cached'[h]][o] = SubSeq(h, 1, Len(h) - BlockSize + o + 1)
  BY DEF CacheFaithful
<1> DEFINE b == cached'[h]
<1>4. b \in Blocks /\ H[b] = h /\ h # NoHash  BY <1>2
<1>5. CASE H[b] = hash[b]
  <2>1. h \in DOMAIN cached /\ cached[h] = b
    BY <1>4, <1>5 DEF IndInv, CacheConsistent
  <2> QED BY <2>1 DEF KVInv, CacheFaithful
<1>6. CASE \E i \in DOMAIN table[s] : /\ table[s][i] = b /\ H[b] = BlockPrefix(s, i)
                                      /\ i * BlockSize <= after
  <2>1. PICK i \in DOMAIN table[s] : /\ table[s][i] = b /\ H[b] = BlockPrefix(s, i)
                                     /\ i * BlockSize <= after
    BY <1>6
  <2> DEFINE q == i - 1
             x == q * BlockSize + o
  <2>2. q \in Nat /\ q + 1 = i
    <3>1. i \in 1..Len(table[s]) /\ Len(table[s]) \in Nat  BY <1>1, TableFacts DEF IndInv
    <3> QED BY <3>1
  <2> HIDE DEF q
  <2>3. /\ x \in Nat /\ x \div BlockSize = q /\ x % BlockSize = o
        /\ x < (q + 1) * BlockSize
    BY <2>2, PositionLaws
  <2>4. (q + 1) * BlockSize <= after /\ (q + 1) * BlockSize \in Nat  BY <2>1, <2>2, CeilOfMultiple
  <2> HIDE DEF x
  <2>5. x < computed[s] + num_new[s]  BY <1>3, <2>3, <2>4 DEF after
  <2>6. kv[table[s][x \div BlockSize + 1]][x % BlockSize] = Context(s, x)
    BY <2>3, <2>5, PositionsFilled
  <2>7. (q + 1) * BlockSize <= NumTokens(s)
    <3>1. NumTokens(s) \in Nat
      <4>1. tokens[s] \in Seq(Tokens)  BY <1>1 DEF IndInv, TypeOK, TokenStrings
      <4> QED BY <4>1, LenProperties DEF NumTokens
    <3> QED BY <1>3, <2>4, <3>1
  <2>8. SubSeq(h, 1, Len(h) - BlockSize + o + 1) = Context(s, q * BlockSize + o)
    <3>1. h = BlockPrefix(s, q + 1)  BY <1>4, <2>1, <2>2
    <3>2. TypeOK  BY DEF IndInv
    <3> QED BY <1>1, <2>2, <2>7, <3>1, <3>2, PromisedContext
  <2> QED BY <2>1, <2>2, <2>3, <2>6, <2>8 DEF x
<1> QED BY <1>2, <1>4, <1>5, <1>6

\* The watermark moves over positions that the forward has filled.
LEMMA CommitKeepsFaithful ==
    ASSUME IndInv, IndInv', KVInv, kv' = kv, NEW s \in Seqs, NEW after,
           MayCommit(s, after), Committed(s, after),
           NEW ts \in Seq(Tokens), Len(tokens[s]) <= Len(ts),
           \A i \in 1..Len(tokens[s]) : ts[i] = tokens[s][i],
           tokens' = [tokens EXCEPT ![s] = ts],
           computed' = [computed EXCEPT ![s] = after],
           UNCHANGED table
    PROVE  KVInv'
<1>1. /\ phase = "update" /\ num_new[s] > 0 /\ after = computed[s] + num_new[s]
      /\ num_new' = [num_new EXCEPT ![s] = 0] /\ cow' = cow
      /\ CacheFullBlocks(s, after)
  BY DEF MayCommit, Committed
<1>2. s \in Scheduled  BY <1>1 DEF Scheduled
<1>3. CacheFaithful'  BY <1>1, <1>2, CachingFaithful
<1>4. /\ tokens'[s] = ts /\ computed'[s] = after /\ num_new'[s] = 0
      /\ \A t \in Seqs \ {s} : /\ table'[t] = table[t] /\ computed'[t] = computed[t]
                               /\ tokens'[t] = tokens[t] /\ num_new'[t] = num_new[t]
  BY <1>1 DEF IndInv, TypeOK
<1>5. /\ computed[s] \in Nat /\ num_new[s] \in Nat /\ tokens[s] \in Seq(Tokens)
      /\ Len(tokens[s]) \in Nat /\ Len(ts) \in Nat /\ after <= Len(tokens[s])
  <2>1. computed[s] \in Nat /\ num_new[s] \in Nat /\ tokens[s] \in Seq(Tokens)
    BY DEF IndInv, TypeOK, TokenStrings
  <2>2. after <= Len(tokens[s])  BY <1>1 DEF IndInv, LengthsOK, NumTokens
  <2> QED BY <2>1, <2>2, LenProperties
<1>6. ASSUME NEW x \in 0..(computed'[s] - 1)
      PROVE  kv[Origin(cow', table'[s][x \div BlockSize + 1])][x % BlockSize]
                = SubSeq(tokens'[s], 1, x + 1)
  <2>1. x \in Nat /\ x < computed[s] + num_new[s]  BY <1>1, <1>4, <1>5
  <2>2. kv[table[s][x \div BlockSize + 1]][x % BlockSize] = Context(s, x)
    BY <1>1, <1>2, <2>1, PositionsFilled
  <2>3. \A b : Origin(cow', b) = b
    <3>1. DOMAIN cow' = {}  BY <1>1 DEF IndInv, CopiesTaken
    <3> QED BY <3>1, OriginKept
  <2> DEFINE m == x + 1
  <2>4. m \in 0..Len(tokens[s]) /\ m <= Len(ts) /\ m <= Len(tokens[s]) /\ m \in Nat
    BY <1>1, <1>5, <2>1
  <2> HIDE DEF m
  <2>5. \A i \in 1..m : tokens[s][i] = ts[i]
    <3>1. \A i \in 1..m : i \in 1..Len(tokens[s])  BY <1>5, <2>4
    <3> QED BY <3>1
  <2>6. SubSeq(tokens[s], 1, m) = SubSeq(ts, 1, m)  BY <1>5, <2>4, <2>5, PrefixEqual
  <2> QED BY <1>4, <2>2, <2>3, <2>6 DEF Context, m
<1>7. KVFaithful' /\ BatchComputed'  BY <1>1, <1>4, <1>6, OneChanges
<1> QED BY <1>3, <1>7 DEF KVInv

LEMMA CommitFaithful ==
    ASSUME IndInv, IndInv', KVInv, kv' = kv, NEW s \in Seqs, Commit(s)
    PROVE  KVInv'
<1>1. PICK after \in 1..MaxModelLen :
         /\ MayCommit(s, after)
         /\ \/ CommitWatermark(s, after)
            \/ \E t \in SampledTokens : CommitToken(s, after, t)
            \/ CommitFinish(s, after)
  BY DEF Commit
<1>2. tokens \in [Seqs -> TokenStrings] /\ tokens[s] \in Seq(Tokens) /\ Len(tokens[s]) \in Nat
  <2>1. tokens \in [Seqs -> TokenStrings] /\ tokens[s] \in Seq(Tokens)
    BY DEF IndInv, TypeOK, TokenStrings
  <2> QED BY <2>1, LenProperties
<1>3. CASE CommitWatermark(s, after)
  <2> DEFINE ts == tokens[s]
  <2>1. tokens' = [tokens EXCEPT ![s] = ts]  BY <1>2, <1>3 DEF CommitWatermark
  <2>2. Committed(s, after) /\ computed' = [computed EXCEPT ![s] = after] /\ UNCHANGED table
    BY <1>3 DEF CommitWatermark
  <2> HIDE DEF ts
  <2>3. ts \in Seq(Tokens) /\ Len(tokens[s]) <= Len(ts)
        /\ \A i \in 1..Len(tokens[s]) : ts[i] = tokens[s][i]
    BY <1>2 DEF ts
  <2> QED BY <1>1, <2>1, <2>2, <2>3, CommitKeepsFaithful
<1>4. ASSUME NEW t \in SampledTokens, CommitToken(s, after, t)
      PROVE  KVInv'
  <2> DEFINE ts == Append(tokens[s], t)
  <2>1. /\ tokens' = [tokens EXCEPT ![s] = ts] /\ Committed(s, after)
        /\ computed' = [computed EXCEPT ![s] = after] /\ UNCHANGED table
    BY <1>4 DEF CommitToken
  <2>2. t \in Tokens  BY SampledAssumption
  <2>3. /\ ts \in Seq(Tokens) /\ Len(ts) = Len(tokens[s]) + 1
        /\ \A i \in 1..Len(tokens[s]) : ts[i] = tokens[s][i]
    BY <1>2, <2>2, AppendProperties
  <2> HIDE DEF ts
  <2>4. Len(tokens[s]) <= Len(ts)  BY <1>2, <2>3
  <2> QED BY <1>1, <2>1, <2>3, <2>4, CommitKeepsFaithful
<1>5. CASE CommitFinish(s, after)
  <2> DEFINE H == HashAfterCaching(s, after)
  <2>1. /\ phase = "update" /\ num_new[s] > 0 /\ after = computed[s] + num_new[s]
        /\ num_new' = [num_new EXCEPT ![s] = 0] /\ cow' = cow
        /\ CacheFullBlocks(s, after) /\ table' = [table EXCEPT ![s] = <<>>]
        /\ computed' = [computed EXCEPT ![s] = 0] /\ tokens' = [tokens EXCEPT ![s] = <<>>]
    BY <1>1, <1>5 DEF MayCommit, CommitFinish, Committed, FreeBlocks
  <2>2. s \in Scheduled  BY <2>1 DEF Scheduled
  <2>3. CacheFaithful'  BY <2>1, <2>2, CachingFaithful
  <2>4. /\ computed'[s] = 0 /\ num_new'[s] = 0
        /\ \A t \in Seqs \ {s} : /\ table'[t] = table[t] /\ computed'[t] = computed[t]
                                 /\ tokens'[t] = tokens[t] /\ num_new'[t] = num_new[t]
    BY <2>1 DEF IndInv, TypeOK
  <2>5. 0..(computed'[s] - 1) = {}  BY <2>4
  <2>6. KVFaithful' /\ BatchComputed'  BY <2>1, <2>4, <2>5, OneChanges
  <2> QED BY <2>3, <2>6 DEF KVInv
<1> QED BY <1>1, <1>3, <1>4, <1>5

-----------------------------------------------------------------------------
(* The forward pass.                                                         *)

\* Every new position of a scheduled sequence has a slot.
LEMMA NewPositionLaws ==
    ASSUME IndInv, NEW s \in Scheduled, NEW x \in NewPositions(s)
    PROVE  /\ s \in Seqs /\ x \in Nat /\ x >= computed[s] /\ x < computed[s] + num_new[s]
           /\ Slot(s, x)[1] \in Blocks /\ Slot(s, x)[2] \in Offsets
           /\ Slot(s, x) = <<Slot(s, x)[1], Slot(s, x)[2]>>
           /\ Slot(s, x)[1] \in WrittenBlocks(s)
<1>1. s \in Seqs /\ computed[s] \in Nat /\ num_new[s] \in Nat
  BY DEF Scheduled, IndInv, TypeOK
<1>2. x \in Nat /\ x >= computed[s] /\ x < computed[s] + num_new[s]
  BY <1>1 DEF NewPositions
<1>3. Slot(s, x)[1] \in Blocks /\ Slot(s, x)[2] \in Offsets
  BY <1>1, <1>2, SlotLaws DEF IndInv
<1>4. Slot(s, x) = <<Slot(s, x)[1], Slot(s, x)[2]>>  BY DEF Slot
<1>5. Slot(s, x)[1] \in WrittenBlocks(s)
  <2> DEFINE j == x - computed[s]
  <2>1. j \in 0..(num_new[s] - 1) /\ computed[s] + j = x  BY <1>1, <1>2
  <2> QED BY <2>1 DEF WrittenBlocks, Slot
<1> QED BY <1>1, <1>2, <1>3, <1>4, <1>5

\* No computed position is written, so attention reads the prefix.
LEMMA ComputedUnwritten ==
    ASSUME IndInv, NEW t \in Seqs, NEW x \in 0..(computed[t] - 1), NEW s \in Scheduled
    PROVE  Slot(t, x) \notin WrittenSlots(s)
<1>1. computed[t] \in Nat /\ num_new[t] \in Nat  BY DEF IndInv, TypeOK
<1>2. x \in Nat /\ x < computed[t] + num_new[t] /\ ~(x >= computed[t])  BY <1>1
<1> QED BY <1>2, WrittenApart

LEMMA ReadsHold ==
    ASSUME IndInv, KVFaithful, phase = "schedule", NEW s \in Scheduled
    PROVE  ReadsOwnPrefix(s)
<1>1. s \in Seqs  BY DEF Scheduled
<1>2. ASSUME NEW x \in 0..(computed[s] - 1)
      PROVE  AfterCopies[Slot(s, x)[1]][Slot(s, x)[2]] = Context(s, x)
  BY <1>1 DEF KVFaithful, Settled
<1> QED BY <1>1, <1>2, ComputedUnwritten DEF ReadsOwnPrefix

\* A new position gets its own context, and no other write reaches its slot.
LEMMA ForwardWrites ==
    ASSUME IndInv, KVFaithful, phase = "schedule", NEW s \in Scheduled, NEW x \in NewPositions(s)
    PROVE  AfterForward[Slot(s, x)[1]][Slot(s, x)[2]] = Context(s, x)
<1> DEFINE b == Slot(s, x)[1]
           o == Slot(s, x)[2]
           s2 == CHOOSE u \in Scheduled : <<b, o>> \in WrittenSlots(u)
           x2 == CHOOSE y \in NewPositions(s2) : Slot(s2, y) = <<b, o>>
<1>1. /\ s \in Seqs /\ x \in Nat /\ x < computed[s] + num_new[s]
      /\ b \in Blocks /\ o \in Offsets /\ Slot(s, x) = <<b, o>>
  BY NewPositionLaws
<1>2. <<b, o>> \in WrittenSlots(s)  BY <1>1 DEF WrittenSlots
<1>3. s2 = s
  <2>1. s2 \in Scheduled /\ <<b, o>> \in WrittenSlots(s2)  BY <1>2
  <2> HIDE DEF s2
  <2> QED BY <1>1, <2>1, WrittenApart
<1>4. x2 = x
  <2> HIDE DEF s2
  <2>1. x2 \in NewPositions(s) /\ Slot(s, x2) = <<b, o>>  BY <1>1, <1>3
  <2> HIDE DEF x2
  <2>2. x2 \in Nat /\ x2 < computed[s] + num_new[s]  BY <2>1, NewPositionLaws
  <2> QED BY <1>1, <2>1, <2>2, SlotInjective DEF IndInv
<1>5. ReadsOwnPrefix(s)  BY ReadsHold
<1>6. AfterForward[b][o] = IF ReadsOwnPrefix(s2) THEN Context(s2, x2) ELSE Noise
  <2>1. \E u \in Scheduled : <<b, o>> \in WrittenSlots(u)  BY <1>2
  <2> HIDE DEF b, o
  <2> QED BY <1>1, <2>1 DEF AfterForward
<1> QED BY <1>3, <1>4, <1>5, <1>6

LEMMA ForwardKeeps ==
    ASSUME NEW b \in Blocks, NEW o \in Offsets, \A s \in Scheduled : <<b, o>> \notin WrittenSlots(s)
    PROVE  AfterForward[b][o] = AfterCopies[b][o]
BY DEF AfterForward

\* A block that the cache offers is neither written nor the target of a copy.
LEMMA ForwardKeepsCached ==
    ASSUME IndInv, SharingInv, NEW h \in DOMAIN cached, NEW o \in Offsets
    PROVE  AfterForward[cached[h]][o] = kv[cached[h]][o]
<1> DEFINE b == cached[h]
<1>1. b \in Blocks /\ hash[b] = h /\ h # NoHash  BY DEF IndInv, TypeOK, CacheConsistent
<1> HIDE DEF b
<1>2. ASSUME NEW s \in Scheduled PROVE <<b, o>> \notin WrittenSlots(s)
  <2> SUFFICES ASSUME <<b, o>> \in WrittenSlots(s) PROVE FALSE  OBVIOUS
  <2>1. PICK x \in NewPositions(s) : <<b, o>> = Slot(s, x)  BY DEF WrittenSlots
  <2>2. s \in Seqs /\ b \in WrittenBlocks(s)  BY <2>1, NewPositionLaws
  <2>3. PICK i \in DOMAIN table[s] : table[s][i] = b /\ i > computed[s] \div BlockSize
    BY <2>2, WrittenLaws
  <2>4. hash[b] = NoHash  BY <2>2, <2>3, UnfilledUnhashed DEF IndInv
  <2> QED BY <1>1, <2>4
<1>3. AfterForward[b][o] = AfterCopies[b][o]  BY <1>1, <1>2, ForwardKeeps
<1>4. \A i \in DOMAIN cow : cow[i][2] # b
  <2>1. \A i \in DOMAIN cow : hash[cow[i][2]] = NoHash  BY TargetFacts DEF SharingInv
  <2> QED BY <1>1, <2>1
<1>5. AfterCopies[b] = kv[b]  BY <1>1, <1>4, SettledLaws, OriginKept
<1> QED BY <1>3, <1>5 DEF b

LEMMA RunFaithful ==
    ASSUME IndInv, SharingInv, KVInv, MayRun, Forward
    PROVE  KVInv'
<1>1. /\ phase = "schedule" /\ phase' = "update" /\ kv' = AfterForward
      /\ UNCHANGED <<tokens, computed, table, num_new, cached>>
  BY DEF MayRun, Forward, TakePendingCopies, seqVars
<1>2. /\ Scheduled' = Scheduled
      /\ \A s, x : Slot(s, x)' = Slot(s, x) /\ Context(s, x)' = Context(s, x)
      /\ \A s : NewPositions(s)' = NewPositions(s)
  BY <1>1 DEF Scheduled, Slot, Context, NewPositions
<1>3. KVFaithful /\ CacheFaithful  BY DEF KVInv
<1>4. ASSUME NEW s \in Seqs, NEW x \in 0..(computed[s] - 1)
      PROVE  kv'[Slot(s, x)[1]][Slot(s, x)[2]] = Context(s, x)
  <2>1. x \in Nat /\ x < computed[s] + num_new[s]
    <3>1. computed[s] \in Nat /\ num_new[s] \in Nat  BY DEF IndInv, TypeOK
    <3> QED BY <3>1
  <2>2. /\ Slot(s, x)[1] \in Blocks /\ Slot(s, x)[2] \in Offsets
        /\ Slot(s, x) = <<Slot(s, x)[1], Slot(s, x)[2]>>
    <3>1. Slot(s, x) = <<Slot(s, x)[1], Slot(s, x)[2]>>  BY DEF Slot
    <3> QED BY <2>1, <3>1, SlotLaws DEF IndInv
  <2>3. \A t \in Scheduled : Slot(s, x) \notin WrittenSlots(t)  BY ComputedUnwritten
  <2>4. kv'[Slot(s, x)[1]][Slot(s, x)[2]] = AfterCopies[Slot(s, x)[1]][Slot(s, x)[2]]
    BY <1>1, <2>2, <2>3, ForwardKeeps
  <2> QED BY <1>1, <1>3, <2>4 DEF KVFaithful, Settled
<1>5. KVFaithful'
  <2>1. Settled' = kv'  BY <1>1 DEF Settled
  <2> QED BY <1>1, <1>2, <1>4, <2>1 DEF KVFaithful
<1>6. CacheFaithful'
  <2>1. \A h \in DOMAIN cached : \A o \in Offsets : kv'[cached[h]][o] = kv[cached[h]][o]
    BY <1>1, ForwardKeepsCached
  <2> QED BY <1>1, <1>3, <2>1 DEF CacheFaithful, Offsets
<1>7. BatchComputed'
  <2>1. \A s \in Scheduled : \A x \in NewPositions(s) :
           kv'[Slot(s, x)[1]][Slot(s, x)[2]] = Context(s, x)
    BY <1>1, <1>3, ForwardWrites
  <2> QED BY <1>2, <2>1 DEF BatchComputed
<1> QED BY <1>5, <1>6, <1>7 DEF KVInv

-----------------------------------------------------------------------------
(* The results.                                                              *)

\* A step of the cache is a step of the block manager.
LEMMA KVStepIsBMStep ==
    ASSUME [KVNext]_kvVars
    PROVE  [BMNext]_bmVars
BY DEF KVNext, kvVars, BMNext, Run, Forward

LEMMA InitFaithful ==
    ASSUME BMInit, KVInit
    PROVE  KVInv
<1>1. \A s \in Seqs : computed[s] = 0 /\ num_new[s] = 0  BY DEF BMInit
<1>2. DOMAIN cached = {} /\ phase = "schedule"  BY DEF BMInit
<1>3. KVFaithful  BY <1>1 DEF KVFaithful
<1> QED BY <1>2, <1>3 DEF KVInv, CacheFaithful, BatchComputed

LEMMA StepFaithful ==
    ASSUME IndInv, SharingInv, KVInv, [KVNext]_kvVars
    PROVE  KVInv'
<1>0. IndInv'  BY KVStepIsBMStep, StepPreserves
<1>1. CASE MayRun /\ Forward  BY <1>1, RunFaithful
<1>2. CASE UNCHANGED kvVars
  <2>1. UNCHANGED <<tokens, computed, table, num_new, phase, cached, cow, kv>>
    BY <1>2 DEF kvVars, bmVars, seqVars, poolVars
  <2>2. KVFaithful'
    BY <2>1 DEF KVInv, KVFaithful, Settled, AfterCopies, Slot, Context
  <2>3. CacheFaithful'  BY <2>1 DEF KVInv, CacheFaithful
  <2>4. BatchComputed'
    BY <2>1 DEF KVInv, BatchComputed, Slot, Context, NewPositions, Scheduled
  <2> QED BY <2>2, <2>3, <2>4 DEF KVInv
<1>3. CASE PoolNext /\ UNCHANGED kv
  <2> USE <1>0, <1>3
  <2>1. ASSUME NEW s \in Seqs, NEW p \in Prompts, Add(s, p) PROVE KVInv'
    BY <2>1, AddFaithful
  <2>2. ASSUME NEW s \in Seqs, Admit(s) PROVE KVInv'     BY <2>2, AdmitFaithful
  <2>3. ASSUME NEW s \in Seqs, Continue(s) PROVE KVInv'  BY <2>3, ContinueFaithful
  <2>4. ASSUME NEW s \in Seqs, RollBack(s) PROVE KVInv'  BY <2>4, RollBackFaithful
  <2>5. ASSUME NEW s \in Seqs, Preempt(s) PROVE KVInv'   BY <2>5, PreemptFaithful
  <2>6. ASSUME NEW s \in Seqs, Abort(s) PROVE KVInv'     BY <2>6, AbortFaithful
  <2>7. ASSUME NEW p \in Seqs, NEW c \in Seqs, Fork(p, c) PROVE KVInv'
    BY <2>7, ForkFaithful
  <2>8. ASSUME NEW s \in Seqs, Commit(s) PROVE KVInv'    BY <2>8, CommitFaithful
  <2> QED BY <2>1, <2>2, <2>3, <2>4, <2>5, <2>6, <2>7, <2>8 DEF PoolNext
<1> QED BY <1>1, <1>2, <1>3 DEF KVNext

\* The physical cache refines the block manager: the forward pass is Run, and
\* nothing else that kv_cache.py does is visible to it.
THEOREM KVRefinesPool == KVSpec => BMSpec
<1>1. [KVNext]_kvVars => [BMNext]_bmVars  BY KVStepIsBMStep
<1> QED BY <1>1, PTL DEF KVSpec, BMSpec

LEMMA KVInvHolds == KVSpec => [](IndInv /\ SharingInv /\ KVInv)
<1>1. BMInit /\ KVInit => IndInv /\ SharingInv /\ KVInv
  BY InitIndInv, InitShares, InitFaithful
<1>2. IndInv /\ SharingInv /\ KVInv /\ [KVNext]_kvVars => (IndInv /\ SharingInv /\ KVInv)'
  BY KVStepIsBMStep, StepPreserves, StepShares, StepFaithful
<1> QED BY <1>1, <1>2, PTL DEF KVSpec

\* What attention reads behind a computed position is the sequence's own prefix,
\* for every history of sharing, copying, eviction, preemption and forking
\* (slot_mapping, apply_copies and KVCache.write together).
THEOREM KVFaithfulHolds == KVSpec => []KVFaithful
<1>1. IndInv /\ SharingInv /\ KVInv => KVFaithful  BY DEF KVInv
<1> QED BY <1>1, KVInvHolds, PTL

\* A cached block holds what its hash promises for as long as it is in the map,
\* in use or not: a cache hit needs no forward pass.
THEOREM CacheFaithfulHolds == KVSpec => []CacheFaithful
<1>1. IndInv /\ SharingInv /\ KVInv => CacheFaithful  BY DEF KVInv
<1> QED BY <1>1, KVInvHolds, PTL
=============================================================================
