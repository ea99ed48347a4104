--------------------------- MODULE SchedulerProofs ---------------------------
(***************************************************************************)
(* The scheduler is a client the block manager was written for: every step  *)
(* of Scheduler is a step of PagedKV, so all that is proved of the pool and  *)
(* of the cache holds of the engine loop.  The argument is SchedInv, that    *)
(* the queues, the batch and the snapshot that schedule iterates over fit    *)
(* together; it also gives the scheduler's own properties.                   *)
(***************************************************************************)
EXTENDS Scheduler, PagedKVProofs

-----------------------------------------------------------------------------
(* Sequences.                                                                *)

\* A concatenation has no duplicates when its parts have and share none.
LEMMA SplitLaws ==
    ASSUME NEW B, NEW p \in Seq(B), NEW q \in Seq(B)
    PROVE  IsInjective(p \o q) <=>
              IsInjective(p) /\ IsInjective(q) /\ Range(p) \cap Range(q) = {}
<1> DEFINE m == Len(p)
           n == Len(q)
           r == p \o q
<1>1. /\ m \in Nat /\ DOMAIN p = 1..m /\ n \in Nat /\ DOMAIN q = 1..n
      /\ r \in Seq(B) /\ Len(r) = m + n /\ DOMAIN r = 1..(m + n)
      /\ \A i \in 1..(m + n) : r[i] = IF i <= m THEN p[i] ELSE q[i - m]
  BY LenProperties, ConcatProperties
<1>2. ASSUME IsInjective(r)
      PROVE  IsInjective(p) /\ IsInjective(q) /\ Range(p) \cap Range(q) = {}
  <2> HIDE DEF m, n, r
  <2>1. \A i \in 1..m : i \in DOMAIN r /\ r[i] = p[i]
    <3>1. \A i \in 1..m : i \in 1..(m + n) /\ i <= m  BY <1>1
    <3> QED BY <1>1, <3>1
  <2>2. \A i \in 1..n : m + i \in DOMAIN r /\ r[m + i] = q[i]
    <3>1. \A i \in 1..n : m + i \in 1..(m + n) /\ ~(m + i <= m) /\ (m + i) - m = i  BY <1>1
    <3> QED BY <1>1, <3>1
  <2>3. IsInjective(p)
    <3>1. \A i, j \in 1..m : p[i] = p[j] => i = j  BY <1>2, <2>1 DEF IsInjective
    <3> QED BY <1>1, <3>1 DEF IsInjective
  <2>4. IsInjective(q)
    <3>1. \A i, j \in 1..n : q[i] = q[j] => m + i = m + j  BY <1>2, <2>2 DEF IsInjective
    <3>2. \A i, j \in 1..n : m + i = m + j => i = j  BY <1>1
    <3> QED BY <1>1, <3>1, <3>2 DEF IsInjective
  <2>5. ASSUME NEW x \in Range(p), x \in Range(q)
        PROVE  FALSE
    <3>1. PICK i \in 1..m : p[i] = x  BY <1>1 DEF Range
    <3>2. PICK j \in 1..n : q[j] = x  BY <1>1, <2>5 DEF Range
    <3>3. i = m + j  BY <1>2, <2>1, <2>2, <3>1, <3>2 DEF IsInjective
    <3> QED BY <1>1, <3>3
  <2> QED BY <2>3, <2>4, <2>5
<1> QED BY <1>2, ConcatLaws

\* Head and tail of a queue.
LEMMA TailLaws ==
    ASSUME NEW B, NEW q \in Seq(B), q # <<>>
    PROVE  /\ Head(q) = q[1] /\ Head(q) \in B /\ Head(q) \in Range(q) /\ 1 \in DOMAIN q
           /\ Tail(q) \in Seq(B)
           /\ \A i \in DOMAIN Tail(q) : i + 1 \in DOMAIN q /\ Tail(q)[i] = q[i + 1]
           /\ Len(Tail(q)) = Len(q) - 1
           /\ Range(Tail(q)) \subseteq Range(q)
           /\ Range(q) = Range(Tail(q)) \cup {Head(q)}
           /\ IsInjective(q) => /\ IsInjective(Tail(q))
                                /\ Range(Tail(q)) = Range(q) \ {Head(q)}
           /\ q = <<Head(q)>> \o Tail(q)
<1> DEFINE n == Len(q)
           t == Tail(q)
<1>1. n \in Nat \ {0} /\ DOMAIN q = 1..n  BY EmptySeq, LenProperties
<1>2. /\ Head(q) \in B /\ t \in Seq(B) /\ Len(t) = n - 1
      /\ \A i \in 1..Len(t) : t[i] = q[i + 1]
  BY HeadTailProperties
<1>3. Head(q) = q[1]  OBVIOUS
<1> HIDE DEF n, t
<1>4. DOMAIN t = 1..(n - 1)  BY <1>2, LenProperties
<1>5. \A i \in DOMAIN t : i + 1 \in DOMAIN q /\ t[i] = q[i + 1]
  <2>1. \A i \in 1..(n - 1) : i + 1 \in 1..n  BY <1>1
  <2> QED BY <1>1, <1>2, <1>4, <2>1
<1>6. 1 \in DOMAIN q  BY <1>1
<1>7. Head(q) \in Range(q)  BY <1>3, <1>6 DEF Range
<1>8. Range(t) \subseteq Range(q)  BY <1>5 DEF Range
<1>9. \A j \in 1..n : j = 1 \/ (j - 1 \in 1..(n - 1) /\ (j - 1) + 1 = j)  BY <1>1
<1>10. Range(q) = Range(t) \cup {Head(q)}
  <2>1. ASSUME NEW x \in Range(q)
        PROVE  x \in Range(t) \cup {Head(q)}
    <3>1. PICK j \in 1..n : q[j] = x  BY <1>1 DEF Range
    <3>2. j = 1 \/ (j - 1 \in DOMAIN t /\ t[j - 1] = x)  BY <1>4, <1>5, <1>9, <3>1
    <3> QED BY <1>3, <3>1, <3>2 DEF Range
  <2> QED BY <1>7, <1>8, <2>1
<1>11. ASSUME IsInjective(q)
       PROVE  IsInjective(t) /\ Range(t) = Range(q) \ {Head(q)}
  <2>1. \A i, j \in DOMAIN t : i + 1 = j + 1 => i = j  BY <1>1, <1>4
  <2>2. IsInjective(t)  BY <1>5, <1>11, <2>1 DEF IsInjective
  <2>3. \A i \in DOMAIN t : i + 1 # 1  BY <1>1, <1>4
  <2>4. Head(q) \notin Range(t)
    <3>1. \A i \in DOMAIN t : t[i] # q[1]  BY <1>5, <1>6, <1>11, <2>3 DEF IsInjective
    <3> QED BY <1>3, <3>1 DEF Range
  <2> QED BY <1>10, <2>2, <2>4
<1>12. q = <<Head(q)>> \o t
  <2>1. /\ 1 \in 1..Len(q) /\ n \in 1..Len(q) /\ 1 + 1 = 2 /\ n \in 1..n
    BY <1>1 DEF n
  <2>2. SubSeq(q, 1, n) = <<q[1]>> \o SubSeq(q, 1 + 1, n)  BY <2>1, SubSeqRecursiveFirst
  <2>3. SubSeq(q, 1, n) = q  BY SubSeqFull DEF n
  <2>4. t = SubSeq(q, 2, n)  BY TailIsSubSeq DEF n, t
  <2> QED BY <1>3, <2>1, <2>2, <2>3, <2>4
<1> QED BY <1>2, <1>3, <1>5, <1>6, <1>7, <1>8, <1>10, <1>11, <1>12 DEF t, n

\* A new member at the end.
LEMMA AppendRange ==
    ASSUME NEW B, NEW q \in Seq(B), NEW x \in B
    PROVE  /\ Append(q, x) \in Seq(B) /\ Append(q, x) # <<>>
           /\ Range(Append(q, x)) = Range(q) \cup {x}
<1> DEFINE v == <<x>>
<1>1. v \in Seq(B) /\ Range(v) = {x}  BY DEF Range
<1>2. Append(q, x) = q \o v /\ Append(q, x) # <<>> /\ Append(q, x) \in Seq(B)
  BY AppendIsConcat, AppendProperties
<1> HIDE DEF v
<1>3. Range(q \o v) = Range(q) \cup Range(v)  BY <1>1, ConcatLaws
<1> QED BY <1>1, <1>2, <1>3

LEMMA AppendLaws ==
    ASSUME NEW B, NEW q \in Seq(B), IsInjective(q), NEW x \in B, x \notin Range(q)
    PROVE  /\ Append(q, x) \in Seq(B) /\ Append(q, x) # <<>> /\ IsInjective(Append(q, x))
           /\ Range(Append(q, x)) = Range(q) \cup {x}
<1> DEFINE v == <<x>>
<1>1. v \in Seq(B) /\ Range(v) = {x} /\ IsInjective(v) /\ Append(q, x) = q \o v
  BY AppendIsConcat DEF Range, IsInjective
<1> HIDE DEF v
<1>2. Range(q) \cap Range(v) = {}  BY <1>1
<1>3. IsInjective(q \o v)  BY <1>1, <1>2, ConcatLaws
<1>4. IsInjective(Append(q, x))  BY <1>1, <1>3
<1> QED BY <1>4, AppendRange

\* A new member at the front.
LEMMA PrependLaws ==
    ASSUME NEW B, NEW q \in Seq(B), IsInjective(q), NEW x \in B, x \notin Range(q)
    PROVE  /\ <<x>> \o q \in Seq(B) /\ IsInjective(<<x>> \o q)
           /\ Range(<<x>> \o q) = Range(q) \cup {x}
<1> DEFINE v == <<x>>
<1>1. v \in Seq(B) /\ Range(v) = {x} /\ IsInjective(v)  BY DEF Range, IsInjective
<1> HIDE DEF v
<1>2. Range(q) \cap Range(v) = {}  BY <1>1
<1>3. v \o q \in Seq(B) /\ IsInjective(v \o q) /\ Range(v \o q) = Range(v) \cup Range(q)
  BY <1>1, <1>2, ConcatLaws
<1> QED BY <1>1, <1>3 DEF v

-----------------------------------------------------------------------------
(* What the invariants say of the sequences a step is about to touch.        *)

\* QueuesPartition without the concatenation: the statuses keep the queues apart.
QueueParts ==
    /\ IsInjective(running) /\ IsInjective(waiting)
    /\ Range(running) = {s \in Seqs : status[s] = "RUNNING"}
    /\ Range(waiting) = {s \in Seqs : status[s] = "WAITING"}
    /\ \A s \in Seqs : InUse(s) <=> status[s] \in {"RUNNING", "WAITING"}
    /\ \A s \in Seqs : status[s] # "RUNNING" => table[s] = <<>> /\ computed[s] = 0

LEMMA QueueForms == SchedulerTypeOK => (QueuesPartition <=> QueueParts)
<1> SUFFICES ASSUME SchedulerTypeOK PROVE QueuesPartition <=> QueueParts  OBVIOUS
<1>1. running \in Seq(Seqs) /\ waiting \in Seq(Seqs)  BY DEF SchedulerTypeOK
<1>2. IsInjective(running \o waiting) <=>
         IsInjective(running) /\ IsInjective(waiting) /\ Range(running) \cap Range(waiting) = {}
  BY <1>1, SplitLaws
<1>3. QueueParts => Range(running) \cap Range(waiting) = {}  BY DEF QueueParts
<1> QED BY <1>2, <1>3 DEF QueueParts, QueuesPartition

LEMMA QueueFormsNext == SchedulerTypeOK' => (QueuesPartition' <=> QueueParts')
BY QueueForms, PTL

\* The lengths and types that the chunk sizes are computed from.
LEMMA LengthFacts ==
    ASSUME IndInv, NEW s \in Seqs
    PROVE  /\ tokens[s] \in Seq(Tokens) /\ NumTokens(s) \in Nat /\ NumTokens(s) <= MaxModelLen
           /\ computed[s] \in Nat /\ num_new[s] \in Nat
           /\ computed[s] + num_new[s] <= NumTokens(s)
           /\ InUse(s) => computed[s] < NumTokens(s)
           /\ num_new[s] > 0 <=> s \in Scheduled
<1>1. tokens[s] \in Seq(Tokens) /\ Len(tokens[s]) <= MaxModelLen
      /\ computed[s] \in Nat /\ num_new[s] \in Nat
  BY DEF IndInv, TypeOK, TokenStrings
<1>2. NumTokens(s) \in Nat  BY <1>1, LenProperties DEF NumTokens
<1>3. computed[s] + num_new[s] <= NumTokens(s) /\ (InUse(s) => computed[s] < NumTokens(s))
  BY DEF IndInv, LengthsOK
<1> QED BY <1>1, <1>2, <1>3 DEF NumTokens, Scheduled

\* A running sequence holds blocks.
LEMMA RunningHolds ==
    ASSUME IndInv, SchedInv, NEW s \in Range(running)
    PROVE  s \in Seqs /\ InUse(s) /\ status[s] = "RUNNING" /\ table[s] # <<>>
<1>1. QueueParts  BY QueueForms DEF SchedInv
<1>2. s \in Seqs /\ InUse(s) /\ status[s] = "RUNNING"  BY <1>1 DEF QueueParts
<1> DEFINE n == computed[s] + num_new[s]
           a == NumBlocksForTokens(n)
<1>3. n > 0  BY DEF SchedInv, BatchExact
<1>4. n \in Nat  BY <1>2, LengthFacts
<1> HIDE DEF n
<1>5. a \in Nat /\ n <= a * BlockSize  BY <1>4, CeilBounds
<1>6. a # 0
  <2>1. 0 * BlockSize = 0  BY PoolAssumption
  <2> HIDE DEF a
  <2> QED BY <1>3, <1>4, <1>5, <2>1
<1>7. Len(table[s]) = a  BY <1>2 DEF IndInv, TableExact, n
<1>8. table[s] # <<>>  BY <1>6, <1>7, EmptySeq
<1> QED BY <1>2, <1>8

\* A waiting sequence holds none.
LEMMA WaitingHolds ==
    ASSUME IndInv, SchedInv, NEW s \in Range(waiting)
    PROVE  /\ s \in Seqs /\ InUse(s) /\ status[s] = "WAITING"
           /\ table[s] = <<>> /\ computed[s] = 0 /\ num_new[s] = 0
           /\ s \notin Range(running) /\ s \notin Range(batch)
<1>1. QueueParts  BY QueueForms DEF SchedInv
<1>2. s \in Seqs /\ InUse(s) /\ status[s] = "WAITING" /\ table[s] = <<>> /\ computed[s] = 0
  BY <1>1 DEF QueueParts
<1>3. s \notin Range(running)  BY <1>1, <1>2 DEF QueueParts
<1>4. s \notin Range(batch) /\ s \notin Scheduled  BY <1>3 DEF SchedInv, BatchExact
<1> QED BY <1>2, <1>3, <1>4, LengthFacts

\* What schedule gives a sequence fits the sequence, the budget and the model.
LEMMA ChunkLaws ==
    ASSUME IndInv, SchedulerTypeOK, NEW s \in Seqs, NEW u \in Nat \ {0},
           u <= NumTokens(s), budget > 0
    PROVE  LET n == Lower(u, budget)
           IN  /\ n \in Nat \ {0} /\ n \in 1..u /\ n \in 1..MaxModelLen
               /\ n <= budget /\ budget - n \in 0..MaxNumBatchedTokens
               /\ u <= budget => n = u
<1>1. /\ NumTokens(s) \in Nat /\ NumTokens(s) <= MaxModelLen /\ MaxModelLen \in Nat
      /\ budget \in Nat /\ budget <= MaxNumBatchedTokens /\ MaxNumBatchedTokens \in Nat
  BY LengthFacts, LengthAssumption, BudgetAssumption DEF SchedulerTypeOK
<1> QED BY <1>1 DEF Lower

\* The head of the snapshot, unless it is a victim, is running, and has not been
\* scheduled in this step.
LEMMA HeadRuns ==
    ASSUME IndInv, SchedInv, Looping, todo # <<>>, Head(todo) \notin preempted
    PROVE  LET s == Head(todo)
           IN  /\ s \in Range(running) /\ s \in Seqs /\ s \notin Range(batch)
               /\ InUse(s) /\ table[s] # <<>> /\ num_new[s] = 0
               /\ Uncomputed(s) \in Nat \ {0} /\ Uncomputed(s) <= NumTokens(s)
               /\ phase = "schedule" /\ running # <<>>
<1> DEFINE s == Head(todo)
<1>1. todo \in Seq(Seqs) /\ running \in Seq(Seqs)  BY DEF SchedInv, SchedulerTypeOK
<1>2. s = todo[1] /\ 1 \in DOMAIN todo /\ s \in Range(todo)  BY <1>1, TailLaws
<1>3. PICK m \in 0..Len(running) : Passed(m)  BY DEF SchedInv, SnapshotExact
<1>4. s \in Range(running)
  <2>1. m + 1 <= Len(running) /\ todo[1] = running[m + 1]  BY <1>2, <1>3 DEF Passed
  <2>2. Len(running) \in Nat /\ DOMAIN running = 1..Len(running)  BY <1>1, LenProperties
  <2>3. m + 1 \in 1..Len(running)  BY <2>1, <2>2
  <2> QED BY <1>2, <2>1, <2>2, <2>3 DEF Range
<1>5. s \notin Range(batch)  BY <1>2 DEF SchedInv, SnapshotExact
<1>6. s \in Seqs /\ InUse(s) /\ table[s] # <<>>  BY <1>4, RunningHolds
<1>7. num_new[s] = 0
  <2>1. s \notin Scheduled  BY <1>5 DEF SchedInv, BatchExact
  <2> QED BY <1>6, <2>1, LengthFacts
<1>8. Uncomputed(s) \in Nat \ {0} /\ Uncomputed(s) <= NumTokens(s)
  <2> HIDE DEF s
  <2> QED BY <1>6, LengthFacts DEF Uncomputed
<1>9. phase = "schedule"
  <2>1. at # "update"  BY DEF Looping
  <2> QED BY <2>1 DEF SchedInv, StageExact, IndInv, TypeOK
<1>10. running # <<>>
  <2>1. Range(<<>>) = {}  BY DEF Range
  <2> QED BY <1>4, <2>1
<1> QED BY <1>4, <1>5, <1>6, <1>7, <1>8, <1>9, <1>10

\* The victim, the last running sequence, has not been scheduled in this step:
\* it is in what is left of the snapshot.
LEMMA VictimPending ==
    ASSUME IndInv, SchedInv, at = "preempting"
    PROVE  /\ Victim \in Range(running) /\ Victim \in Seqs /\ Victim \notin Range(batch)
           /\ InUse(Victim) /\ table[Victim] # <<>> /\ num_new[Victim] = 0
           /\ phase = "schedule"
           /\ Len(running) \in Nat
           /\ \A m \in 0..Len(running) : Passed(m) =>
                 /\ m \in 0..(Len(running) - 1)
                 /\ Len(running) - m \in DOMAIN todo /\ todo[Len(running) - m] = Victim
                 /\ Head(todo) = running[m + 1]
<1> DEFINE L == Len(running)
<1>1. /\ todo \in Seq(Seqs) /\ running \in Seq(Seqs) /\ IsInjective(running)
      /\ todo # <<>> /\ Head(todo) \notin preempted /\ Looping
  <2>1. QueueParts  BY QueueForms DEF SchedInv
  <2> QED BY <2>1 DEF SchedInv, SchedulerTypeOK, QueueParts, SnapshotExact, Looping
<1>2. running # <<>> /\ phase = "schedule"  BY <1>1, HeadRuns
<1>3. /\ L \in Nat \ {0} /\ Victim = running[L] /\ Victim \in Range(running)
  BY <1>1, <1>2, WithoutLast DEF Victim
<1>4. Head(todo) = todo[1] /\ 1 \in DOMAIN todo /\ DOMAIN todo = 1..Len(todo) /\ Len(todo) \in Nat
  BY <1>1, TailLaws, LenProperties
<1>5. ASSUME NEW m \in 0..L, Passed(m)
      PROVE  /\ m \in 0..(L - 1) /\ L - m \in DOMAIN todo /\ todo[L - m] = Victim
             /\ Head(todo) = running[m + 1]
  <2>1. m + 1 <= L /\ Head(todo) = running[m + 1]  BY <1>1, <1>4, <1>5 DEF Passed
  <2>2. L - m \in 1..Len(todo) /\ m + (L - m) = L
    <3>1. L - m <= Len(todo)  BY <1>5 DEF Passed
    <3> HIDE DEF L
    <3> QED BY <1>3, <1>4, <2>1, <3>1
  <2>3. todo[L - m] = running[L]
    <3>1. L - m \in DOMAIN todo /\ m + (L - m) <= L  BY <1>3, <1>4, <2>2
    <3> QED BY <1>5, <2>2, <3>1 DEF Passed
  <2>4. m \in 0..(L - 1)  BY <1>3, <2>1
  <2> QED BY <1>3, <1>4, <2>1, <2>2, <2>3, <2>4
<1>6. Victim \notin Range(batch)
  <2>1. PICK m \in 0..L : Passed(m)  BY <1>1 DEF SchedInv, SnapshotExact
  <2>2. L - m \in DOMAIN todo /\ todo[L - m] = Victim  BY <1>5, <2>1
  <2>3. Victim \in Range(todo)  BY <2>2 DEF Range
  <2> QED BY <1>1, <2>3 DEF SchedInv, SnapshotExact
<1>7. Victim \in Seqs /\ InUse(Victim) /\ table[Victim] # <<>>  BY <1>3, RunningHolds
<1>8. num_new[Victim] = 0
  <2>1. Victim \notin Scheduled  BY <1>6 DEF SchedInv, BatchExact
  <2> QED BY <1>7, <2>1, LengthFacts
<1> QED BY <1>2, <1>3, <1>5, <1>6, <1>7, <1>8

\* Between two steps nothing is scheduled, so requests may come, go and fork.
LEMMA IdleLaws ==
    ASSUME IndInv, SchedInv, at = "idle"
    PROVE  BetweenSteps /\ batch = <<>> /\ preempted = {} /\ todo = <<>>
<1>1. batch = <<>> /\ preempted = {} /\ phase # "update"
  BY DEF SchedInv, StageExact
<1>2. Range(<<>>) = {}  BY DEF Range
<1>3. Scheduled = {}  BY <1>1, <1>2 DEF SchedInv, BatchExact
<1>4. phase = "schedule"  BY <1>1 DEF IndInv, TypeOK
<1>5. todo = <<>>  BY DEF SchedInv, SnapshotExact, Looping
<1> QED BY <1>1, <1>3, <1>4, <1>5 DEF BetweenSteps

\* A cache hit leaves at least one token to compute.
LEMMA HitLength ==
    ASSUME IndInv, NEW s \in Seqs, InUse(s), NEW k \in Nat, IsLongestHit(s, k)
    PROVE  /\ k * BlockSize \in Nat
           /\ NumTokens(s) - k * BlockSize \in Nat \ {0}
           /\ NumTokens(s) - k * BlockSize <= NumTokens(s)
<1>1. k * BlockSize \in Nat  BY CeilOfMultiple
<1>2. NumTokens(s) \in Nat \ {0}  BY LengthFacts
<1>3. k * BlockSize <= NumTokens(s) - 1
  <2>1. CASE k = 0
    <3>1. 0 * BlockSize = 0  BY PoolAssumption
    <3> QED BY <1>2, <2>1, <3>1
  <2>2. CASE k # 0
    <3>1. k <= (NumTokens(s) - 1) \div BlockSize
      <4>1. k \in 0..MaxHits(s)  BY <2>2 DEF IsLongestHit
      <4> QED BY <4>1 DEF MaxHits
    <3>2. NumTokens(s) - 1 \in Nat  BY <1>2
    <3> QED BY <3>1, <3>2, FullBlocks
  <2> QED BY <2>1, <2>2
<1> QED BY <1>1, <1>2, <1>3

\* The head of the waiting queue may be admitted with what the budget allows.
LEMMA AdmissionLaws ==
    ASSUME IndInv, SchedInv, AdmissionOpen, NEW k \in 0..MaxModelLen, IsLongestHit(Head(waiting), k)
    PROVE  LET s == Head(waiting)
               n == FirstChunk(s, k)
           IN  /\ s \in Range(waiting) /\ s \in Seqs /\ InUse(s)
               /\ table[s] = <<>> /\ computed[s] = 0 /\ num_new[s] = 0 /\ phase = "schedule"
               /\ k \in Nat /\ k * BlockSize \in Nat /\ NumTokens(s) \in Nat
               /\ NumTokens(s) - k * BlockSize \in Nat \ {0}
               /\ n \in Nat \ {0} /\ n \in 1..MaxModelLen /\ n \in 1..(NumTokens(s) - k * BlockSize)
               /\ budget - n \in 0..MaxNumBatchedTokens
               /\ NumTokens(s) - k * BlockSize <= budget => n = NumTokens(s) - k * BlockSize
               /\ MayAdmit(s, n, k)
<1> DEFINE s == Head(waiting)
           u == NumTokens(s) - k * BlockSize
<1>1. waiting \in Seq(Seqs) /\ waiting # <<>> /\ budget > 0 /\ at = "waiting" /\ SchedulerTypeOK
  BY DEF SchedInv, SchedulerTypeOK, AdmissionOpen
<1>2. s \in Range(waiting)  BY <1>1, TailLaws
<1>3. /\ s \in Seqs /\ InUse(s) /\ table[s] = <<>> /\ computed[s] = 0 /\ num_new[s] = 0
  BY <1>2, WaitingHolds
<1>4. phase = "schedule"  BY <1>1 DEF SchedInv, StageExact, IndInv, TypeOK
<1>5. k \in Nat  BY LengthAssumption
<1>6. /\ k * BlockSize \in Nat /\ u \in Nat \ {0} /\ u <= NumTokens(s) /\ NumTokens(s) \in Nat
  BY <1>3, <1>5, HitLength, LengthFacts
<1> HIDE DEF s, u
<1> DEFINE n == Lower(u, budget)
<1>7. /\ n \in Nat \ {0} /\ n \in 1..u /\ n \in 1..MaxModelLen
      /\ budget - n \in 0..MaxNumBatchedTokens
      /\ u <= budget => n = u
  BY <1>1, <1>3, <1>6, ChunkLaws
<1>8. FirstChunk(s, k) = n  BY DEF FirstChunk, u
<1> QED BY <1>2, <1>3, <1>4, <1>5, <1>6, <1>7, <1>8 DEF s, u, MayAdmit

\* The results of the head of the batch may be committed.
LEMMA CommitLaws ==
    ASSUME IndInv, SchedInv, at = "update"
    PROVE  LET s == Head(batch)
           IN  /\ batch # <<>> /\ batch \in Seq(Seqs) /\ IsInjective(batch)
               /\ s \in Seqs /\ s \in Scheduled /\ s \in Range(batch) /\ s \in Range(running)
               /\ MayCommit(s, Target(s)) /\ Target(s) \in 1..MaxModelLen
               /\ Target(s) \in Nat /\ Target(s) <= NumTokens(s) /\ NumTokens(s) \in Nat
               /\ phase = "update"
<1> DEFINE s == Head(batch)
<1>1. /\ batch # <<>> /\ batch \in Seq(Seqs) /\ IsInjective(batch) /\ phase = "update"
      /\ Scheduled = Range(batch) /\ Range(batch) \subseteq Range(running)
  BY DEF SchedInv, SchedulerTypeOK, BatchExact, StageExact
<1>2. s \in Range(batch) /\ s \in Seqs  BY <1>1, TailLaws
<1> HIDE DEF s
<1>3. /\ computed[s] \in Nat /\ num_new[s] \in Nat /\ num_new[s] > 0
      /\ computed[s] + num_new[s] <= NumTokens(s) /\ NumTokens(s) \in Nat
      /\ NumTokens(s) <= MaxModelLen
  BY <1>1, <1>2, LengthFacts
<1>4. /\ Target(s) = computed[s] + num_new[s] /\ Target(s) \in Nat
      /\ Target(s) <= NumTokens(s) /\ Target(s) \in 1..MaxModelLen
  BY <1>3, LengthAssumption DEF Target
<1> QED BY <1>1, <1>2, <1>3, <1>4 DEF s, MayCommit

-----------------------------------------------------------------------------
(* Every step is a step of the cache.                                        *)

LEMMA AddSimulates ==
    ASSUME NEW s \in Seqs, NEW p \in Prompts, NEW o, NEW m, AddRequest(s, p, o, m)
    PROVE  KVNext
BY DEF AddRequest, KVNext, PoolNext

LEMMA AbortSimulates ==
    ASSUME IndInv, SchedInv, NEW s \in Seqs, AbortRequest(s)
    PROVE  KVNext
<1>1. BetweenSteps /\ InUse(s) /\ AbortBlocks(s) /\ UNCHANGED kv
  BY IdleLaws DEF AbortRequest
<1> QED BY <1>1 DEF KVNext, PoolNext, Abort

LEMMA ForkSimulates ==
    ASSUME IndInv, SchedInv, NEW p \in Seqs, NEW c \in Seqs, NEW m, NEW ts \in Branches(p),
           ForkRequest(p, c, ts, m)
    PROVE  KVNext /\ Fork(p, c) /\ MayFork(p, c)
<1>1. /\ at = "idle" /\ p \in Range(running) /\ ~InUse(c) /\ ForkBlocks(p, c, ts) /\ UNCHANGED kv
  BY DEF ForkRequest
<1>2. BetweenSteps  BY <1>1, IdleLaws
<1>3. computed[p] > 0
  <2>1. p \notin Scheduled  BY <1>2 DEF BetweenSteps
  <2>2. num_new[p] = 0  BY <2>1, LengthFacts
  <2>3. computed[p] \in Nat  BY LengthFacts
  <2>4. computed[p] + num_new[p] > 0  BY <1>1 DEF SchedInv, BatchExact
  <2> QED BY <2>2, <2>3, <2>4
<1>4. MayFork(p, c)  BY <1>1, <1>2, <1>3, RunningHolds DEF MayFork
<1>5. Fork(p, c)  BY <1>1, <1>4 DEF Fork
<1> QED BY <1>1, <1>4, <1>5 DEF KVNext, PoolNext

LEMMA ScheduleSimulates ==
    ASSUME IndInv, SchedInv, ScheduleRunning
    PROVE  KVNext
<1> DEFINE s == Head(todo)
           n == Lower(Uncomputed(s), budget)
<1>1. RunningLoop /\ ~Skipped(s) /\ ContinueBlocks(s, n) /\ UNCHANGED kv  BY DEF ScheduleRunning
<1>2. Looping /\ todo # <<>> /\ s \notin preempted /\ budget > 0
  BY <1>1 DEF RunningLoop, Looping, Skipped
<1>3. /\ s \in Seqs /\ InUse(s) /\ table[s] # <<>> /\ num_new[s] = 0 /\ phase = "schedule"
      /\ Uncomputed(s) \in Nat \ {0} /\ Uncomputed(s) <= NumTokens(s)
  BY <1>2, HeadRuns
<1> HIDE DEF s
<1>4. n \in 1..Uncomputed(s) /\ n \in 1..MaxModelLen
  BY <1>2, <1>3, ChunkLaws DEF SchedInv
<1>5. MayContinue(s, n)  BY <1>3, <1>4 DEF MayContinue, Uncomputed
<1>6. Continue(s)  BY <1>1, <1>4, <1>5 DEF Continue
<1> QED BY <1>1, <1>3, <1>6 DEF KVNext, PoolNext

LEMMA ExhaustedSimulates ==
    ASSUME IndInv, SchedInv, RunningExhausted
    PROVE  KVNext \/ UNCHANGED kvVars
<1> DEFINE s == Head(todo)
           n == Lower(Uncomputed(s), budget)
<1>1. RunningLoop /\ ~Skipped(s) /\ UNCHANGED kv /\ (UNCHANGED bmVars \/ RollBackBlocks(s, n))
  BY DEF RunningExhausted
<1>2. Looping /\ todo # <<>> /\ s \notin preempted /\ budget > 0
  BY <1>1 DEF RunningLoop, Looping, Skipped
<1>3. /\ s \in Seqs /\ InUse(s) /\ table[s] # <<>> /\ num_new[s] = 0 /\ phase = "schedule"
      /\ Uncomputed(s) \in Nat \ {0} /\ Uncomputed(s) <= NumTokens(s)
  BY <1>2, HeadRuns
<1> HIDE DEF s
<1>4. n \in 1..Uncomputed(s) /\ n \in 1..MaxModelLen
  BY <1>2, <1>3, ChunkLaws DEF SchedInv
<1>5. MayContinue(s, n)  BY <1>3, <1>4 DEF MayContinue, Uncomputed
<1>6. CASE UNCHANGED bmVars  BY <1>1, <1>6 DEF kvVars
<1>7. CASE RollBackBlocks(s, n)
  <2>1. RollBack(s)  BY <1>4, <1>5, <1>7 DEF RollBack
  <2> QED BY <1>1, <1>3, <2>1 DEF KVNext, PoolNext
<1> QED BY <1>1, <1>6, <1>7

LEMMA PreemptSimulates ==
    ASSUME IndInv, SchedInv, PreemptTail
    PROVE  KVNext
<1>1. at = "preempting" /\ PreemptBlocks(Victim) /\ UNCHANGED kv  BY DEF PreemptTail
<1>2. /\ Victim \in Seqs /\ InUse(Victim) /\ table[Victim] # <<>> /\ num_new[Victim] = 0
      /\ phase = "schedule"
  BY <1>1, VictimPending
<1>3. Preempt(Victim)  BY <1>1, <1>2 DEF Preempt, MayPreempt
<1> QED BY <1>1, <1>2, <1>3 DEF KVNext, PoolNext

LEMMA AdmitSimulates ==
    ASSUME IndInv, SchedInv, AdmitWaiting
    PROVE  KVNext
<1> DEFINE s == Head(waiting)
<1>1. AdmissionOpen /\ UNCHANGED kv  BY DEF AdmitWaiting
<1>2. PICK k \in 0..MaxModelLen : AdmitBlocks(s, FirstChunk(s, k), k)
  BY DEF AdmitWaiting
<1>3. IsLongestHit(s, k)  BY <1>2 DEF AdmitBlocks
<1>4. s \in Seqs /\ FirstChunk(s, k) \in 1..MaxModelLen /\ MayAdmit(s, FirstChunk(s, k), k)
  BY <1>1, <1>3, AdmissionLaws
<1> HIDE DEF s
<1>5. Admit(s)  BY <1>2, <1>4 DEF Admit
<1> QED BY <1>1, <1>4, <1>5 DEF KVNext, PoolNext

LEMMA RunSimulates ==
    ASSUME IndInv, SchedInv, RunBatch
    PROVE  KVNext /\ MayRun
<1>1. at = "waiting" /\ batch # <<>> /\ Forward  BY DEF RunBatch, ScheduleDone
<1>2. phase = "schedule"  BY <1>1 DEF SchedInv, StageExact, IndInv, TypeOK
<1>3. Scheduled # {}
  <2>1. batch \in Seq(Seqs)  BY DEF SchedInv, SchedulerTypeOK
  <2>2. Head(batch) \in Range(batch)  BY <1>1, <2>1, TailLaws
  <2> QED BY <2>2 DEF SchedInv, BatchExact
<1>4. MayRun  BY <1>2, <1>3 DEF MayRun
<1> QED BY <1>1, <1>4 DEF KVNext

LEMMA ChunkSimulates ==
    ASSUME IndInv, SchedInv, UpdateChunk
    PROVE  KVNext
<1> DEFINE s == Head(batch)
<1>1. /\ at = "update" /\ ~NeedsSampling(s) /\ CommitWatermark(s, Target(s)) /\ UNCHANGED kv
  BY DEF UpdateChunk, NextItem
<1>2. /\ s \in Seqs /\ MayCommit(s, Target(s)) /\ Target(s) \in 1..MaxModelLen
      /\ Target(s) \in Nat /\ Target(s) <= NumTokens(s) /\ NumTokens(s) \in Nat
  BY <1>1, CommitLaws
<1> HIDE DEF s
<1>3. Target(s) < NumTokens(s)  BY <1>1, <1>2 DEF NeedsSampling
<1>4. Commit(s)  BY <1>1, <1>2, <1>3 DEF Commit
<1> QED BY <1>1, <1>2, <1>4 DEF KVNext, PoolNext

LEMMA TokenSimulates ==
    ASSUME IndInv, SchedInv, NEW t \in SampledTokens, UpdateToken(t)
    PROVE  KVNext
<1> DEFINE s == Head(batch)
<1>1. /\ at = "update" /\ NeedsSampling(s) /\ ~LengthReached(s)
      /\ CommitToken(s, Target(s), t) /\ UNCHANGED kv
  BY DEF UpdateToken, NextItem
<1>2. /\ s \in Seqs /\ MayCommit(s, Target(s)) /\ Target(s) \in 1..MaxModelLen
      /\ Target(s) \in Nat /\ NumTokens(s) \in Nat
  BY <1>1, CommitLaws
<1> HIDE DEF s
<1>3. Target(s) = NumTokens(s)  BY <1>1 DEF NeedsSampling
<1>4. Target(s) + 1 < MaxModelLen
  <2>1. ~(NumTokens(s) + 1 >= MaxModelLen)  BY <1>1 DEF LengthReached
  <2> QED BY <1>2, <1>3, <2>1, LengthAssumption
<1>5. Commit(s)  BY <1>1, <1>2, <1>3, <1>4 DEF Commit
<1> QED BY <1>1, <1>2, <1>5 DEF KVNext, PoolNext

LEMMA FinishSimulates ==
    ASSUME IndInv, SchedInv, NEW t, UpdateFinish(t)
    PROVE  KVNext
<1> DEFINE s == Head(batch)
<1>1. /\ at = "update" /\ NeedsSampling(s) /\ CommitFinish(s, Target(s)) /\ UNCHANGED kv
  BY DEF UpdateFinish, NextItem
<1>2. s \in Seqs /\ MayCommit(s, Target(s)) /\ Target(s) \in 1..MaxModelLen
  BY <1>1, CommitLaws
<1> HIDE DEF s
<1>3. Target(s) = NumTokens(s)  BY <1>1 DEF NeedsSampling
<1>4. Commit(s)  BY <1>1, <1>2, <1>3 DEF Commit
<1> QED BY <1>1, <1>2, <1>4 DEF KVNext, PoolNext

-----------------------------------------------------------------------------
(* Every step keeps SchedInv.                                                *)

\* What follows from the sequences and the queues being left alone.
LEMMA QuietStep ==
    ASSUME SchedInv, UNCHANGED <<seqVars, phase, queueVars, requestVars>>
    PROVE  /\ QueuesPartition' /\ UnchunkedWhole'
           /\ UNCHANGED batch => BatchExact'
           /\ phase' = phase /\ running' = running
           /\ Len(running)' = Len(running)
<1>1. /\ running' = running /\ waiting' = waiting /\ status' = status
      /\ table' = table /\ computed' = computed /\ num_new' = num_new /\ tokens' = tokens
      /\ phase' = phase
  BY DEF seqVars, queueVars, requestVars
<1>2. QueuesPartition'  BY <1>1 DEF SchedInv, QueuesPartition, InUse
<1>3. Scheduled' = Scheduled  BY <1>1 DEF Scheduled
<1>4. UnchunkedWhole'  BY <1>1, <1>3 DEF SchedInv, UnchunkedWhole, Target, NumTokens
<1>5. UNCHANGED batch => BatchExact'  BY <1>1, <1>3 DEF SchedInv, BatchExact
<1> QED BY <1>1, <1>2, <1>4, <1>5

\* The snapshot moves on by one.
LEMMA SnapshotAdvances ==
    ASSUME todo \in Seq(Seqs), running \in Seq(Seqs), todo # <<>>,
           NEW m \in 0..Len(running), Passed(m),
           todo' = Tail(todo), running' = running, preempted' = preempted
    PROVE  \E k \in 0..Len(running') : Passed(k)'
<1> DEFINE L == Len(running)
           T == Tail(todo)
           k == IF m < L THEN m + 1 ELSE m
<1>1. L \in Nat /\ m \in 0..L  BY LenProperties
<1>2. /\ Len(T) = Len(todo) - 1 /\ Len(todo) \in Nat \ {0} /\ Len(T) \in Nat /\ DOMAIN T = 1..Len(T)
      /\ \A i \in DOMAIN T : i + 1 \in DOMAIN todo /\ T[i] = todo[i + 1]
  BY TailLaws, LenProperties, EmptySeq
<1>3. /\ L - m <= Len(todo)
      /\ \A i \in DOMAIN todo :
            IF m + i <= L THEN todo[i] = running[m + i] ELSE todo[i] \in preempted
  BY DEF Passed
<1> HIDE DEF L, T
<1>4. k \in 0..L /\ L - k <= Len(T)  BY <1>1, <1>2, <1>3
<1>5. ASSUME NEW i \in DOMAIN T
      PROVE  IF k + i <= L THEN T[i] = running[k + i] ELSE T[i] \in preempted
  <2>1. i + 1 \in DOMAIN todo /\ T[i] = todo[i + 1] /\ i \in Nat \ {0}  BY <1>2
  <2>2. IF m + (i + 1) <= L THEN T[i] = running[m + (i + 1)] ELSE T[i] \in preempted
    BY <1>3, <2>1
  <2>3. CASE m < L
    <3>1. k + i = m + (i + 1)  BY <1>1, <2>1, <2>3
    <3> QED BY <2>2, <3>1
  <2>4. CASE ~(m < L)
    <3>1. ~(m + (i + 1) <= L) /\ ~(k + i <= L)  BY <1>1, <2>1, <2>4
    <3> QED BY <2>2, <3>1
  <2> QED BY <2>3, <2>4
<1>6. Passed(k)'  BY <1>4, <1>5 DEF Passed, T, L
<1> QED BY <1>4, <1>6 DEF L

LEMMA StartKeeps ==
    ASSUME IndInv, SchedInv, StartStep
    PROVE  SchedInv'
<1>1. /\ at = "idle" /\ at' = "running" /\ todo' = running /\ budget' = MaxNumBatchedTokens
      /\ UNCHANGED <<kvVars, queueVars, batch, preempted, requestVars>>
  BY DEF StartStep
<1>2. UNCHANGED <<seqVars, phase, queueVars, requestVars>>  BY <1>1 DEF kvVars, bmVars, poolVars
<1>3. batch = <<>> /\ preempted = {} /\ phase = "schedule"  BY <1>1, IdleLaws DEF BetweenSteps
<1>4. QueuesPartition' /\ UnchunkedWhole' /\ BatchExact' /\ phase' = "schedule" /\ running' = running
  BY <1>1, <1>2, <1>3, QuietStep
<1>5. SchedulerTypeOK'
  BY <1>1, BudgetAssumption DEF SchedInv, SchedulerTypeOK, queueVars, requestVars
<1>6. StageExact'  BY <1>1, <1>3, <1>4 DEF StageExact
<1>7. SnapshotExact'
  <2>1. running \in Seq(Seqs) /\ IsInjective(running)
    <3>1. QueueParts  BY QueueForms DEF SchedInv
    <3> QED BY <3>1 DEF SchedInv, SchedulerTypeOK, QueueParts
  <2>2. Len(running) \in Nat /\ DOMAIN running = 1..Len(running)  BY <2>1, LenProperties
  <2>3. Passed(0)'
    <3>1. \A i \in DOMAIN running : 0 + i = i /\ i <= Len(running)  BY <2>2
    <3>2. Len(running) - 0 <= Len(running)  BY <2>2
    <3> QED BY <1>1, <1>4, <3>1, <3>2 DEF Passed
  <2>4. 0 \in 0..Len(running)  BY <2>2
  <2>5. Range(<<>>) = {}  BY DEF Range
  <2> QED BY <1>1, <1>3, <1>4, <2>1, <2>3, <2>4, <2>5 DEF SnapshotExact, Looping
<1> QED BY <1>4, <1>5, <1>6, <1>7 DEF SchedInv

LEMMA DoneKeeps ==
    ASSUME IndInv, SchedInv, RunningDone
    PROVE  SchedInv'
<1>1. /\ at = "running" /\ at' = "waiting" /\ todo' = <<>>
      /\ UNCHANGED <<kvVars, queueVars, batch, preempted, budget, requestVars>>
  BY DEF RunningDone
<1>2. UNCHANGED <<seqVars, phase, queueVars, requestVars>>  BY <1>1 DEF kvVars, bmVars, poolVars
<1>3. QueuesPartition' /\ UnchunkedWhole' /\ BatchExact' /\ phase' = phase
  BY <1>1, <1>2, QuietStep
<1>4. SchedulerTypeOK'
  <2>1. <<>> \in Seq(Seqs)  BY EmptySeq
  <2> QED BY <1>1, <2>1 DEF SchedInv, SchedulerTypeOK, queueVars, requestVars
<1>5. StageExact'  BY <1>1, <1>3 DEF SchedInv, StageExact
<1>6. SnapshotExact'  BY <1>1 DEF SnapshotExact, Looping
<1> QED BY <1>3, <1>4, <1>5, <1>6 DEF SchedInv

LEMMA SkipKeeps ==
    ASSUME IndInv, SchedInv, SkipRunning
    PROVE  SchedInv'
<1>1. /\ at = "running" /\ todo # <<>> /\ todo' = Tail(todo)
      /\ UNCHANGED <<kvVars, queueVars, at, batch, preempted, budget, requestVars>>
  BY DEF SkipRunning, RunningLoop
<1>2. UNCHANGED <<seqVars, phase, queueVars, requestVars>>  BY <1>1 DEF kvVars, bmVars, poolVars
<1>3. QueuesPartition' /\ UnchunkedWhole' /\ BatchExact' /\ phase' = phase /\ running' = running
  BY <1>1, <1>2, QuietStep
<1>4. todo \in Seq(Seqs) /\ running \in Seq(Seqs)  BY DEF SchedInv, SchedulerTypeOK
<1>5. Looping /\ IsInjective(todo)  BY <1>1 DEF SchedInv, SnapshotExact, Looping
<1>6. Tail(todo) \in Seq(Seqs) /\ IsInjective(Tail(todo)) /\ Range(Tail(todo)) \subseteq Range(todo)
  BY <1>1, <1>4, <1>5, TailLaws
<1>7. SchedulerTypeOK'
  BY <1>1, <1>6 DEF SchedInv, SchedulerTypeOK, queueVars, requestVars
<1>8. StageExact'  BY <1>1, <1>3 DEF SchedInv, StageExact
<1>9. \E k \in 0..Len(running') : Passed(k)'
  <2>1. PICK m \in 0..Len(running) : Passed(m)  BY <1>5 DEF SchedInv, SnapshotExact
  <2> QED BY <1>1, <1>3, <1>4, <2>1, SnapshotAdvances
<1>10. SnapshotExact'
  BY <1>1, <1>3, <1>5, <1>6, <1>9 DEF SchedInv, SnapshotExact, Looping
<1> QED BY <1>3, <1>7, <1>8, <1>10 DEF SchedInv

LEMMA ExhaustedKeeps ==
    ASSUME IndInv, SchedInv, RunningExhausted
    PROVE  SchedInv'
<1> DEFINE n == Lower(Uncomputed(Head(todo)), budget)
<1>1. /\ at = "running" /\ todo # <<>> /\ Head(todo) \notin preempted /\ at' = "preempting"
      /\ UNCHANGED <<kv, queueVars, todo, batch, preempted, budget, requestVars>>
      /\ UNCHANGED bmVars \/ RollBackBlocks(Head(todo), n)
  BY DEF RunningExhausted, RunningLoop, Skipped
<1> HIDE DEF n
<1>2. UNCHANGED <<seqVars, phase, queueVars, requestVars>>
  BY <1>1 DEF bmVars, seqVars, RollBackBlocks, AllocateRollsBack
<1>3. QueuesPartition' /\ UnchunkedWhole' /\ BatchExact' /\ phase' = phase /\ running' = running
  BY <1>1, <1>2, QuietStep
<1>4. SchedulerTypeOK'  BY <1>1 DEF SchedInv, SchedulerTypeOK, queueVars, requestVars
<1>5. StageExact'  BY <1>1, <1>3 DEF SchedInv, StageExact
<1>6. \E k \in 0..Len(running') : Passed(k)'
  <2>1. PICK m \in 0..Len(running) : Passed(m)  BY <1>1 DEF SchedInv, SnapshotExact, Looping
  <2>2. Passed(m)'  BY <1>1, <1>3, <2>1 DEF Passed
  <2> QED BY <1>3, <2>2
<1>7. SnapshotExact'  BY <1>1, <1>3, <1>6 DEF SchedInv, SnapshotExact, Looping
<1> QED BY <1>3, <1>4, <1>5, <1>7 DEF SchedInv

LEMMA EmptyKeeps ==
    ASSUME IndInv, SchedInv, EmptyStep
    PROVE  SchedInv'
<1>1. /\ at = "waiting" /\ batch = <<>> /\ at' = "idle" /\ preempted' = {} /\ budget' = 0
      /\ UNCHANGED <<kvVars, queueVars, todo, batch, requestVars>>
  BY DEF EmptyStep, ScheduleDone
<1>2. UNCHANGED <<seqVars, phase, queueVars, requestVars>>  BY <1>1 DEF kvVars, bmVars, poolVars
<1>3. QueuesPartition' /\ UnchunkedWhole' /\ BatchExact' /\ phase' = phase
  BY <1>1, <1>2, QuietStep
<1>4. SchedulerTypeOK'
  BY <1>1, BudgetAssumption DEF SchedInv, SchedulerTypeOK, queueVars, requestVars
<1>5. StageExact'  BY <1>1, <1>3 DEF SchedInv, StageExact
<1>6. SnapshotExact'  BY <1>1 DEF SchedInv, SnapshotExact, Looping
<1> QED BY <1>3, <1>4, <1>5, <1>6 DEF SchedInv

LEMMA RunKeeps ==
    ASSUME IndInv, SchedInv, RunBatch
    PROVE  SchedInv'
<1>1. /\ at = "waiting" /\ batch # <<>> /\ at' = "update" /\ preempted' = {} /\ budget' = 0
      /\ phase' = "update" /\ UNCHANGED <<queueVars, todo, batch, requestVars>>
      /\ running' = running /\ waiting' = waiting /\ status' = status /\ batch' = batch
      /\ table' = table /\ computed' = computed /\ num_new' = num_new /\ tokens' = tokens
  BY DEF RunBatch, ScheduleDone, Forward, TakePendingCopies, seqVars, queueVars, requestVars
<1>2. QueuesPartition'  BY <1>1 DEF SchedInv, QueuesPartition, InUse
<1>3. Scheduled' = Scheduled  BY <1>1 DEF Scheduled
<1>4. UnchunkedWhole'  BY <1>1, <1>3 DEF SchedInv, UnchunkedWhole, Target, NumTokens
<1>5. BatchExact'  BY <1>1, <1>3 DEF SchedInv, BatchExact
<1>6. SchedulerTypeOK'
  BY <1>1, BudgetAssumption DEF SchedInv, SchedulerTypeOK, queueVars, requestVars
<1>7. StageExact'  BY <1>1 DEF StageExact
<1>8. SnapshotExact'  BY <1>1 DEF SchedInv, SnapshotExact, Looping
<1> QED BY <1>2, <1>4, <1>5, <1>6, <1>7, <1>8 DEF SchedInv

LEMMA StutterKeeps ==
    ASSUME SchedInv, UNCHANGED vars
    PROVE  SchedInv'
<1>1. /\ UNCHANGED <<kvVars, queueVars, stepVars, requestVars>>
      /\ UNCHANGED <<seqVars, phase, queueVars, requestVars>>
  BY DEF vars, kvVars, bmVars
<1>2. /\ at' = at /\ todo' = todo /\ batch' = batch /\ preempted' = preempted /\ budget' = budget
      /\ running' = running
  BY <1>1 DEF stepVars, queueVars
<1>3. QueuesPartition' /\ UnchunkedWhole' /\ BatchExact' /\ phase' = phase
  BY <1>1, <1>2, QuietStep
<1>4. SchedulerTypeOK'
  BY <1>1, <1>2 DEF SchedInv, SchedulerTypeOK, queueVars, requestVars
<1>5. StageExact'  BY <1>2, <1>3 DEF SchedInv, StageExact
<1>6. SnapshotExact'
  BY <1>2 DEF SchedInv, SnapshotExact, Looping, Passed
<1> QED BY <1>3, <1>4, <1>5, <1>6 DEF SchedInv

LEMMA ScheduleKeeps ==
    ASSUME IndInv, SchedInv, ScheduleRunning
    PROVE  SchedInv'
<1> DEFINE s == Head(todo)
           n == Lower(Uncomputed(s), budget)
<1>1. /\ RunningLoop /\ ~Skipped(s) /\ ContinueBlocks(s, n)
      /\ budget' = budget - n /\ batch' = Append(batch, s) /\ todo' = Tail(todo)
      /\ UNCHANGED <<kv, queueVars, at, preempted, requestVars>>
  BY DEF ScheduleRunning
<1>2. /\ Looping /\ at = "running" /\ todo # <<>> /\ s \notin preempted /\ budget > 0
      /\ Uncomputed(s) > budget => EnableChunkedPrefill
  BY <1>1 DEF RunningLoop, Looping, Skipped
<1>3. /\ s \in Seqs /\ s \in Range(running) /\ s \notin Range(batch) /\ num_new[s] = 0
      /\ Uncomputed(s) \in Nat \ {0} /\ Uncomputed(s) <= NumTokens(s)
  BY <1>2, HeadRuns
<1>4. /\ todo \in Seq(Seqs) /\ running \in Seq(Seqs) /\ batch \in Seq(Seqs)
      /\ IsInjective(todo) /\ IsInjective(batch)
  BY <1>2 DEF SchedInv, SchedulerTypeOK, SnapshotExact, BatchExact
<1>5. /\ Tail(todo) \in Seq(Seqs) /\ IsInjective(Tail(todo))
      /\ Range(Tail(todo)) = Range(todo) \ {s}
  BY <1>2, <1>4, TailLaws
<1> HIDE DEF s
<1>6. n \in Nat \ {0} /\ budget - n \in 0..MaxNumBatchedTokens /\ (Uncomputed(s) <= budget => n = Uncomputed(s))
  BY <1>2, <1>3, ChunkLaws DEF SchedInv
<1>7. /\ num_new' = [num_new EXCEPT ![s] = n] /\ table' = [table EXCEPT ![s] = table'[s]]
      /\ tokens' = tokens /\ computed' = computed /\ phase' = phase
      /\ running' = running /\ waiting' = waiting /\ status' = status
  <2>1. \E x : table' = [table EXCEPT ![s] = x]
    BY <1>1 DEF ContinueBlocks, AllocateSlots
  <2>2. table \in [Seqs -> Seq(Blocks)]  BY DEF IndInv, TypeOK
  <2>3. table' = [table EXCEPT ![s] = table'[s]]  BY <1>3, <2>1, <2>2
  <2> QED BY <1>1, <2>3 DEF ContinueBlocks, queueVars, requestVars
<1> HIDE DEF n
<1>8. num_new \in [Seqs -> Nat] /\ table \in [Seqs -> Seq(Blocks)]  BY DEF IndInv, TypeOK
<1>9. /\ num_new'[s] = n /\ \A t \in Seqs \ {s} : num_new'[t] = num_new[t] /\ table'[t] = table[t]
  BY <1>3, <1>7, <1>8
<1>10. Scheduled' = Scheduled \cup {s}  BY <1>3, <1>6, <1>9 DEF Scheduled
<1>11. /\ Append(batch, s) \in Seq(Seqs) /\ Append(batch, s) # <<>> /\ IsInjective(Append(batch, s))
       /\ Range(Append(batch, s)) = Range(batch) \cup {s}
  BY <1>3, <1>4, AppendLaws
<1>12. SchedulerTypeOK'
  BY <1>1, <1>5, <1>6, <1>11 DEF SchedInv, SchedulerTypeOK, queueVars, requestVars
<1>13. QueueParts'
  <2>1. QueueParts /\ status[s] = "RUNNING"  BY <1>3, QueueForms, RunningHolds DEF SchedInv
  <2> QED BY <1>7, <1>9, <2>1 DEF QueueParts, InUse
<1>14. UnchunkedWhole'
  <2>1. ASSUME ~EnableChunkedPrefill, NEW t \in Scheduled'
        PROVE  Target(t)' = NumTokens(t)'
    <3>1. CASE t = s
      <4>1. n = Uncomputed(s)
        <5>1. ~(Uncomputed(s) > budget)  BY <1>2, <2>1
        <5>2. budget \in Nat  BY DEF SchedInv, SchedulerTypeOK
        <5> QED BY <1>3, <1>6, <5>1, <5>2
      <4>2. computed[s] + Uncomputed(s) = NumTokens(s)
        BY <1>3, LengthFacts DEF Uncomputed
      <4> QED BY <1>7, <1>9, <3>1, <4>1, <4>2 DEF Target, NumTokens
    <3>2. CASE t # s
      <4>1. t \in Scheduled /\ t \in Seqs  BY <1>10, <2>1, <3>2 DEF Scheduled
      <4> QED BY <1>7, <1>9, <2>1, <3>2, <4>1 DEF SchedInv, UnchunkedWhole, Target, NumTokens
    <3> QED BY <3>1, <3>2
  <2> QED BY <2>1 DEF UnchunkedWhole
<1>15. BatchExact'
  <2>1. Scheduled' = Range(batch') /\ IsInjective(batch') /\ Range(batch') \subseteq Range(running')
    BY <1>1, <1>3, <1>7, <1>10, <1>11 DEF SchedInv, BatchExact
  <2>2. ASSUME NEW t \in Range(running)
        PROVE  computed'[t] + num_new'[t] > 0
    <3>1. t \in Seqs  BY RunningHolds
    <3>2. CASE t = s
      <4>1. computed[s] \in Nat  BY <1>3, LengthFacts
      <4> QED BY <1>6, <1>7, <1>9, <3>2, <4>1
    <3>3. CASE t # s  BY <1>7, <1>9, <3>1, <3>3 DEF SchedInv, BatchExact
    <3> QED BY <3>2, <3>3
  <2> QED BY <1>7, <2>1, <2>2 DEF BatchExact
<1>16. StageExact'  BY <1>1, <1>2, <1>7 DEF SchedInv, StageExact
<1>17. SnapshotExact'
  <2>1. \E k \in 0..Len(running') : Passed(k)'
    <3>1. PICK m \in 0..Len(running) : Passed(m)  BY <1>2 DEF SchedInv, SnapshotExact
    <3>2. preempted' = preempted  BY <1>1
    <3> QED BY <1>1, <1>2, <1>4, <1>7, <3>1, <3>2, SnapshotAdvances
  <2>2. /\ Range(todo) \cap Range(batch) = {} /\ preempted \cap Range(running) = {}
    BY <1>2 DEF SchedInv, SnapshotExact
  <2>3. Range(todo') \cap Range(batch') = {}  BY <1>1, <1>5, <1>11, <2>2
  <2> QED BY <1>1, <1>2, <1>5, <1>7, <2>1, <2>2, <2>3 DEF SnapshotExact, Looping
<1> QED BY <1>12, <1>13, <1>14, <1>15, <1>16, <1>17, QueueFormsNext DEF SchedInv

LEMMA AdmitKeeps ==
    ASSUME IndInv, SchedInv, AdmitWaiting
    PROVE  SchedInv'
<1> DEFINE s == Head(waiting)
<1>1. /\ AdmissionOpen
      /\ waiting' = Tail(waiting) /\ running' = Append(running, s) /\ batch' = Append(batch, s)
      /\ status' = [status EXCEPT ![s] = "RUNNING"]
      /\ UNCHANGED <<kv, at, todo, preempted, prompt_len, sp, max_tokens, asked>>
  BY DEF AdmitWaiting
<1>2. PICK k \in 0..MaxModelLen :
         /\ FitsBudget(s, k)
         /\ AdmitBlocks(s, FirstChunk(s, k), k)
         /\ budget' = budget - FirstChunk(s, k)
  BY DEF AdmitWaiting
<1>3. at = "waiting" /\ waiting # <<>> /\ budget > 0 /\ IsLongestHit(s, k)
  BY <1>1, <1>2 DEF AdmissionOpen, AdmitBlocks
<1> DEFINE n == FirstChunk(s, k)
           c == k * BlockSize
<1>4. /\ s \in Range(waiting) /\ s \in Seqs /\ InUse(s)
      /\ n \in Nat \ {0} /\ c \in Nat /\ NumTokens(s) \in Nat
      /\ NumTokens(s) - c \in Nat \ {0}
      /\ budget - n \in 0..MaxNumBatchedTokens
      /\ NumTokens(s) - c <= budget => n = NumTokens(s) - c
  BY <1>1, <1>3, AdmissionLaws
<1>5. s \notin Range(running) /\ s \notin Range(batch) /\ status[s] = "WAITING"
  BY <1>4, WaitingHolds
<1>6. /\ waiting \in Seq(Seqs) /\ running \in Seq(Seqs) /\ batch \in Seq(Seqs)
      /\ IsInjective(waiting) /\ IsInjective(running) /\ IsInjective(batch) /\ QueueParts
  <2>1. QueueParts  BY QueueForms DEF SchedInv
  <2> QED BY <2>1 DEF SchedInv, SchedulerTypeOK, QueueParts, BatchExact
<1>7. /\ Tail(waiting) \in Seq(Seqs) /\ IsInjective(Tail(waiting))
      /\ Range(Tail(waiting)) = Range(waiting) \ {s}
  BY <1>3, <1>6, TailLaws
<1> HIDE DEF s
<1>8. /\ \A q \in {running, batch} :
            /\ Append(q, s) \in Seq(Seqs) /\ Append(q, s) # <<>> /\ IsInjective(Append(q, s))
            /\ Range(Append(q, s)) = Range(q) \cup {s}
  BY <1>4, <1>5, <1>6, AppendLaws
<1>9. /\ num_new' = [num_new EXCEPT ![s] = n] /\ computed' = [computed EXCEPT ![s] = c]
      /\ \E x : table' = [table EXCEPT ![s] = x]
      /\ tokens' = tokens /\ phase' = phase
  BY <1>2 DEF AdmitBlocks, AllocateSlots
<1>10. /\ num_new \in [Seqs -> Nat] /\ table \in [Seqs -> Seq(Blocks)] /\ computed \in [Seqs -> Nat]
       /\ DOMAIN status = Seqs
  BY DEF IndInv, TypeOK, SchedInv, SchedulerTypeOK
<1> HIDE DEF n, c
<1>11. /\ num_new'[s] = n /\ computed'[s] = c /\ status'[s] = "RUNNING"
       /\ \A t \in Seqs \ {s} : /\ num_new'[t] = num_new[t] /\ table'[t] = table[t]
                                /\ computed'[t] = computed[t] /\ status'[t] = status[t]
  BY <1>1, <1>4, <1>9, <1>10
<1>12. Scheduled' = Scheduled \cup {s}  BY <1>4, <1>11 DEF Scheduled
<1>13. SchedulerTypeOK'
  <2>1. budget' \in 0..MaxNumBatchedTokens  BY <1>2, <1>4 DEF n
  <2> QED BY <1>1, <1>4, <1>7, <1>8, <2>1 DEF SchedInv, SchedulerTypeOK
<1>14. QueueParts'
  <2>1. Range(running') = {t \in Seqs : status'[t] = "RUNNING"}
    BY <1>1, <1>4, <1>6, <1>8, <1>11 DEF QueueParts
  <2>2. Range(waiting') = {t \in Seqs : status'[t] = "WAITING"}
    BY <1>1, <1>4, <1>6, <1>7, <1>11 DEF QueueParts
  <2>3. \A t \in Seqs : InUse(t)' <=> status'[t] \in {"RUNNING", "WAITING"}
    BY <1>4, <1>6, <1>9, <1>11 DEF QueueParts, InUse
  <2>4. \A t \in Seqs : status'[t] # "RUNNING" => table'[t] = <<>> /\ computed'[t] = 0
    BY <1>6, <1>11 DEF QueueParts
  <2> QED BY <1>1, <1>7, <1>8, <2>1, <2>2, <2>3, <2>4 DEF QueueParts
<1>15. UnchunkedWhole'
  <2>1. ASSUME ~EnableChunkedPrefill, NEW t \in Scheduled'
        PROVE  Target(t)' = NumTokens(t)'
    <3>1. CASE t = s
      <4>1. n = NumTokens(s) - c  BY <1>2, <1>4, <2>1 DEF FitsBudget, c
      <4>2. c + n = NumTokens(s)  BY <1>4, <4>1
      <4> QED BY <1>9, <1>11, <3>1, <4>2 DEF Target, NumTokens
    <3>2. CASE t # s
      <4>1. t \in Scheduled /\ t \in Seqs  BY <1>12, <2>1, <3>2 DEF Scheduled
      <4> QED BY <1>9, <1>11, <2>1, <3>2, <4>1 DEF SchedInv, UnchunkedWhole, Target, NumTokens
    <3> QED BY <3>1, <3>2
  <2> QED BY <2>1 DEF UnchunkedWhole
<1>16. BatchExact'
  <2>1. Scheduled' = Range(batch') /\ IsInjective(batch') /\ Range(batch') \subseteq Range(running')
    BY <1>1, <1>8, <1>12 DEF SchedInv, BatchExact
  <2>2. ASSUME NEW t \in Range(running')
        PROVE  computed'[t] + num_new'[t] > 0
    <3>1. CASE t = s  BY <1>4, <1>11, <3>1
    <3>2. CASE t # s
      <4>1. t \in Range(running)  BY <1>1, <1>8, <2>2, <3>2
      <4>2. t \in Seqs  BY <4>1, RunningHolds
      <4> QED BY <1>11, <3>2, <4>1, <4>2 DEF SchedInv, BatchExact
    <3> QED BY <3>1, <3>2
  <2> QED BY <2>1, <2>2 DEF BatchExact
<1>17. StageExact'  BY <1>1, <1>3, <1>9 DEF SchedInv, StageExact
<1>18. SnapshotExact'  BY <1>1, <1>3 DEF SchedInv, SnapshotExact, Looping
<1> QED BY <1>13, <1>14, <1>15, <1>16, <1>17, <1>18, QueueFormsNext DEF SchedInv

\* The snapshot after the last running sequence became a victim.
LEMMA PreemptPassed ==
    ASSUME IndInv, SchedInv, PreemptTail, NEW m \in 0..Len(running), Passed(m)
    PROVE  m \in 0..(Len(running) - 1) /\ Passed(m)'
<1> DEFINE v == Victim
           L == Len(running)
           r == Without(running, {v})
<1>1. /\ at = "preempting" /\ running' = r /\ preempted' = preempted \cup {v}
      /\ todo' = IF v = Head(todo) THEN Tail(todo) ELSE todo
  BY DEF PreemptTail
<1>2. /\ running \in Seq(Seqs) /\ todo \in Seq(Seqs) /\ IsInjective(running)
      /\ running # <<>> /\ todo # <<>>
  <2>1. QueueParts  BY QueueForms DEF SchedInv
  <2>2. Victim \in Range(running)  BY <1>1, VictimPending
  <2>3. Range(<<>>) = {}  BY DEF Range
  <2> QED BY <1>1, <2>1, <2>2, <2>3 DEF SchedInv, SchedulerTypeOK, QueueParts, SnapshotExact
<1>3. /\ m \in 0..(L - 1) /\ L \in Nat
      /\ L - m \in DOMAIN todo /\ todo[L - m] = v /\ Head(todo) = running[m + 1]
  BY <1>1, VictimPending
<1>4. /\ L \in Nat \ {0} /\ v = running[L] /\ Len(r) = L - 1
      /\ \A i \in 1..(L - 1) : r[i] = running[i]
  BY <1>2, WithoutLast DEF Victim
<1>5. DOMAIN running = 1..L /\ \A i, j \in 1..L : running[i] = running[j] => i = j
  <2>1. DOMAIN running = 1..L  BY <1>2, LenProperties
  <2> QED BY <1>2, <2>1 DEF IsInjective
<1>6. /\ Len(Tail(todo)) = Len(todo) - 1 /\ Len(todo) \in Nat
      /\ DOMAIN todo = 1..Len(todo) /\ DOMAIN Tail(todo) = 1..Len(Tail(todo))
      /\ \A i \in DOMAIN Tail(todo) : i + 1 \in DOMAIN todo /\ Tail(todo)[i] = todo[i + 1]
  BY <1>2, TailLaws, LenProperties
<1> HIDE DEF v, L, r
<1>7. /\ L - m <= Len(todo) /\ m \in Nat /\ m <= L - 1
      /\ \A i \in DOMAIN todo :
            IF m + i <= L THEN todo[i] = running[m + i] ELSE todo[i] \in preempted
  BY <1>3, <1>4 DEF Passed, L
<1>8. ASSUME v = Head(todo) PROVE Passed(m)'
  <2>1. m + 1 = L
    <3>1. m + 1 \in 1..L /\ L \in 1..L  BY <1>4, <1>7
    <3> QED BY <1>3, <1>4, <1>5, <1>8, <3>1
  <2>2. (L - 1) - m <= Len(Tail(todo))  BY <1>4, <1>6, <1>7, <2>1
  <2>3. ASSUME NEW i \in DOMAIN Tail(todo)
        PROVE  ~(m + i <= L - 1) /\ Tail(todo)[i] \in preempted'
    <3>1. i \in Nat \ {0} /\ i + 1 \in DOMAIN todo /\ Tail(todo)[i] = todo[i + 1]
      BY <1>6
    <3>2. ~(m + i <= L - 1) /\ ~(m + (i + 1) <= L)  BY <1>4, <1>7, <2>1, <3>1
    <3> QED BY <1>1, <1>7, <3>1, <3>2
  <2> QED BY <1>1, <1>4, <1>8, <2>2, <2>3 DEF Passed
<1>9. ASSUME v # Head(todo) PROVE Passed(m)'
  <2>1. (L - 1) - m <= Len(todo)  BY <1>4, <1>6, <1>7
  <2>2. ASSUME NEW i \in DOMAIN todo
        PROVE  IF m + i <= L - 1 THEN todo[i] = r[m + i] ELSE todo[i] \in preempted'
    <3>1. i \in Nat \ {0}  BY <1>6
    <3>2. CASE m + i <= L - 1
      <4>1. m + i \in 1..(L - 1) /\ m + i <= L  BY <1>4, <1>7, <3>1, <3>2
      <4> QED BY <1>4, <1>7, <3>2, <4>1
    <3>3. CASE ~(m + i <= L - 1)
      <4>1. CASE m + i = L
        <5>1. m + i <= L  BY <1>4, <4>1
        <5>2. todo[i] = v  BY <1>4, <1>7, <4>1, <5>1
        <5> QED BY <1>1, <3>3, <5>2
      <4>2. CASE m + i # L
        <5>1. ~(m + i <= L)  BY <1>4, <1>7, <3>1, <3>3, <4>2
        <5> QED BY <1>1, <1>7, <3>3, <5>1
      <4> QED BY <4>1, <4>2
    <3> QED BY <3>2, <3>3
  <2> QED BY <1>1, <1>4, <1>9, <2>1, <2>2 DEF Passed
<1> QED BY <1>3, <1>8, <1>9 DEF L

LEMMA PreemptKeeps ==
    ASSUME IndInv, SchedInv, PreemptTail
    PROVE  SchedInv'
<1> DEFINE v == Victim
           L == Len(running)
           r == Without(running, {v})
<1>1. /\ at = "preempting" /\ PreemptBlocks(v)
      /\ running' = r /\ waiting' = <<v>> \o waiting /\ preempted' = preempted \cup {v}
      /\ status' = [status EXCEPT ![v] = "WAITING"]
      /\ todo' = (IF v = Head(todo) THEN Tail(todo) ELSE todo) /\ at' = "running"
      /\ UNCHANGED <<kv, batch, budget, prompt_len, sp, max_tokens, asked>>
  BY DEF PreemptTail, PutBack
<1>2. /\ v \in Range(running) /\ v \in Seqs /\ v \notin Range(batch) /\ status[v] = "RUNNING"
      /\ running # <<>>
  <2>1. v \in Range(running) /\ v \in Seqs /\ v \notin Range(batch)  BY <1>1, VictimPending
  <2>2. Range(<<>>) = {}  BY DEF Range
  <2> QED BY <2>1, <2>2, RunningHolds
<1>3. PICK m \in 0..L : Passed(m)
  BY <1>1 DEF SchedInv, SnapshotExact, Looping
<1>4. /\ waiting \in Seq(Seqs) /\ running \in Seq(Seqs) /\ batch \in Seq(Seqs) /\ todo \in Seq(Seqs)
      /\ IsInjective(waiting) /\ IsInjective(running) /\ IsInjective(todo) /\ QueueParts
      /\ Looping /\ todo # <<>>
  <2>1. QueueParts  BY QueueForms DEF SchedInv
  <2> QED BY <1>1, <2>1 DEF SchedInv, SchedulerTypeOK, QueueParts, SnapshotExact, Looping
<1>5. v \notin Range(waiting)  BY <1>2, <1>4 DEF QueueParts
<1>6. /\ <<v>> \o waiting \in Seq(Seqs) /\ Range(<<v>> \o waiting) = Range(waiting) \cup {v}
      /\ IsInjective(<<v>> \o waiting)
  <2> HIDE DEF v
  <2> QED BY <1>2, <1>4, <1>5, PrependLaws
<1>7. r \in Seq(Seqs) /\ Range(r) = Range(running) \ {v} /\ IsInjective(r)
  BY <1>4, WithoutLaws
<1>8. /\ L \in Nat \ {0} /\ v = running[L] /\ Len(r) = L - 1
      /\ \A i \in 1..(L - 1) : r[i] = running[i]
  BY <1>2, <1>4, WithoutLast DEF Victim
<1>9. /\ table' = [table EXCEPT ![v] = <<>>] /\ computed' = [computed EXCEPT ![v] = 0]
      /\ tokens' = tokens /\ num_new' = num_new /\ phase' = phase
  BY <1>1 DEF PreemptBlocks, FreeBlocks
<1>10. DOMAIN table = Seqs /\ DOMAIN computed = Seqs /\ DOMAIN status = Seqs
  BY DEF IndInv, TypeOK, SchedInv, SchedulerTypeOK
<1>11. DOMAIN running = 1..L /\ \A i, j \in 1..L : running[i] = running[j] => i = j
  <2>1. DOMAIN running = 1..L  BY <1>4, LenProperties
  <2> QED BY <1>4, <2>1 DEF IsInjective
<1> HIDE DEF v, r, L
<1>12. /\ table'[v] = <<>> /\ computed'[v] = 0 /\ status'[v] = "WAITING"
       /\ \A t \in Seqs \ {v} : /\ table'[t] = table[t] /\ computed'[t] = computed[t]
                                /\ status'[t] = status[t]
  BY <1>1, <1>2, <1>9, <1>10
<1>13. /\ Tail(todo) \in Seq(Seqs) /\ IsInjective(Tail(todo)) /\ Range(Tail(todo)) \subseteq Range(todo)
       /\ Len(Tail(todo)) = Len(todo) - 1 /\ Len(todo) \in Nat
       /\ DOMAIN todo = 1..Len(todo) /\ DOMAIN Tail(todo) = 1..Len(Tail(todo))
       /\ \A i \in DOMAIN Tail(todo) : i + 1 \in DOMAIN todo /\ Tail(todo)[i] = todo[i + 1]
  <2>1. /\ Tail(todo) \in Seq(Seqs) /\ Range(Tail(todo)) \subseteq Range(todo)
        /\ Len(Tail(todo)) = Len(todo) - 1
        /\ \A i \in DOMAIN Tail(todo) : i + 1 \in DOMAIN todo /\ Tail(todo)[i] = todo[i + 1]
    <3>1. todo \in Seq(Seqs) /\ todo # <<>>  BY <1>4
    <3>2. Tail(todo) \in Seq(Seqs) /\ Len(Tail(todo)) = Len(todo) - 1  BY <3>1, TailLaws
    <3>3. Range(Tail(todo)) \subseteq Range(todo)  BY <3>1, TailLaws
    <3>4. \A i \in DOMAIN Tail(todo) : i + 1 \in DOMAIN todo /\ Tail(todo)[i] = todo[i + 1]
      BY <3>1, TailLaws
    <3> QED BY <3>2, <3>3, <3>4
  <2>2. IsInjective(Tail(todo))
    <3>1. todo \in Seq(Seqs) /\ todo # <<>> /\ IsInjective(todo)  BY <1>4
    <3> QED BY <3>1, TailLaws
  <2>3. Len(todo) \in Nat /\ DOMAIN todo = 1..Len(todo)  BY <1>4, LenProperties
  <2>4. DOMAIN Tail(todo) = 1..Len(Tail(todo))  BY <2>1, LenProperties
  <2> QED BY <2>1, <2>2, <2>3, <2>4
<1>14. todo' \in Seq(Seqs) /\ IsInjective(todo') /\ Range(todo') \subseteq Range(todo)
  BY <1>1, <1>4, <1>13
<1>15. SchedulerTypeOK'
  BY <1>1, <1>2, <1>6, <1>7, <1>14 DEF SchedInv, SchedulerTypeOK
<1>16. QueueParts'
  <2>1. Range(running') = {t \in Seqs : status'[t] = "RUNNING"}
    BY <1>1, <1>2, <1>4, <1>7, <1>12 DEF QueueParts
  <2>2. Range(waiting') = {t \in Seqs : status'[t] = "WAITING"}
    BY <1>1, <1>2, <1>4, <1>6, <1>12 DEF QueueParts
  <2>3. \A t \in Seqs : InUse(t)' <=> status'[t] \in {"RUNNING", "WAITING"}
    BY <1>2, <1>4, <1>9, <1>12 DEF QueueParts, InUse
  <2>4. \A t \in Seqs : status'[t] # "RUNNING" => table'[t] = <<>> /\ computed'[t] = 0
    BY <1>4, <1>12 DEF QueueParts
  <2> QED BY <1>1, <1>6, <1>7, <2>1, <2>2, <2>3, <2>4 DEF QueueParts
<1>17. Scheduled' = Scheduled  BY <1>9 DEF Scheduled
<1>18. UnchunkedWhole'
  <2>1. \A t \in Scheduled : t \in Seqs \ {v}
    BY <1>2 DEF SchedInv, BatchExact, Scheduled
  <2> QED BY <1>9, <1>12, <1>17, <2>1 DEF SchedInv, UnchunkedWhole, Target, NumTokens
<1>19. BatchExact'
  <2>1. \A t \in Range(running) \ {v} : computed'[t] + num_new'[t] > 0
    <3>1. \A t \in Range(running) : t \in Seqs  BY RunningHolds
    <3> QED BY <1>9, <1>12, <3>1 DEF SchedInv, BatchExact
  <2> QED BY <1>1, <1>2, <1>7, <1>17, <2>1 DEF SchedInv, BatchExact
<1>20. StageExact'  BY <1>1, <1>9 DEF SchedInv, StageExact
<1>21. m \in 0..(L - 1) /\ Passed(m)'
  BY <1>3, PreemptPassed DEF L
<1>22. SnapshotExact'
  <2>1. /\ Range(todo) \cap Range(batch) = {} /\ preempted \cap Range(running) = {}
    BY <1>4 DEF SchedInv, SnapshotExact
  <2>2. /\ Range(todo') \cap Range(batch') = {} /\ preempted' \cap Range(running') = {}
    BY <1>1, <1>7, <1>14, <2>1
  <2>3. m \in 0..Len(running')  BY <1>1, <1>8, <1>21
  <2> QED BY <1>1, <1>14, <1>21, <2>2, <2>3 DEF SnapshotExact, Looping
<1> QED BY <1>15, <1>16, <1>18, <1>19, <1>20, <1>22, QueueFormsNext DEF SchedInv

\* What every commit does: the head leaves the batch, and the last one ends the
\* step.
LEMMA CommittedLaws ==
    ASSUME IndInv, SchedInv, at = "update", NEW after, Committed(Head(batch), after), NextItem
    PROVE  LET s == Head(batch)
           IN  /\ batch' \in Seq(Seqs) /\ IsInjective(batch') /\ Range(batch') = Range(batch) \ {s}
               /\ Scheduled' = Range(batch')
               /\ num_new'[s] = 0 /\ \A t \in Seqs \ {s} : num_new'[t] = num_new[t]
               /\ StageExact' /\ SnapshotExact'
               /\ waiting' = waiting /\ todo' = todo /\ preempted' = preempted /\ budget' = budget
               /\ sp' = sp /\ max_tokens' = max_tokens
               /\ at' \in {"idle", "update"}
<1> DEFINE s == Head(batch)
           T == Tail(batch)
<1>1. /\ batch # <<>> /\ batch \in Seq(Seqs) /\ IsInjective(batch) /\ s \in Seqs /\ s \in Range(batch)
      /\ Scheduled = Range(batch)
  BY CommitLaws DEF SchedInv, BatchExact
<1>2. T \in Seq(Seqs) /\ IsInjective(T) /\ Range(T) = Range(batch) \ {s}
  BY <1>1, TailLaws
<1>3. /\ batch' = T /\ at' = (IF T = <<>> THEN "idle" ELSE "update")
      /\ waiting' = waiting /\ todo' = todo /\ preempted' = preempted /\ budget' = budget
      /\ sp' = sp /\ max_tokens' = max_tokens
  BY DEF NextItem
<1>4. /\ num_new' = [num_new EXCEPT ![s] = 0] /\ num_new \in [Seqs -> Nat]
      /\ phase' = (IF Scheduled \subseteq {s} THEN "schedule" ELSE "update")
  BY DEF Committed, IndInv, TypeOK
<1> HIDE DEF s, T
<1>5. num_new'[s] = 0 /\ \A t \in Seqs \ {s} : num_new'[t] = num_new[t]
  BY <1>1, <1>4
<1>6. Scheduled' = Scheduled \ {s}  BY <1>1, <1>5 DEF Scheduled
<1>7. T = <<>> <=> Scheduled \subseteq {s}
  <2>1. ASSUME T = <<>> PROVE Scheduled \subseteq {s}
    <3>1. Range(<<>>) = {}  BY DEF Range
    <3> QED BY <1>1, <1>2, <2>1, <3>1
  <2>2. ASSUME T # <<>> PROVE ~(Scheduled \subseteq {s})
    <3>1. Head(T) \in Range(T)  BY <1>2, <2>2, TailLaws
    <3> QED BY <1>1, <1>2, <3>1
  <2> QED BY <2>1, <2>2
<1>8. preempted = {} /\ todo = <<>>  BY DEF SchedInv, StageExact, SnapshotExact, Looping
<1>9. StageExact'  BY <1>3, <1>4, <1>7, <1>8 DEF StageExact
<1>10. SnapshotExact'  BY <1>3, <1>8 DEF SnapshotExact, Looping
<1> QED BY <1>1, <1>2, <1>3, <1>5, <1>6, <1>9, <1>10 DEF s

\* A committed sequence that goes on running.
LEMMA AdvanceKeeps ==
    ASSUME IndInv, SchedInv, at = "update", NextItem,
           Committed(Head(batch), Target(Head(batch))),
           computed' = [computed EXCEPT ![Head(batch)] = Target(Head(batch))],
           table' = table, UNCHANGED <<running, status, prompt_len, asked>>,
           \A t \in Seqs \ {Head(batch)} : tokens'[t] = tokens[t],
           tokens'[Head(batch)] # <<>>
    PROVE  SchedInv'
<1> DEFINE s == Head(batch)
<1>1. /\ s \in Seqs /\ s \in Range(batch) /\ s \in Range(running) /\ Target(s) \in 1..MaxModelLen
      /\ batch \in Seq(Seqs) /\ Scheduled = Range(batch)
  BY CommitLaws DEF SchedInv, BatchExact
<1>2. /\ batch' \in Seq(Seqs) /\ IsInjective(batch') /\ Range(batch') = Range(batch) \ {s}
      /\ Scheduled' = Range(batch')
      /\ num_new'[s] = 0 /\ \A t \in Seqs \ {s} : num_new'[t] = num_new[t]
      /\ StageExact' /\ SnapshotExact'
      /\ waiting' = waiting /\ todo' = todo /\ preempted' = preempted /\ budget' = budget
      /\ sp' = sp /\ max_tokens' = max_tokens
      /\ at' \in {"idle", "update"}
  BY CommittedLaws
<1>3. DOMAIN computed = Seqs  BY DEF IndInv, TypeOK
<1>4. tokens'[s] # <<>> /\ \A t \in Seqs \ {s} : tokens'[t] = tokens[t]  OBVIOUS
<1>5. computed'[s] = Target(s) /\ \A t \in Seqs \ {s} : computed'[t] = computed[t]
  BY <1>1, <1>3
<1> HIDE DEF s
<1>6. SchedulerTypeOK'  BY <1>2 DEF SchedInv, SchedulerTypeOK
<1>7. QueueParts'
  <2>1. QueueParts /\ status[s] = "RUNNING"  BY <1>1, RunningHolds, QueueForms DEF SchedInv
  <2> QED BY <1>1, <1>2, <1>4, <1>5, <2>1 DEF QueueParts, InUse
<1>8. UnchunkedWhole'
  <2>1. \A t \in Scheduled' : t \in Scheduled /\ t \in Seqs \ {s}  BY <1>1, <1>2 DEF Scheduled
  <2> QED BY <1>2, <1>4, <1>5, <2>1 DEF SchedInv, UnchunkedWhole, Target, NumTokens
<1>9. BatchExact'
  <2>1. ASSUME NEW t \in Range(running)
        PROVE  computed'[t] + num_new'[t] > 0
    <3>1. t \in Seqs  BY RunningHolds
    <3>2. CASE t = s  BY <1>1, <1>2, <1>5, <3>2, LengthAssumption
    <3>3. CASE t # s  BY <1>2, <1>5, <3>1, <3>3 DEF SchedInv, BatchExact
    <3> QED BY <3>2, <3>3
  <2> QED BY <1>2, <2>1 DEF SchedInv, BatchExact
<1> QED BY <1>2, <1>6, <1>7, <1>8, <1>9, QueueFormsNext DEF SchedInv

LEMMA ChunkKeeps ==
    ASSUME IndInv, SchedInv, UpdateChunk
    PROVE  SchedInv'
<1> DEFINE s == Head(batch)
<1>1. /\ at = "update" /\ CommitWatermark(s, Target(s)) /\ NextItem
      /\ UNCHANGED <<running, status, prompt_len, asked>>
  BY DEF UpdateChunk
<1>2. /\ Committed(s, Target(s)) /\ computed' = [computed EXCEPT ![s] = Target(s)]
      /\ table' = table /\ tokens' = tokens
  BY <1>1 DEF CommitWatermark
<1>3. InUse(s)  BY <1>1, CommitLaws, RunningHolds
<1>4. tokens'[s] # <<>>  BY <1>2, <1>3 DEF InUse
<1> QED BY <1>1, <1>2, <1>4, AdvanceKeeps

LEMMA TokenKeeps ==
    ASSUME IndInv, IndInv', SchedInv, NEW t, UpdateToken(t)
    PROVE  SchedInv'
<1> DEFINE s == Head(batch)
<1>1. /\ at = "update" /\ CommitToken(s, Target(s), t) /\ NextItem
      /\ UNCHANGED <<running, status, prompt_len, asked>>
  BY DEF UpdateToken
<1>2. /\ Committed(s, Target(s)) /\ computed' = [computed EXCEPT ![s] = Target(s)]
      /\ table' = table /\ tokens' = [tokens EXCEPT ![s] = Append(@, t)]
  BY <1>1 DEF CommitToken
<1>3. s \in Seqs /\ Target(s) \in 1..MaxModelLen  BY <1>1, CommitLaws
<1>4. DOMAIN tokens = Seqs /\ DOMAIN computed = Seqs  BY DEF IndInv, TypeOK
<1> HIDE DEF s
<1>5. \A u \in Seqs \ {s} : tokens'[u] = tokens[u]  BY <1>2, <1>3, <1>4
<1>6. tokens'[s] # <<>>
  <2>1. computed'[s] # 0  BY <1>2, <1>3, <1>4, LengthAssumption
  <2>2. \A u \in Seqs : InUse(u)' <=> tokens'[u] # <<>>  BY DEF InUse
  <2>3. \A u \in Seqs : ~InUse(u)' => computed'[u] = 0  BY DEF IndInv, LengthsOK
  <2> QED BY <1>3, <2>1, <2>2, <2>3
<1> QED BY <1>1, <1>2, <1>5, <1>6, AdvanceKeeps DEF s

LEMMA FinishKeeps ==
    ASSUME IndInv, SchedInv, NEW t, UpdateFinish(t)
    PROVE  SchedInv'
<1> DEFINE s == Head(batch)
           r == Without(running, {s})
           f == IF t \in StopTokens THEN "FINISHED_STOPPED" ELSE "FINISHED_LENGTH"
<1>1. /\ at = "update" /\ CommitFinish(s, Target(s)) /\ NextItem
      /\ running' = r /\ status' = [status EXCEPT ![s] = f]
      /\ prompt_len' = [prompt_len EXCEPT ![s] = 0] /\ asked' = [asked EXCEPT ![s] = 0]
  BY DEF UpdateFinish, RunningAfterFinish, Forget
<1>2. /\ Committed(s, Target(s)) /\ computed' = [computed EXCEPT ![s] = 0]
      /\ table' = [table EXCEPT ![s] = <<>>] /\ tokens' = [tokens EXCEPT ![s] = <<>>]
  BY <1>1 DEF CommitFinish, FreeBlocks
<1>3. /\ s \in Seqs /\ s \in Range(batch) /\ s \in Range(running)
      /\ batch \in Seq(Seqs) /\ Scheduled = Range(batch) /\ Range(batch) \subseteq Range(running)
  BY <1>1, CommitLaws DEF SchedInv, BatchExact
<1>4. /\ batch' \in Seq(Seqs) /\ IsInjective(batch') /\ Range(batch') = Range(batch) \ {s}
      /\ Scheduled' = Range(batch')
      /\ num_new'[s] = 0 /\ \A u \in Seqs \ {s} : num_new'[u] = num_new[u]
      /\ StageExact' /\ SnapshotExact'
      /\ waiting' = waiting /\ todo' = todo /\ preempted' = preempted /\ budget' = budget
      /\ sp' = sp /\ max_tokens' = max_tokens
      /\ at' \in {"idle", "update"}
  BY <1>1, <1>2, CommittedLaws
<1>5. /\ DOMAIN computed = Seqs /\ DOMAIN table = Seqs /\ DOMAIN tokens = Seqs /\ DOMAIN status = Seqs
      /\ running \in Seq(Seqs) /\ IsInjective(running) /\ QueueParts
  <2>1. QueueParts  BY QueueForms DEF SchedInv
  <2> QED BY <2>1 DEF IndInv, TypeOK, SchedInv, SchedulerTypeOK, QueueParts
<1>6. r \in Seq(Seqs) /\ Range(r) = Range(running) \ {s} /\ IsInjective(r)
  BY <1>5, WithoutLaws
<1>7. f \in {"FINISHED_STOPPED", "FINISHED_LENGTH"}  OBVIOUS
<1> HIDE DEF s, r, f
<1>8. /\ computed'[s] = 0 /\ table'[s] = <<>> /\ tokens'[s] = <<>> /\ status'[s] = f
      /\ \A u \in Seqs \ {s} : /\ computed'[u] = computed[u] /\ table'[u] = table[u]
                               /\ tokens'[u] = tokens[u] /\ status'[u] = status[u]
  BY <1>1, <1>2, <1>3, <1>5
<1>9. SchedulerTypeOK'
  <2>1. status' \in [Seqs -> {"UNUSED", "WAITING", "RUNNING", "FINISHED_STOPPED",
                              "FINISHED_LENGTH", "FINISHED_ABORTED"}]
    BY <1>1, <1>7 DEF SchedInv, SchedulerTypeOK
  <2>2. prompt_len' \in [Seqs -> 0..MaxModelLen]
    <3>1. 0 \in 0..MaxModelLen  BY LengthAssumption
    <3> QED BY <1>1, <3>1 DEF SchedInv, SchedulerTypeOK
  <2>3. asked' \in [Seqs -> Nat]  BY <1>1 DEF SchedInv, SchedulerTypeOK
  <2> QED BY <1>1, <1>4, <1>6, <2>1, <2>2, <2>3 DEF SchedInv, SchedulerTypeOK
<1>10. QueueParts'
  <2>1. status[s] = "RUNNING"  BY <1>3, RunningHolds
  <2>2. Range(running') = {u \in Seqs : status'[u] = "RUNNING"}
    BY <1>1, <1>3, <1>5, <1>6, <1>7, <1>8 DEF QueueParts
  <2>3. Range(waiting') = {u \in Seqs : status'[u] = "WAITING"}
    BY <1>3, <1>4, <1>5, <1>7, <1>8, <2>1 DEF QueueParts
  <2>4. \A u \in Seqs : InUse(u)' <=> status'[u] \in {"RUNNING", "WAITING"}
    BY <1>3, <1>5, <1>7, <1>8 DEF QueueParts, InUse
  <2>5. \A u \in Seqs : status'[u] # "RUNNING" => table'[u] = <<>> /\ computed'[u] = 0
    BY <1>5, <1>8 DEF QueueParts
  <2>6. IsInjective(running') /\ IsInjective(waiting')
    BY <1>1, <1>4, <1>5, <1>6 DEF QueueParts
  <2> QED BY <2>2, <2>3, <2>4, <2>5, <2>6 DEF QueueParts
<1>11. UnchunkedWhole'
  <2>1. \A u \in Scheduled' : u \in Scheduled /\ u \in Seqs \ {s}  BY <1>3, <1>4 DEF Scheduled
  <2> QED BY <1>4, <1>8, <2>1 DEF SchedInv, UnchunkedWhole, Target, NumTokens
<1>12. BatchExact'
  <2>1. \A u \in Range(running) \ {s} : computed'[u] + num_new'[u] > 0
    <3>1. \A u \in Range(running) : u \in Seqs  BY RunningHolds
    <3> QED BY <1>4, <1>8, <3>1 DEF SchedInv, BatchExact
  <2> QED BY <1>1, <1>3, <1>4, <1>6, <2>1 DEF BatchExact
<1> QED BY <1>4, <1>9, <1>10, <1>11, <1>12, QueueFormsNext DEF SchedInv

\* Between two steps the batch and the snapshot stay empty.
LEMMA IdleKeeps ==
    ASSUME IndInv, SchedInv, at = "idle", UNCHANGED <<stepVars, num_new, phase>>
    PROVE  /\ UnchunkedWhole' /\ StageExact' /\ SnapshotExact'
           /\ Scheduled' = {} /\ batch' = <<>> /\ Range(batch') = {} /\ IsInjective(batch')
           /\ at' = at /\ todo' = todo /\ batch' = batch /\ preempted' = preempted /\ budget' = budget
<1>1. BetweenSteps /\ batch = <<>> /\ preempted = {} /\ todo = <<>>  BY IdleLaws
<1>2. /\ at' = at /\ todo' = todo /\ batch' = batch /\ preempted' = preempted /\ budget' = budget
      /\ num_new' = num_new /\ phase' = phase
  BY DEF stepVars
<1>3. Scheduled' = {}  BY <1>1, <1>2 DEF BetweenSteps, Scheduled
<1>4. Range(<<>>) = {} /\ IsInjective(<<>>)  BY DEF Range, IsInjective
<1>5. UnchunkedWhole'  BY <1>3 DEF UnchunkedWhole
<1>6. StageExact'  BY <1>1, <1>2 DEF SchedInv, StageExact
<1>7. SnapshotExact'  BY <1>1, <1>2 DEF SnapshotExact, Looping
<1> QED BY <1>1, <1>2, <1>3, <1>4, <1>5, <1>6, <1>7

LEMMA AddKeeps ==
    ASSUME IndInv, SchedInv, NEW s \in Seqs, NEW o \in Seqs, NEW p \in Prompts,
           NEW m \in Nat, AddRequest(s, p, o, m)
    PROVE  SchedInv'
<1>1. /\ at = "idle" /\ Add(s, p) /\ UNCHANGED <<kv, running, stepVars>>
      /\ sp' = [sp EXCEPT ![s] = o] /\ asked' = [asked EXCEPT ![s] = m]
      /\ max_tokens' = [max_tokens EXCEPT ![o] = Clamped(Len(p), m)]
      /\ prompt_len' = [prompt_len EXCEPT ![s] = Len(p)]
      /\ status' = [status EXCEPT ![s] = "WAITING"]
      /\ waiting' = Append(waiting, s)
  BY DEF AddRequest
<1>2. /\ ~InUse(s) /\ tokens' = [tokens EXCEPT ![s] = p]
      /\ computed' = computed /\ table' = table /\ num_new' = num_new /\ phase' = phase
  BY <1>1 DEF Add
<1>3. /\ UnchunkedWhole' /\ StageExact' /\ SnapshotExact'
      /\ Scheduled' = {} /\ batch' = <<>> /\ Range(batch') = {} /\ IsInjective(batch')
      /\ at' = at /\ todo' = todo /\ batch' = batch /\ preempted' = preempted /\ budget' = budget
  BY <1>1, <1>2, IdleKeeps
<1>4. p # <<>> /\ Len(p) \in 0..MaxModelLen /\ Len(p) \in Nat
  <2>1. p \in Seq(Tokens) /\ Len(p) \in 1..(MaxModelLen - 1)  BY PromptsAssumption
  <2>2. p # <<>>  BY <2>1, EmptySeq
  <2> QED BY <2>1, <2>2, LengthAssumption
<1>5. m \in Nat /\ Clamped(Len(p), m) \in Nat
  BY <1>4, LengthAssumption DEF Clamped
<1>6. QueueParts /\ running \in Seq(Seqs) /\ waiting \in Seq(Seqs)
      /\ DOMAIN status = Seqs /\ DOMAIN tokens = Seqs
  BY QueueForms DEF SchedInv, SchedulerTypeOK, IndInv, TypeOK
<1>7. status[s] \notin {"RUNNING", "WAITING"} /\ s \notin Range(waiting) /\ s \notin Range(running)
      /\ IsInjective(waiting)
  BY <1>2, <1>6 DEF QueueParts
<1>8. /\ Append(waiting, s) \in Seq(Seqs) /\ IsInjective(Append(waiting, s))
      /\ Range(Append(waiting, s)) = Range(waiting) \cup {s}
  BY <1>6, <1>7, AppendLaws
<1>9. /\ status'[s] = "WAITING" /\ tokens'[s] = p
      /\ \A t \in Seqs \ {s} : status'[t] = status[t] /\ tokens'[t] = tokens[t]
  BY <1>1, <1>2, <1>6
<1>10. SchedulerTypeOK'
  <2>1. prompt_len' \in [Seqs -> 0..MaxModelLen]  BY <1>1, <1>4 DEF SchedInv, SchedulerTypeOK
  <2>2. max_tokens' \in [Seqs -> Nat] /\ asked' \in [Seqs -> Nat]
    BY <1>1, <1>5 DEF SchedInv, SchedulerTypeOK
  <2> QED BY <1>1, <1>3, <1>8, <2>1, <2>2 DEF SchedInv, SchedulerTypeOK
<1>11. QueueParts'
  <2>1. Range(running') = {t \in Seqs : status'[t] = "RUNNING"}
    BY <1>1, <1>6, <1>7, <1>9 DEF QueueParts
  <2>2. Range(waiting') = {t \in Seqs : status'[t] = "WAITING"}
    BY <1>1, <1>6, <1>8, <1>9 DEF QueueParts
  <2>3. \A t \in Seqs : InUse(t)' <=> status'[t] \in {"RUNNING", "WAITING"}
    BY <1>4, <1>6, <1>9 DEF QueueParts, InUse
  <2>4. \A t \in Seqs : status'[t] # "RUNNING" => table'[t] = <<>> /\ computed'[t] = 0
    BY <1>2, <1>6, <1>7, <1>9 DEF QueueParts
  <2> QED BY <1>1, <1>6, <1>8, <2>1, <2>2, <2>3, <2>4 DEF QueueParts
<1>12. BatchExact'
  <2>1. \A t \in Range(running) : computed'[t] + num_new'[t] > 0
    BY <1>2 DEF SchedInv, BatchExact
  <2> QED BY <1>1, <1>3, <2>1 DEF BatchExact
<1> QED BY <1>3, <1>10, <1>11, <1>12, QueueFormsNext DEF SchedInv

LEMMA AbortKeeps ==
    ASSUME IndInv, SchedInv, NEW s \in Seqs, AbortRequest(s)
    PROVE  SchedInv'
<1> DEFINE w == Without(waiting, {s})
           r == Without(running, {s})
<1>1. /\ at = "idle" /\ AbortBlocks(s) /\ UNCHANGED <<kv, stepVars, sp, max_tokens>>
      /\ waiting' = w /\ running' = r
      /\ status' = [status EXCEPT ![s] = "FINISHED_ABORTED"]
      /\ prompt_len' = [prompt_len EXCEPT ![s] = 0] /\ asked' = [asked EXCEPT ![s] = 0]
  BY DEF AbortRequest, Forget
<1>2. /\ tokens' = [tokens EXCEPT ![s] = <<>>] /\ computed' = [computed EXCEPT ![s] = 0]
      /\ table' = [table EXCEPT ![s] = <<>>] /\ num_new' = num_new /\ phase' = phase
  BY <1>1 DEF AbortBlocks, FreeBlocks
<1>3. /\ UnchunkedWhole' /\ StageExact' /\ SnapshotExact'
      /\ Scheduled' = {} /\ batch' = <<>> /\ Range(batch') = {} /\ IsInjective(batch')
      /\ at' = at /\ todo' = todo /\ batch' = batch /\ preempted' = preempted /\ budget' = budget
  BY <1>1, <1>2, IdleKeeps
<1>4. QueueParts /\ running \in Seq(Seqs) /\ waiting \in Seq(Seqs)
      /\ DOMAIN status = Seqs /\ DOMAIN tokens = Seqs /\ DOMAIN computed = Seqs /\ DOMAIN table = Seqs
  BY QueueForms DEF SchedInv, SchedulerTypeOK, IndInv, TypeOK
<1>5. /\ r \in Seq(Seqs) /\ Range(r) = Range(running) \ {s} /\ IsInjective(r)
      /\ w \in Seq(Seqs) /\ Range(w) = Range(waiting) \ {s} /\ IsInjective(w)
  BY <1>4, WithoutLaws DEF QueueParts
<1> HIDE DEF w, r
<1>6. /\ computed'[s] = 0 /\ table'[s] = <<>> /\ tokens'[s] = <<>> /\ status'[s] = "FINISHED_ABORTED"
      /\ \A u \in Seqs \ {s} : /\ computed'[u] = computed[u] /\ table'[u] = table[u]
                               /\ tokens'[u] = tokens[u] /\ status'[u] = status[u]
  BY <1>1, <1>2, <1>4
<1>7. SchedulerTypeOK'
  <2>1. prompt_len' \in [Seqs -> 0..MaxModelLen]
    <3>1. 0 \in 0..MaxModelLen  BY LengthAssumption
    <3> QED BY <1>1, <3>1 DEF SchedInv, SchedulerTypeOK
  <2>2. asked' \in [Seqs -> Nat]  BY <1>1 DEF SchedInv, SchedulerTypeOK
  <2> QED BY <1>1, <1>3, <1>5, <2>1, <2>2 DEF SchedInv, SchedulerTypeOK
<1>8. QueueParts'
  <2>1. Range(running') = {u \in Seqs : status'[u] = "RUNNING"}
    BY <1>1, <1>4, <1>5, <1>6 DEF QueueParts
  <2>2. Range(waiting') = {u \in Seqs : status'[u] = "WAITING"}
    BY <1>1, <1>4, <1>5, <1>6 DEF QueueParts
  <2>3. \A u \in Seqs : InUse(u)' <=> status'[u] \in {"RUNNING", "WAITING"}
    BY <1>4, <1>6 DEF QueueParts, InUse
  <2>4. \A u \in Seqs : status'[u] # "RUNNING" => table'[u] = <<>> /\ computed'[u] = 0
    BY <1>4, <1>6 DEF QueueParts
  <2> QED BY <1>1, <1>5, <2>1, <2>2, <2>3, <2>4 DEF QueueParts
<1>9. BatchExact'
  <2>1. \A u \in Range(running) \ {s} : computed'[u] + num_new'[u] > 0
    <3>1. \A u \in Range(running) : u \in Seqs  BY RunningHolds
    <3> QED BY <1>2, <1>6, <3>1 DEF SchedInv, BatchExact
  <2> QED BY <1>1, <1>3, <1>5, <2>1 DEF BatchExact
<1> QED BY <1>3, <1>7, <1>8, <1>9, QueueFormsNext DEF SchedInv

LEMMA ForkKeeps ==
    ASSUME IndInv, IndInv', SchedInv, NEW p \in Seqs, NEW c \in Seqs, NEW m \in MaxTokensChoices,
           NEW ts \in Branches(p), ForkRequest(p, c, ts, m)
    PROVE  SchedInv'
<1>1. /\ at = "idle" /\ ~InUse(c) /\ ForkBlocks(p, c, ts) /\ UNCHANGED <<kv, waiting, stepVars>>
      /\ running' = Append(running, c) /\ status' = [status EXCEPT ![c] = "RUNNING"]
      /\ prompt_len' = [prompt_len EXCEPT ![c] = Len(ts)]
      /\ sp' = [sp EXCEPT ![c] = c]
      /\ max_tokens' = [max_tokens EXCEPT ![c] = m] /\ asked' = [asked EXCEPT ![c] = m]
  BY DEF ForkRequest
<1>2. /\ tokens' = [tokens EXCEPT ![c] = ts] /\ computed' = [computed EXCEPT ![c] = computed[p]]
      /\ table' = [table EXCEPT ![c] = table[p]] /\ num_new' = num_new /\ phase' = phase
  BY <1>1 DEF ForkBlocks
<1>3. /\ UnchunkedWhole' /\ StageExact' /\ SnapshotExact'
      /\ Scheduled' = {} /\ batch' = <<>> /\ Range(batch') = {} /\ IsInjective(batch')
      /\ at' = at /\ todo' = todo /\ batch' = batch /\ preempted' = preempted /\ budget' = budget
  BY <1>1, <1>2, IdleKeeps
<1>4. computed[p] > 0  BY ForkSimulates DEF MayFork
<1>5. QueueParts /\ running \in Seq(Seqs) /\ waiting \in Seq(Seqs)
      /\ DOMAIN status = Seqs /\ DOMAIN tokens = Seqs /\ DOMAIN computed = Seqs /\ DOMAIN table = Seqs
  BY QueueForms DEF SchedInv, SchedulerTypeOK, IndInv, TypeOK
<1>6. status[c] \notin {"RUNNING", "WAITING"} /\ c \notin Range(waiting) /\ c \notin Range(running)
      /\ IsInjective(running)
  BY <1>1, <1>5 DEF QueueParts
<1>7. /\ Append(running, c) \in Seq(Seqs) /\ IsInjective(Append(running, c))
      /\ Range(Append(running, c)) = Range(running) \cup {c}
  BY <1>5, <1>6, AppendLaws
<1>8. /\ computed'[c] = computed[p] /\ tokens'[c] = ts /\ status'[c] = "RUNNING"
      /\ \A u \in Seqs \ {c} : /\ computed'[u] = computed[u] /\ table'[u] = table[u]
                               /\ tokens'[u] = tokens[u] /\ status'[u] = status[u]
  BY <1>1, <1>2, <1>5
<1>9. computed[p] \in Nat /\ num_new[c] \in Nat  BY LengthFacts
<1>10. ts # <<>> /\ Len(ts) \in 0..MaxModelLen
  <2>1. \A u \in Seqs : tokens'[u] = <<>> => computed'[u] = 0
    BY DEF IndInv, LengthsOK, InUse
  <2>2. ts # <<>>  BY <1>4, <1>8, <2>1
  <2>3. ts \in TokenStrings  BY <1>8 DEF IndInv, TypeOK
  <2>4. ts \in Seq(Tokens) /\ Len(ts) <= MaxModelLen  BY <2>3 DEF TokenStrings
  <2>5. Len(ts) \in Nat  BY <2>4, LenProperties
  <2> QED BY <2>2, <2>4, <2>5, LengthAssumption
<1>11. SchedulerTypeOK'
  <2>1. prompt_len' \in [Seqs -> 0..MaxModelLen]  BY <1>1, <1>10 DEF SchedInv, SchedulerTypeOK
  <2>2. max_tokens' \in [Seqs -> Nat] /\ asked' \in [Seqs -> Nat]
    <3>1. m \in Nat  BY ChoiceAssumption
    <3> QED BY <1>1, <3>1 DEF SchedInv, SchedulerTypeOK
  <2> QED BY <1>1, <1>3, <1>7, <2>1, <2>2 DEF SchedInv, SchedulerTypeOK
<1>12. QueueParts'
  <2>1. Range(running') = {u \in Seqs : status'[u] = "RUNNING"}
    BY <1>1, <1>5, <1>7, <1>8 DEF QueueParts
  <2>2. Range(waiting') = {u \in Seqs : status'[u] = "WAITING"}
    BY <1>1, <1>5, <1>6, <1>8 DEF QueueParts
  <2>3. \A u \in Seqs : InUse(u)' <=> status'[u] \in {"RUNNING", "WAITING"}
    BY <1>5, <1>8, <1>10 DEF QueueParts, InUse
  <2>4. \A u \in Seqs : status'[u] # "RUNNING" => table'[u] = <<>> /\ computed'[u] = 0
    BY <1>5, <1>8 DEF QueueParts
  <2> QED BY <1>1, <1>5, <1>7, <2>1, <2>2, <2>3, <2>4 DEF QueueParts
<1>13. BatchExact'
  <2>1. ASSUME NEW u \in Range(running')
        PROVE  computed'[u] + num_new'[u] > 0
    <3>1. CASE u = c  BY <1>2, <1>4, <1>8, <1>9, <3>1
    <3>2. CASE u # c
      <4>1. u \in Range(running)  BY <1>1, <1>7, <2>1, <3>2
      <4>2. u \in Seqs  BY <4>1, RunningHolds
      <4> QED BY <1>2, <1>8, <3>2, <4>1, <4>2 DEF SchedInv, BatchExact
    <3> QED BY <3>1, <3>2
  <2> QED BY <1>3, <2>1 DEF BatchExact
<1> QED BY <1>3, <1>11, <1>12, <1>13, QueueFormsNext DEF SchedInv

-----------------------------------------------------------------------------
(* The scheduler is a client of the block manager and of the cache.          *)

\* The steps of Next, one by one.
LEMMA StepCases ==
    ASSUME SchedInv, Next
    PROVE  \/ \E s, o \in Seqs, p \in Prompts, m \in Nat : AddRequest(s, p, o, m)
           \/ \E s \in Seqs : AbortRequest(s)
           \/ \E p, c \in Seqs, m \in MaxTokensChoices :
                 \E ts \in Branches(p) : ForkRequest(p, c, ts, m)
           \/ StartStep \/ RunningDone \/ SkipRunning \/ ScheduleRunning
           \/ RunningExhausted \/ PreemptTail \/ AdmitWaiting \/ EmptyStep \/ RunBatch
           \/ UpdateChunk
           \/ \E t \in SampledTokens : UpdateToken(t)
           \/ \E t \in SampledTokens : UpdateFinish(t)
<1>1. CASE Client
  <2>1. max_tokens \in [Seqs -> Nat] /\ MaxTokensChoices \subseteq Nat
    BY ChoiceAssumption DEF SchedInv, SchedulerTypeOK
  <2> QED BY <1>1, <2>1 DEF Client, MaxTokensOf
<1>2. CASE Step  BY <1>2 DEF Step
<1> QED BY <1>1, <1>2 DEF Next

LEMMA StepSimulates ==
    ASSUME IndInv, SchedInv, [Next]_vars
    PROVE  [KVNext]_kvVars
<1>1. ASSUME NEW s \in Seqs, NEW o \in Seqs, NEW p \in Prompts, NEW m \in Nat,
             AddRequest(s, p, o, m)
      PROVE  KVNext
  BY <1>1, AddSimulates
<1>2. ASSUME NEW s \in Seqs, AbortRequest(s) PROVE KVNext  BY <1>2, AbortSimulates
<1>3. ASSUME NEW p \in Seqs, NEW c \in Seqs, NEW m \in MaxTokensChoices, NEW ts \in Branches(p),
             ForkRequest(p, c, ts, m)
      PROVE  KVNext
  BY <1>3, ForkSimulates
<1>4. CASE StartStep \/ RunningDone \/ SkipRunning \/ EmptyStep
  BY <1>4 DEF StartStep, RunningDone, SkipRunning, EmptyStep
<1>5. CASE ScheduleRunning   BY <1>5, ScheduleSimulates
<1>6. CASE RunningExhausted  BY <1>6, ExhaustedSimulates
<1>7. CASE PreemptTail       BY <1>7, PreemptSimulates
<1>8. CASE AdmitWaiting      BY <1>8, AdmitSimulates
<1>9. CASE RunBatch          BY <1>9, RunSimulates
<1>10. CASE UpdateChunk      BY <1>10, ChunkSimulates
<1>11. ASSUME NEW t \in SampledTokens, UpdateToken(t) PROVE KVNext  BY <1>11, TokenSimulates
<1>12. ASSUME NEW t \in SampledTokens, UpdateFinish(t) PROVE KVNext  BY <1>12, FinishSimulates
<1>13. CASE UNCHANGED vars  BY <1>13 DEF vars
<1>14. CASE Next
  BY <1>1, <1>2, <1>3, <1>4, <1>5, <1>6, <1>7, <1>8, <1>9, <1>10, <1>11, <1>12, <1>14, StepCases
<1> QED BY <1>13, <1>14

LEMMA StepSched ==
    ASSUME IndInv, IndInv', SchedInv, [Next]_vars
    PROVE  SchedInv'
<1>1. ASSUME NEW s \in Seqs, NEW o \in Seqs, NEW p \in Prompts, NEW m \in Nat,
             AddRequest(s, p, o, m)
      PROVE  SchedInv'
  BY <1>1, AddKeeps
<1>2. ASSUME NEW s \in Seqs, AbortRequest(s) PROVE SchedInv'  BY <1>2, AbortKeeps
<1>3. ASSUME NEW p \in Seqs, NEW c \in Seqs, NEW m \in MaxTokensChoices, NEW ts \in Branches(p),
             ForkRequest(p, c, ts, m)
      PROVE  SchedInv'
  BY <1>3, ForkKeeps
<1>4. CASE StartStep         BY <1>4, StartKeeps
<1>5. CASE RunningDone       BY <1>5, DoneKeeps
<1>6. CASE SkipRunning       BY <1>6, SkipKeeps
<1>7. CASE ScheduleRunning   BY <1>7, ScheduleKeeps
<1>8. CASE RunningExhausted  BY <1>8, ExhaustedKeeps
<1>9. CASE PreemptTail       BY <1>9, PreemptKeeps
<1>10. CASE AdmitWaiting     BY <1>10, AdmitKeeps
<1>11. CASE EmptyStep        BY <1>11, EmptyKeeps
<1>12. CASE RunBatch         BY <1>12, RunKeeps
<1>13. CASE UpdateChunk      BY <1>13, ChunkKeeps
<1>14. ASSUME NEW t \in SampledTokens, UpdateToken(t) PROVE SchedInv'  BY <1>14, TokenKeeps
<1>15. ASSUME NEW t \in SampledTokens, UpdateFinish(t) PROVE SchedInv'  BY <1>15, FinishKeeps
<1>16. CASE UNCHANGED vars  BY <1>16, StutterKeeps
<1>17. CASE Next
  BY <1>1, <1>2, <1>3, <1>4, <1>5, <1>6, <1>7, <1>8, <1>9, <1>10, <1>11, <1>12, <1>13, <1>14,
     <1>15, <1>17, StepCases
<1> QED BY <1>16, <1>17

LEMMA InitSched ==
    ASSUME Init
    PROVE  SchedInv
<1>1. /\ waiting = <<>> /\ running = <<>> /\ at = "idle" /\ todo = <<>> /\ batch = <<>>
      /\ preempted = {} /\ budget = 0
      /\ status = [s \in Seqs |-> "UNUSED"] /\ prompt_len = [s \in Seqs |-> 0]
      /\ sp = [s \in Seqs |-> s] /\ max_tokens = [s \in Seqs |-> 0] /\ asked = [s \in Seqs |-> 0]
      /\ tokens = [s \in Seqs |-> <<>>] /\ table = [s \in Seqs |-> <<>>]
      /\ computed = [s \in Seqs |-> 0] /\ num_new = [s \in Seqs |-> 0] /\ phase = "schedule"
  BY DEF Init, BMInit
<1>2. <<>> \in Seq(Seqs) /\ Range(<<>>) = {} /\ IsInjective(<<>>)
  BY EmptySeq DEF Range, IsInjective
<1>3. SchedulerTypeOK
  BY <1>1, <1>2, LengthAssumption, BudgetAssumption DEF SchedulerTypeOK
<1>4. QueueParts  BY <1>1, <1>2 DEF QueueParts, InUse
<1>5. Scheduled = {}  BY <1>1 DEF Scheduled
<1>6. UnchunkedWhole /\ BatchExact  BY <1>1, <1>2, <1>5 DEF UnchunkedWhole, BatchExact
<1>7. StageExact /\ SnapshotExact  BY <1>1 DEF StageExact, SnapshotExact, Looping
<1> QED BY <1>3, <1>4, <1>6, <1>7, QueueForms DEF SchedInv

\* SchedInv, together with the pool's IndInv, is an invariant of the engine
\* loop: each needs the other.
LEMMA SchedInvariant == Spec => [](IndInv /\ SchedInv)
<1>1. Init => IndInv /\ SchedInv  BY InitIndInv, InitSched DEF Init
<1>2. IndInv /\ SchedInv /\ [Next]_vars => (IndInv /\ SchedInv)'
  <2> SUFFICES ASSUME IndInv, SchedInv, [Next]_vars PROVE IndInv' /\ SchedInv'  OBVIOUS
  <2>1. [BMNext]_bmVars  BY StepSimulates, KVStepIsBMStep
  <2>2. IndInv'  BY <2>1, StepPreserves
  <2> QED BY <2>2, StepSched
<1> QED BY <1>1, <1>2, PTL DEF Spec

THEOREM SchedInvHolds == Spec => []SchedInv
<1>1. IndInv /\ SchedInv => SchedInv  OBVIOUS
<1> QED BY <1>1, SchedInvariant, PTL

\* schedule, update and the request calls use the block manager only as its
\* interface expects: whatever is proved of PagedKV holds of the engine loop.
THEOREM SchedulerIsClient == Spec => KVSpec
<1>1. Init => BMInit /\ KVInit  BY DEF Init
<1>2. IndInv /\ SchedInv /\ [Next]_vars => [KVNext]_kvVars  BY StepSimulates
<1> QED BY <1>1, <1>2, SchedInvariant, PTL DEF Spec, KVSpec

\* Every variable of the scheduler keeps its type.
THEOREM SchedulerTypeOKHolds == Spec => []SchedulerTypeOK
<1>1. SchedInv => SchedulerTypeOK  BY DEF SchedInv
<1> QED BY <1>1, SchedInvHolds, PTL

\* The deques waiting and running, the statuses and the block tables agree, so
\* the deques' remove() never raises and no request is in both or in neither.
THEOREM QueuesPartitionHolds == Spec => []QueuesPartition
<1>1. SchedInv => QueuesPartition  BY DEF SchedInv
<1> QED BY <1>1, SchedInvHolds, PTL

\* With enable_chunked_prefill off, schedule never splits a prompt, not even
\* that of a preempted sequence that is admitted again.
THEOREM UnchunkedWholeHolds == Spec => []UnchunkedWhole
<1>1. SchedInv => UnchunkedWhole  BY DEF SchedInv
<1> QED BY <1>1, SchedInvHolds, PTL

\* In the engine loop, whatever is admitted, preempted, forked or aborted, every
\* computed position holds the key and value of its own sequence's prefix.
THEOREM EngineKVFaithful == Spec => []KVFaithful
BY SchedulerIsClient, KVFaithfulHolds, PTL

\* In the engine loop the forward of a batch writes into no block that another
\* request or the prefix cache can see.
THEOREM EngineWritesExclusive == Spec => []WritesExclusive
BY SchedulerIsClient, KVRefinesPool, WritesExclusiveHolds, PTL

\* In the engine loop every cached block can be reached: the cache never loses
\* the block before it in the prompt that filled it.
THEOREM EngineCachePrefixClosed == Spec => []CachePrefixClosed
BY SchedulerIsClient, KVRefinesPool, CachePrefixClosedHolds, PTL

-----------------------------------------------------------------------------
(* What a step may never do.                                                 *)

\* Preemption is lossless: in every step a request that stays alive keeps the
\* tokens it has, and gets at most one more (schedule's preemption, update's
\* append_token).
THEOREM LosslessHolds == Spec => Lossless
<1> DEFINE Longer(s) == \/ tokens'[s] = tokens[s]
                        \/ \E t \in Tokens : tokens'[s] = Append(tokens[s], t)
           Allowed == \A s \in Seqs : InUse(s) /\ InUse(s)' => Longer(s)
<1>1. ASSUME IndInv, SchedInv, [Next]_vars
      PROVE  Allowed
  <2>1. DOMAIN tokens = Seqs  BY <1>1 DEF IndInv, TypeOK
  <2>2. CASE UNCHANGED tokens  BY <2>2
  <2>3. ASSUME NEW s \in Seqs, NEW x, tokens' = [tokens EXCEPT ![s] = x],
               x = <<>> \/ ~InUse(s) \/ \E t \in Tokens : x = Append(tokens[s], t)
        PROVE  Allowed
    <3>1. tokens'[s] = x /\ \A u \in Seqs \ {s} : tokens'[u] = tokens[u]  BY <2>1, <2>3
    <3>2. \A u \in Seqs : InUse(u)' <=> tokens'[u] # <<>>  BY DEF InUse
    <3> QED BY <2>3, <3>1, <3>2
  <2> HIDE DEF Allowed
  <2>4. ASSUME NEW s \in Seqs, NEW o \in Seqs, NEW p \in Prompts, NEW m \in Nat,
               AddRequest(s, p, o, m)
        PROVE  Allowed
    BY <2>3, <2>4 DEF AddRequest, Add
  <2>5. ASSUME NEW s \in Seqs, AbortRequest(s) PROVE Allowed
    BY <2>3, <2>5 DEF AbortRequest, AbortBlocks
  <2>6. ASSUME NEW p \in Seqs, NEW c \in Seqs, NEW m \in MaxTokensChoices, NEW ts \in Branches(p),
               ForkRequest(p, c, ts, m)
        PROVE  Allowed
    BY <2>3, <2>6 DEF ForkRequest, ForkBlocks
  <2>7. CASE StartStep \/ RunningDone \/ SkipRunning \/ EmptyStep
    BY <2>2, <2>7 DEF StartStep, RunningDone, SkipRunning, EmptyStep, kvVars, bmVars, seqVars
  <2>8. CASE ScheduleRunning   BY <2>2, <2>8 DEF ScheduleRunning, ContinueBlocks
  <2>9. CASE RunningExhausted
    BY <2>2, <2>9 DEF RunningExhausted, RollBackBlocks, bmVars, seqVars
  <2>10. CASE PreemptTail      BY <2>2, <2>10 DEF PreemptTail, PreemptBlocks
  <2>11. CASE AdmitWaiting     BY <2>2, <2>11 DEF AdmitWaiting, AdmitBlocks
  <2>12. CASE RunBatch         BY <2>2, <2>12 DEF RunBatch, Forward, TakePendingCopies, seqVars
  <2>13. CASE UpdateChunk      BY <2>2, <2>13 DEF UpdateChunk, CommitWatermark
  <2>14. ASSUME NEW t \in SampledTokens, UpdateToken(t) PROVE Allowed
    <3>1. at = "update" /\ tokens' = [tokens EXCEPT ![Head(batch)] = Append(tokens[Head(batch)], t)]
      BY <2>14 DEF UpdateToken, CommitToken
    <3>2. Head(batch) \in Seqs  BY <1>1, <3>1, CommitLaws
    <3>3. t \in Tokens  BY SampledAssumption
    <3> QED BY <2>3, <3>1, <3>2, <3>3
  <2>15. ASSUME NEW t \in SampledTokens, UpdateFinish(t) PROVE Allowed
    <3>1. at = "update" /\ tokens' = [tokens EXCEPT ![Head(batch)] = <<>>]
      BY <2>15 DEF UpdateFinish, CommitFinish
    <3>2. Head(batch) \in Seqs  BY <1>1, <3>1, CommitLaws
    <3> QED BY <2>3, <3>1, <3>2
  <2>16. CASE UNCHANGED vars  BY <2>2, <2>16 DEF vars, kvVars, bmVars, seqVars
  <2>17. CASE Next
    BY <1>1, <2>4, <2>5, <2>6, <2>7, <2>8, <2>9, <2>10, <2>11, <2>12, <2>13, <2>14, <2>15, <2>17, StepCases
  <2> QED BY <1>1, <2>16, <2>17
<1>2. IndInv /\ SchedInv /\ [Next]_vars => [Allowed]_vars  BY <1>1
<1> QED BY <1>2, SchedInvariant, PTL DEF Spec, Lossless

\* A request that comes into the order leaves the others as they were.
LEMMA OrderInsert ==
    ASSUME NEW B, NEW p \in Seq(B), NEW q \in Seq(B), NEW x \in B, x \notin Range(p \o q)
    PROVE  LET old == p \o q
               new == Append(p, x) \o q
           IN  Retain(new, Range(old)) = Retain(old, Range(new))
<1> DEFINE old == p \o q
           one == Append(p, x)
           new == one \o q
           K   == Range(old)
<1>1. /\ old \in Seq(B) /\ K = Range(p) \cup Range(q)
  BY ConcatLaws
<1>2. one \in Seq(B) /\ Range(one) = Range(p) \cup {x}  BY AppendRange
<1>3. new \in Seq(B) /\ Range(new) = Range(one) \cup Range(q)
  <2> HIDE DEF one
  <2> QED BY <1>2, ConcatLaws
<1>4. Retain(old, Range(new)) = old
  <2>1. K \subseteq Range(new)  BY <1>1, <1>2, <1>3
  <2> HIDE DEF new
  <2> QED BY <1>1, <2>1, RetainWhole
<1>5. Retain(one, K) = p
  <2> DEFINE v == <<x>>
  <2>1. v \in Seq(B) /\ Range(v) = {x} /\ one = p \o v
    BY AppendIsConcat DEF Range
  <2> HIDE DEF v, one, K
  <2>2. Range(v) \cap K = {}  BY <2>1 DEF K
  <2>3. Retain(v, K) = <<>>  BY <2>1, <2>2, RetainNone
  <2>4. Retain(p, K) = p  BY <1>1, RetainWhole
  <2>5. Retain(p \o v, K) = Retain(p, K) \o Retain(v, K)  BY <2>1, RetainConcat
  <2>6. p \o <<>> = p  BY ConcatEmptySeq
  <2> QED BY <2>1, <2>3, <2>4, <2>5, <2>6
<1>6. Retain(q, K) = q  BY <1>1, RetainWhole
<1>7. Retain(new, K) = Retain(one, K) \o Retain(q, K)
  <2> HIDE DEF one, K
  <2> QED BY <1>2, RetainConcat
<1> QED BY <1>4, <1>5, <1>6, <1>7

\* Requests that leave the order leave the others as they were.
LEMMA OrderDelete ==
    ASSUME NEW B, NEW p \in Seq(B), NEW q \in Seq(B), NEW D,
           NEW a, a = Without(p, D), NEW b, b = Without(q, D)
    PROVE  Retain(a \o b, Range(p \o q)) = Retain(p \o q, Range(a \o b))
<1> DEFINE old == p \o q
           new == a \o b
           K   == Range(new)
<1>1. old \in Seq(B) /\ Range(old) = Range(p) \cup Range(q)  BY ConcatLaws
<1>2. /\ a \in Seq(B) /\ Range(a) = Range(p) \ D /\ b \in Seq(B) /\ Range(b) = Range(q) \ D
  BY WithoutLaws
<1>3. new \in Seq(B) /\ K = Range(a) \cup Range(b)
  BY <1>2, ConcatLaws
<1>4. Retain(new, Range(old)) = new
  <2>1. Range(new) \subseteq Range(old)  BY <1>1, <1>2, <1>3
  <2> HIDE DEF new, old
  <2> QED BY <1>3, <2>1, RetainWhole
<1>5. a = Retain(p, Range(p) \ D) /\ b = Retain(q, Range(q) \ D)  BY DEF Without
<1> HIDE DEF K
<1>6. Retain(p, K) = a
  <2>1. Range(p) \cap K = Range(p) \cap (Range(p) \ D)  BY <1>2, <1>3
  <2> QED BY <1>5, <2>1, RetainOnly
<1>7. Retain(q, K) = b
  <2>1. Range(q) \cap K = Range(q) \cap (Range(q) \ D)  BY <1>2, <1>3
  <2> QED BY <1>5, <2>1, RetainOnly
<1>8. Retain(old, K) = Retain(p, K) \o Retain(q, K)  BY RetainConcat
<1> QED BY <1>4, <1>6, <1>7, <1>8 DEF K

\* A request that changes queues keeps its place.
LEMMA OrderMove ==
    ASSUME NEW B, NEW p \in Seq(B), NEW q \in Seq(B), NEW x \in B
    PROVE  Append(p, x) \o q = p \o (<<x>> \o q)
<1> DEFINE v == <<x>>
<1>1. v \in Seq(B) /\ Append(p, x) = p \o v  BY AppendIsConcat
<1> HIDE DEF v
<1>2. (p \o v) \o q = p \o (v \o q)  BY <1>1, ConcatAssociative
<1> QED BY <1>1, <1>2 DEF v

\* First come, first served: admission, preemption and re-admission leave the
\* order running \o waiting as it is, a request that enters or ends leaves the
\* order of the others as it is (schedule's popleft, appendleft and pop).
THEOREM FIFOHolds == Spec => FIFO
<1> DEFINE Kept == Retain(Order', Range(Order)) = Retain(Order, Range(Order'))
<1>1. ASSUME IndInv, SchedInv, [Next]_vars
      PROVE  Kept
  <2>1. running \in Seq(Seqs) /\ waiting \in Seq(Seqs) /\ IsInjective(running)
    <3>1. QueueParts  BY <1>1, QueueForms DEF SchedInv
    <3> QED BY <1>1, <3>1 DEF SchedInv, SchedulerTypeOK, QueueParts
  <2>2. ASSUME Order' = Order PROVE Kept  BY <2>2
  <2>3. Range(Order) = Range(running) \cup Range(waiting)  BY <2>1, ConcatLaws DEF Order
  <2>4. CASE UNCHANGED queueVars  BY <2>2, <2>4 DEF queueVars, Order
  <2>5. ASSUME NEW s \in Seqs, running' = Without(running, {s}), waiting' = Without(waiting, {s})
        PROVE  Kept
    <3> DEFINE D == {s}
               a == Without(running, D)
               b == Without(waiting, D)
    <3> HIDE DEF D
    <3>1. Retain(a \o b, Range(running \o waiting)) = Retain(running \o waiting, Range(a \o b))
      BY <2>1, OrderDelete
    <3>2. Order = running \o waiting /\ Order' = a \o b  BY <2>5 DEF Order, D
    <3> QED BY <3>1, <3>2
  <2> HIDE DEF Kept
  <2>6. ASSUME NEW s \in Seqs, NEW o \in Seqs, NEW p \in Prompts, NEW m \in Nat,
               AddRequest(s, p, o, m)
        PROVE  Kept
    <3>1. ~InUse(s) /\ running' = running /\ waiting' = Append(waiting, s)
      BY <2>6 DEF AddRequest, Add
    <3>2. s \notin Range(Order)
      BY <1>1, <2>3, <3>1, RunningHolds, WaitingHolds
    <3>3. Order' = Append(Order, s) \o <<>> /\ Order = Order \o <<>> /\ Order \in Seq(Seqs)
      <4> DEFINE v == <<s>>
      <4>1. v \in Seq(Seqs) /\ Append(waiting, s) = waiting \o v  BY <2>1, AppendIsConcat
      <4>2. Order \in Seq(Seqs)  BY <2>1, ConcatLaws DEF Order
      <4>3. Append(Order, s) = Order \o v  BY <4>2, AppendIsConcat
      <4> HIDE DEF v
      <4>4. (running \o waiting) \o v = running \o (waiting \o v)
        BY <2>1, <4>1, ConcatAssociative
      <4>5. Order' = Append(Order, s)  BY <3>1, <4>1, <4>3, <4>4 DEF Order
      <4>6. Append(Order, s) \in Seq(Seqs)  BY <4>2, AppendRange
      <4> QED BY <4>2, <4>5, <4>6, ConcatEmptySeq
    <3>4. <<>> \in Seq(Seqs)  BY EmptySeq
    <3> QED BY <3>2, <3>3, <3>4, OrderInsert DEF Kept
  <2>7. ASSUME NEW s \in Seqs, AbortRequest(s) PROVE Kept
    BY <2>5, <2>7 DEF AbortRequest
  <2>8. ASSUME NEW p \in Seqs, NEW c \in Seqs, NEW m \in MaxTokensChoices, NEW ts \in Branches(p),
               ForkRequest(p, c, ts, m)
        PROVE  Kept
    <3>1. ~InUse(c) /\ running' = Append(running, c) /\ waiting' = waiting
      BY <2>8 DEF ForkRequest
    <3>2. c \notin Range(Order)
      BY <1>1, <2>3, <3>1, RunningHolds, WaitingHolds
    <3> QED BY <2>1, <3>1, <3>2, OrderInsert DEF Order, Kept
  <2>9. CASE StartStep \/ RunningDone \/ SkipRunning \/ ScheduleRunning \/ RunningExhausted
             \/ EmptyStep \/ RunBatch \/ UpdateChunk \/ \E t \in SampledTokens : UpdateToken(t)
    BY <2>4, <2>9 DEF StartStep, RunningDone, SkipRunning, ScheduleRunning, RunningExhausted,
                      EmptyStep, RunBatch, UpdateChunk, UpdateToken, NextItem, queueVars
  <2>10. CASE PreemptTail
    <3>1. at = "preempting" /\ running' = Without(running, {Victim}) /\ waiting' = <<Victim>> \o waiting
      BY <2>10 DEF PreemptTail, PutBack
    <3>2. Victim \in Seqs /\ Victim \in Range(running)  BY <1>1, <3>1, VictimPending
    <3>3. running # <<>>
      <4>1. Range(<<>>) = {}  BY DEF Range
      <4> QED BY <3>2, <4>1
    <3> DEFINE r == Without(running, {Victim})
    <3>4. r \in Seq(Seqs) /\ running = r \o <<Victim>>
      BY <2>1, <3>3, WithoutLast DEF Victim
    <3> HIDE DEF r
    <3>5. Append(r, Victim) \o waiting = r \o (<<Victim>> \o waiting)
      BY <2>1, <3>2, <3>4, OrderMove
    <3>6. running = Append(r, Victim)  BY <3>2, <3>4, AppendIsConcat
    <3>7. Order' = Order  BY <3>1, <3>5, <3>6 DEF Order, r
    <3> QED BY <2>2, <3>7
  <2>11. CASE AdmitWaiting
    <3> DEFINE s == Head(waiting)
               T == Tail(waiting)
    <3>1. waiting # <<>> /\ waiting' = T /\ running' = Append(running, s)
      BY <2>11 DEF AdmitWaiting, AdmissionOpen
    <3>2. s \in Seqs /\ T \in Seq(Seqs) /\ waiting = <<s>> \o T  BY <2>1, <3>1, TailLaws
    <3> HIDE DEF s, T
    <3>3. Append(running, s) \o T = running \o (<<s>> \o T)  BY <2>1, <3>2, OrderMove
    <3>4. Order' = Order  BY <3>1, <3>2, <3>3 DEF Order
    <3> QED BY <2>2, <3>4
  <2>12. ASSUME NEW t \in SampledTokens, UpdateFinish(t) PROVE Kept
    <3> DEFINE s == Head(batch)
    <3>1. at = "update" /\ running' = Without(running, {s}) /\ waiting' = waiting
      BY <2>12 DEF UpdateFinish, RunningAfterFinish, NextItem
    <3>2. s \in Seqs /\ s \in Range(running)  BY <1>1, <3>1, CommitLaws
    <3> HIDE DEF s
    <3>3. s \notin Range(waiting)  BY <1>1, <3>2, WaitingHolds
    <3>4. Without(waiting, {s}) = waiting
      <4>1. Range(waiting) \subseteq Range(waiting) \ {s}  BY <3>3
      <4> QED BY <2>1, <4>1, RetainWhole DEF Without
    <3> QED BY <2>5, <3>1, <3>2, <3>4
  <2>13. CASE UNCHANGED vars  BY <2>4, <2>13 DEF vars
  <2>14. CASE Next
    BY <1>1, <2>6, <2>7, <2>8, <2>9, <2>10, <2>11, <2>12, <2>14, StepCases
  <2> QED BY <1>1, <2>13, <2>14
<1>2. IndInv /\ SchedInv /\ [Next]_vars => [Kept]_vars  BY <1>1
<1> QED BY <1>2, SchedInvariant, PTL DEF Spec, FIFO

-----------------------------------------------------------------------------
(* Requests that do not share their SamplingParams get what they asked for.   *)

\* A live request has its own parameters, room for one more token, and has not
\* yet generated what it asked for; its limit is what it asked for, clamped by
\* Scheduler.add or, for a forked child, not.
LengthExact ==
    \A s \in Seqs : InUse(s) =>
        /\ sp[s] = s /\ asked[s] > 0
        /\ prompt_len[s] <= NumTokens(s) /\ NumTokens(s) < MaxModelLen
        /\ max_tokens[s] \in {asked[s], Clamped(prompt_len[s], asked[s])}
        /\ Generated(s) < Clamped(prompt_len[s], asked[s])

\* Clamping is taking the smaller of what was asked and what the model length
\* leaves.
LEMMA ClampLaws ==
    ASSUME NEW len \in Nat, len < MaxModelLen, NEW m \in Nat, m > 0
    PROVE  /\ Clamped(len, m) \in Nat /\ 0 < Clamped(len, m)
           /\ Clamped(len, m) <= m /\ Clamped(len, m) <= MaxModelLen - len
           /\ Clamped(len, m) = m \/ Clamped(len, m) = MaxModelLen - len
BY LengthAssumption DEF Clamped

\* The numbers that decide whether a live request ends.
LEMMA LengthNumbers ==
    ASSUME IndInv, SchedInv, LengthExact, NEW s \in Seqs, InUse(s)
    PROVE  LET c == Clamped(prompt_len[s], asked[s])
           IN  /\ NumTokens(s) \in Nat /\ prompt_len[s] \in Nat /\ MaxModelLen \in Nat
               /\ prompt_len[s] <= NumTokens(s) /\ NumTokens(s) < MaxModelLen
               /\ asked[s] \in Nat /\ c \in Nat /\ max_tokens[s] \in {asked[s], c}
               /\ c <= asked[s] /\ c <= MaxModelLen - prompt_len[s]
               /\ c = asked[s] \/ c = MaxModelLen - prompt_len[s]
               /\ NumTokens(s) - prompt_len[s] < c
<1>1. /\ NumTokens(s) \in Nat /\ prompt_len[s] \in Nat /\ asked[s] \in Nat /\ MaxModelLen \in Nat
  BY LengthFacts, LengthAssumption DEF SchedInv, SchedulerTypeOK
<1>2. /\ asked[s] > 0 /\ prompt_len[s] <= NumTokens(s) /\ NumTokens(s) < MaxModelLen
      /\ max_tokens[s] \in {asked[s], Clamped(prompt_len[s], asked[s])}
      /\ NumTokens(s) - prompt_len[s] < Clamped(prompt_len[s], asked[s])
  BY DEF LengthExact, Generated
<1>3. prompt_len[s] < MaxModelLen  BY <1>1, <1>2
<1> QED BY <1>1, <1>2, <1>3, ClampLaws

\* A step that leaves the requests alone, or drops one.
LEMMA LengthFrame ==
    ASSUME LengthExact, UNCHANGED <<prompt_len, sp, max_tokens, asked, tokens>>
    PROVE  LengthExact'
BY DEF LengthExact, Generated, NumTokens, InUse

LEMMA LengthDrop ==
    ASSUME IndInv, SchedInv, LengthExact, NEW s \in Seqs, tokens' = [tokens EXCEPT ![s] = <<>>],
           Forget(s), UNCHANGED <<sp, max_tokens>>
    PROVE  LengthExact'
<1>1. DOMAIN tokens = Seqs /\ DOMAIN prompt_len = Seqs /\ DOMAIN asked = Seqs
  BY DEF IndInv, TypeOK, SchedInv, SchedulerTypeOK
<1>2. /\ tokens'[s] = <<>>
      /\ \A t \in Seqs \ {s} : /\ tokens'[t] = tokens[t] /\ prompt_len'[t] = prompt_len[t]
                               /\ asked'[t] = asked[t]
  BY <1>1 DEF Forget
<1> QED BY <1>2 DEF LengthExact, Generated, NumTokens, InUse

\* A request that enters, with parameters of its own.
LEMMA LengthEnter ==
    ASSUME IndInv, SchedInv, LengthExact, NEW s \in Seqs, NEW ts \in Seq(Tokens), NEW m \in Nat, NEW k,
           m > 0, Len(ts) < MaxModelLen, k \in {m, Clamped(Len(ts), m)},
           tokens' = [tokens EXCEPT ![s] = ts], sp' = [sp EXCEPT ![s] = s],
           asked' = [asked EXCEPT ![s] = m], max_tokens' = [max_tokens EXCEPT ![s] = k],
           prompt_len' = [prompt_len EXCEPT ![s] = Len(ts)]
    PROVE  LengthExact'
<1>1. /\ DOMAIN tokens = Seqs /\ DOMAIN prompt_len = Seqs /\ DOMAIN asked = Seqs
      /\ DOMAIN sp = Seqs /\ DOMAIN max_tokens = Seqs
  BY DEF IndInv, TypeOK, SchedInv, SchedulerTypeOK
<1>2. /\ tokens'[s] = ts /\ prompt_len'[s] = Len(ts) /\ asked'[s] = m /\ sp'[s] = s
      /\ max_tokens'[s] = k
      /\ \A t \in Seqs \ {s} : /\ tokens'[t] = tokens[t] /\ prompt_len'[t] = prompt_len[t]
                               /\ asked'[t] = asked[t] /\ sp'[t] = sp[t]
                               /\ max_tokens'[t] = max_tokens[t]
  BY <1>1
<1>3. Len(ts) \in Nat /\ 0 < Clamped(Len(ts), m)  BY LenProperties, ClampLaws
<1>4. \A t \in Seqs : NumTokens(t)' = Len(tokens'[t]) /\ Generated(t)' = Len(tokens'[t]) - prompt_len'[t]
                      /\ (InUse(t)' <=> tokens'[t] # <<>>)
  BY DEF NumTokens, Generated, InUse
<1>5. ASSUME NEW t \in Seqs, InUse(t)'
      PROVE  /\ sp'[t] = t /\ asked'[t] > 0
             /\ prompt_len'[t] <= NumTokens(t)' /\ NumTokens(t)' < MaxModelLen
             /\ max_tokens'[t] \in {asked'[t], Clamped(prompt_len'[t], asked'[t])}
             /\ Generated(t)' < Clamped(prompt_len'[t], asked'[t])
  <2>1. CASE t = s
    <3>1. NumTokens(t)' = Len(ts) /\ Generated(t)' = 0  BY <1>2, <1>3, <1>4, <2>1
    <3> QED BY <1>2, <1>3, <2>1, <3>1
  <2>2. CASE t # s
    <3>1. InUse(t)  BY <1>2, <1>4, <1>5, <2>2 DEF InUse
    <3>2. NumTokens(t)' = NumTokens(t) /\ Generated(t)' = Generated(t)
      BY <1>2, <1>4, <2>2 DEF NumTokens, Generated
    <3> QED BY <1>2, <2>2, <3>1, <3>2 DEF LengthExact
  <2> QED BY <2>1, <2>2
<1>6. LengthExact' <=> \A t \in Seqs : InUse(t)' =>
             /\ sp'[t] = t /\ asked'[t] > 0
             /\ prompt_len'[t] <= NumTokens(t)' /\ NumTokens(t)' < MaxModelLen
             /\ max_tokens'[t] \in {asked'[t], Clamped(prompt_len'[t], asked'[t])}
             /\ Generated(t)' < Clamped(prompt_len'[t], asked'[t])
  BY DEF LengthExact, Clamped
<1> QED BY <1>5, <1>6

\* A token that does not reach the limit.
LEMMA LengthToken ==
    ASSUME IndInv, SchedInv, LengthExact, NEW t \in SampledTokens, UpdateToken(t)
    PROVE  LengthExact'
<1> DEFINE s == Head(batch)
           c == Clamped(prompt_len[s], asked[s])
<1>1. /\ at = "update" /\ ~LengthReached(s) /\ tokens' = [tokens EXCEPT ![s] = Append(tokens[s], t)]
      /\ prompt_len' = prompt_len /\ asked' = asked /\ sp' = sp /\ max_tokens' = max_tokens
  BY DEF UpdateToken, CommitToken, NextItem
<1>2. s \in Seqs /\ InUse(s) /\ t \in Tokens
  <2>1. s \in Range(running)  BY <1>1, CommitLaws
  <2> QED BY <2>1, RunningHolds, SampledAssumption
<1> HIDE DEF s
<1>3. /\ NumTokens(s) \in Nat /\ prompt_len[s] \in Nat /\ MaxModelLen \in Nat
      /\ prompt_len[s] <= NumTokens(s)
      /\ asked[s] \in Nat /\ c \in Nat /\ max_tokens[s] \in {asked[s], c}
      /\ c = asked[s] \/ c = MaxModelLen - prompt_len[s]
  BY <1>2, LengthNumbers
<1>4. sp[s] = s  BY <1>2 DEF LengthExact
<1> HIDE DEF c
<1>5. /\ ~(NumTokens(s) - prompt_len[s] + 1 >= max_tokens[s])
      /\ ~(NumTokens(s) + 1 >= MaxModelLen)
  BY <1>1, <1>4 DEF LengthReached, Generated
<1>6. /\ prompt_len[s] <= NumTokens(s) + 1 /\ NumTokens(s) + 1 < MaxModelLen
      /\ (NumTokens(s) + 1) - prompt_len[s] < c
  BY <1>3, <1>5
<1>7. DOMAIN tokens = Seqs /\ tokens[s] \in Seq(Tokens)  BY <1>2 DEF IndInv, TypeOK, TokenStrings
<1>8. tokens'[s] = Append(tokens[s], t) /\ \A u \in Seqs \ {s} : tokens'[u] = tokens[u]
  BY <1>1, <1>2, <1>7
<1>9. Len(Append(tokens[s], t)) = NumTokens(s) + 1  BY <1>2, <1>7, AppendProperties DEF NumTokens
<1>10. ASSUME NEW u \in Seqs, InUse(u)'
       PROVE  /\ sp[u] = u /\ asked[u] > 0
              /\ prompt_len[u] <= NumTokens(u)' /\ NumTokens(u)' < MaxModelLen
              /\ max_tokens[u] \in {asked[u], Clamped(prompt_len[u], asked[u])}
              /\ NumTokens(u)' - prompt_len[u] < Clamped(prompt_len[u], asked[u])
  <2>1. CASE u = s
    <3>1. NumTokens(u)' = NumTokens(s) + 1  BY <1>8, <1>9, <2>1 DEF NumTokens
    <3>2. sp[s] = s /\ asked[s] > 0 /\ max_tokens[s] \in {asked[s], c}
      BY <1>2 DEF LengthExact, c
    <3> QED BY <1>6, <2>1, <3>1, <3>2 DEF c
  <2>2. CASE u # s
    <3>1. InUse(u) /\ NumTokens(u)' = NumTokens(u)  BY <1>8, <1>10, <2>2 DEF InUse, NumTokens
    <3> QED BY <3>1 DEF LengthExact, Generated
  <2> QED BY <2>1, <2>2
<1> QED BY <1>1, <1>10 DEF LengthExact, Generated, Clamped

LEMMA LengthAdds ==
    ASSUME IndInv, SchedInv, LengthExact, NEW s \in Seqs, NEW p \in Prompts, NEW m \in Nat \ {0},
           AddRequest(s, p, s, m)
    PROVE  LengthExact'
<1>1. /\ Len(p) < MaxModelLen
      /\ tokens' = [tokens EXCEPT ![s] = p] /\ sp' = [sp EXCEPT ![s] = s]
      /\ asked' = [asked EXCEPT ![s] = m]
      /\ max_tokens' = [max_tokens EXCEPT ![s] = Clamped(Len(p), m)]
      /\ prompt_len' = [prompt_len EXCEPT ![s] = Len(p)]
  BY DEF AddRequest, Acceptable, Add
<1>2. p \in Seq(Tokens) /\ m \in Nat /\ m > 0  BY PromptsAssumption
<1> QED BY <1>1, <1>2, LengthEnter

LEMMA LengthAborts ==
    ASSUME IndInv, SchedInv, LengthExact, NEW s \in Seqs, AbortRequest(s)
    PROVE  LengthExact'
BY LengthDrop DEF AbortRequest, AbortBlocks

LEMMA LengthForks ==
    ASSUME IndInv, SchedInv, LengthExact, NEW p \in Seqs, NEW c \in Seqs, NEW m \in MaxTokensChoices,
           NEW ts \in Branches(p), ForkRequest(p, c, ts, m)
    PROVE  LengthExact'
<1>1. /\ p \in Range(running) /\ tokens' = [tokens EXCEPT ![c] = ts] /\ sp' = [sp EXCEPT ![c] = c]
      /\ asked' = [asked EXCEPT ![c] = m] /\ max_tokens' = [max_tokens EXCEPT ![c] = m]
      /\ prompt_len' = [prompt_len EXCEPT ![c] = Len(ts)]
  BY DEF ForkRequest, ForkBlocks
<1>2. InUse(p)  BY <1>1, RunningHolds
<1>3. /\ tokens[p] \in Seq(Tokens) /\ NumTokens(p) \in Nat /\ computed[p] \in Nat
      /\ computed[p] < NumTokens(p) /\ NumTokens(p) < MaxModelLen
  BY <1>2, LengthFacts DEF LengthExact
<1>4. ts \in Seq(Tokens) /\ Len(ts) <= NumTokens(p)
  <2>1. CASE ts = tokens[p]  BY <1>3, <2>1 DEF NumTokens
  <2>2. ASSUME NEW t \in Tokens, ts = Append(SubSeq(tokens[p], 1, computed[p]), t)
        PROVE  ts \in Seq(Tokens) /\ Len(ts) <= NumTokens(p)
    <3> DEFINE q == SubSeq(tokens[p], 1, computed[p])
    <3>1. q \in Seq(Tokens) /\ Len(q) = computed[p]
      BY <1>3, PrefixLaws DEF NumTokens
    <3> HIDE DEF q
    <3>2. Append(q, t) \in Seq(Tokens) /\ Len(Append(q, t)) = computed[p] + 1
      BY <3>1, AppendProperties
    <3>3. computed[p] + 1 <= NumTokens(p)  BY <1>3
    <3> QED BY <2>2, <3>2, <3>3 DEF q
  <2> QED BY <2>1, <2>2 DEF Branches
<1>5. Len(ts) < MaxModelLen /\ m \in Nat /\ m > 0
  <2>1. Len(ts) \in Nat  BY <1>4, LenProperties
  <2> QED BY <1>3, <1>4, <2>1, LengthAssumption, ChoiceAssumption
<1> QED BY <1>1, <1>4, <1>5, LengthEnter

\* The steps of the engine leave the requests alone, give one a token or end one.
LEMMA LengthSteps ==
    ASSUME IndInv, SchedInv, LengthExact, [Step]_vars
    PROVE  LengthExact'
<1>1. CASE StartStep \/ RunningDone \/ SkipRunning \/ EmptyStep
  BY <1>1, LengthFrame
  DEF StartStep, RunningDone, SkipRunning, EmptyStep, kvVars, bmVars, seqVars, requestVars
<1>2. CASE ScheduleRunning
  BY <1>2, LengthFrame DEF ScheduleRunning, ContinueBlocks, requestVars
<1>3. CASE RunningExhausted
  BY <1>3, LengthFrame DEF RunningExhausted, RollBackBlocks, bmVars, seqVars, requestVars
<1>4. CASE PreemptTail   BY <1>4, LengthFrame DEF PreemptTail, PreemptBlocks
<1>5. CASE AdmitWaiting  BY <1>5, LengthFrame DEF AdmitWaiting, AdmitBlocks
<1>6. CASE RunBatch
  BY <1>6, LengthFrame DEF RunBatch, Forward, TakePendingCopies, seqVars, requestVars
<1>7. CASE UpdateChunk
  BY <1>7, LengthFrame DEF UpdateChunk, CommitWatermark, NextItem
<1>8. ASSUME NEW t \in SampledTokens, UpdateToken(t) PROVE LengthExact'
  BY <1>8, LengthToken
<1>9. ASSUME NEW t \in SampledTokens, UpdateFinish(t) PROVE LengthExact'
  <2>1. /\ at = "update" /\ tokens' = [tokens EXCEPT ![Head(batch)] = <<>>] /\ Forget(Head(batch))
        /\ UNCHANGED <<sp, max_tokens>>
    BY <1>9 DEF UpdateFinish, CommitFinish, NextItem
  <2>2. Head(batch) \in Seqs  BY <2>1, CommitLaws
  <2> QED BY <2>1, <2>2, LengthDrop
<1>10. CASE UNCHANGED vars
  BY <1>10, LengthFrame DEF vars, kvVars, bmVars, seqVars, requestVars
<1> QED BY <1>1, <1>2, <1>3, <1>4, <1>5, <1>6, <1>7, <1>8, <1>9, <1>10 DEF Step

LEMMA StepLength ==
    ASSUME ~ShareParams, IndInv, SchedInv, LengthExact, [Next]_vars
    PROVE  LengthExact'
<1>1. ASSUME NEW s \in Seqs, NEW o \in Seqs, NEW p \in Prompts,
             NEW m \in MaxTokensOf(o), AddRequest(s, p, o, m)
      PROVE  LengthExact'
  <2>1. o = s  BY <1>1 DEF AddRequest
  <2>2. ~InUse(s)  BY <1>1 DEF AddRequest, Add
  <2>3. m \in Nat \ {0}  BY <1>1, <2>1, <2>2, ChoiceAssumption DEF MaxTokensOf
  <2> QED BY <1>1, <2>1, <2>3, LengthAdds
<1>2. CASE Client  BY <1>1, <1>2, LengthAborts, LengthForks DEF Client
<1> QED BY <1>2, LengthSteps DEF Next

\* The only step that ends a request by length finds it one token short of what
\* it asked for.
LEMMA LengthFinish ==
    ASSUME IndInv, SchedInv, LengthExact, NEW t, UpdateFinish(t),
           NEW s \in Seqs, status[s] = "RUNNING", status'[s] = "FINISHED_LENGTH"
    PROVE  Generated(s) + 1 = Clamped(prompt_len[s], asked[s])
<1> DEFINE h == Head(batch)
           f == IF t \in StopTokens THEN "FINISHED_STOPPED" ELSE "FINISHED_LENGTH"
           c == Clamped(prompt_len[s], asked[s])
<1>1. /\ at = "update" /\ (t \in StopTokens \/ LengthReached(h))
      /\ status' = [status EXCEPT ![h] = f]
  BY DEF UpdateFinish
<1>2. DOMAIN status = Seqs /\ h \in Seqs /\ h \in Range(running)
  BY <1>1, CommitLaws DEF SchedInv, SchedulerTypeOK
<1>3. h = s /\ t \notin StopTokens  BY <1>1, <1>2
<1>4. InUse(s)  BY <1>2, <1>3, RunningHolds
<1>5. /\ NumTokens(s) \in Nat /\ prompt_len[s] \in Nat /\ MaxModelLen \in Nat
      /\ prompt_len[s] <= NumTokens(s)
      /\ asked[s] \in Nat /\ c \in Nat /\ max_tokens[s] \in {asked[s], c}
      /\ c <= asked[s] /\ c <= MaxModelLen - prompt_len[s]
      /\ NumTokens(s) - prompt_len[s] < c
  BY <1>4, LengthNumbers
<1>6. sp[s] = s  BY <1>4 DEF LengthExact
<1> HIDE DEF h, f, c
<1>7. \/ NumTokens(s) - prompt_len[s] + 1 >= max_tokens[s]
      \/ NumTokens(s) + 1 >= MaxModelLen
  BY <1>1, <1>3, <1>6 DEF LengthReached, Generated
<1>8. NumTokens(s) - prompt_len[s] + 1 = c  BY <1>5, <1>7
<1> QED BY <1>8 DEF Generated, c

LEMMA LengthEnds ==
    ASSUME IndInv, SchedInv, LengthExact, [Next]_vars,
           NEW s \in Seqs, status[s] = "RUNNING", status'[s] = "FINISHED_LENGTH"
    PROVE  Generated(s) + 1 = Clamped(prompt_len[s], asked[s])
<1> DEFINE Goal == Generated(s) + 1 = Clamped(prompt_len[s], asked[s])
<1> SUFFICES Goal  OBVIOUS
<1>1. ASSUME status' = status PROVE Goal  BY <1>1
<1>2. ASSUME NEW u, NEW f, f # "FINISHED_LENGTH", status' = [status EXCEPT ![u] = f]
      PROVE  Goal
  <2>1. DOMAIN status = Seqs  BY DEF SchedInv, SchedulerTypeOK
  <2> QED BY <1>2, <2>1
<1>3. ASSUME NEW t \in SampledTokens, UpdateFinish(t) PROVE Goal  BY <1>3, LengthFinish
<1> HIDE DEF Goal
<1>4. ASSUME NEW u \in Seqs, NEW o \in Seqs, NEW p \in Prompts, NEW m \in Nat,
             AddRequest(u, p, o, m)
      PROVE  Goal
  BY <1>2, <1>4 DEF AddRequest
<1>5. ASSUME NEW u \in Seqs, AbortRequest(u) PROVE Goal  BY <1>2, <1>5 DEF AbortRequest
<1>6. ASSUME NEW p \in Seqs, NEW c \in Seqs, NEW m \in MaxTokensChoices, NEW ts \in Branches(p),
             ForkRequest(p, c, ts, m)
      PROVE  Goal
  BY <1>2, <1>6 DEF ForkRequest
<1>7. CASE StartStep \/ RunningDone \/ SkipRunning \/ EmptyStep \/ ScheduleRunning
           \/ RunningExhausted \/ RunBatch \/ UpdateChunk \/ \E t \in SampledTokens : UpdateToken(t)
  BY <1>1, <1>7 DEF StartStep, RunningDone, SkipRunning, EmptyStep, ScheduleRunning,
                    RunningExhausted, RunBatch, UpdateChunk, UpdateToken, requestVars
<1>8. CASE PreemptTail   BY <1>2, <1>8 DEF PreemptTail
<1>9. CASE AdmitWaiting  BY <1>2, <1>9 DEF AdmitWaiting
<1>10. CASE UNCHANGED vars  BY <1>1, <1>10 DEF vars, requestVars
<1>11. CASE Next
  BY <1>3, <1>4, <1>5, <1>6, <1>7, <1>8, <1>9, <1>11, StepCases
<1> QED BY <1>10, <1>11

\* A request that ends by length has generated exactly what its client asked
\* for, cut only by the model length, when no two requests share one
\* SamplingParams object, whose max_tokens Scheduler.add overwrites.
THEOREM LengthAsAskedHolds == ~ShareParams => (Spec => LengthAsAsked)
<1> SUFFICES ASSUME ~ShareParams PROVE Spec => LengthAsAsked  OBVIOUS
<1> DEFINE Asked == \A s \in Seqs :
                       status[s] = "RUNNING" /\ status'[s] = "FINISHED_LENGTH" =>
                           Generated(s) + 1 = Clamped(prompt_len[s], asked[s])
<1>1. Init => LengthExact
  <2>1. Init => \A s \in Seqs : ~InUse(s)  BY DEF Init, BMInit, InUse
  <2> QED BY <2>1 DEF LengthExact
<1>2. IndInv /\ SchedInv /\ LengthExact /\ [Next]_vars => LengthExact'
  BY StepLength
<1>3. IndInv /\ SchedInv /\ LengthExact /\ [Next]_vars => [Asked]_vars
  BY LengthEnds
<1> QED BY <1>1, <1>2, <1>3, SchedInvariant, PTL DEF Spec, LengthAsAsked

-----------------------------------------------------------------------------
(* A step with unfinished requests computes something.                       *)

\* While the batch is empty the whole budget is left, and the first running
\* sequence has not had its turn; so when the first loop ends with an empty
\* batch, every running sequence has been preempted.
ProgressInv ==
    EnableChunkedPrefill /\ at \in {"running", "preempting", "waiting"} /\ batch = <<>> =>
        /\ budget = MaxNumBatchedTokens /\ HasUnfinished
        /\ at = "waiting" => running = <<>>
        /\ Looping => Passed(0)

\* The first loop takes up the snapshot from its first running sequence.
LEMMA FirstRuns ==
    ASSUME SchedInv, Looping, Passed(0), running # <<>>
    PROVE  todo # <<>> /\ Head(todo) \notin preempted
<1>1. running \in Seq(Seqs) /\ todo \in Seq(Seqs)  BY DEF SchedInv, SchedulerTypeOK
<1>2. Len(running) \in Nat \ {0} /\ DOMAIN running = 1..Len(running)
      /\ Len(todo) \in Nat /\ DOMAIN todo = 1..Len(todo)
  BY <1>1, LenProperties, EmptySeq
<1>3. Len(running) - 0 <= Len(todo)  BY DEF Passed
<1>4. todo # <<>> /\ 1 \in DOMAIN todo /\ 1 \in DOMAIN running /\ 0 + 1 = 1 /\ 1 <= Len(running)
  BY <1>1, <1>2, <1>3, EmptySeq
<1>5. todo[1] = running[1]  BY <1>4 DEF Passed
<1>6. Head(todo) \in Range(running)  BY <1>1, <1>4, <1>5, TailLaws DEF Range
<1> QED BY <1>4, <1>6 DEF SchedInv, SnapshotExact

LEMMA StartProgress ==
    ASSUME IndInv, SchedInv, StartStep
    PROVE  ProgressInv'
<1>1. /\ at' = "running" /\ budget' = MaxNumBatchedTokens /\ HasUnfinished
      /\ running' = running /\ waiting' = waiting /\ todo' = running
  BY DEF StartStep, queueVars
<1>2. Len(running) \in Nat /\ DOMAIN running = 1..Len(running)
  BY LenProperties DEF SchedInv, SchedulerTypeOK
<1>3. /\ \A i \in DOMAIN running : 0 + i = i /\ i <= Len(running)
      /\ Len(running) - 0 <= Len(running)
  BY <1>2
<1>4. Passed(0)'  BY <1>1, <1>3 DEF Passed
<1> QED BY <1>1, <1>4 DEF ProgressInv, HasUnfinished

LEMMA DoneProgress ==
    ASSUME SchedInv, ProgressInv, RunningDone
    PROVE  ProgressInv'
<1>1. /\ at = "running" /\ at' = "waiting" /\ (todo = <<>> \/ budget = 0)
      /\ running' = running /\ waiting' = waiting /\ batch' = batch /\ budget' = budget
  BY DEF RunningDone, queueVars
<1>2. SUFFICES ASSUME EnableChunkedPrefill, batch = <<>>
               PROVE  budget = MaxNumBatchedTokens /\ HasUnfinished /\ running = <<>>
  BY <1>1 DEF ProgressInv, HasUnfinished, Looping
<1>3. budget = MaxNumBatchedTokens /\ HasUnfinished /\ Passed(0) /\ Looping
  BY <1>1, <1>2 DEF ProgressInv, Looping
<1>4. budget # 0  BY <1>3, BudgetAssumption, PoolAssumption
<1>5. running = <<>>  BY <1>1, <1>3, <1>4, FirstRuns
<1> QED BY <1>3, <1>5

LEMMA SkipProgress ==
    ASSUME SchedInv, ProgressInv, SkipRunning
    PROVE  ProgressInv'
<1>1. /\ at = "running" /\ at' = at /\ todo # <<>> /\ todo' = Tail(todo)
      /\ Head(todo) \in preempted \/ ~EnableChunkedPrefill
      /\ running' = running /\ waiting' = waiting /\ batch' = batch /\ budget' = budget
      /\ preempted' = preempted
  BY DEF SkipRunning, RunningLoop, Skipped, queueVars
<1>2. SUFFICES ASSUME EnableChunkedPrefill, batch = <<>>
               PROVE  budget = MaxNumBatchedTokens /\ HasUnfinished /\ Passed(0)'
  BY <1>1 DEF ProgressInv, HasUnfinished
<1>3. budget = MaxNumBatchedTokens /\ HasUnfinished /\ Passed(0) /\ Looping
  BY <1>1, <1>2 DEF ProgressInv, Looping
<1>4. running = <<>>  BY <1>1, <1>2, <1>3, FirstRuns
<1>5. /\ todo \in Seq(Seqs) /\ running \in Seq(Seqs) /\ Len(running) = 0 /\ 0 \in 0..Len(running)
  BY <1>4 DEF SchedInv, SchedulerTypeOK
<1>6. PICK k \in 0..Len(running') : Passed(k)'  BY <1>1, <1>3, <1>5, SnapshotAdvances
<1>7. k = 0  BY <1>1, <1>5, <1>6
<1> QED BY <1>3, <1>6, <1>7

LEMMA ExhaustedProgress ==
    ASSUME ProgressInv, RunningExhausted
    PROVE  ProgressInv'
<1>1. /\ at = "running" /\ at' = "preempting" /\ todo' = todo /\ preempted' = preempted
      /\ running' = running /\ waiting' = waiting /\ batch' = batch /\ budget' = budget
  BY DEF RunningExhausted, RunningLoop, queueVars
<1>2. Passed(0)' <=> Passed(0)  BY <1>1 DEF Passed
<1> QED BY <1>1, <1>2 DEF ProgressInv, HasUnfinished, Looping

LEMMA PreemptProgress ==
    ASSUME IndInv, SchedInv, ProgressInv, PreemptTail
    PROVE  ProgressInv'
<1>1. /\ at = "preempting" /\ at' = "running" /\ batch' = batch /\ budget' = budget
      /\ waiting' = <<Victim>> \o waiting
  BY DEF PreemptTail, PutBack
<1>2. waiting' # <<>>
  <2>1. waiting \in Seq(Seqs) /\ Victim \in Seqs
    BY <1>1, VictimPending DEF SchedInv, SchedulerTypeOK
  <2> QED BY <1>1, <2>1
<1>3. SUFFICES ASSUME EnableChunkedPrefill, batch = <<>>
               PROVE  budget = MaxNumBatchedTokens /\ Passed(0)'
  BY <1>1, <1>2 DEF ProgressInv, HasUnfinished
<1>4. budget = MaxNumBatchedTokens /\ Passed(0)  BY <1>1, <1>3 DEF ProgressInv, Looping
<1>5. 0 \in 0..Len(running)  BY <1>1, VictimPending
<1>6. Passed(0)'  BY <1>4, <1>5, PreemptPassed
<1> QED BY <1>4, <1>6

\* A sequence that enters the batch makes it non-empty.
LEMMA BatchProgress ==
    ASSUME SchedInv, NEW s \in Seqs, batch' = Append(batch, s)
    PROVE  ProgressInv'
<1>1. batch' # <<>>  BY AppendRange DEF SchedInv, SchedulerTypeOK
<1> QED BY <1>1 DEF ProgressInv

LEMMA StepProgress ==
    ASSUME IndInv, SchedInv, ProgressInv, [Next]_vars
    PROVE  ProgressInv'
<1>1. ASSUME at' \in {"idle", "update"} PROVE ProgressInv'  BY <1>1 DEF ProgressInv
<1>2. ASSUME NEW s \in Seqs, NEW o \in Seqs, NEW p \in Prompts, NEW m \in Nat,
             AddRequest(s, p, o, m)
      PROVE  ProgressInv'
  BY <1>1, <1>2 DEF AddRequest, stepVars
<1>3. ASSUME NEW s \in Seqs, AbortRequest(s) PROVE ProgressInv'
  BY <1>1, <1>3 DEF AbortRequest, stepVars
<1>4. ASSUME NEW p \in Seqs, NEW c \in Seqs, NEW m \in MaxTokensChoices, NEW ts \in Branches(p),
             ForkRequest(p, c, ts, m)
      PROVE  ProgressInv'
  BY <1>1, <1>4 DEF ForkRequest, stepVars
<1>5. CASE StartStep         BY <1>5, StartProgress
<1>6. CASE RunningDone       BY <1>6, DoneProgress
<1>7. CASE SkipRunning       BY <1>7, SkipProgress
<1>8. CASE ScheduleRunning
  <2>1. Head(todo) \in Seqs
    BY <1>8, TailLaws DEF ScheduleRunning, RunningLoop, SchedInv, SchedulerTypeOK
  <2> QED BY <1>8, <2>1, BatchProgress DEF ScheduleRunning
<1>9. CASE RunningExhausted  BY <1>9, ExhaustedProgress
<1>10. CASE PreemptTail      BY <1>10, PreemptProgress
<1>11. CASE AdmitWaiting
  <2>1. Head(waiting) \in Seqs
    BY <1>11, TailLaws DEF AdmitWaiting, AdmissionOpen, SchedInv, SchedulerTypeOK
  <2> QED BY <1>11, <2>1, BatchProgress DEF AdmitWaiting
<1>12. CASE EmptyStep \/ RunBatch  BY <1>1, <1>12 DEF EmptyStep, RunBatch
<1>13. CASE UpdateChunk \/ \E t \in SampledTokens : UpdateToken(t)
  BY <1>1, <1>13 DEF UpdateChunk, UpdateToken, NextItem
<1>14. ASSUME NEW t \in SampledTokens, UpdateFinish(t) PROVE ProgressInv'
  BY <1>1, <1>14 DEF UpdateFinish, NextItem
<1>15. CASE UNCHANGED vars
  <2>1. /\ at' = at /\ todo' = todo /\ preempted' = preempted /\ batch' = batch
        /\ budget' = budget /\ running' = running /\ waiting' = waiting
    BY <1>15 DEF vars, stepVars, queueVars
  <2>2. Passed(0)' <=> Passed(0)  BY <2>1 DEF Passed
  <2> QED BY <2>1, <2>2 DEF ProgressInv, HasUnfinished, Looping
<1>16. CASE Next
  BY <1>2, <1>3, <1>4, <1>5, <1>6, <1>7, <1>8, <1>9, <1>10, <1>11, <1>12, <1>13, <1>14,
     <1>16, StepCases
<1> QED BY <1>15, <1>16

\* With no block in use, the pool serves any request that fits the model, however
\* many of its blocks are cached.
LEMMA EmptyPoolServes ==
    ASSUME IndInv, NumBlocks * BlockSize >= MaxModelLen,
           \A t \in Seqs : table[t] = <<>>,
           NEW s \in Seqs, InUse(s), computed[s] = 0, num_new[s] = 0,
           NEW k \in Nat, IsLongestHit(s, k),
           NEW n \in Nat, n <= NumTokens(s) - k * BlockSize
    PROVE  CanAllocate(s, n, GetComputedBlocks(s, k))
<1> DEFINE hits  == GetComputedBlocks(s, k)
           queue == AvailableQueue(hits)
           need  == NumBlocksNeeded(s, n, hits)
           H     == Range(hits)
<1>1. hits \in Seq(Blocks) /\ Len(hits) = k /\ IsInjective(hits) /\ (k = 0 => hits = <<>>)
  BY HitLaws
<1> HIDE DEF hits
<1>2. Range(free) = Blocks
  <2>1. ASSUME NEW b \in Blocks PROVE ref[b] = 0
    <3>1. Range(<<>>) = {}  BY DEF Range
    <3>2. Holders(b) = {}  BY <3>1 DEF Holders
    <3> QED BY <3>2, FS_EmptySet DEF IndInv, RefCountExact
  <2> QED BY <2>1 DEF IndInv, FreeIffUnreferenced
<1>3. free \in Seq(Blocks) /\ IsInjective(free)  BY DEF IndInv, TypeOK, FreeIffUnreferenced
<1>4. IsFiniteSet(H) /\ Cardinality(H) = k  BY <1>1, RangeSize
<1>5. IsFiniteSet(Blocks) /\ Cardinality(Blocks) = NumBlocks
  <2>1. 0 \in Int /\ NumBlocks - 1 \in Int /\ ~(0 > NumBlocks - 1)
        /\ (NumBlocks - 1) - 0 + 1 = NumBlocks
    BY PoolAssumption
  <2> QED BY <2>1, FS_Interval DEF Blocks
<1>6. queue \in Seq(Blocks) /\ IsInjective(queue) /\ Range(queue) = Blocks \ H
  BY <1>2, <1>3, WithoutLaws DEF AvailableQueue
<1>7. H \subseteq Blocks  BY <1>1, ElementOfSeq, LenProperties DEF Range
<1> HIDE DEF H, queue
<1>8. Len(queue) = NumBlocks - k
  <2>1. Cardinality(Blocks \ H) = Cardinality(Blocks) - Cardinality(Blocks \cap H)
    BY <1>5, FS_Difference
  <2>2. Blocks \cap H = H  BY <1>7
  <2>3. Cardinality(Range(queue)) = Len(queue)  BY <1>6, RangeSize
  <2> QED BY <1>4, <1>5, <1>6, <2>1, <2>2, <2>3
<1>9. Len(table[s]) + k + need = NumBlocksForTokens(computed[s] + k * BlockSize + n)
  BY <1>1, AllocationExact
<1>10. NumBlocksForTokens(k * BlockSize + n) <= NumBlocks
  <2>1. /\ k * BlockSize \in Nat /\ NumBlocks * BlockSize \in Nat
        /\ NumBlocksForTokens(NumBlocks * BlockSize) = NumBlocks
    BY CeilOfMultiple, PoolAssumption
  <2>2. k * BlockSize + n \in Nat /\ k * BlockSize + n <= NumBlocks * BlockSize
    <3>1. NumTokens(s) \in Nat /\ NumTokens(s) <= MaxModelLen  BY LengthFacts
    <3> QED BY <2>1, <3>1, LengthAssumption
  <2> QED BY <2>1, <2>2, CeilOrder
<1>11. Len(table[s]) = 0 /\ computed[s] + k * BlockSize + n = k * BlockSize + n
  <2>1. k * BlockSize \in Nat  BY CeilOfMultiple
  <2> QED BY <2>1
<1>12. need \in Nat
  <2> DEFINE a == NumBlocksForTokens(k * BlockSize + n)
  <2>1. a \in Nat
    <3>1. k * BlockSize + n \in Nat  BY CeilOfMultiple
    <3> QED BY <3>1, CeilBounds
  <2>2. need = IF a > k THEN a - k ELSE 0  BY <1>1, <1>11 DEF NumBlocksNeeded
  <2> HIDE DEF a, need
  <2> QED BY <2>1, <2>2
<1> HIDE DEF need
<1>13. need <= NumBlocks - k  BY <1>9, <1>10, <1>11, <1>12, PoolAssumption
<1> QED BY <1>8, <1>13 DEF CanAllocate, need, queue, hits

LEMMA ProgressMade ==
    ASSUME EnableChunkedPrefill, NumBlocks * BlockSize >= MaxModelLen,
           IndInv, SchedInv, ProgressInv
    PROVE  StepsMakeProgress
<1> SUFFICES ASSUME ScheduleDone, batch = <<>> PROVE FALSE  BY DEF StepsMakeProgress
<1>1. at = "waiting" /\ (AdmissionOpen => AdmissionBlocked)  BY DEF ScheduleDone
<1>2. running = <<>> /\ waiting # <<>> /\ budget = MaxNumBatchedTokens
  BY <1>1 DEF ProgressInv, HasUnfinished
<1>3. AdmissionOpen
  BY <1>1, <1>2, BudgetAssumption, PoolAssumption, BatchAssumption DEF AdmissionOpen
<1> DEFINE s == Head(waiting)
<1>4. PICK k \in 0..MaxModelLen :
         /\ IsLongestHit(s, k)
         /\ FitsBudget(s, k) => AllocateRefused(s, FirstChunk(s, k), GetComputedBlocks(s, k))
  BY <1>1, <1>3 DEF AdmissionBlocked
<1>5. ~CanAllocate(s, FirstChunk(s, k), GetComputedBlocks(s, k))
  BY <1>4 DEF FitsBudget, AllocateRefused
<1> DEFINE n == FirstChunk(s, k)
<1>6. /\ s \in Seqs /\ InUse(s) /\ computed[s] = 0 /\ num_new[s] = 0
      /\ k \in Nat /\ k * BlockSize \in Nat /\ NumTokens(s) \in Nat
      /\ n \in Nat /\ n \in 1..(NumTokens(s) - k * BlockSize)
  BY <1>3, <1>4, AdmissionLaws
<1> HIDE DEF s, n
<1>7. n <= NumTokens(s) - k * BlockSize  BY <1>6
<1>8. \A t \in Seqs : table[t] = <<>>
  <2>1. QueueParts  BY QueueForms DEF SchedInv
  <2>2. Range(running) = {}  BY <1>2 DEF Range
  <2> QED BY <2>1, <2>2 DEF QueueParts
<1>9. CanAllocate(s, n, GetComputedBlocks(s, k))
  BY <1>4, <1>6, <1>7, <1>8, EmptyPoolServes
<1> QED BY <1>5, <1>9 DEF n

\* While a request is unfinished a step computes something, if prompts may be
\* chunked and the pool holds one sequence of the longest length: the two
\* conditions UnchunkedStuck and SmallPool show to be needed.
THEOREM StepsMakeProgressHolds ==
    EnableChunkedPrefill /\ NumBlocks * BlockSize >= MaxModelLen => (Spec => []StepsMakeProgress)
<1> SUFFICES ASSUME EnableChunkedPrefill, NumBlocks * BlockSize >= MaxModelLen
             PROVE  Spec => []StepsMakeProgress
  OBVIOUS
<1>1. Init => ProgressInv  BY DEF Init, ProgressInv
<1>2. IndInv /\ SchedInv /\ ProgressInv /\ [Next]_vars => ProgressInv'  BY StepProgress
<1>3. IndInv /\ SchedInv /\ ProgressInv => StepsMakeProgress  BY ProgressMade
<1> QED BY <1>1, <1>2, <1>3, SchedInvariant, PTL DEF Spec

-----------------------------------------------------------------------------
(* The limits of a batch.                                                    *)

\* What was given out and what is left of the budget never exceed the limit.
BudgetExact == IsFiniteSet(BatchRows) /\ Cardinality(BatchRows) + budget <= MaxNumBatchedTokens

\* A row belongs to one sequence.
RowsExact ==
    \A r : r \in BatchRows <=> \E s \in Seqs, i \in Nat \ {0} : r = <<s, i>> /\ i <= num_new[s]

LEMMA RowLaws == TypeOK => RowsExact
<1> SUFFICES ASSUME TypeOK, NEW r
             PROVE  r \in BatchRows <=>
                        \E s \in Seqs, i \in Nat \ {0} : r = <<s, i>> /\ i <= num_new[s]
  BY DEF RowsExact
<1>1. \A s \in Seqs : num_new[s] \in Nat  BY DEF TypeOK
<1>2. ASSUME r \in BatchRows
      PROVE  \E s \in Seqs, i \in Nat \ {0} : r = <<s, i>> /\ i <= num_new[s]
  <2>1. PICK s \in Scheduled : r \in {s} \X (1..num_new[s])  BY <1>2 DEF BatchRows
  <2>2. PICK i \in 1..num_new[s] : r = <<s, i>>  BY <2>1
  <2>3. s \in Seqs  BY DEF Scheduled
  <2>4. i \in Nat \ {0} /\ i <= num_new[s]  BY <1>1, <2>2, <2>3
  <2> QED BY <2>2, <2>3, <2>4
<1>3. ASSUME NEW s \in Seqs, NEW i \in Nat \ {0}, r = <<s, i>>, i <= num_new[s]
      PROVE  r \in BatchRows
  <2>1. num_new[s] > 0 /\ i \in 1..num_new[s]  BY <1>1, <1>3
  <2>2. s \in Scheduled /\ r \in {s} \X (1..num_new[s])  BY <1>3, <2>1 DEF Scheduled
  <2> QED BY <2>2 DEF BatchRows
<1> QED BY <1>2, <1>3

LEMMA RowLawsNext == TypeOK' => RowsExact'
BY RowLaws, PTL

\* A sequence that was not in the batch brings its own rows, one per token.
LEMMA RowsAdded ==
    ASSUME TypeOK, TypeOK', BudgetExact, NEW s \in Seqs, NEW n \in Nat, num_new[s] = 0,
           num_new' = [num_new EXCEPT ![s] = n]
    PROVE  IsFiniteSet(BatchRows') /\ Cardinality(BatchRows') = Cardinality(BatchRows) + n
<1> DEFINE mine == {s} \X (1..n)
<1>1. num_new \in [Seqs -> Nat]  BY DEF TypeOK
<1>2. IsFiniteSet(mine) /\ Cardinality(mine) = n
  <2> DEFINE f == [i \in 1..n |-> <<s, i>>]
  <2>1. f \in Bijection(1..n, mine)
    <3>1. f \in [1..n -> mine]  OBVIOUS
    <3>2. ASSUME NEW i \in 1..n, NEW j \in 1..n, f[i] = f[j] PROVE i = j
      BY <3>2
    <3>3. \A r \in mine : \E i \in 1..n : f[i] = r  OBVIOUS
    <3>4. DOMAIN f = 1..n  OBVIOUS
    <3> HIDE DEF f, mine
    <3>5. IsInjective(f)  BY <3>2, <3>4 DEF IsInjective
    <3> QED BY <3>1, <3>3, <3>5 DEF Bijection, Injection, Surjection
  <2>2. ExistsBijection(1..n, mine)  BY <2>1 DEF ExistsBijection
  <2>3. IsFiniteSet(1..n) /\ Cardinality(1..n) = n  BY IntervalSize, FS_Interval
  <2> HIDE DEF mine
  <2> QED BY <2>2, <2>3, FS_Bijection
<1>3. BatchRows' = BatchRows \cup mine
  <2>1. ASSUME NEW r, r \in BatchRows' PROVE r \in BatchRows \cup mine
    <3>1. PICK t \in Seqs, i \in Nat \ {0} : r = <<t, i>> /\ i <= num_new'[t]
      BY <2>1, RowLawsNext DEF RowsExact
    <3>2. CASE t = s
      <4>1. i \in 1..n  BY <1>1, <3>1, <3>2
      <4> QED BY <3>1, <3>2, <4>1
    <3>3. CASE t # s
      <4>1. i <= num_new[t]  BY <1>1, <3>1, <3>3
      <4> QED BY <3>1, <4>1, RowLaws DEF RowsExact
    <3> QED BY <3>2, <3>3
  <2>2. ASSUME NEW r, r \in BatchRows PROVE r \in BatchRows'
    <3>1. PICK t \in Seqs, i \in Nat \ {0} : r = <<t, i>> /\ i <= num_new[t]
      BY <2>2, RowLaws DEF RowsExact
    <3>2. t # s  BY <1>1, <3>1
    <3>3. i <= num_new'[t]  BY <1>1, <3>1, <3>2
    <3> QED BY <3>1, <3>3, RowLawsNext DEF RowsExact
  <2>3. ASSUME NEW r \in mine PROVE r \in BatchRows'
    <3>1. PICK i \in 1..n : r = <<s, i>>  OBVIOUS
    <3>2. i \in Nat \ {0} /\ i <= num_new'[s]  BY <1>1
    <3> QED BY <3>1, <3>2, RowLawsNext DEF RowsExact
  <2> HIDE DEF mine
  <2> QED BY <2>1, <2>2, <2>3
<1>4. BatchRows \cap mine = {}
  <2>1. ASSUME NEW r \in mine, r \in BatchRows PROVE FALSE
    <3>1. PICK i \in 1..n : r = <<s, i>>  OBVIOUS
    <3>2. PICK t \in Seqs, j \in Nat \ {0} : r = <<t, j>> /\ j <= num_new[t]
      BY <2>1, RowLaws DEF RowsExact
    <3>3. t = s /\ j \in Nat \ {0}  BY <3>1, <3>2
    <3> QED BY <3>2, <3>3
  <2> HIDE DEF mine
  <2> QED BY <2>1
<1> HIDE DEF mine
<1>5. IsFiniteSet(BatchRows)  BY DEF BudgetExact
<1>6. IsFiniteSet(BatchRows \cup mine)  BY <1>2, <1>5, FS_Union
<1>7. Cardinality(BatchRows \cup mine) =
          Cardinality(BatchRows) + Cardinality(mine) - Cardinality(BatchRows \cap mine)
  BY <1>2, <1>5, FS_Union
<1>8. Cardinality({}) = 0  BY FS_EmptySet
<1>9. Cardinality(BatchRows) \in Nat  BY <1>5, FS_CardinalityType
<1>10. Cardinality(BatchRows \cap mine) = 0  BY <1>4, <1>8
<1>11. Cardinality(BatchRows \cup mine) = Cardinality(BatchRows) + n
  BY <1>2, <1>7, <1>9, <1>10
<1> QED BY <1>3, <1>6, <1>11

\* A step that schedules nobody leaves the rows, or takes some away.
LEMMA RowsDropped ==
    ASSUME TypeOK, TypeOK', BudgetExact, \A s \in Seqs : num_new'[s] <= num_new[s]
    PROVE  /\ IsFiniteSet(BatchRows') /\ Cardinality(BatchRows') \in Nat
           /\ Cardinality(BatchRows) \in Nat /\ Cardinality(BatchRows') <= Cardinality(BatchRows)
<1>1. num_new \in [Seqs -> Nat] /\ num_new' \in [Seqs -> Nat]  BY DEF TypeOK
<1>2. ASSUME NEW r, r \in BatchRows' PROVE r \in BatchRows
  <2>1. PICK t \in Seqs, i \in Nat \ {0} : r = <<t, i>> /\ i <= num_new'[t]
    BY <1>2, RowLawsNext DEF RowsExact
  <2>2. i <= num_new[t]  BY <1>1, <2>1
  <2> QED BY <2>1, <2>2, RowLaws DEF RowsExact
<1>3. BatchRows' \in SUBSET BatchRows  BY <1>2
<1>4. IsFiniteSet(BatchRows)  BY DEF BudgetExact
<1> QED BY <1>3, <1>4, FS_Subset, FS_CardinalityType

\* Such a step keeps the limit, unless it takes up a new budget.
LEMMA BudgetKept ==
    ASSUME TypeOK, TypeOK', BudgetExact, SchedulerTypeOK, SchedulerTypeOK', budget' <= budget,
           \/ num_new' = num_new
           \/ \E s \in Seqs : num_new' = [num_new EXCEPT ![s] = 0]
    PROVE  BudgetExact'
<1>1. \A s \in Seqs : num_new[s] \in Nat /\ num_new'[s] \in Nat  BY DEF TypeOK
<1>2. num_new \in [Seqs -> Nat]  BY DEF TypeOK
<1>3. \A s \in Seqs : num_new'[s] <= num_new[s]  BY <1>1, <1>2
<1>4. /\ IsFiniteSet(BatchRows') /\ Cardinality(BatchRows') \in Nat
      /\ Cardinality(BatchRows) \in Nat /\ Cardinality(BatchRows') <= Cardinality(BatchRows)
  BY <1>3, RowsDropped
<1>5. budget \in Nat /\ budget' \in Nat /\ MaxNumBatchedTokens \in Nat
  BY BudgetAssumption DEF SchedulerTypeOK
<1>6. Cardinality(BatchRows) + budget <= MaxNumBatchedTokens  BY DEF BudgetExact
<1>7. Cardinality(BatchRows') + budget' <= MaxNumBatchedTokens  BY <1>4, <1>5, <1>6
<1> QED BY <1>4, <1>7 DEF BudgetExact

\* What a sequence is given is taken from the budget.
LEMMA BudgetSpent ==
    ASSUME TypeOK, TypeOK', BudgetExact, SchedulerTypeOK, NEW s \in Seqs, NEW n \in Nat,
           num_new[s] = 0, num_new' = [num_new EXCEPT ![s] = n], budget' = budget - n
    PROVE  BudgetExact'
<1>1. IsFiniteSet(BatchRows') /\ Cardinality(BatchRows') = Cardinality(BatchRows) + n
  BY RowsAdded
<1>2. Cardinality(BatchRows) \in Nat  BY FS_CardinalityType DEF BudgetExact
<1>3. budget \in Nat /\ MaxNumBatchedTokens \in Nat  BY BudgetAssumption DEF SchedulerTypeOK
<1>4. Cardinality(BatchRows) + budget <= MaxNumBatchedTokens  BY DEF BudgetExact
<1>5. Cardinality(BatchRows') + budget' <= MaxNumBatchedTokens  BY <1>1, <1>2, <1>3, <1>4
<1> QED BY <1>1, <1>5 DEF BudgetExact

LEMMA StepBudget ==
    ASSUME IndInv, IndInv', SchedInv, SchedInv', BudgetExact, [Next]_vars
    PROVE  BudgetExact'
<1>1. TypeOK /\ TypeOK' /\ SchedulerTypeOK /\ SchedulerTypeOK'  BY DEF IndInv, SchedInv
<1>2. ASSUME budget' = budget \/ budget' = 0,
             \/ num_new' = num_new
             \/ \E s \in Seqs : num_new' = [num_new EXCEPT ![s] = 0]
      PROVE  BudgetExact'
  <2>1. budget' <= budget  BY <1>1, <1>2, BudgetAssumption DEF SchedulerTypeOK
  <2> QED BY <1>1, <1>2, <2>1, BudgetKept
<1>3. ASSUME NEW s \in Seqs, NEW o \in Seqs, NEW p \in Prompts, NEW m \in Nat,
             AddRequest(s, p, o, m)
      PROVE  BudgetExact'
  BY <1>2, <1>3 DEF AddRequest, Add, stepVars
<1>4. ASSUME NEW s \in Seqs, AbortRequest(s) PROVE BudgetExact'
  BY <1>2, <1>4 DEF AbortRequest, AbortBlocks, stepVars
<1>5. ASSUME NEW p \in Seqs, NEW c \in Seqs, NEW m \in MaxTokensChoices, NEW ts \in Branches(p),
             ForkRequest(p, c, ts, m)
      PROVE  BudgetExact'
  BY <1>2, <1>5 DEF ForkRequest, ForkBlocks, stepVars
<1>6. CASE StartStep
  <2>1. at = "idle" /\ budget' = MaxNumBatchedTokens /\ UNCHANGED num_new
    BY <1>6 DEF StartStep, kvVars, bmVars, seqVars
  <2>2. Scheduled = {}  BY <2>1, IdleLaws DEF BetweenSteps
  <2>3. BatchRows' = {}  BY <2>1, <2>2 DEF BatchRows, Scheduled
  <2>4. IsFiniteSet({}) /\ Cardinality({}) = 0  BY FS_EmptySet
  <2> QED BY <2>1, <2>3, <2>4, BudgetAssumption DEF BudgetExact
<1>7. CASE RunningDone \/ SkipRunning \/ EmptyStep
  BY <1>2, <1>7 DEF RunningDone, SkipRunning, EmptyStep, kvVars, bmVars, seqVars
<1>8. CASE ScheduleRunning
  <2> DEFINE s == Head(todo)
             n == Lower(Uncomputed(s), budget)
  <2>1. RunningLoop /\ ~Skipped(s) /\ ContinueBlocks(s, n) /\ budget' = budget - n
    BY <1>8 DEF ScheduleRunning
  <2>2. s \in Seqs /\ num_new[s] = 0 /\ Uncomputed(s) \in Nat \ {0} /\ Uncomputed(s) <= NumTokens(s)
    BY <2>1, HeadRuns DEF RunningLoop, Looping, Skipped
  <2>3. n \in Nat
    <3> HIDE DEF s
    <3> QED BY <1>1, <2>1, <2>2, ChunkLaws DEF RunningLoop
  <2>4. num_new' = [num_new EXCEPT ![s] = n]  BY <2>1 DEF ContinueBlocks
  <2> HIDE DEF s, n
  <2> QED BY <1>1, <2>1, <2>2, <2>3, <2>4, BudgetSpent
<1>9. CASE RunningExhausted
  BY <1>2, <1>9 DEF RunningExhausted, RollBackBlocks, bmVars, seqVars
<1>10. CASE PreemptTail  BY <1>2, <1>10 DEF PreemptTail, PreemptBlocks
<1>11. CASE AdmitWaiting
  <2> DEFINE s == Head(waiting)
  <2>1. AdmissionOpen  BY <1>11 DEF AdmitWaiting
  <2>2. PICK k \in 0..MaxModelLen :
            AdmitBlocks(s, FirstChunk(s, k), k) /\ budget' = budget - FirstChunk(s, k)
    BY <1>11 DEF AdmitWaiting
  <2>3. IsLongestHit(s, k) /\ num_new' = [num_new EXCEPT ![s] = FirstChunk(s, k)]
    BY <2>2 DEF AdmitBlocks
  <2>4. s \in Seqs /\ num_new[s] = 0 /\ FirstChunk(s, k) \in Nat
    BY <2>1, <2>3, AdmissionLaws
  <2> HIDE DEF s
  <2> QED BY <1>1, <2>2, <2>3, <2>4, BudgetSpent
<1>12. CASE RunBatch
  BY <1>2, <1>12 DEF RunBatch, Forward, TakePendingCopies, Run, seqVars
<1>13. ASSUME at = "update", UNCHANGED budget, num_new' = [num_new EXCEPT ![Head(batch)] = 0]
       PROVE  BudgetExact'
  <2>1. Head(batch) \in Seqs  BY <1>13, CommitLaws
  <2> QED BY <1>2, <1>13, <2>1
<1>14. CASE UpdateChunk
  BY <1>13, <1>14 DEF UpdateChunk, NextItem, CommitWatermark, Committed
<1>15. ASSUME NEW t \in SampledTokens, UpdateToken(t) PROVE BudgetExact'
  BY <1>13, <1>15 DEF UpdateToken, NextItem, CommitToken, Committed
<1>16. ASSUME NEW t \in SampledTokens, UpdateFinish(t) PROVE BudgetExact'
  BY <1>13, <1>16 DEF UpdateFinish, NextItem, CommitFinish, Committed
<1>17. CASE UNCHANGED vars
  BY <1>2, <1>17 DEF vars, stepVars, kvVars, bmVars, seqVars
<1>18. CASE Next
  BY <1>3, <1>4, <1>5, <1>6, <1>7, <1>8, <1>9, <1>10, <1>11, <1>12, <1>14, <1>15, <1>16,
     <1>18, StepCases
<1> QED BY <1>17, <1>18

\* A queue without duplicates that gains no member gets no longer.
LEMMA NoLonger ==
    ASSUME SchedInv, SchedInv', Range(running') \subseteq Range(running)
    PROVE  Len(running') <= Len(running)
<1>1. running \in Seq(Seqs) /\ running' \in Seq(Seqs)  BY DEF SchedInv, SchedulerTypeOK
<1>2. IsInjective(running)  BY QueueForms DEF SchedInv, QueueParts
<1>3. IsInjective(running')  BY QueueFormsNext DEF SchedInv, QueueParts
<1>4. IsFiniteSet(Range(running)) /\ Cardinality(Range(running)) = Len(running)
  BY <1>1, <1>2, RangeSize
<1>5. Cardinality(Range(running')) = Len(running')  BY <1>1, <1>3, RangeSize
<1> QED BY <1>4, <1>5, FS_Subset

\* Only a client that forks can make more sequences run than MaxNumSeqs.
LEMMA StepRunning ==
    ASSUME SchedInv, SchedInv', at # "idle", [Next]_vars
    PROVE  Len(running') <= MaxNumSeqs \/ Len(running') <= Len(running)
<1>1. /\ running \in Seq(Seqs) /\ waiting \in Seq(Seqs)
      /\ Len(running) \in Nat /\ Len(running') \in Nat /\ MaxNumSeqs \in Nat
  BY BatchAssumption DEF SchedInv, SchedulerTypeOK
<1>2. ASSUME NEW K, running' = Without(running, K) PROVE Len(running') <= Len(running)
  <2>1. Range(running') \subseteq Range(running)  BY <1>1, <1>2, WithoutLaws
  <2> QED BY <1>1, <2>1, NoLonger
<1>3. CASE UNCHANGED running  BY <1>1, <1>3
<1>4. ~\E s \in Seqs : AbortRequest(s)  BY DEF AbortRequest
<1>5. CASE PreemptTail  BY <1>2, <1>5 DEF PreemptTail
<1>6. CASE AdmitWaiting
  <2>1. waiting # <<>> /\ Len(running) < MaxNumSeqs /\ running' = Append(running, Head(waiting))
    BY <1>6 DEF AdmitWaiting, AdmissionOpen
  <2>2. Head(waiting) \in Seqs  BY <1>1, <2>1, TailLaws
  <2>3. Len(running') = Len(running) + 1  BY <1>1, <2>1, <2>2, AppendProperties
  <2> QED BY <1>1, <2>1, <2>3
<1>7. ASSUME NEW t \in SampledTokens, UpdateFinish(t) PROVE Len(running') <= Len(running)
  BY <1>2, <1>7 DEF UpdateFinish, RunningAfterFinish
<1>8. ASSUME NEW s, NEW o, NEW p, NEW m PROVE ~AddRequest(s, p, o, m)  BY DEF AddRequest
<1>9. CASE StartStep \/ RunningDone \/ SkipRunning \/ ScheduleRunning \/ RunningExhausted
           \/ EmptyStep \/ RunBatch
  BY <1>3, <1>9 DEF StartStep, RunningDone, SkipRunning, ScheduleRunning, RunningExhausted,
                    EmptyStep, RunBatch, queueVars
<1>10. CASE UpdateChunk \/ \E t \in SampledTokens : UpdateToken(t)
  BY <1>3, <1>10 DEF UpdateChunk, UpdateToken
<1>11. CASE UNCHANGED vars  BY <1>3, <1>11 DEF vars, queueVars
<1>12. CASE Next
  <2>1. ~\E p, c \in Seqs, m \in MaxTokensChoices : \E ts \in Branches(p) : ForkRequest(p, c, ts, m)
    BY DEF ForkRequest
  <2> QED BY <1>3, <1>4, <1>5, <1>6, <1>7, <1>8, <1>9, <1>10, <1>12, <2>1, StepCases
<1> QED BY <1>11, <1>12

\* The tokens of a batch never exceed max_num_batched_tokens, over both loops of
\* schedule and whatever is preempted between them.
THEOREM BudgetHolds == Spec => []BudgetExact
<1>1. Init => BudgetExact
  <2> SUFFICES ASSUME Init PROVE BudgetExact  OBVIOUS
  <2>1. num_new = [s \in Seqs |-> 0] /\ budget = 0  BY DEF Init, BMInit
  <2>2. BatchRows = {}  BY <2>1 DEF BatchRows, Scheduled
  <2>3. IsFiniteSet({}) /\ Cardinality({}) = 0  BY FS_EmptySet
  <2> QED BY <2>1, <2>2, <2>3, BudgetAssumption DEF BudgetExact
<1>2. /\ IndInv /\ SchedInv /\ (IndInv /\ SchedInv)' /\ BudgetExact /\ [Next]_vars
      => BudgetExact'
  BY StepBudget
<1> QED BY <1>1, <1>2, SchedInvariant, PTL DEF Spec

\* Every batch is what its step scheduled, none of it preempted since, within
\* max_num_batched_tokens, and no step takes the running sequences beyond
\* max_num_seqs; only a client that forks, between steps, can.
THEOREM BatchWithinLimitsHolds == Spec => BatchWithinLimits
<1>1. SchedInv /\ BudgetExact => BatchWithinBudget
  <2> SUFFICES ASSUME SchedInv, BudgetExact PROVE BatchWithinBudget  OBVIOUS
  <2>1. Cardinality(BatchRows) \in Nat  BY FS_CardinalityType DEF BudgetExact
  <2>2. budget \in Nat /\ MaxNumBatchedTokens \in Nat
    BY BudgetAssumption DEF SchedInv, SchedulerTypeOK
  <2>3. Cardinality(BatchRows) <= MaxNumBatchedTokens  BY <2>1, <2>2 DEF BudgetExact
  <2> QED BY <2>3 DEF SchedInv, BatchExact, BatchWithinBudget
<1>2. SchedInv /\ SchedInv' /\ [Next]_vars =>
        (at = "idle" \/ Len(running') <= MaxNumSeqs \/ Len(running') <= Len(running))
  BY StepRunning
<1> QED BY <1>1, <1>2, SchedInvariant, BudgetHolds, PTL DEF Spec, BatchWithinLimits
=============================================================================
