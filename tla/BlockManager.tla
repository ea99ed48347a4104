---------------------------- MODULE BlockManager ----------------------------
(***************************************************************************)
(* The paged KV-cache block manager: reference counts, the LRU free queue,  *)
(* the hash-chained prefix cache and copy-on-write                          *)
(* (src/pagedllm/block_manager.py), together with the fields of             *)
(* sequence.py it reads and writes.                                         *)
(*                                                                          *)
(* Next is the most general client the manager's contract allows: any       *)
(* order of admissions, chunk sizes, preemptions, aborts and forks, as long *)
(* as a sequence scheduled for the current forward keeps its blocks until   *)
(* the results are committed.  Scheduler.tla shows that scheduler.py is one *)
(* such client.                                                             *)
(*                                                                          *)
(* Abstractions.  Token values are members of a small set.  The chained     *)
(* content hash of a full block is modelled by what it identifies, the      *)
(* whole token prefix that ends with the block: hash collisions are left    *)
(* out.  Sequences of this module start at 1, so block i of the code is     *)
(* entry i + 1 of a table.                                                  *)
(*                                                                          *)
(* A definition marked "Fault:" is a variant of the one that follows it with *)
(* a bug seeded; no specification uses it.  It shows that the properties     *)
(* notice that bug.                                                          *)
(***************************************************************************)
EXTENDS LruQueue

CONSTANTS
    Seqs,                \* request handles; one is used again once it is retired
    Tokens,              \* vocabulary
    SampledTokens,       \* the part of it the model may sample
    Prompts,             \* the prompts a client submits
    NumBlocks,
    BlockSize,
    MaxModelLen,
    EnablePrefixCaching

ASSUME SeqsAssumption    == IsFiniteSet(Seqs)
ASSUME PoolAssumption    == NumBlocks \in Nat \ {0} /\ BlockSize \in Nat \ {0}
ASSUME LengthAssumption  == MaxModelLen \in Nat
ASSUME SampledAssumption == SampledTokens \subseteq Tokens
ASSUME PromptsAssumption == Prompts \subseteq {p \in Seq(Tokens) : Len(p) \in 1..(MaxModelLen - 1)}
ASSUME CachingAssumption == EnablePrefixCaching \in BOOLEAN

VARIABLES
    tokens,     \* Sequence.token_ids; <<>> while the handle is not in use
    computed,   \* Sequence.num_computed_tokens
    table,      \* Sequence.block_table
    num_new,    \* ScheduledSequence.num_new_tokens of this step; 0 = not in the batch
    phase,      \* "schedule" until the batch is run, "update" until it is committed
    ref,        \* KVBlock.ref_count
    hash,       \* KVBlock.block_hash
    free,       \* BlockManager._free, least recently freed first
    cached,     \* BlockManager._cached : hash -> block
    cow         \* BlockManager._pending_cow : <<src, dst>> pairs

seqVars  == <<tokens, computed, table, num_new>>
poolVars == <<ref, hash, free, cached, cow>>
bmVars   == <<seqVars, phase, poolVars>>

Blocks   == 0..(NumBlocks - 1)
NoHash   == <<>>
TokenStrings == {h \in Seq(Tokens) : Len(h) <= MaxModelLen}

-----------------------------------------------------------------------------
InUse(s)     == tokens[s] # <<>>
NumTokens(s) == Len(tokens[s])
Scheduled    == {s \in Seqs : num_new[s] > 0}

\* Ceiling division: the blocks that hold n tokens.
NumBlocksForTokens(n) == (n + BlockSize - 1) \div BlockSize

\* The content hash of block i (from 1) of s: the tokens up to its end.
BlockPrefix(s, i) == SubSeq(tokens[s], 1, i * BlockSize)

BMInit ==
    /\ tokens   = [s \in Seqs |-> <<>>]
    /\ computed = [s \in Seqs |-> 0]
    /\ table    = [s \in Seqs |-> <<>>]
    /\ num_new  = [s \in Seqs |-> 0]
    /\ phase    = "schedule"
    /\ ref      = [b \in Blocks |-> 0]
    /\ hash     = [b \in Blocks |-> NoHash]
    /\ free     = [i \in 1..NumBlocks |-> i - 1]
    /\ cached   = <<>>
    /\ cow      = <<>>

-----------------------------------------------------------------------------
(* Prefix cache lookup.  The last token is never served from the cache, so   *)
(* that the forward pass has a logit to sample from.                         *)
MaxHits(s) == (NumTokens(s) - 1) \div BlockSize

IsLongestHit(s, k) ==
    IF EnablePrefixCaching /\ computed[s] = 0
    THEN /\ k \in 0..MaxHits(s)
         /\ \A i \in 1..k : BlockPrefix(s, i) \in DOMAIN cached
         /\ k < MaxHits(s) => BlockPrefix(s, k + 1) \notin DOMAIN cached
    ELSE k = 0

GetComputedBlocks(s, k) == [i \in 1..k |-> cached[BlockPrefix(s, i)]]

-----------------------------------------------------------------------------
(* Allocation.  hits are blocks found in the cache: they are touched first,  *)
(* which takes the free ones out of the queue.                               *)
AvailableQueue(hits) == Without(free, Range(hits))

\* Fault: a block more where the tokens fill their blocks exactly.
NumBlocksAtMultiple(s, n, hits) ==
    LET total == computed[s] + Len(hits) * BlockSize + n
        have  == Len(table[s]) + Len(hits)
    IN  IF total \div BlockSize + 1 > have THEN total \div BlockSize + 1 - have ELSE 0

NumBlocksNeeded(s, n, hits) ==
    LET total == computed[s] + Len(hits) * BlockSize + n
        have  == Len(table[s]) + Len(hits)
    IN  IF NumBlocksForTokens(total) > have THEN NumBlocksForTokens(total) - have ELSE 0

FirstWrite(s, hits) == computed[s] + Len(hits) * BlockSize
WriteIndex(s, hits) == FirstWrite(s, hits) \div BlockSize + 1

\* Fault: the last block of the table is not considered.
NeedsCopyMissesLastBlock(s, n, hits) ==
    LET held == table[s] \o hits
        i    == WriteIndex(s, hits)
    IN  /\ n > 0
        /\ i < Len(held)
        /\ ref[held[i]] + (IF held[i] \in Range(hits) THEN 1 ELSE 0) > 1
        /\ FirstWrite(s, hits) % BlockSize # 0

\* The first token lands in a partially filled block that another sequence holds too.
NeedsCopy(s, n, hits) ==
    LET held == table[s] \o hits
        i    == WriteIndex(s, hits)
    IN  /\ n > 0
        /\ i <= Len(held)
        /\ ref[held[i]] + (IF held[i] \in Range(hits) THEN 1 ELSE 0) > 1
        /\ FirstWrite(s, hits) % BlockSize # 0

CanAllocate(s, n, hits) == NumBlocksNeeded(s, n, hits) <= Len(AvailableQueue(hits))

\* Fault: the cache keeps its entry for a block that is given out again.
EvictedNone(popped) == {}

\* The cache entries lost when the blocks in popped are given out again.
Evicted(popped) == {h \in DOMAIN cached : cached[h] \in popped /\ hash[cached[h]] = h}
Evict(popped) ==
    /\ hash'   = [b \in Blocks |-> IF b \in popped THEN NoHash ELSE hash[b]]
    /\ cached' = [h \in DOMAIN cached \ Evicted(popped) |-> cached[h]]

\* Fault: no reference is taken on a cache hit.
RefWithoutTouch(popped, hits, copied) ==
    [b \in Blocks |->
        IF b \in popped THEN 1 ELSE ref[b] - (IF b \in copied THEN 1 ELSE 0)]

\* Fault: the shared original of a private copy keeps the reference.
RefWithoutRelease(popped, hits, copied) ==
    [b \in Blocks |->
        IF b \in popped THEN 1 ELSE ref[b] + (IF b \in hits THEN 1 ELSE 0)]

\* Counts after popped were given out, hits touched and copied released once.
RefAfterAllocation(popped, hits, copied) ==
    [b \in Blocks |->
        IF b \in popped THEN 1
        ELSE ref[b] + (IF b \in hits THEN 1 ELSE 0) - (IF b \in copied THEN 1 ELSE 0)]

\* allocate_slots when it succeeds: the blocks come from the head of the queue,
\* the private copy of a shared block last.
AllocateSlots(s, n, hits) ==
    LET queue  == AvailableQueue(hits)
        need   == NumBlocksNeeded(s, n, hits)
        copy   == NeedsCopy(s, n, hits)
        taken  == IF copy THEN need + 1 ELSE need
        popped == SubSeq(queue, 1, taken)
        held   == table[s] \o hits
        shared == held[WriteIndex(s, hits)]
        fresh  == queue[need + 1]
        kept   == IF copy THEN [held EXCEPT ![WriteIndex(s, hits)] = fresh] ELSE held
    IN  /\ taken <= Len(queue)
        /\ free'  = SubSeq(queue, taken + 1, Len(queue))
        /\ table' = [table EXCEPT ![s] = kept \o SubSeq(queue, 1, need)]
        /\ ref'   = RefAfterAllocation(Range(popped), Range(hits), IF copy THEN {shared} ELSE {})
        /\ cow'   = IF copy THEN Append(cow, <<shared, fresh>>) ELSE cow
        /\ Evict(Range(popped))

\* Fault: the roll-back forgets that the new blocks were given out.
RefNotUndone(popped, hits) == RefAfterAllocation(popped, hits, {})

\* Counts when whatever was given out or touched is released again.
RefAfterRollBack(popped, hits) ==
    LET held == RefAfterAllocation(popped, hits, {})
    IN  [b \in Blocks |-> held[b] - (IF b \in popped \cup hits THEN 1 ELSE 0)]

\* allocate_slots when the new blocks fit but leave none for the private copy:
\* everything is released again, but the popped blocks have lost their hashes.
\* (The table's new end is cut off as it was appended.)
AllocateRollsBack(s, n, hits) ==
    LET queue == AvailableQueue(hits)
    IN  /\ CanAllocate(s, n, hits)
        /\ NeedsCopy(s, n, hits)
        /\ NumBlocksNeeded(s, n, hits) = Len(queue)
        /\ free' = queue \o Retain(hits, {b \in Blocks : ref[b] = 0})
        /\ ref'  = RefAfterRollBack(Range(queue), Range(hits))
        /\ Evict(Range(queue))
        /\ UNCHANGED <<table, cow>>

AllocateRefused(s, n, hits) == ~CanAllocate(s, n, hits)

-----------------------------------------------------------------------------
(* Release of every block of s, deepest first; newHash is block_hash before  *)
(* the release.                                                              *)
\* Fault: every released block is queued, shared or not.
ReleasedBy(s) == Range(table[s])

\* Fault: released in table order, so the first blocks are evicted first.
ReleaseInTableOrder(s) == table[s]

LastHeldBy(s)   == {b \in Range(table[s]) : ref[b] = 1}
ReleaseOrder(s) == Reverse(table[s])

FreeBlocks(s, newHash) ==
    /\ ref'   = [b \in Blocks |-> IF b \in Range(table[s]) THEN ref[b] - 1 ELSE ref[b]]
    /\ free'  = free \o Retain(ReleaseOrder(s), LastHeldBy(s))
    /\ hash'  = IF EnablePrefixCaching THEN newHash
                ELSE [b \in Blocks |-> IF b \in LastHeldBy(s) THEN NoHash ELSE newHash[b]]
    /\ table' = [table EXCEPT ![s] = <<>>]

-----------------------------------------------------------------------------
(* Registration of the blocks of s that became full between computed[s] and  *)
(* after.  The chain stops at an unhashed predecessor and at content that is *)
(* cached in another block.  A block beyond the watermark has no hash yet    *)
(* (HashMatchesHolder), so the loop's test of block_hash always passes.      *)
\* Fault: the hash covers the block's own tokens only.
UnchainedHash(s, i) == SubSeq(tokens[s], (i - 1) * BlockSize + 1, i * BlockSize)

ChainHash(s, i) ==
    LET first == computed[s] \div BlockSize
        prev  == IF first = 0 THEN NoHash ELSE hash[table[s][first]]
    IN  prev \o SubSeq(tokens[s], first * BlockSize + 1, i * BlockSize)

ChainBroken(s) ==
    LET first == computed[s] \div BlockSize
    IN  first > 0 /\ hash[table[s][first]] = NoHash

\* Fault: a partially filled last block counts as full.
NewlyCachedRoundedUp(s, after) ==
    IF EnablePrefixCaching /\ ~ChainBroken(s)
    THEN {i \in (computed[s] \div BlockSize + 1)..NumBlocksForTokens(after) :
            \A j \in (computed[s] \div BlockSize + 1)..i : ChainHash(s, j) \notin DOMAIN cached}
    ELSE {}

NewlyCached(s, after) ==
    IF EnablePrefixCaching /\ ~ChainBroken(s)
    THEN {i \in (computed[s] \div BlockSize + 1)..(after \div BlockSize) :
            \A j \in (computed[s] \div BlockSize + 1)..i : ChainHash(s, j) \notin DOMAIN cached}
    ELSE {}

HashAfterCaching(s, after) ==
    LET new == NewlyCached(s, after)
    IN  [b \in Blocks |-> IF \E i \in new : table[s][i] = b
                          THEN ChainHash(s, CHOOSE i \in new : table[s][i] = b)
                          ELSE hash[b]]

CacheFullBlocks(s, after) ==
    LET new == NewlyCached(s, after)
    IN  cached' = [h \in DOMAIN cached \cup {ChainHash(s, i) : i \in new} |->
                      IF h \in DOMAIN cached THEN cached[h]
                      ELSE table[s][CHOOSE i \in new : ChainHash(s, i) = h]]

-----------------------------------------------------------------------------
(* The operations.  Each has an effect, which is what the code does, and a   *)
(* May... guard, which is what the manager expects of its client and does    *)
(* not check; Scheduler.tla uses the effects alone.                          *)

\* A new request: Sequence(prompt).
Add(s, p) ==
    /\ ~InUse(s)
    /\ tokens' = [tokens EXCEPT ![s] = p]
    /\ UNCHANGED <<computed, table, num_new, phase, poolVars>>

\* get_computed_blocks, then allocate_slots for n uncached tokens.
AdmitBlocks(s, n, k) ==
    LET hits == GetComputedBlocks(s, k)
    IN  /\ IsLongestHit(s, k)
        /\ CanAllocate(s, n, hits)
        /\ AllocateSlots(s, n, hits)
        /\ computed' = [computed EXCEPT ![s] = k * BlockSize]
        /\ num_new'  = [num_new EXCEPT ![s] = n]
        /\ UNCHANGED <<tokens, phase>>

MayAdmit(s, n, k) ==
    /\ phase = "schedule"
    /\ InUse(s) /\ table[s] = <<>> /\ computed[s] = 0
    /\ n \in 1..(NumTokens(s) - k * BlockSize)

\* allocate_slots for the next n tokens of a sequence that holds blocks.
ContinueBlocks(s, n) ==
    /\ CanAllocate(s, n, <<>>)
    /\ AllocateSlots(s, n, <<>>)
    /\ num_new' = [num_new EXCEPT ![s] = n]
    /\ UNCHANGED <<tokens, computed, phase>>

RollBackBlocks(s, n) ==
    /\ AllocateRollsBack(s, n, <<>>)
    /\ UNCHANGED <<tokens, computed, num_new, phase>>

MayContinue(s, n) ==
    /\ phase = "schedule"
    /\ InUse(s) /\ table[s] # <<>> /\ num_new[s] = 0
    /\ n \in 1..(NumTokens(s) - computed[s])

\* Fault: the watermark survives the loss of the blocks.
PreemptKeepsWatermark(s) ==
    /\ FreeBlocks(s, hash)
    /\ UNCHANGED <<tokens, computed, num_new, phase, cached, cow>>

\* Fault: the last generated token is dropped with the blocks.
PreemptDropsToken(s) ==
    /\ FreeBlocks(s, hash)
    /\ computed' = [computed EXCEPT ![s] = 0]
    /\ tokens'   = [tokens EXCEPT ![s] = Front(@)]
    /\ UNCHANGED <<num_new, phase, cached, cow>>

\* Preemption by recompute: the blocks go, the tokens stay.
PreemptBlocks(s) ==
    /\ FreeBlocks(s, hash)
    /\ computed' = [computed EXCEPT ![s] = 0]
    /\ UNCHANGED <<tokens, num_new, phase, cached, cow>>

MayPreempt(s) ==
    /\ phase = "schedule"
    /\ InUse(s) /\ table[s] # <<>> /\ num_new[s] = 0

\* The request is dropped, wherever it is.
AbortBlocks(s) ==
    /\ FreeBlocks(s, hash)
    /\ tokens'   = [tokens EXCEPT ![s] = <<>>]
    /\ computed' = [computed EXCEPT ![s] = 0]
    /\ UNCHANGED <<num_new, phase, cached, cow>>

BetweenSteps == phase = "schedule" /\ Scheduled = {}

\* What a forked child may be given to continue from: the parent's tokens, or
\* the computed ones and one branching token.
Branches(p) ==
    {tokens[p]} \cup {Append(SubSeq(tokens[p], 1, computed[p]), t) : t \in Tokens}

ForkBlocks(p, c, ts) ==
    /\ tokens'   = [tokens EXCEPT ![c] = ts]
    /\ table'    = [table EXCEPT ![c] = table[p]]
    /\ computed' = [computed EXCEPT ![c] = computed[p]]
    /\ ref'      = [b \in Blocks |-> IF b \in Range(table[p]) THEN ref[b] + 1 ELSE ref[b]]
    /\ UNCHANGED <<num_new, phase, hash, free, cached, cow>>

MayFork(p, c) ==
    /\ BetweenSteps
    /\ InUse(p) /\ ~InUse(c)
    /\ computed[p] > 0

\* Fault: the list of pending copies is read but not reset.
ReadPendingCopies ==
    /\ phase' = "update"
    /\ UNCHANGED <<seqVars, poolVars>>

\* The runner takes the pending copies and computes the batch.
TakePendingCopies ==
    /\ phase' = "update"
    /\ cow'   = <<>>
    /\ UNCHANGED <<seqVars, ref, hash, free, cached>>

MayRun == phase = "schedule" /\ Scheduled # {}

\* Results of one scheduled sequence: the watermark advances to after and full
\* blocks are registered.  A sampled token is appended, or ends the request.
Committed(s, after) ==
    /\ num_new' = [num_new EXCEPT ![s] = 0]
    /\ phase'   = IF Scheduled \subseteq {s} THEN "schedule" ELSE "update"
    /\ CacheFullBlocks(s, after)
    /\ UNCHANGED cow

CommitWatermark(s, after) ==
    /\ Committed(s, after)
    /\ computed' = [computed EXCEPT ![s] = after]
    /\ hash'     = HashAfterCaching(s, after)
    /\ UNCHANGED <<tokens, table, ref, free>>

CommitToken(s, after, t) ==
    /\ Committed(s, after)
    /\ computed' = [computed EXCEPT ![s] = after]
    /\ tokens'   = [tokens EXCEPT ![s] = Append(@, t)]
    /\ hash'     = HashAfterCaching(s, after)
    /\ UNCHANGED <<table, ref, free>>

CommitFinish(s, after) ==
    /\ Committed(s, after)
    /\ FreeBlocks(s, HashAfterCaching(s, after))
    /\ computed' = [computed EXCEPT ![s] = 0]
    /\ tokens'   = [tokens EXCEPT ![s] = <<>>]

\* after is the watermark that the scheduled tokens of s lead to.
MayCommit(s, after) ==
    /\ phase = "update" /\ num_new[s] > 0
    /\ after = computed[s] + num_new[s]

-----------------------------------------------------------------------------
Admit(s)    == \E n \in 1..MaxModelLen, k \in 0..MaxModelLen :
                  MayAdmit(s, n, k) /\ AdmitBlocks(s, n, k)
Continue(s) == \E n \in 1..MaxModelLen : MayContinue(s, n) /\ ContinueBlocks(s, n)
RollBack(s) == \E n \in 1..MaxModelLen : MayContinue(s, n) /\ RollBackBlocks(s, n)
Preempt(s)  == MayPreempt(s) /\ PreemptBlocks(s)
Abort(s)    == BetweenSteps /\ InUse(s) /\ AbortBlocks(s)
Fork(p, c)  == \E ts \in Branches(p) : MayFork(p, c) /\ ForkBlocks(p, c, ts)
Run         == MayRun /\ TakePendingCopies

Commit(s) ==
    \E after \in 1..MaxModelLen :
        /\ MayCommit(s, after)
        /\ \/ after < NumTokens(s) /\ CommitWatermark(s, after)
           \/ /\ after = NumTokens(s) /\ after + 1 < MaxModelLen
              /\ \E t \in SampledTokens : CommitToken(s, after, t)
           \/ after = NumTokens(s) /\ CommitFinish(s, after)

\* Everything but the forward pass itself.
PoolNext ==
    \/ \E s \in Seqs, p \in Prompts : Add(s, p)
    \/ \E s \in Seqs : Admit(s)
    \/ \E s \in Seqs : Continue(s)
    \/ \E s \in Seqs : RollBack(s)
    \/ \E s \in Seqs : Preempt(s)
    \/ \E s \in Seqs : Abort(s)
    \/ \E p, c \in Seqs : Fork(p, c)
    \/ \E s \in Seqs : Commit(s)

BMNext == PoolNext \/ Run

BMSpec == BMInit /\ [][BMNext]_bmVars

-----------------------------------------------------------------------------
(* Properties.                                                               *)

\* Every variable has its type; a stored hash is a whole number of blocks.
TypeOK ==
    /\ tokens   \in [Seqs -> TokenStrings]
    /\ computed \in [Seqs -> Nat]
    /\ table    \in [Seqs -> Seq(Blocks)]
    /\ num_new  \in [Seqs -> Nat]
    /\ phase    \in {"schedule", "update"}
    /\ ref      \in [Blocks -> Nat]
    /\ hash     \in [Blocks -> Seq(Tokens)]
    /\ free     \in Seq(Blocks)
    /\ DOMAIN cached \subseteq Seq(Tokens) \ {NoHash}
    /\ \A h \in DOMAIN cached : cached[h] \in Blocks
    /\ cow      \in Seq(Blocks \X Blocks)

\* A block's reference count is the number of block tables it is in: no leak,
\* no early release, over every history of sharing, forking, copying and
\* rolling back.
Holders(b) == {s \in Seqs : b \in Range(table[s])}
RefCountExact == \A b \in Blocks : ref[b] = Cardinality(Holders(b))

\* The free queue holds exactly the unreferenced blocks, each once, so
\* _allocate_block's assertion never fails and no block is lost.
FreeIffUnreferenced ==
    /\ Range(free) = {b \in Blocks : ref[b] = 0}
    /\ IsInjective(free)

\* The hash map and the blocks' own hashes describe the same set of entries:
\* no entry points at a block that was given to someone else.
CacheConsistent ==
    /\ \A h \in DOMAIN cached : hash[cached[h]] = h
    /\ \A b \in Blocks : hash[b] # NoHash =>
          hash[b] \in DOMAIN cached /\ cached[hash[b]] = b

\* A hashed block in a table sits at the place its prefix says, and only once
\* the sequence has computed that far.
HashMatchesHolder ==
    \A s \in Seqs : \A i \in DOMAIN table[s] :
        hash[table[s][i]] # NoHash =>
            /\ hash[table[s][i]] = BlockPrefix(s, i)
            /\ i * BlockSize <= computed[s]

\* The blocks of s that this step's forward writes into.
WrittenBlocks(s) ==
    {table[s][i] : i \in {(computed[s] + j) \div BlockSize + 1 : j \in 0..(num_new[s] - 1)}}

\* A forward writes only into blocks that no other sequence holds and that the
\* prefix cache does not offer: sharing never lets one request overwrite another.
WritesExclusive ==
    \A s \in Scheduled : \A b \in WrittenBlocks(s) : ref[b] = 1 /\ hash[b] = NoHash

\* Two sequences that share a computed block agree on every token it holds.
SharedPrefixAgrees ==
    \A s, t \in Seqs : \A i \in DOMAIN table[s] :
        \A j \in DOMAIN table[t] :
            table[s][i] = table[t][j] =>
                /\ i = j
                /\ \A x \in 1..(i * BlockSize) :
                      x <= computed[s] /\ x <= computed[t] => tokens[s][x] = tokens[t][x]

\* The table covers the computed and scheduled tokens and nothing more.
TableExact ==
    \A s \in Seqs : Len(table[s]) = NumBlocksForTokens(computed[s] + num_new[s])

\* Evicting the deepest blocks first keeps the cache reachable: an entry's
\* predecessor in the chain is cached too.
CachePrefixClosed ==
    \A h \in DOMAIN cached :
        Len(h) > BlockSize => SubSeq(h, 1, Len(h) - BlockSize) \in DOMAIN cached

\* Why that is so.  a is given out before b; a table's hashed blocks are its
\* first ones; and while an entry's predecessor is free, the entry's own block
\* is free as well and is given out first.
Before(q, a, b) == \E i, j \in DOMAIN q : i < j /\ q[i] = a /\ q[j] = b

Parent(h) == SubSeq(h, 1, Len(h) - BlockSize)

HashedFromStart ==
    \A s \in Seqs : \A i \in DOMAIN table[s] :
        i > 1 /\ hash[table[s][i]] # NoHash => hash[table[s][i - 1]] # NoHash

SuccessorsFirst ==
    \A a, b \in Blocks :
        Len(hash[a]) > BlockSize /\ hash[b] = Parent(hash[a]) /\ ref[b] = 0 => Before(free, a, b)

EvictionOrder == CachePrefixClosed /\ HashedFromStart /\ SuccessorsFirst

\* The copies of one step can be applied as one gather and scatter: no block
\* is a destination twice, and no copy reads what an earlier one wrote.
CopiesWellDefined ==
    \A i, j \in DOMAIN cow :
        i < j => cow[i][2] # cow[j][2] /\ cow[i][2] # cow[j][1]

\* A pending copy's destination belongs to one scheduled sequence, which writes
\* into it: no copy is left over for a later step.
CopyTargetsScheduled ==
    \A i \in DOMAIN cow :
        \E s \in Scheduled : Holders(cow[i][2]) = {s} /\ cow[i][2] \in WrittenBlocks(s)

\* The strengthening that makes the invariants above inductive: a sequence in
\* use always has a token left to compute, a handle out of use holds nothing, a
\* table has no block twice, the blocks a scheduled sequence is about to fill
\* are in no other table, without prefix caching nothing is cached, and no copy
\* is pending once the batch has run.
LengthsOK ==
    \A s \in Seqs :
        /\ ~InUse(s) => table[s] = <<>> /\ computed[s] = 0 /\ num_new[s] = 0
        /\ InUse(s) => computed[s] < NumTokens(s)
        /\ computed[s] + num_new[s] <= NumTokens(s)

TableInjective == \A s \in Seqs : IsInjective(table[s])

FillsOwnBlocks ==
    \A s \in Scheduled : \A t \in Seqs \ {s} : \A i \in DOMAIN table[s] :
        i > computed[s] \div BlockSize => table[s][i] \notin Range(table[t])

NothingCached == ~EnablePrefixCaching => DOMAIN cached = {}

CopiesTaken == phase = "update" => cow = <<>>

IndInv ==
    /\ TypeOK /\ LengthsOK /\ TableExact /\ TableInjective /\ NothingCached
    /\ FreeIffUnreferenced /\ RefCountExact
    /\ CacheConsistent /\ HashMatchesHolder /\ FillsOwnBlocks /\ CopiesTaken

\* Claimed by allocate_slots' docstring: when it returns None it changes nothing.
FailedAllocationChangesNothing ==
    [][UNCHANGED <<seqVars, ref, phase>> => UNCHANGED poolVars]_bmVars
=============================================================================
