# paged-llm in TLA+

paged-llm is an LLM inference engine whose KV cache is divided into fixed-size
blocks. Requests share blocks through reference counts and a prefix cache, a
scheduler batches their tokens, and requests that run out of memory are
preempted and recomputed. This directory holds TLA+ models of that logic, TLC
configurations that check them, and proofs checked by TLAPS.

Paths below are relative to the repository; "b_m" is
`pagedllm/block_manager.py`.

## 1. The system

| Component | State | Operations | Where |
|---|---|---|---|
| Block manager | `blocks` (ref_count, block_hash), `_free` (LRU), `_cached`, `_pending_cow` | get_computed_blocks, allocate_slots, cache_full_blocks, free, fork, take_pending_copies, slot_mapping | `b_m` |
| Sequence | token_ids, num_computed_tokens, block_table, status, sampling_params | append_token, reset_for_recompute | `sequence.py` |
| Scheduler | `waiting`, `running`, locals of `schedule` | add, abort, schedule, update | `scheduler.py` |
| KV cache | one tensor of `[block, offset]` slots per layer | write, apply_copies | `kv_cache.py` |
| Model runner | none of its own | build_inputs, run | `engine.py` |
| Attention | none; a launch of the Triton kernel has its programs' registers and the output tensor | paged attention in PyTorch, Triton, flash-attn; select_backend | `attention/` |
| Sampler | generator | sample | `sampler.py` |
| Model, loader | weights, rotary tables, the process's default dtype while building | forward, load_model | `model/` |
| Configuration | limits and switches | `__post_init__` | `config.py` |

Everything runs in one thread. One engine step is *schedule* (decide the batch,
allocate blocks, perhaps preempt), *run* (apply pending copies, one forward
pass for the whole batch, sample) and *update* (advance watermarks, register
full blocks in the prefix cache, append tokens, retire sequences). The parts
share state rather than messages: the scheduler and the block manager both
write `Sequence` objects, the runner reads tables the block manager wrote, and
the physical cache is only right if all three agree.

### What is hard here

The engine has no threads and no network (only a kernel launch is concurrent);
what is hard is long histories over shared mutable state, and layouts that mix
sequences.

* A block moves between "held by n sequences", "free but cached" and "free",
  through hits, forks, copies, roll-backs, preemptions and releases in any
  order. A reference too many leaks it, one too few gives it to two owners.
* A cached block sits in the free queue with its content until somebody pops
  it. Its hash entry must go at that moment and not before.
* Which tokens a physical slot holds is implied by a table, a watermark and
  whatever copies are pending; sharing (prefix hits, forks) must never let one
  sequence write what another reads.
* `schedule` loops over a snapshot of `running` while it removes sequences from
  it, and pushes victims to the front of the queue that its second loop reads.
* Boundaries: full blocks, the last token that must not come from the cache,
  a budget that cuts a chunk, the length at which a request ends.
* Progress: preempted requests, requests that cannot fit, requests that preempt
  each other.
* A batch is one flat list of rows. Offsets, padded tables, logits indices and
  the zip of tokens with sequences must agree, or requests receive each other's
  tokens. The sampler's switches are per batch, its parameters per row.
* The kernel's programs share an output tensor; tiles stick out of sequences and
  of contexts.
* A call of `generate` that is rejected half-way leaves requests behind that the
  next call steps along.
* Start-up can fail at every point and changes process-wide state meanwhile.

`PROJECT.json` lists these as hazards at their lines.

## 2. Modules

```
LruQueue        the OrderedDict free queue as a sequence
   |
BlockManager    pool, tables, prefix cache, copy-on-write;      BlockManagerProofs
   |            its most general client                         SharingProofs
PagedKV         + the physical memory and the forward pass      PagedKVProofs
   |                                                               |
Scheduler       + queues, step loop, requests                   SchedulerProofs
   |
Runner          + flat tensors, attention through them,         RunnerProofs
   |            sampled tokens; implements DenseEngine
   |            (uses FlatRows, Attention, Sampler)
Engine          + generate

FlatRows        a batch as one list of rows
   |
Attention       index arithmetic of the three backends          AttentionProofs
   |                                                               |
TritonKernel    one launch, its programs interleaved            KernelProofs

Startup         configuration, loading, sizing of the pool      StartupProofs
```

Each module extends the one above it, each proof module also the one on its left.
`MCBlockManager`, `MCScheduler`, `MCRunner`, `MCEngine`, `MCTritonKernel` and
`MCStartup` give the constants small values for TLC.

What implements what (each arrow a PROPERTY of a run, SchedulerThree for `KVSpec` and
RunnerFork for the others, and proved):

```
KVSpec: BMNext and a forward pass          DenseEngine
   (general client of the pool)               (no pool, no batches)
   ^  KVSpec                                  ^  ImplementsDense
Scheduler <-- SchedulerSpec -- Runner --------+
```

Engine in turn only does what Runner may do (EngineRunsRunner, proved).

**LruQueue.** `_free` is an insertion-ordered set. `Retain(q, K)` is the
subsequence of `q` with members in `K`, written by rank instead of by recursion
so that its laws can be proved; `MCBlockManager` compares it with the library's
`SelectSeq` over all short queues.

**BlockManager.** The variables are the fields named in their comments. One
effect operator per operation is what the code does: `AdmitBlocks`
(get_computed_blocks and allocate_slots, b_m:111-133, 171-217),
`ContinueBlocks`, `RollBackBlocks` (the failing branch at b_m:203-211),
`PreemptBlocks`, `AbortBlocks`, `ForkBlocks`, `TakePendingCopies`, and three
`Commit...` operators for `update`'s outcomes. What the manager expects of its
caller and does not check is separate, in the `May...` guards. `BMNext` is
thereby the most general client: any chunk size, any order. The loops of
allocate_slots and cache_full_blocks touch each block once, so they are given
by their result: the first `taken` blocks of the queue, the set `NewlyCached`.
The roll-back takes and releases: `RefAfterRollBack` is the counts after both.

**PagedKV** adds `kv[block][offset]`, whose content is the token string the
value was computed from. A forward applies the pending copies, writes all
scheduled positions and only then attends, as a layer of `llama.py` does; a
token whose attention would find anything but its own prefix yields `Noise`.
So an error in tables, copies or the cache becomes visible as wrong memory.

**Scheduler** is `scheduler.py` and the loop of `engine.py`, one action per
iteration of the two loops of `schedule` and of the loop of `update`, with `at`
as the program counter and `todo` as the rest of the snapshot
`list(self.running)`. It uses the effects of BlockManager *without* their
`May...` guards. That the machine implements `KVSpec` therefore says something:
the code never schedules a sequence twice, never preempts one that is already in
the batch, never forks or aborts in mid-step. `needs_sampling`, set when a
sequence is scheduled, is computed when it is read: nothing it depends on
changes in between.

**FlatRows** gives the two things that build_inputs accumulates over a batch, the
list of rows and the offsets `cu`, by counting rows that come earlier instead of
by recursion, so that they can be proved about. `MCRunner` compares both with
the loops they stand for.

**Attention** has operators only: which keys a query row reads in
`reference.py`, in the tiles of `triton_kernel.py` and in `flash_backend.py`,
and through which slot. flash-attn itself is external; its causal mask is the one
its documentation gives, aligned to the end of the context.

**TritonKernel** runs the grid: a program per query tile, head and sequence,
whose steps are the early return, one iteration over a tile of keys, and the
masked store. A score is a natural number up to MaxScore that depends on the row
and the head of Q and on the cell of the cache; `QueryOf` is the row and head that
a lane's query pointer addresses. exp is a constant of
which only exp(a + b) = exp(a) * exp(b) is assumed (`ExpAssumption`; the run takes
powers of two). Sums carry the factor exp(MaxScore), so that every rescaling
divides exactly. A value row is kept as its coefficients, one per cache cell,
so the result says which cells went in and with what weight. `-inf` and NaN are
explicit values. `Relaunch` is the next layer's launch.

**Sampler** is `sample` for a whole batch: temperature, top-k, top-p, the greedy
short-cut and the batch-wide switches. Logits are weights (their exponentials,
as integers), a draw is the set of tokens with positive probability, and the
descending sort may order ties in any way. A cumulative probability is the number
of units of weight (`Mass`), which `MCRunner` compares with the sum. `Choices` is what one row alone may
get.

**Runner** replaces Scheduler's run and update by `ModelRunner`: `BuildInputs`
is `build_inputs`, `Written` and `LogitRow` are the pass over the flat tensors
(a row's output depends on the text that its keys, found through slot mapping
and block table, really hold; anything else is `Noise`), `RunnerRun` samples for
the rows of `logits_idx` and zips the tokens with their sequences.

**DenseEngine** is what a client may rely on: a text that grows by tokens drawn
from the model's distribution after it, and ends at a stop token, exactly at its
limit, or because its client aborts it. Which of the three it was is observable
(`reason`, from `RequestOutput.finish_reason`), so an end that comes too early
cannot pass for an abort. The refinement mapping takes `text` to `tokens`,
`limit` to the smaller of prompt plus `max_tokens` and the model length, and
`reason` to the status of a request that has ended.

**Engine** adds `generate`: one add per prompt, with a list of SamplingParams or
one object for all, an exception in the middle, the
loop of steps, and the outputs taken from `_seqs`. While a call is active nobody
else adds, aborts or steps; before and between calls a client may use
add_request, abort_request and step on the same engine.

**Startup** is `LLMEngine.__init__` with `EngineConfig`, `select_backend`,
`load_model` and `_profile_num_blocks`. Any stage may fail, and the process may
make another attempt with other inputs. `ReadyGuarantees` states what holds of an
engine that comes up. That is less than the other modules assume: config.py does
not check `max_num_seqs`, and lets a block size of 0 through (section 4). The
profiling pass may need any amount of memory (`machine.activations`), and
`ProfiledPoolAllocates` is about the pool that is sized from it, not about later
steps: these also sample, and their contexts may be longer than the pass was.
The loader sets the default dtype to float32 when it is done (loader.py:50),
whatever it was; `BuildDtypeContained` therefore says that the dtype of a build
never stays, not that the old one comes back.

### Abstractions

* Tokens are members of a two-element set; one of them is a stop token. A
  sampled token is any member of `SampledTokens`; `StopTokens` stands for EOS and
  `stop_token_ids` together, the same for all requests, and `ignore_eos` is left
  out.
* A chained block hash is the token prefix it identifies. Equal hashes of
  different prefixes do not occur in the model.
* Request handles are reused after a request ends, so the models have infinite
  behaviours with few handles. A reused handle is a new `Sequence`.
* A `SamplingParams` object is named by the handle whose request made it (`sp`),
  which expresses that several requests may share one.
* `fork` has no caller in the engine. Its use is taken from
  `tests/test_engine_cpu.py:111-118`: between two steps, the child starts with the
  parent's tokens or with the computed ones and a branching token, and is
  appended to `running`.
* The network is a constant function `Weights` from the text to a row of weights.
* Python exceptions end a call without effect: `add` raising is a disabled
  `AddRequest`; in `generate` it is `GenerateRaises`. A forward pass does not raise.

## 3. Runs

Bounds: blocks of two tokens, pools of two to four blocks, up to three requests
of at most six tokens. BlockManagerTwo alone has blocks of one token, so that
chains of three blocks stay small. Block size two is the least at which a block can be
partly filled; three blocks are the least at which a two-block sequence, a
shared prefix and a private copy compete; three sequences are the least at which
two siblings copy the same block in one step while a third holds it. Handles
are interchangeable in every definition, so the safety runs use symmetry
(RunnerFork only between the two handles with equal sampling parameters); the
liveness runs and RunnerUnchunked do not.

| Run | Question | Configuration |
|---|---|---|
| BlockManagerTwo | Are the books exact, does the cache stay consistent and prefix-closed, are chains evicted from their ends, do sharers agree? | 2 sequences, 3 blocks of one token, prompts of 3 that differ in the first, length 4 |
| BlockManagerThree | Does the inductive invariant hold, are the reference counts exact when blocks are partly filled, are writes exclusive, can the copies be made at once, and are they for this step? | 3 sequences, 3 blocks, length 4 |
| SchedulerThree | Queues, limits, order, lossless preemption, output length; do tables cover exactly what is computed and scheduled, at block size two; is the scheduler a legal client of the pool? | 3 requests with forks and aborts, 2 admitted at a time, budget 2, so that a prompt takes two chunks; 2 blocks, fewer than the longest request needs, so that steps may be empty |
| RunnerUnchunked | Whole prompts only; memory without the prefix cache; the scheduler's inductive invariant; do the attention backends agree? | 2 handles, prompts of 1 and 3 tokens, budget 3, no chunking, no caching |
| RunnerFork | Does the composed machine, with forks and aborts, keep the memory right and implement the scheduler and the dense engine? | 3 handles, budget 3; one greedy request and two with top-p 3/4 |
| EngineLive | Does every step compute something, does generate return, does everything end, are the outputs right? | 2 handles, budget 2, 2 blocks, texts of at most 4 tokens; calls of up to two prompts of 1 or 3 tokens, empty and too long ones |
| TritonKernel | Does every order of the programs compute the reference? | 2 launches of 2 sequences, query tiles of 2, key tiles of 4 over blocks of 2, 2 heads on one kv head, scores that differ between rows and between heads |
| Startup | Is what comes up complete, and the pool within its share; does an attempt that fails leave the dtype of its build behind? | 4 machines, with float32 or float64 as default dtype; configurations with block sizes 0, 3 and 16, short budget, short model length, no sequences allowed, more than all memory; 16 checkpoints; any sequence of attempts |

The pool sizes force preemption: two requests of up to six tokens on three
blocks, or of four on two, cannot both finish without one being recomputed. The sampler's weights in
`MCRunner` have a close race, a clear winner and a stop token, so that top-p
keeps one token after some texts and both after others; the greedy request
meets the same texts. The batches of TritonKernel have a chunk that does not
fill its last tile, a decode, a first token, and tables padded with a block
in use. Key tiles are wider than blocks; AttentionProofs covers all sizes.

The Scheduler module's `ForkRequest` may exceed `max_num_seqs`, because a fork
bypasses admission; BatchWithinLimits therefore says of steps, not of states,
that they do not.

### Fairness

`generate` is `while has_unfinished: step()` (engine.py:228). In Engine, weak
fairness of `CallStep` says that an active call adds its prompts and returns,
and strong fairness of `EngineStep` that steps go on. It is strong because
outside of a call the client may make rejected calls between any two steps,
each of which disables stepping while it adds its prompts; the assumption is
that it does not do only that for ever. Each is one condition on the whole loop
body, not one per action or per request: nothing assumes that a particular
request is ever chosen. (Scheduler's `FairSpec`, used by two of the runs below, has weak fairness of
`Step` alone.) Clients are not fair and may never submit or may submit for ever.
Which token is sampled is not fair either: ends come from `max_tokens`, not from
luck. A call is made only when a handle is free for each of its prompts, which
is the bound on requests.

### Runs that find a disagreement

* **SharedParams** - `generate(prompts, sp)` passes one object for all prompts
  (engine.py:222) and `Scheduler.add` clamps `max_tokens` in it
  (scheduler.py:71): one long prompt shortens everybody's output. The run finds
  a single call with two prompts.
* **UnchunkedStuck** - without chunked prefill, a preempted request that has
  grown beyond `max_num_batched_tokens` is refused at scheduler.py:143-145 for
  ever, and blocks the queue. README.md:198 calls preemption lossless.
* **SmallPool** - nothing compares a request with the pool
  (scheduler.py:149), so one that cannot fit is retried for ever.
* **FailedAllocation** - allocate_slots' docstring says a refused call "changes
  nothing" (b_m:181), but the roll-back does not restore evicted cache
  entries (b_m:203-211).

None of them is about the contents of memory: KVFaithful holds in every
configuration (section 4).

Two smaller divergences have no run. README.md:73 says "eviction only when the
pool is full", but `_allocate_block` (b_m:83) pops the oldest free block even when
a block without cached content is free. And the loader discards a missing
`lm_head.weight` for tied models (loader.py:65), a name that `named_parameters`
never lists for them; a tied checkpoint that does contain it is refused as
"unexpected weight" (loader.py:56-59).

Definitions marked "Fault:" are seeded bugs. No specification uses them; each
property was seen to fail when its fault replaces the definition after it.

## 4. Proofs

TLAPS checks the following for *every* value of the constants that satisfies
the modules' ASSUMEs, which TLC evaluates in the runs: finitely many handles, a
non-empty pool, a positive block size, prompts shorter than the model length,
sampled tokens that are tokens (in Runner: a finite vocabulary, all of it, with natural
numbers as weights), and (Scheduler) a token budget of at least a
block, at least one running request, and requests for at least one token. Most of these are
the checks of config.py and scheduler.py:64-73 and the parameters a client
gives; that `max_num_seqs` and the block size are at least 1 is an assumption
about the configuration that the code does not check. Hypotheses beyond these are part of the statements and explained below.

### The pool (BlockManagerProofs)

| Theorem | Says |
|---|---|
| IndInvHolds | `BMSpec => []IndInv` |
| TypeOKHolds, RefCountExactHolds, FreeIffUnreferencedHolds, CacheConsistentHolds, HashMatchesHolderHolds, TableExactHolds | its named parts |
| WritesExclusiveHolds | `BMSpec => []WritesExclusive`, a consequence of IndInv |

None of the invariants is inductive alone, which is why they are proved
together:

* RefCountExact and FreeIffUnreferenced need each other: a popped block has no
  holder because it is free, and free because its count, the number of holders,
  is zero. Both need TableInjective, or one release would be due twice.
* HashMatchesHolder needs CacheConsistent (a hit is found through the map) and,
  when blocks are registered, FillsOwnBlocks: a block that gets its hash now is
  in no other table, whose owner might have other tokens.
* FillsOwnBlocks, in turn, is what copy-on-write establishes: the block of the
  first write is copied if it is shared and partly filled. That later blocks are
  not shared follows from TableExact and, for another sequence's prefix hits,
  from UnfilledUnhashed: what is not full has no hash and cannot be hit.
* LengthsOK, NothingCached and CopiesTaken are small facts about handles out of
  use, about a disabled cache and about the moment after the copies were taken.

The proof has one lemma per operation (`AdmitPreserves`, `ContinuePreserves`,
...). Admission and continuation are two cases of `AllocationPreserves`, which
rests on `AllocationEffect`: what allocate_slots does, without the order of the
queue. `RollBackUndoes` is that a failed one leaves every count as it was. The commit lemmas rest on `CachingEffect`. At the start are the laws of the queue
operators, from cardinalities of index sets, and the arithmetic of block numbers
(`CeilBounds`, `FullBlocks`, ...).

### Sharing, pending copies and the order of eviction (SharingProofs)

| Theorem | Says |
|---|---|
| SharedPrefixAgreesHolds | `BMSpec => []SharedPrefixAgrees` |
| CopyTargetsScheduledHolds, CopiesWellDefinedHolds | every pending copy is for this step, and one gather and scatter makes them all |
| EvictionOrderHolds, CachePrefixClosedHolds | chains are evicted from their ends, so no entry becomes unreachable |

The first three are inductive together relative to IndInv. A hit agrees with
its holders by HashMatchesHolder; a copy's target was free when it was taken, so
it differs from all earlier targets and sources. CachePrefixClosed is not
inductive even with IndInv: it says nothing about the *order* of the queue, and
the next pop could take a predecessor first. `EvictionOrder` adds what is true:
while the predecessor of an entry is free, the entry's block is free too and
before it (SuccessorsFirst), and a table's hashed blocks are its first ones
(HashedFromStart), so a released table puts successors first. The lemmas
`Before...` say how `free`'s order survives appending, cutting and removal.

### The memory (PagedKVProofs)

| Theorem | Says |
|---|---|
| KVRefinesPool | `KVSpec => BMSpec`: all of the above holds with the memory added |
| KVFaithfulHolds | `KVSpec => []KVFaithful` |
| CacheFaithfulHolds | `KVSpec => []CacheFaithful` |

The invariant adds `BatchComputed`: between the pass and the update, the rows
just written hold their contexts. The proof reads memory through `Origin`, the
block where a slot's content is until the pending copies are made, so that
copy-on-write is "the origin does not change" and the pass is "all origins are
the blocks themselves". That the pass harms nobody is WritesExclusive; that
what it reads is right is SharedPrefixAgrees for hits and forks.

### The scheduler (SchedulerProofs)

| Theorem | Says | Hypothesis |
|---|---|---|
| SchedInvHolds | `Spec => []SchedInv` | |
| SchedulerIsClient | `Spec => KVSpec` | |
| SchedulerTypeOKHolds, QueuesPartitionHolds, UnchunkedWholeHolds | parts of SchedInv | |
| EngineKVFaithful, EngineWritesExclusive, EngineCachePrefixClosed | the pool's and the memory's theorems, of the engine's own loop | |
| LosslessHolds, FIFOHolds | action properties: preemption keeps tokens; running followed by waiting keeps its order | |
| LengthAsAskedHolds | a request ended by length has what it asked for | `~ShareParams` |
| StepsMakeProgressHolds | no step with requests is empty | `EnableChunkedPrefill`, and a pool of at least MaxModelLen tokens |
| BudgetHolds | `Spec => []BudgetExact`: rows in the batch and budget left never exceed max_num_batched_tokens | |
| BatchWithinLimitsHolds | an action property: every batch is the step's and in its budget, and no step exceeds max_num_seqs | |

`SchedulerIsClient` discharges the `May...` guards of the general client, which
the code does not check. The essential part of `SchedInv` is `SnapshotExact`:
`schedule` walks a copy of `running` while it removes victims from the end of
`running` itself. What is left of the copy is the rest of `running`, from the
place the loop has reached, followed by victims (`Passed`); so the last running
sequence, the next victim, is never one that is already in the batch, and a
victim that comes up in the copy is skipped. `BatchExact` ties the batch to the
pool's `num_new`, `StageExact` the program counter to the pool's phase.

The further properties add an invariant each: `LengthExact` (a live request's
limit is what it asked for, clamped or not, and is not reached), `ProgressInv`
(while the batch is empty the budget is whole and the first running sequence has
not had its turn; so if the first loop ends with an empty batch every running
sequence was preempted, the pool is empty, and `EmptyPoolServes` admits the head
of the queue), and `BudgetExact`, which counts rows as pairs of a sequence and a
row number, so that no sum over sequences has to be unfolded.

The hypotheses are the code's own limits. With shared parameters LengthAsAsked is
false (run SharedParams); without chunked prefill or with a small pool
StepsMakeProgress is (runs UnchunkedStuck and SmallPool); fork appends to
`running` without looking at max_num_seqs.

### Attention and its kernel (AttentionProofs, KernelProofs)

| Theorem | Says |
|---|---|
| TritonReadsReferenceKeys | the kernel's loop visits exactly the keys that the reference does not mask |
| WrapperReadsReferenceKeys | in particular with the tile sizes the wrapper chooses |
| FirstTileSeesKeyZero | every row of a running tile, padding rows too, has key 0 in its first tile: the comment at triton_kernel.py:56-57 |
| KeysStayInTable | a key's block index is below the number of blocks of its context |
| GatherIsPaged | the reference's gathered row k is the slot of paged addressing |
| RowHasOneProgram | the grid covers every row of every sequence for every head, exactly once |
| RowsWrittenOnceHolds | `KernelSpec => RowsWrittenOnce`, under any interleaving |
| KernelMatchesReferenceHolds | `KernelSpec => []KernelMatchesReference`: whatever the order of the programs, every row of every head is the reference's |
| NoNaNHolds | `KernelSpec => []NoNaN`: no row runs without a maximum or a positive denominator |

The index theorems hold for every context length, chunk, tile size and block
size; they rest on `CDivBounds` and `DivBounds`, which characterise ceiling
division and division with remainder by inequalities, and on `KvEndBounds`: a
tile looks at least as far as each of its rows. The last four are about the
launches of TritonKernel for every set of batches that satisfies
`BatchesAssumption` (the shape of what build_inputs makes), every tile size and
number of heads, all scores, which may differ for each row, head and cell, and every exp that satisfies `ExpAssumption`.
The argument:

* `KernelInv`: only a program that is done has written, and only rows it owns;
  `RowHasOneProgram` makes these one program's. No lane that has seen a tile is
  without a maximum.
* `SumInv`, checked by TLC before it was proved: the denominator and each
  coefficient of a lane are the sums of exp(score - m) over exactly the keys it
  has gone over, m being its running maximum; and every row stored so far is right.
* A sum over a set of keys (`Total`) is defined by counting, so its laws need no
  induction over data: `TotalOfBoth` (disjoint sets of keys add up), `TotalScaled`
  (a common factor comes out, by a bijection), and from them `HigherMaximum` and
  `OnlineStep`: rescaling the old sum and adding the tile's is the sum over both
  under the new maximum, and the division leaves nothing over. MCTritonKernel
  compares `Total` with the community modules' sum.
* `SeenAll`: at the end of the loop a row that is stored has gone over the keys
  that the reference does not mask. `ReferenceSums`: the reference gathers the same
  cells, with the kv head its repeated heads give (`KvHeadLaws`).
  `QueryKnown`: the query that a stored lane loads is a row of Q, and it is the
  lane's own.
  `StoredRight`: so both quotients are the same.

### The runner and the whole engine (RunnerProofs)

| Theorem | Says | Hypothesis |
|---|---|---|
| RunnerImplementsScheduler | `RunnerSpec => SchedulerSpec`: so all theorems of the scheduler, the memory and the pool hold of the engine with its flat tensors | |
| BackendsAgreeHolds | `RunnerSpec => []BackendsAgree` | |
| DenseRefinement | `RunnerSpec => ImplementsDense` | `~ShareParams` |
| EngineRunsRunner | `EngineSpec => RunnerSpec`: what is proved of the runner holds while generate is used | |
| OutputsAreDenseHolds | `EngineSpec => []OutputsAreDense`: the answers of generate | `~ShareParams` |

The argument goes from rows to requests:

* `RowOrderLaws` and `PrefixSumLaws` (in AttentionProofs): row r of the flat list is
  the row j of the item i for which `cu` says so, for batches of any shape. With
  them every tensor of build_inputs is read row by row.
* `RowTextExact`: the text a row's output depends on, found through slot mapping,
  padded tables and the rows written in the same pass, is the sequence's own
  prefix. What lies before the chunk comes from KVFaithful; that no other row
  writes there comes from WritesExclusive. Rows are shown right one after the
  other, from what earlier rows have written. So `Written` is PagedKV's pass
  (`WrittenIsForward`), and run is Scheduler's RunBatch (`RunIsRun`).
* `DrawnLaws`: with its mixed batch, its sort that may order ties in any way and
  its switches per batch, `sample` gives each row a token that the row's
  own parameters allow. `RunnerInv` keeps this until update reads the token.
* A request changes its text only in AddRequest, AbortRequest, ForkRequest
  and update; every other step leaves DenseEngine's variables alone
  (`DenseFrame`, `QuietFrame`: nor does it change the status of a request that has
  ended). `LimitReached` shows that update's two tests, max_tokens and model
  length, are DenseEngine's one limit, from LengthExact.
* `CallInv` follows a call of generate. While it adds prompts nothing runs and all
  its requests are live, so their handles differ; afterwards each request is on
  its way (`Ongoing`: its text is the prompt and tokens that it may draw, none of
  them a stop token) or `Complete`. `QuietFrame` says that only update changes
  this: `HeadGoesOn` for one more token, `HeadEnds` for the last, where
  `LengthFinish` gives the reason. When nothing is unfinished no request is live,
  so all are complete, also if the engine holds what a rejected call left behind.

With shared parameters DenseRefinement and OutputsAreDenseHolds are false for the reason LengthAsAsked is: the
limit moves under a live request.

### Start-up (StartupProofs)

| Theorem | Says |
|---|---|
| StartupInvHolds | what each check that was passed has established |
| BuildDtypeContainedHolds, FullyLoadedHolds, ReadyGuaranteesHolds, ProfiledPoolAllocatesHolds | `StartupSpec => []...`, for any configurations, checkpoints and machines with natural numbers |

Block size 0 is among the configurations: config.py:25 accepts it, because
0 & -1 is 0. Sizing the pool then divides by zero (`DivideByZero`), but with
`num_gpu_blocks` given the engine comes up. So does one with `max_num_seqs` 0,
which never admits a request. ReadyGuarantees names neither as ensured, and the
other modules' theorems do not speak of such engines. ProfiledPoolAllocates
assumes nothing of what the profiling pass needs, and says nothing of what any
other pass needs.

### Only model-checked

EveryRequestEnds and GenerateReturns: liveness under fairness and ENABLED are
beyond TLAPS.

## 5. Not modelled

* Floating-point arithmetic: the network, rounding in attention and sampling, the
  sampler's probabilities beyond zero and positive.
* The generator's state: which of the possible tokens a seed gives.
* Kernels below the level of rows: strides, warps, memory hierarchy. The
  flash-attn library (external).
* A forward pass that raises. Nothing in the code handles it.
* The memory of real steps. The profiling pass does not sample and has one
  context of its own length, so a step may need more than was measured.
* The tokenizer, the files' contents, downloads, fragmentation of GPU memory;
  benchmarks, scripts and examples.
* Statistics (`EngineStats`, hit counters), the `finished` list, and entries of
  `_seqs` that nobody reads.
* Hash collisions.

One fact about the configuration lies outside the models' constants:
`select_backend("auto")` asks only whether the machine has CUDA, not whether `device` is "cpu".

## 6. Plan

Done: all modules above, and the proofs of section 4, which cover every invariant
and action property that the passing runs check, and the refinements. What is left
to TLC is the liveness of section 3.
