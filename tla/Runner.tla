------------------------------- MODULE Runner -------------------------------
(***************************************************************************)
(* The model runner (ModelRunner in src/pagedllm/engine.py) between the     *)
(* scheduler and the model: it flattens a batch into tensors, runs the      *)
(* forward pass on them, samples a token for every sequence whose last      *)
(* token was in the batch, and hands the tokens to Scheduler.update.        *)
(*                                                                          *)
(* Scheduler.tla writes the cache sequence by sequence and lets update      *)
(* take any token.  Here both go through the flat tensors, in which a wrong *)
(* offset mixes up sequences.  Row r of the code is entry r + 1 of a tensor. *)
(***************************************************************************)
EXTENDS Scheduler, FlatRows

CONSTANTS
    Weights(_),     \* text -> the network's output after it: token -> weight
    Params          \* temperature, top_k and top_p of the object a handle made

ASSUME VocabularyAssumption == IsFiniteSet(Tokens) /\ SampledTokens = Tokens
ASSUME WeightsAssumption    ==
    \A n \in 1..MaxModelLen : \A x \in [1..n -> Tokens] : Weights(x) \in [Tokens -> Nat]
ASSUME ParamsAssumption     ==
    \A s \in Seqs : /\ Params[s].greedy \in BOOLEAN /\ Params[s].top_k \in Int
                    /\ Params[s].top_p \in Nat \X Nat

VARIABLE sampled    \* what run returned and update has not read yet: handle -> token

runnerVars == <<vars, sampled>>

Att == INSTANCE Attention
Smp == INSTANCE Sampler

-----------------------------------------------------------------------------
(* build_inputs.                                                             *)

Items    == DOMAIN batch
Start(i) == computed[batch[i]]
Count(i) == num_new[batch[i]]
Lengths  == [i \in Items |-> Count(i)]

\* One entry per row, in the order of appending.
Flat(of(_, _)) ==
    LET order == RowOrder(Lengths)
    IN  [r \in DOMAIN order |-> of(order[r][1], order[r][2])]

InputIds     == Flat(LAMBDA i, j : tokens[batch[i]][Start(i) + j])
RowPositions == Flat(LAMBDA i, j : Start(i) + j - 1)

\* Fault: the offset in a block counts from the chunk's first token.
SlotsFromChunk ==
    Flat(LAMBDA i, j : LET x == Start(i) + j - 1
                       IN  table[batch[i]][x \div BlockSize + 1] * BlockSize + ((j - 1) % BlockSize))

\* BlockManager.slot_mapping: block_id * block_size + pos % block_size.
SlotMapping ==
    Flat(LAMBDA i, j : LET x == Start(i) + j - 1
                       IN  table[batch[i]][x \div BlockSize + 1] * BlockSize + (x % BlockSize))

\* cu: the offsets of the batch's sequences in the rows, and their number.
Cu == PrefixSums(Lengths)

Longest == CHOOSE n \in {Len(table[s]) : s \in Range(batch)} :
               \A s \in Range(batch) : Len(table[s]) <= n
Zeros(i) == [j \in 1..(Longest - Len(table[batch[i]])) |-> 0]

\* Fault: the tables are aligned at their ends.
PaddedInFront(i) == Zeros(i) \o table[batch[i]]

\* The padding of a table is block 0, which may be in use.
Padded(i) == table[batch[i]] \o Zeros(i)

Meta == [cu        |-> Cu,
         lens      |-> [i \in Items |-> Start(i) + Count(i)],
         tables    |-> [i \in Items |-> Padded(i)],
         max_q_len |-> Max({Count(i) : i \in Items})]

SampledItems == Retain([i \in Items |-> i], {i \in Items : NeedsSampling(batch[i])})

\* Fault: the first row of a sequence is sampled.
FirstRows == [k \in DOMAIN SampledItems |-> Cu[SampledItems[k]]]

LogitsIdx == [k \in DOMAIN SampledItems |-> Cu[SampledItems[k] + 1] - 1]

BuildInputs ==
    [ids |-> InputIds, positions |-> RowPositions, slots |-> SlotMapping, meta |-> Meta,
     logits |-> LogitsIdx,
     params |-> [k \in DOMAIN SampledItems |-> Params[sp[batch[SampledItems[k]]]]]]

-----------------------------------------------------------------------------
(* The forward pass on the tensors.                                          *)

Writers(in, slot) == {r \in DOMAIN in.slots : in.slots[r] = slot}
ItemOf(in, r)     == CHOOSE i \in DOMAIN in.meta.lens : r - 1 \in Att!RowsOf(in.meta, i)

\* The text that row r's output depends on: what the cache holds before the
\* item's first row, and the item's rows up to r.  It is Noise if a key that
\* attention reads is anything else, or is not there.
RowText(in, r) ==
    LET i       == ItemOf(in, r)
        first   == in.meta.cu[i] + 1
        pos     == in.positions[r]
        old     == in.positions[first]
        slot(k) == Att!SlotOf(in.meta, i, k)
        flat(k) == slot(k)[1] * BlockSize + slot(k)[2]
        memory(k) == AfterCopies[slot(k)[1]][slot(k)[2]]
        text    == (IF old = 0 THEN <<>> ELSE memory(old - 1)) \o SubSeq(in.ids, first, r)
        keys    == Att!ReferenceKeys(in.meta.lens[i], Att!NumQ(in.meta, i), r - first)
    IN  IF /\ keys = 0..pos
           /\ \A k \in keys :
                 IF k < old
                 THEN Writers(in, flat(k)) = {} /\ memory(k) = SubSeq(text, 1, k + 1)
                 ELSE Writers(in, flat(k)) = {first + k - old} /\ in.positions[first + k - old] = k
        THEN text ELSE Noise

\* KVCache.write for every row.  Which of two rows with one slot stays is not
\* defined; WritesExclusive excludes it.
Written(in) ==
    [b \in Blocks |-> [o \in Offsets |->
        LET writers == Writers(in, b * BlockSize + o)
        IN  IF writers = {} THEN AfterCopies[b][o]
            ELSE RowText(in, CHOOSE r \in writers : TRUE)]]

\* The logits of row r; those of Noise are arbitrary.
LogitRow(in, r) ==
    LET text == RowText(in, r)
    IN  IF text = Noise THEN [t \in Tokens |-> 1] ELSE Weights(text)

\* Logits are computed for the rows in logits_indices only.
LogitRows(in) == [k \in DOMAIN in.logits |-> LogitRow(in, in.logits[k] + 1)]

\* Fault: the tokens are handed out in reverse order.
ZippedBackwards(drawn) ==
    [s \in {batch[SampledItems[k]] : k \in DOMAIN SampledItems} |->
        drawn[Len(drawn) + 1 - (CHOOSE k \in DOMAIN SampledItems : batch[SampledItems[k]] = s)]]

\* zip(sampled_seqs, tokens)
Zipped(drawn) ==
    [s \in {batch[SampledItems[k]] : k \in DOMAIN SampledItems} |->
        drawn[CHOOSE k \in DOMAIN SampledItems : batch[SampledItems[k]] = s]]

\* ModelRunner.run on the batch that schedule made.
RunnerRun ==
    /\ ScheduleDone /\ batch # <<>>
    /\ TakePendingCopies
    /\ \E in \in {BuildInputs} :
          /\ kv' = Written(in)
          /\ IF in.params = <<>> THEN sampled' = <<>>
             ELSE \E rows \in {LogitRows(in)} : \E drawn \in Smp!Sample(rows, in.params) :
                     sampled' = Zipped(drawn)
    /\ at' = "update" /\ preempted' = {} /\ budget' = 0
    /\ UNCHANGED <<queueVars, todo, batch, requestVars>>

\* update, for a sequence that needed sampling.
UpdateSampled ==
    LET s == Head(batch)
    IN  /\ at = "update" /\ NeedsSampling(s)
        /\ UpdateToken(sampled[s]) \/ UpdateFinish(sampled[s])
        /\ sampled' = [u \in DOMAIN sampled \ {s} |-> sampled[u]]

-----------------------------------------------------------------------------
Schedule ==
    \/ StartStep
    \/ RunningDone \/ SkipRunning \/ ScheduleRunning
    \/ RunningExhausted \/ PreemptTail
    \/ AdmitWaiting \/ EmptyStep

RunnerStep ==
    \/ Schedule /\ UNCHANGED sampled
    \/ RunnerRun
    \/ UpdateChunk /\ UNCHANGED sampled
    \/ UpdateSampled

RunnerInit == Init /\ sampled = <<>>
RunnerNext == (Client /\ UNCHANGED sampled) \/ RunnerStep
RunnerSpec == RunnerInit /\ [][RunnerNext]_runnerVars

-----------------------------------------------------------------------------
\* Flattening and unflattening changes nothing: the forward pass through
\* slot_mapping and padded block tables does to the cache what Scheduler.tla
\* does to it sequence by sequence, for every batch that can be scheduled.
SchedulerSpec == Spec

\* In every batch that is run the three attention backends read the same keys
\* of the same slots for every row, whatever the tile sizes, and none of those
\* slots comes from the padding of a block table.
BackendsAgree ==
    ScheduleDone /\ batch # <<>> =>
        \A i \in Items :
            LET numQ == Att!NumQ(Meta, i)
                ctx  == Meta.lens[i]
                keys(q) == Att!ReferenceKeys(ctx, numQ, q)
            IN  /\ \A q \in 0..(numQ - 1) :
                      /\ \A M \in {1, 2, 4}, N \in {1, 2, 4} : Att!TritonKeys(ctx, numQ, q, M, N) = keys(q)
                      /\ Att!FlashKeys(Meta, i, q) = keys(q)
                /\ \A k \in 0..(ctx - 1) :
                      /\ Att!SlotOf(Meta, i, k) = Att!GatherKV(Meta, i)[k]
                      /\ Att!SlotOf(Meta, i, k) = Slot(batch[i], k)

\* The whole machine only ever does what a dense engine without cache, steps
\* and batches may do: each request is continued from its own text with a token
\* its own sampling parameters allow, and one that ends by itself ends at a stop
\* token or at its limit, no sooner and no later, and says which.
MayDraw(s, text) == Smp!Choices(Weights(text), Params[s])

Dense == INSTANCE DenseEngine WITH
    text   <- tokens,
    limit  <- [s \in Seqs |-> IF InUse(s) THEN Lower(prompt_len[s] + asked[s], MaxModelLen) ELSE 0],
    reason <- [s \in Seqs |-> IF InUse(s) THEN "LIVE" ELSE status[s]]

ImplementsDense == Dense!DenseSpec
=============================================================================
