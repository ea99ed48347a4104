----------------------------- MODULE Attention -----------------------------
(***************************************************************************)
(* Which cached positions a query row attends to, and through which block   *)
(* of the table it finds them, in the three backends of                     *)
(* src/pagedllm/attention: the PyTorch reference, the Triton kernel and the *)
(* flash-attn wrapper.  Only the index arithmetic is here; TritonKernel.tla *)
(* runs the kernel's programs, Runner.tla uses the rows a batch gets.       *)
(*                                                                          *)
(* meta is an AttentionMetadata: cu (cu_seqlens_q), lens (seq_lens_k),      *)
(* tables (the padded block tables) and max_q_len.  Sequences of a batch    *)
(* count from 1; rows, positions, keys, tiles and heads from 0 as in the    *)
(* code.                                                                    *)
(***************************************************************************)
EXTENDS FlatRows, Functions

CONSTANT BlockSize

ASSUME BlockSizeAssumption == BlockSize \in Nat \ {0}

CDiv(a, b)    == (a + b - 1) \div b
Smaller(a, b) == IF a < b THEN a ELSE b
Larger(a, b)  == IF a < b THEN b ELSE a

BatchSeqs(meta) == 1..Len(meta.lens)
NumQ(meta, s)   == meta.cu[s + 1] - meta.cu[s]
RowsOf(meta, s) == meta.cu[s]..(meta.cu[s + 1] - 1)

\* Key position k of sequence s is row k % BlockSize of its block k // BlockSize.
SlotOf(meta, s, k) == <<meta.tables[s][k \div BlockSize + 1], k % BlockSize>>

-----------------------------------------------------------------------------
(* reference.py: gather the context, then mask.                              *)

\* gather_kv: the first ceil(L / BlockSize) blocks, flattened, cut to L rows.
GatherKV(meta, s) ==
    LET L      == meta.lens[s]
        blocks == SubSeq(meta.tables[s], 1, CDiv(L, BlockSize))
    IN  [k \in 0..(L - 1) |-> <<blocks[k \div BlockSize + 1], k % BlockSize>>]

\* The keys that are not masked for query i of numQ over a context of L.
ReferenceKeys(L, numQ, i) == {k \in 0..(L - 1) : ~(k > L - numQ + i)}

\* repeat_interleave(group): head h of the repeated tensor is the kv head whose
\* group of consecutive heads contains h.
RepeatedHead(h, group) == CHOOSE kv \in 0..h : h \in (kv * group)..(kv * group + group - 1)

-----------------------------------------------------------------------------
(* triton_kernel.py: query tiles of M rows walk the context in tiles of N.   *)

\* The wrapper's tile sizes.
BlockM(maxQ, headDim) == IF maxQ <= 16 THEN 16 ELSE IF headDim <= 64 THEN 64 ELSE 32
BlockN == Larger(16, Smaller(64, BlockSize))

QTiles(maxQ, M)       == 0..(CDiv(maxQ, M) - 1)
TileIdle(numQ, t, M)  == t * M >= numQ

\* Fault: padding rows have no position.
QueryPosOfRows(L, numQ, i) == IF i < numQ THEN L - numQ + i ELSE -1

QueryPos(L, numQ, i) == L - numQ + i
KvHead(head, heads, kvHeads) == head \div (heads \div kvHeads)

\* Keys this tile can see: up to its last row's position.
KvEnd(L, numQ, t, M) == Smaller(L, L - numQ + (t + 1) * M)

TileKeys(start, kvEnd, N) == {k \in start..(start + N - 1) : k < kvEnd}

VisibleKeys(L, numQ, i, keys) == {k \in keys : k <= QueryPos(L, numQ, i)}

\* All the keys that row i gets over the loop of the one tile it belongs to.
TritonKeys(L, numQ, i, M, N) ==
    LET end == KvEnd(L, numQ, i \div M, M)
    IN  UNION {VisibleKeys(L, numQ, i, TileKeys(n * N, end, N)) : n \in 0..(CDiv(end, N) - 1)}

-----------------------------------------------------------------------------
(* flash_backend.py: prefix sums of the context lengths go to flash-attn,    *)
(* whose causal mask is aligned to the end of the context.                   *)
CuSeqlensK(meta) == PrefixSums(meta.lens)

FlashKeys(meta, s, i) ==
    LET lenK == CuSeqlensK(meta)[s + 1] - CuSeqlensK(meta)[s]
    IN  {k \in 0..(lenK - 1) : k <= i + lenK - NumQ(meta, s)}
=============================================================================
