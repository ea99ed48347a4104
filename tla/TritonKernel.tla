---------------------------- MODULE TritonKernel ----------------------------
(***************************************************************************)
(* One launch of the Triton paged-attention kernel                          *)
(* (src/pagedllm/attention/triton_kernel.py): a grid of programs, one per   *)
(* query tile, head and sequence, that run concurrently and share the       *)
(* output tensor.  Each keeps the online softmax of its rows.               *)
(*                                                                          *)
(* Numbers.  The score of a row and head of Q against a cell of the cache is  *)
(* a member of 0..MaxScore, exp is any function that turns sums into         *)
(* products (the algebra of the algorithm needs no more), and sums carry the *)
(* factor Exp[MaxScore], which makes every one of them an exact integer.  A  *)
(* value row is kept formally: acc maps a cell to its coefficient.           *)
(***************************************************************************)
EXTENDS Attention, FiniteSetsExt

CONSTANTS
    TileM, TileN,           \* BLOCK_M, BLOCK_N
    NumHeads, NumKvHeads,
    Batches,                \* the AttentionMetadata a launch may get
    NumBlocks,              \* blocks of the cache
    MaxScore,
    Exp,
    Scores(_)               \* the scores that a launch on a batch may meet

ASSUME TileAssumption  == {TileM, TileN, NumHeads, NumKvHeads, NumBlocks} \subseteq Nat \ {0}
ASSUME HeadsAssumption == NumHeads % NumKvHeads = 0

\* What build_inputs makes: offsets that grow by at least a row per sequence, no
\* more new rows than context, and tables that reach the end of it.
ASSUME BatchesAssumption ==
    \A b \in Batches :
        /\ b.lens \in Seq(Nat \ {0}) /\ b.max_q_len \in Nat
        /\ b.cu \in [1..(Len(b.lens) + 1) -> Nat] /\ b.cu[1] = 0
        /\ \A s, t \in DOMAIN b.cu : s < t => b.cu[s] < b.cu[t]
        /\ \A s \in BatchSeqs(b) :
              /\ NumQ(b, s) <= b.lens[s] /\ NumQ(b, s) <= b.max_q_len
              /\ b.tables[s] \in Seq(0..(NumBlocks - 1)) /\ Len(b.tables[s]) >= CDiv(b.lens[s], BlockSize)

ASSUME ExpAssumption ==
    /\ MaxScore \in Nat /\ Exp \in [0..MaxScore -> Nat \ {0}]
    /\ \A a, b \in 0..MaxScore : a + b <= MaxScore => Exp[a + b] = Exp[a] * Exp[b]

VARIABLES
    meta,       \* the launch's metadata
    score,      \* scores of Q: <<row, head>> -> cell -> 0..MaxScore
    prog,       \* per program: at, start (start_n), m, l, acc (per row of the tile)
    out         \* Out: <<row, head>> -> value

kernelVars == <<meta, score, prog, out>>

NegInf    == -1
NaN       == -1
Lanes     == 0..(TileM - 1)
Heads     == 0..(NumHeads - 1)
Cells     == (0..(NumBlocks - 1)) \X (0..(BlockSize - 1)) \X (0..(NumKvHeads - 1))
Grid(b)   == QTiles(b.max_q_len, TileM) \X Heads \X BatchSeqs(b)
Rows(b)   == 0..(b.cu[Len(b.lens) + 1] - 1)
Programs  == Grid(meta)

\* Whatever Q holds: every row scores for every head as it will.
ASSUME ScoresAssumption ==
    \A b \in Batches : Scores(b) \subseteq [Rows(b) \X Heads -> [Cells -> 0..MaxScore]]

Undefined == [num |-> [c \in Cells |-> 0], den |-> 0]     \* torch.empty_like

\* The program's own numbers.
Tile(p) == p[1]
QHead(p) == p[2]
L(p)    == meta.lens[p[3]]
NQ(p)   == NumQ(meta, p[3])
End(p)  == KvEnd(L(p), NQ(p), Tile(p), TileM)
Query(p, i) == Tile(p) * TileM + i                        \* offs_m
Cell(p, k)  == LET slot == SlotOf(meta, p[3], k)
               IN  <<slot[1], slot[2], KvHead(QHead(p), NumHeads, NumKvHeads)>>

Fresh == [at |-> "new", start |-> 0,
          m   |-> [i \in Lanes |-> NegInf],
          l   |-> [i \in Lanes |-> 0],
          acc |-> [i \in Lanes |-> [c \in Cells |-> 0]]]

Programs0(b) == [p \in Grid(b) |-> Fresh]
Output0(b)   == [rh \in Rows(b) \X Heads |-> Undefined]

KernelInit ==
    /\ meta \in Batches /\ score \in Scores(meta)
    /\ prog = Programs0(meta)
    /\ out  = Output0(meta)

-----------------------------------------------------------------------------
\* A tile beyond the sequence's queries returns at once.
Begin(p) ==
    /\ prog[p].at = "new"
    /\ prog' = [prog EXCEPT ![p].at = IF TileIdle(NQ(p), Tile(p), TileM) THEN "done" ELSE "loop"]
    /\ UNCHANGED <<meta, score, out>>

\* Fault: the rows of Q are counted from the sequence's own first.
QueryOfSeq(p, i) == <<Query(p, i), QHead(p)>>

\* The row and head of Q that q_ptrs points to.
QueryOf(p, i) == <<meta.cu[p[3]] + Query(p, i), QHead(p)>>

\* Padding rows load a zero query.
QK(p, i, k) == IF Query(p, i) < NQ(p) THEN score[QueryOf(p, i)][Cell(p, k)] ELSE 0

Seen(p, i) == VisibleKeys(L(p), NQ(p), Query(p, i), TileKeys(prog[p].start, End(p), TileN))

NewMax(p, i) == Max({prog[p].m[i]} \cup {QK(p, i, k) : k \in Seen(p, i)})

\* Fault: what was accumulated under the old maximum is not rescaled.
NotRescaled(p, i, x) == x

\* alpha = exp(m_i - m_new) times x; an empty maximum gives exp(-inf) = 0.
Rescaled(p, i, x) ==
    IF prog[p].m[i] = NegInf THEN 0 ELSE x \div Exp[NewMax(p, i) - prog[p].m[i]]

\* p = exp(qk - m_new)
Weight(p, i, k) == Exp[MaxScore + QK(p, i, k) - NewMax(p, i)]
WeightOf(p, i, keys) == Total([k \in keys |-> Weight(p, i, k)])

\* One iteration over a tile of keys.  A row that has seen no key by now takes
\* exp(-inf - -inf).
Accumulate(p) ==
    /\ prog[p].at = "loop" /\ prog[p].start < End(p)
    /\ prog' = [prog EXCEPT
         ![p].start = @ + TileN,
         ![p].m   = [i \in Lanes |-> NewMax(p, i)],
         ![p].l   = [i \in Lanes |->
                        IF NewMax(p, i) = NegInf \/ @[i] = NaN THEN NaN
                        ELSE Rescaled(p, i, @[i]) + WeightOf(p, i, Seen(p, i))],
         ![p].acc = [i \in Lanes |-> [c \in Cells |->
                        Rescaled(p, i, @[i][c])
                        + WeightOf(p, i, {k \in Seen(p, i) : Cell(p, k) = c})]]]
    /\ UNCHANGED <<meta, score, out>>

\* Fault: padding rows are stored too.
StoresEveryLane(p) == Lanes

StoredLanes(p) == {i \in Lanes : Query(p, i) < NQ(p)}

Store(p) ==
    /\ prog[p].at = "loop" /\ prog[p].start >= End(p)
    /\ out' = [rh \in DOMAIN out |->
                  LET i == rh[1] - meta.cu[p[3]] - Tile(p) * TileM
                  IN  IF rh[2] = QHead(p) /\ i \in StoredLanes(p)
                      THEN [num |-> prog[p].acc[i], den |-> prog[p].l[i]]
                      ELSE out[rh]]
    /\ prog' = [prog EXCEPT ![p] = [Fresh EXCEPT !.at = "done"]]
    /\ UNCHANGED <<meta, score>>

Finished == \A p \in Programs : prog[p].at = "done"

\* The next layer or step launches the kernel again.
Relaunch ==
    /\ Finished
    /\ \E b \in Batches :
          /\ meta' = b /\ score' \in Scores(b)
          /\ prog' = Programs0(b)
          /\ out'  = Output0(b)

KernelNext ==
    \/ \E p \in Programs : Begin(p)
    \/ \E p \in Programs : Accumulate(p)
    \/ \E p \in Programs : Store(p)
    \/ Relaunch

KernelSpec == KernelInit /\ [][KernelNext]_kernelVars

-----------------------------------------------------------------------------
\* The reference's result for query i of sequence s, sliced out of Q, and head h:
\* softmax over the gathered keys.
Reference(s, i, h) ==
    LET keys    == ReferenceKeys(meta.lens[s], NumQ(meta, s), i)
        cell(k) == LET slot == GatherKV(meta, s)[k]
                   IN  <<slot[1], slot[2], RepeatedHead(h, NumHeads \div NumKvHeads)>>
        query   == <<meta.cu[s] + i, h>>
        sum(ks) == Total([k \in ks |-> Exp[score[query][cell(k)]]])
    IN  [num |-> [c \in Cells |-> sum({k \in keys : cell(k) = c})], den |-> sum(keys)]

SameValue(a, b) ==
    /\ a.den > 0 /\ b.den > 0
    /\ \A c \in Cells : a.num[c] * b.den = b.num[c] * a.den

\* When the grid has run, in whatever order its programs ran, every row of every
\* head is what the reference computes: that row's own query against all keys up
\* to its position, each once, none through a padding entry of the block table.
KernelMatchesReference ==
    Finished =>
        \A s \in BatchSeqs(meta), h \in Heads : \A r \in RowsOf(meta, s) :
            SameValue(out[<<r, h>>], Reference(s, r - meta.cu[s], h))

\* After the first tile of keys no row, padding rows included, is without a
\* maximum: exp(-inf - -inf) never happens (the comment at lines 56-57).
NoNaN ==
    \A p \in Programs : prog[p].start > 0 =>
        \A i \in Lanes : prog[p].m[i] # NegInf /\ prog[p].l[i] > 0

\* The programs write disjoint rows: what one has stored no other changes.
RowsWrittenOnce ==
    [][~Finished => \A rh \in DOMAIN out : out[rh] # Undefined => out'[rh] = out[rh]]_kernelVars
=============================================================================
