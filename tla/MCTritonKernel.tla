--------------------------- MODULE MCTritonKernel ---------------------------
(* TritonKernel on small batches, for TLC.                                   *)
EXTENDS TritonKernel, TLC

\* A last chunk of three tokens beside a decode at the start of a block, and a
\* first token beside a chunk of two.  The first two share block 2; tables are
\* padded with block 0, which is in use.
MCBatches == {
    [cu |-> <<0, 3, 4>>, lens |-> <<6, 3>>, tables |-> <<<<2, 1, 4>>, <<2, 0, 0>>>>, max_q_len |-> 3],
    [cu |-> <<0, 1, 3>>, lens |-> <<1, 6>>, tables |-> <<<<3, 0, 0>>, <<1, 2, 0>>>>, max_q_len |-> 2]}

\* The scores of a row differ from those of the next row and of the other head;
\* some rise in the second tile of the first batch and some do not.
MCScores(b) ==
    LET base(c) == IF c[1] > 2 THEN 2 - c[2] ELSE IF c[1] = 2 THEN c[2] ELSE 1 - c[1]
    IN  {[rh \in Rows(b) \X Heads |-> [c \in Cells |-> (base(c) + rh[1] + 2 * rh[2]) % 3]]}

MCExp == [n \in 0..2 |-> 2 ^ n]

ASSUME TotalIsSum == \A w \in [1..3 -> 0..3] : Total(w) = SumFunction(w)

\* The GQA head mapping for the shapes the GPU tests use.
ASSUME HeadsMatch ==
    \A shape \in {<<8, 8>>, <<32, 8>>, <<32, 4>>} : \A h \in 0..(shape[1] - 1) :
        KvHead(h, shape[1], shape[2]) = RepeatedHead(h, shape[1] \div shape[2])
=============================================================================
