--------------------------- MODULE MCBlockManager ---------------------------
(* BlockManager on a small pool, for TLC.                                     *)
EXTENDS BlockManager, TLC

CONSTANTS s1, s2, s3

MCPrompts  == {<<0, 0, 0>>, <<0, 0, 1>>}
MCChainPrompts == {<<0, 0, 0>>, <<1, 0, 0>>}
MCLongPrompts == {<<0, 0, 0>>, <<0, 1, 0, 0, 1>>}
MCTwoSeqs   == {s1, s2}
MCThreeSeqs == {s1, s2, s3}
SeqSymmetry == Permutations(Seqs)

\* Retain, written by rank, is the library's SelectSeq.
ASSUME RetainIsSelectSeq ==
    \A n \in 0..4 : \A q \in [1..n -> 1..3] : \A K \in SUBSET (1..3) :
        Retain(q, K) = SelectSeq(q, LAMBDA b : b \in K)
=============================================================================
