---------------------------- MODULE MCScheduler ----------------------------
(* Scheduler on small pools, for TLC.                                        *)
EXTENDS Scheduler, TLC

CONSTANTS s1, s2, s3

MCPrompts     == {<<0, 0, 0>>, <<0, 0, 1>>}
MCShortPrompt  == {<<0, 0>>}
MCTwoSeqs     == {s1, s2}
MCThreeSeqs   == {s1, s2, s3}
SeqSymmetry   == Permutations(Seqs)
=============================================================================
