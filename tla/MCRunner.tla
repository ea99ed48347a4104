------------------------------ MODULE MCRunner ------------------------------
(* Runner on small pools, for TLC.                                           *)
EXTENDS Runner, TLC

CONSTANTS s1, s2, s3

MCThreeSeqs == {s1, s2, s3}
MCOnePrompt == {<<0, 0, 0>>}
MCTwoSeqs   == {s1, s2}
MCMixedPrompts == {<<0>>, <<0, 0, 0>>}

SeqSymmetry == Permutations({s2, s3})

\* Which tokens are likely depends on the length of the text and on its last
\* token: a close race, a clear stop, a clear 0.
MCWeights(text) ==
    LET n == (Len(text) + Last(text)) % 3
    IN  0 :> (IF n = 0 THEN 3 ELSE IF n = 1 THEN 1 ELSE 9)
     @@ 1 :> (IF n = 0 THEN 2 ELSE IF n = 1 THEN 9 ELSE 1)

\* The counts that stand for loops and sums are those.
ASSUME FlatIsAppended ==
    \A lengths \in BoundedSeq(0..3, 3) :
        /\ RowOrder(lengths) = FlattenSeq([i \in DOMAIN lengths |-> [j \in 1..lengths[i] |-> <<i, j>>]])
        /\ PrefixSums(lengths) = FoldLeft(LAMBDA cu, n : Append(cu, Last(cu) + n), <<0>>, lengths)
ASSUME MassIsSum ==
    \A w \in [1..3 -> 0..3] : \A S \in SUBSET (1..3) : Smp!Mass(w, S) = SumFunctionOnSet(w, S)

\* One greedy request beside two limited by top-p.
TopP     == [greedy |-> FALSE, top_k |-> -1, top_p |-> <<3, 4>>]
MCParams == s1 :> [greedy |-> TRUE, top_k |-> -1, top_p |-> <<1, 1>>] @@ s2 :> TopP @@ s3 :> TopP
=============================================================================
