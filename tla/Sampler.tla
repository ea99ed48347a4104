------------------------------ MODULE Sampler ------------------------------
(***************************************************************************)
(* sample in src/pagedllm/sampler.py: one call draws a token for every row  *)
(* of a batch, each row with its own temperature, top-k and top-p.          *)
(*                                                                          *)
(* A row is a function from the vocabulary to weights: the exponentials of  *)
(* the logits divided by the row's temperature, so that softmax divides by  *)
(* their sum and a logit of -inf is a weight of 0.  A probability only      *)
(* matters as possible or not: a draw is the set of tokens it may give.     *)
(* params is a record: greedy (temperature below 1e-5), top_k and top_p, a  *)
(* fraction <<numerator, denominator>>.                                     *)
(***************************************************************************)
EXTENDS Integers, Sequences, FiniteSets, Functions

Best(w)    == {t \in DOMAIN w : \A u \in DOMAIN w : w[u] <= w[t]}
Support(w) == {t \in DOMAIN w : w[t] > 0}

\* The mass of the tokens in S, counted in units of weight.
Mass(w, S) == Cardinality(UNION {{t} \X (1..w[t]) : t \in S})

TopK(p, vocab)    == IF p.top_k > 0 THEN p.top_k ELSE vocab
Filters(p, vocab) == TopK(p, vocab) < vocab \/ p.top_p[1] < p.top_p[2]

\* logits / temps.clamp(min=1e-5): a greedy row keeps weight on its maxima only.
Scaled(w, p) ==
    IF p.greedy THEN [t \in DOMAIN w |-> IF t \in Best(w) THEN 1 ELSE 0] ELSE w

\* The descending sort may put equal weights in any order.
Rankings(w) ==
    {r \in [1..Cardinality(DOMAIN w) -> DOMAIN w] :
        IsInjective(r) /\ \A i, j \in DOMAIN r : i < j => w[r[i]] >= w[r[j]]}

\* The tokens that top-k and top-p leave: rank below k, and no more than top_p
\* of the mass before it.
Kept(w, p, r) ==
    {r[i] : i \in {i \in DOMAIN r :
        /\ i - 1 < TopK(p, Cardinality(DOMAIN w))
        /\ Mass(w, {r[j] : j \in 1..(i - 1)}) * p.top_p[2] <= p.top_p[1] * Mass(w, DOMAIN w)}}

Filtered(w, p) ==
    {[t \in DOMAIN w |-> IF t \in Kept(w, p, r) THEN w[t] ELSE 0] : r \in Rankings(w)}

\* Fault: the filters are those of the first row of the batch.
AnyFiltersFirst(rows, ps) == Filters(ps[1], Cardinality(DOMAIN rows[1]))

AnyFilters(rows, ps) == \E i \in DOMAIN ps : Filters(ps[i], Cardinality(DOMAIN rows[i]))
AllGreedy(ps)        == \A i \in DOMAIN ps : ps[i].greedy

\* The tokens row i of the batch may get.
Drawn(rows, ps, i) ==
    IF AllGreedy(ps) THEN Best(rows[i])
    ELSE LET scaled == Scaled(rows[i], ps[i])
             logits == IF AnyFilters(rows, ps) THEN Filtered(scaled, ps[i]) ELSE {scaled}
         IN  UNION {IF ps[i].greedy THEN Best(w) ELSE Support(w) : w \in logits}

\* The results a call may return.
Sample(rows, ps) ==
    {v \in [DOMAIN rows -> UNION {DOMAIN rows[i] : i \in DOMAIN rows}] :
        \A i \in DOMAIN rows : v[i] \in Drawn(rows, ps, i)}

-----------------------------------------------------------------------------
\* What one row may get, whatever it is batched with: a most likely token when
\* greedy; otherwise any token that fewer than k are likelier than, as long as
\* those hold no more than top_p of the mass.
Choices(w, p) ==
    IF p.greedy THEN Best(w)
    ELSE {t \in Support(w) :
            LET likelier == {u \in DOMAIN w : w[u] > w[t]}
            IN  /\ Cardinality(likelier) < TopK(p, Cardinality(DOMAIN w))
                /\ Mass(w, likelier) * p.top_p[2] <= p.top_p[1] * Mass(w, DOMAIN w)}
=============================================================================
