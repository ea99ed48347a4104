------------------------------ MODULE LruQueue ------------------------------
(***************************************************************************)
(* The free queue of src/pagedllm/block_manager.py is a Python             *)
(* OrderedDict: a set of block ids with an insertion order.  It is modelled *)
(* as a sequence without duplicates, head = next victim.  Taking an         *)
(* element out of the middle keeps the order of the others.                 *)
(*                                                                          *)
(* Retain is written by rank, not by recursion, so that its laws can be     *)
(* proved for sequences of every length (see BlockManagerProofs).           *)
(***************************************************************************)
EXTENDS Integers, FiniteSets, SequencesExt

\* How many members of the index set I are at or before i.
Rank(I, i) == Cardinality({k \in I : k <= i})

\* The j-th smallest member of I.
Nth(I, j) == CHOOSE i \in I : Rank(I, i) = j

\* The positions of q that hold a member of K.
Positions(q, K) == {i \in DOMAIN q : q[i] \in K}

\* The subsequence of q that keeps exactly the members of K, in q's order.
Retain(q, K) ==
    LET I == Positions(q, K)
    IN  [j \in 1..Cardinality(I) |-> q[Nth(I, j)]]

\* q after the members of K are deleted one by one: del self._free[block_id].
Without(q, K) == Retain(q, Range(q) \ K)
=============================================================================
