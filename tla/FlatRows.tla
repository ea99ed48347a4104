------------------------------ MODULE FlatRows ------------------------------
(***************************************************************************)
(* A batch is flattened by appending, item by item, the item's rows to one  *)
(* list, and the offset at which each item begins to another (build_inputs  *)
(* in src/pagedllm/engine.py).  lengths is the number of rows of each item; *)
(* row j of item i is the pair <<i, j>>.                                    *)
(*                                                                          *)
(* Both lists are given by counting and not by recursion, so that what they *)
(* hold can be proved for batches of every size; MCRunner compares them     *)
(* with the loops.                                                          *)
(***************************************************************************)
EXTENDS Integers, Sequences, FiniteSets

RowsOfItems(lengths) == UNION {{i} \X (1..lengths[i]) : i \in DOMAIN lengths}

\* row is appended before other.
AppendedBefore(row, other) ==
    row[1] < other[1] \/ (row[1] = other[1] /\ row[2] < other[2])

\* The rows in the order in which they are appended.
RowOrder(lengths) ==
    LET rows == RowsOfItems(lengths)
        before(row) == {other \in rows : AppendedBefore(other, row)}
    IN  [r \in 1..Cardinality(rows) |-> CHOOSE row \in rows : Cardinality(before(row)) = r - 1]

\* [0], then each item's end: the last entry plus the item's length.
PrefixSums(lengths) ==
    [i \in 1..(Len(lengths) + 1) |-> Cardinality({row \in RowsOfItems(lengths) : row[1] < i})]

\* The sum of the lengths.
Total(lengths) == Cardinality(RowsOfItems(lengths))
=============================================================================
