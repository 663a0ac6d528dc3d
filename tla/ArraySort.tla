------------------------------ MODULE ArraySort ------------------------------
(***************************************************************************)
(* array_sort of src/src/edp_array.c: an in-place quicksort that puts the  *)
(* middle element last and uses it as the pivot.  It is not stable: where  *)
(* elements with equal keys end up depends on the swaps, so the swaps are  *)
(* what is modelled.  Indices start at 1.                                  *)
(***************************************************************************)
EXTENDS Naturals, Sequences, Functions

\* array_sort_swap.
Swap(s, i, j) == [s EXCEPT ![i] = s[j], ![j] = s[i]]

\* A mutant: the pivot is not moved back between the two parts.
Partition_PivotStaysLast(s, low, high, key) ==
  LET scan[i \in low .. high] ==
        IF i = low
        THEN [cells |-> Swap(s, (low + high) \div 2, high), mem |-> low]
        ELSE LET seen == scan[i - 1] IN
             IF key[seen.cells[i - 1]] < key[seen.cells[high]]
             THEN [cells |-> Swap(seen.cells, seen.mem, i - 1), mem |-> seen.mem + 1]
             ELSE seen
  IN  scan[high]

\* array_sort_partition: scan[i] is the array and mem before element i is compared.
Partition(s, low, high, key) ==
  LET scan[i \in low .. high] ==
        IF i = low
        THEN [cells |-> Swap(s, (low + high) \div 2, high), mem |-> low]
        ELSE LET seen == scan[i - 1] IN
             IF key[seen.cells[i - 1]] < key[seen.cells[high]]
             THEN [cells |-> Swap(seen.cells, seen.mem, i - 1), mem |-> seen.mem + 1]
             ELSE seen
      last == scan[high]
  IN  [cells |-> Swap(last.cells, last.mem, high), mem |-> last.mem]

\* The calls of array_sort_recurse: an arrangement of the elements, low and high.
Calls(s) == [1 .. Len(s) -> Range(s)] \X (1 .. Len(s) + 1) \X (0 .. Len(s))

\* array_sort_recurse over the elements from low to high.  SubSeq has TLC hold
\* the sequence as a tuple before elements are exchanged.
Sorted(s, low, high, key) ==
  LET sort[call \in Calls(s)] ==
        IF call[2] >= call[3] THEN call[1]
        ELSE LET split == Partition(call[1], call[2], call[3], key)
             IN  sort[<<sort[<<split.cells, call[2], split.mem - 1>>], split.mem + 1, call[3]>>]
  IN  sort[<<SubSeq(s, 1, Len(s)), low, high>>]

==============================================================================
