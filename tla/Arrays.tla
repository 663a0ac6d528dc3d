------------------------------- MODULE Arrays --------------------------------
(***************************************************************************)
(* The dynamic arrays of src/src/edp_array.c.  An array is its elements    *)
(* and the number of elements its block has room for.  What lies in the    *)
(* block after the last element is never read.                             *)
(***************************************************************************)
EXTENDS ArraySort, SequencesExt

CONSTANTS
  Arrs,         \* the arrays
  Elems, key,   \* the elements and the number the caller's comparison sorts by
  MinCapacity,  \* MIN_CAPACITY
  MaxReserve,   \* bound: the room one call of array_reserve asks for
  MaxAppend     \* bound: elements appended by one call

ASSUME ArraysAssumption ==
  /\ key \in [Elems -> Nat]
  /\ MinCapacity \in Nat \ {0} /\ {MaxReserve, MaxAppend} \subseteq Nat

VARIABLES arr    \* struct Array: count elements, capacity

NoData == [items |-> <<>>, capacity |-> 0]

Init == arr = [a \in Arrs |-> NoData]    \* array_init_size

count(a) == Len(arr[a].items)

Becomes(a, items, capacity) ==
  arr' = [arr EXCEPT ![a] = [items |-> items, capacity |-> capacity]]

\* array_realloc: the room after it, when one more element must fit.
Doubled(capacity) == IF capacity = 0 THEN MinCapacity ELSE capacity * 2
RoomForOneMore(a) == IF count(a) >= arr[a].capacity THEN Doubled(arr[a].capacity) ELSE arr[a].capacity

\* array_reserve: the room after it.
RoomFor(a, n) == IF arr[a].capacity < n THEN n ELSE arr[a].capacity

PushBack(a, v) == Becomes(a, Append(arr[a].items, v), RoomForOneMore(a))

PopBack(a) ==
  /\ count(a) > 0
  /\ Becomes(a, Front(arr[a].items), arr[a].capacity)

SetAt(a, i, v) ==
  /\ i <= count(a)
  /\ Becomes(a, [arr[a].items EXCEPT ![i] = v], arr[a].capacity)

\* The last element takes the place of the one that goes.
SwapAndPop(a, i) ==
  /\ i <= count(a)
  /\ Becomes(a, Front([arr[a].items EXCEPT ![i] = Last(arr[a].items)]), arr[a].capacity)

ShiftLeft(a, n) == Becomes(a, SubSeq(arr[a].items, n + 1, count(a)), arr[a].capacity)

\* array_clear, and array_clear_index_and_above.
ClearFrom(a, i) ==
  /\ i <= count(a)
  /\ Becomes(a, SubSeq(arr[a].items, 1, i), arr[a].capacity)

Reserve(a, n) == Becomes(a, arr[a].items, RoomFor(a, n))

\* A mutant: the elements are copied into a block that was not enlarged.
AppendAll_NoReserve(a, s) == Becomes(a, arr[a].items \o s, arr[a].capacity)

\* array_append.
AppendAll(a, s) == Becomes(a, arr[a].items \o s, RoomFor(a, count(a) + Len(s)))

\* array_append_array: the elements are copied behind the last one, and the
\* count stays as it was.
AppendArray(a, b) == Becomes(a, arr[a].items, RoomFor(a, count(a) + count(b)))

\* array_sort: an element for the swaps is pushed, and popped at the end.
Sort(a) == Becomes(a, Sorted(arr[a].items, 1, count(a), key), RoomForOneMore(a))

\* A mutant: the elements also stay where they were.
TakeOwnership_Copies(a, b) == arr' = [arr EXCEPT ![a] = arr[b]]

\* array_take_ownership: what a had is forgotten.
TakeOwnership(a, b) == arr' = [arr EXCEPT ![a] = arr[b], ![b] = NoData]

Deinit(a) == arr' = [arr EXCEPT ![a] = NoData]

\* malloc may fail in every call that asks for room: nothing changes.
Next ==
  \/ \E a \in Arrs, v \in Elems : PushBack(a, v)
  \/ \E a \in Arrs : PopBack(a) \/ Sort(a) \/ Deinit(a)
  \/ \E a \in Arrs : \E i \in 1 .. count(a) : SwapAndPop(a, i) \/ \E v \in Elems : SetAt(a, i, v)
  \/ \E a \in Arrs : \E n \in 0 .. count(a) : ShiftLeft(a, n) \/ ClearFrom(a, n)
  \/ \E a \in Arrs, n \in 0 .. MaxReserve : Reserve(a, n)
  \/ \E a \in Arrs, s \in BoundedSeq(Elems, MaxAppend) : AppendAll(a, s)
  \/ \E a, b \in Arrs : a # b /\ (AppendArray(a, b) \/ TakeOwnership(a, b))

Spec == Init /\ [][Next]_arr

(***************************************************************************)
(* Properties                                                              *)
(***************************************************************************)
\* An array never has more elements than its block has room for, through every
\* mixture of doubling (push) and exact growth (append, reserve).
TypeOK ==
  \A a \in Arrs : arr[a].items \in Seq(Elems) /\ count(a) <= arr[a].capacity

\* t holds the elements of s, each as often, in the order of their keys.
SortOf(t, s) ==
  /\ \A i \in 1 .. Len(t) - 1 : key[t[i]] <= key[t[i + 1]]
  /\ Len(t) = Len(s)
  /\ \A v \in Elems : Cardinality({i \in DOMAIN t : t[i] = v}) = Cardinality({i \in DOMAIN s : s[i] = v})

\* array_sort sorts: it loses, doubles and misplaces no element, whatever the
\* pivots, also among equal keys.
SortOrders == [][\A a \in Arrs : Sort(a) => SortOf(arr'[a].items, arr[a].items)]_arr

==============================================================================
