------------------------------ MODULE MCHashTbl ------------------------------
(* HashTbl with keys and values as model values.  Keys of one kind are      *)
(* interchangeable: the initial states hold every hash function.            *)
EXTENDS HashTbl, TLC

CONSTANTS k1, k2, k3, k4, k5, v1, v2

ThreeKeys == {k1, k2, k3}
FourKeys == {k1, k2, k3, k4}
FiveKeys == {k1, k2, k3, k4, k5}
TwoValues == {v1, v2}

\* 0 and 4 meet at capacity 4, 0 and 8 also at capacity 8.
SmallHashes == 0 .. 4
SpreadHashes == {0, 1, 4, 8}

NoKeys == {}
OneKey == {k4}

Symmetry == Permutations(IntKeys) \cup Permutations(Keys \ IntKeys) \cup Permutations(Values)

\* What later calls depend on.  Which call was the last one is only compared
\* with what that call did, and every call is taken from every view.
TableView == <<hashOf, tbl, hung>>

==============================================================================
