----------------------------- MODULE KeyValueMap -----------------------------
(***************************************************************************)
(* What the hash table of src/src/edp_hash_tbl.c promises: a map whose     *)
(* keys are set once, and the code each call returns.  A key that is       *)
(* present keeps the value it was first set to.                            *)
(***************************************************************************)
CONSTANTS Keys, Values, NoValue

VARIABLES
  map,     \* the value of each key, NoValue when it is absent
  args,    \* what the last call that returned was given: a key, a value to set
  result   \* what it returned

vars == <<map, args, result>>

Init == map = [k \in Keys |-> NoValue] /\ args = <<>> /\ result = "none"

Called(given, code) == args' = given /\ result' = code

Set(k, v) ==
  /\ Called(<<k, v>>, "none")
  /\ map[k] = NoValue
  /\ map' = [map EXCEPT ![k] = v]

Refuse(k, v) == Called(<<k, v>>, "again") /\ map[k] # NoValue /\ UNCHANGED map

OutOfMemory(k, v) == Called(<<k, v>>, "outOfMemory") /\ UNCHANGED map

Remove(k) ==
  /\ Called(<<k>>, "true")
  /\ map[k] # NoValue
  /\ map' = [map EXCEPT ![k] = NoValue]

Absent(k) == Called(<<k>>, "false") /\ map[k] = NoValue /\ UNCHANGED map

\* The map is emptied by its owner.
Clear == UNCHANGED <<args, result>> /\ map' = [k \in Keys |-> NoValue]

Next ==
  \/ Clear
  \/ \E k \in Keys : Remove(k) \/ Absent(k)
  \/ \E k \in Keys, v \in Values : Set(k, v) \/ Refuse(k, v) \/ OutOfMemory(k, v)

Spec == Init /\ [][Next]_vars

==============================================================================
