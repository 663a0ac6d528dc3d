------------------------------- MODULE HashTbl -------------------------------
(***************************************************************************)
(* The hash table of src/src/edp_hash_tbl.c: one array of entries, chains  *)
(* threaded through it, and a free index that only looks upwards (the      *)
(* scatter table of Lua).  Keys are abstracted to names with a hash; some  *)
(* of them are integers, the others strings.                               *)
(***************************************************************************)
EXTENDS Naturals, Sequences, SequencesExt, Functions

CONSTANTS
  Keys, Values,
  IntKeys,      \* the keys that are integers
  Hashes,       \* bound: the hash values keys may have
  MinCapacity,  \* MIN_CAPACITY
  MaxCapacity,  \* bound: malloc gives no array larger than this
  Removing,     \* whether the users of the table call tbl_remove
  Terminated    \* whether they pass NUL-terminated keys, or slices of a text

NoKey == "no key"
NoValue == "no value"

Invalid == 2147483647    \* NEXT_INVALID, FREE_INDEX_INVALID

ASSUME HashTblAssumption ==
  /\ NoKey \notin Keys /\ NoValue \notin Values /\ IntKeys \subseteq Keys
  /\ Hashes \subseteq Nat
  /\ MaxCapacity \in 1 .. Invalid /\ MinCapacity \in 1 .. MaxCapacity
  /\ {Removing, Terminated} \subseteq BOOLEAN

VARIABLES
  hashOf,  \* the hash function: fixed, and any
  tbl,     \* struct HashTbl: capacity, freeIndex, data
  args,    \* what the last call that returned was given: a key, a value to set
  result,  \* what it returned
  hung     \* whether a call is in a loop it cannot leave

vars == <<hashOf, tbl, args, result, hung>>

Empty == [key |-> NoKey, value |-> NoValue, hash |-> 0, next |-> Invalid]

\* ent_is_empty: no key with a hash of 0 is the integer 0 (hash_int64 adds 1).
IsEmpty(e) == e.key = NoKey

Slots(t) == 0 .. t.capacity - 1

\* An empty table of some capacity: calloc'd entries that link to nothing.
Fresh(n) == [capacity |-> n, freeIndex |-> 0, data |-> [i \in 0 .. n - 1 |-> Empty]]

MainPos(t, hash) == hash % t.capacity    \* hash & capMinusOne

\* The slots met from slot p along next, the last one repeated.
Chain(t, p) ==
  LET succ == [i \in Slots(t) |-> IF t.data[i].next = Invalid THEN i ELSE t.data[i].next]
      walk[n \in 1 .. t.capacity] == IF n = 1 THEN p ELSE succ[walk[n - 1]]
  IN  walk

LastOf(t, p) == Chain(t, p)[t.capacity]
BeforeIn(t, p, slot) == CHOOSE q \in Range(Chain(t, p)) : t.data[q].next = slot

\* A mutant: the free index moves on by one, empty or not.
Advanced_ByOne(t) == IF t.freeIndex + 1 = t.capacity THEN Invalid ELSE t.freeIndex + 1

\* A mutant: past the last slot the free index is the capacity.
Advanced_NoEnd(t) ==
  LET later == {i \in Slots(t) : i > t.freeIndex /\ IsEmpty(t.data[i])}
  IN  IF later = {} THEN t.capacity ELSE Min(later)

\* tbl_advance_free_index: the next empty slot upwards, never downwards.
Advanced(t) ==
  LET later == {i \in Slots(t) : i > t.freeIndex /\ IsEmpty(t.data[i])}
  IN  IF later = {} THEN Invalid ELSE Min(later)

Store(e, next) == [key |-> e.key, value |-> e.value, hash |-> e.hash, next |-> next]

\* A mutant: the free index advances although another slot was taken.
PutHere_Advances(t, e, pos) ==
  [t EXCEPT !.data[pos] = Store(e, @.next), !.freeIndex = Advanced(t)]

\* The slot is empty: the entry goes there.
PutHere(t, e, pos) ==
  [t EXCEPT !.data[pos] = Store(e, @.next),
            !.freeIndex = IF pos = @ THEN Advanced(t) ELSE @]

\* The slot holds an entry of another chain: it moves to the free slot, its
\* chain follows, and the new entry starts a chain of its own.
PutEvicting(t, e, pos) ==
  LET before == BeforeIn(t, MainPos(t, t.data[pos].hash), pos)
      moved  == [t EXCEPT !.data[t.freeIndex] = t.data[pos],
                          !.data[before].next = t.freeIndex]
  IN  [moved EXCEPT !.data[pos] = Store(e, Invalid), !.freeIndex = Advanced(t)]

\* The slot heads the entry's own chain: the entry goes to the free slot and
\* the chain ends there.
PutLast(t, e, pos) ==
  [t EXCEPT !.data[LastOf(t, pos)].next = t.freeIndex,
            !.data[t.freeIndex] = Store(e, @.next),
            !.freeIndex = Advanced(t)]

\* The three ways of placing an entry, in tbl_set_impl and in tbl_realloc.
Put(t, e) ==
  LET pos == MainPos(t, e.hash) IN
  CASE IsEmpty(t.data[pos]) -> PutHere(t, e, pos)
    [] ~IsEmpty(t.data[pos]) /\ MainPos(t, t.data[pos].hash) # pos -> PutEvicting(t, e, pos)
    [] OTHER -> PutLast(t, e, pos)

\* A mutant: the last entry of the old array is not moved.
Realloc_SkipsLast(t) ==
  LET moved[i \in 0 .. t.capacity] ==
        IF i = 0 THEN Fresh(2 * t.capacity) ELSE Put(moved[i - 1], t.data[i - 1])
  IN  moved[t.capacity - 1]

\* tbl_realloc: every entry of the old array, the empty ones as well, is placed
\* in an array twice the size.
Realloc(t) ==
  LET moved[i \in 0 .. t.capacity] ==
        IF i = 0 THEN Fresh(2 * t.capacity) ELSE Put(moved[i - 1], t.data[i - 1])
  IN  moved[t.capacity]

\* ent_is_int_key(ent) == isIntKey.
SameKind(e, k) == e.key \in IntKeys <=> k \in IntKeys

\* strcmp compares past the caller's length: a slice is equal to no key.
SameKey(e, k) == e.key = k /\ (Terminated \/ k \in IntKeys)

\* The slots of k's chain, none when its main position heads another chain.
ChainOf(t, k) ==
  LET pos == MainPos(t, hashOf[k]) IN
  IF t.capacity = 0 \/ IsEmpty(t.data[pos]) \/ MainPos(t, t.data[pos].hash) # pos
  THEN <<>> ELSE Chain(t, pos)

Found(t, k) == \E i \in Range(ChainOf(t, k)) : SameKey(t.data[i], k)

\* tbl_get_impl (strncmp): the value in the first entry of the chain with the key.
Lookup(t, k) ==
  LET chain == ChainOf(t, k)
      hit   == SelectInSeq(chain, LAMBDA i : t.data[i].key = k)
  IN  IF hit = 0 THEN NoValue ELSE t.data[chain[hit]].value

(***************************************************************************)
(* Actions                                                                 *)
(***************************************************************************)
Init ==    \* tbl_init: no array yet
  /\ hashOf \in [Keys -> Hashes]
  /\ tbl = Fresh(0)
  /\ args = <<>> /\ result = "none" /\ hung = FALSE

\* The table tbl_set_impl works on.
Allocated == IF tbl.capacity = 0 THEN Fresh(MinCapacity) ELSE tbl

\* Whether the slot is taken and no free slot is known.
IsFull(t, k) == ~IsEmpty(t.data[MainPos(t, hashOf[k])]) /\ t.freeIndex = Invalid

SetIn(t, k, v) ==
  \/ Found(t, k) /\ tbl' = t /\ result' = "again"
  \/ /\ ~Found(t, k)
     /\ tbl' = Put(t, [key |-> k, value |-> v, hash |-> hashOf[k], next |-> Invalid])
     /\ result' = "none"

SetFits(k, v) ==
  /\ ~IsFull(Allocated, k)
  /\ SetIn(Allocated, k, v)
  /\ args' = <<k, v>>
  /\ UNCHANGED <<hashOf, hung>>

\* No free slot is known: the array is doubled and the call starts over.
SetGrows(k, v) ==
  /\ IsFull(Allocated, k)
  /\ 2 * tbl.capacity <= MaxCapacity
  /\ SetIn(Realloc(tbl), k, v)
  /\ args' = <<k, v>>
  /\ UNCHANGED <<hashOf, hung>>

\* malloc fails, for the first array or for a larger one.
SetFails(k, v) ==
  /\ tbl.capacity > 0 => IsFull(tbl, k)
  /\ args' = <<k, v>> /\ result' = "outOfMemory"
  /\ UNCHANGED <<hashOf, tbl, hung>>

\* The slot where tbl_remove_impl first meets k's hash and kind, or Invalid.
FirstHit(t, k) ==
  LET chain == ChainOf(t, k)
      hit   == SelectInSeq(chain, LAMBDA i : t.data[i].hash = hashOf[k] /\ SameKind(t.data[i], k))
  IN  IF hit = 0 THEN Invalid ELSE chain[hit]

RemoveAbsent(k) ==
  /\ FirstHit(tbl, k) = Invalid
  /\ args' = <<k>> /\ result' = "false"
  /\ UNCHANGED <<hashOf, tbl, hung>>

\* An entry of the same hash and kind, and another key: "continue" repeats the test.
RemoveHangs(k) ==
  /\ FirstHit(tbl, k) # Invalid
  /\ ~SameKey(tbl.data[FirstHit(tbl, k)], k)
  /\ hung' = TRUE
  /\ UNCHANGED <<hashOf, tbl, args, result>>

LowerFree(i) == IF tbl.freeIndex > i THEN i ELSE tbl.freeIndex

\* A mutant: the predecessor still links to the slot that is freed.
Unlink_NoFix(head, slot) == [tbl EXCEPT !.data[slot] = Empty, !.freeIndex = LowerFree(slot)]

\* prev -> cur -> next becomes prev -> next.
Unlink(head, slot) ==
  [tbl EXCEPT !.data[BeforeIn(tbl, head, slot)].next = tbl.data[slot].next,
              !.data[slot] = Empty,
              !.freeIndex = LowerFree(slot)]

\* A mutant: the second entry is not moved to the head's slot.
PullUp_NoCopy(slot) == [tbl EXCEPT !.data[slot] = Empty, !.freeIndex = LowerFree(slot)]

\* The head of a longer chain: the second entry moves to its slot.
PullUp(slot) ==
  LET second == tbl.data[slot].next IN
  [tbl EXCEPT !.data[slot] = tbl.data[second],
              !.data[second] = Empty,
              !.freeIndex = LowerFree(second)]

\* The only entry of its chain: the free index is not lowered.
Clear(slot) == [tbl EXCEPT !.data[slot] = Empty]

RemoveFound(k) ==
  /\ FirstHit(tbl, k) # Invalid
  /\ SameKey(tbl.data[FirstHit(tbl, k)], k)
  /\ LET head == MainPos(tbl, hashOf[k])
         slot == FirstHit(tbl, k)
     IN  \/ slot # head /\ tbl' = Unlink(head, slot)
         \/ slot = head /\ tbl.data[head].next # Invalid /\ tbl' = PullUp(head)
         \/ slot = head /\ tbl.data[head].next = Invalid /\ tbl' = Clear(head)
  /\ args' = <<k>> /\ result' = "true"
  /\ UNCHANGED <<hashOf, hung>>

\* tbl_deinit: the keys and the array are freed.
Deinit ==
  /\ tbl.capacity > 0
  /\ tbl' = Fresh(0)
  /\ UNCHANGED <<hashOf, args, result, hung>>

Next ==
  /\ ~hung
  /\ \/ Deinit
     \/ \E k \in Keys, v \in Values : SetFits(k, v) \/ SetGrows(k, v) \/ SetFails(k, v)
     \/ Removing /\ \E k \in Keys : RemoveAbsent(k) \/ RemoveHangs(k) \/ RemoveFound(k)

Spec == Init /\ [][Next]_vars

(***************************************************************************)
(* Properties                                                              *)
(***************************************************************************)
TypeOK ==
  /\ hashOf \in [Keys -> Hashes]
  /\ tbl.capacity \in 0 .. MaxCapacity
  /\ tbl.freeIndex \in Slots(tbl) \cup {0, Invalid}
  /\ DOMAIN tbl.data = Slots(tbl)
  /\ \A i \in Slots(tbl) :
       /\ tbl.data[i].key \in Keys \cup {NoKey}
       /\ tbl.data[i].value \in Values \cup {NoValue}
       /\ tbl.data[i].next \in Slots(tbl) \cup {Invalid}
  /\ args \in {<<>>} \cup {<<k>> : k \in Keys} \cup (Keys \X Values)
  /\ result \in {"none", "again", "outOfMemory", "true", "false"}
  /\ hung \in BOOLEAN

Occupied(t) == {i \in Slots(t) : ~IsEmpty(t.data[i])}

\* The chains partition the entries: an entry lies on the chain that starts at
\* its main position, a chain holds entries of its main position only, it ends,
\* and an empty slot is on no chain.
WellLinked ==
  \A i \in Occupied(tbl) :
    LET head == MainPos(tbl, tbl.data[i].hash) IN
    /\ i \in Range(Chain(tbl, head))
    /\ tbl.data[LastOf(tbl, head)].next = Invalid
    /\ \A j \in Range(Chain(tbl, head)) :
         ~IsEmpty(tbl.data[j]) /\ MainPos(tbl, tbl.data[j].hash) = head

\* "If we reach here, there are no free spaces left in the hash table"
\* (tbl_set_impl, before tbl_realloc): an invalid free index means a full array.
NoFreeSpacesLeft ==
  tbl.capacity > 0 /\ tbl.freeIndex = Invalid => Occupied(tbl) = Slots(tbl)

\* A valid free index names an empty slot: what is stored there overwrites nothing.
FreeIndexIsFree == tbl.freeIndex \in Slots(tbl) => IsEmpty(tbl.data[tbl.freeIndex])

\* "Check if we already have this key in the table, and abort if so"
\* (tbl_set_impl): no key is in two entries.
KeysUnique ==
  \A i, j \in Occupied(tbl) : tbl.data[i].key = tbl.data[j].key => i = j

\* The table is a map: after any calls, a get of any key returns the value the
\* key was set to, through evictions, reallocations and removals.
Contents == [k \in Keys |-> Lookup(tbl, k)]

Map == INSTANCE KeyValueMap WITH map <- Contents

ImplementsMap == Map!Spec

==============================================================================
