---------------------------- MODULE HashTblProofs ----------------------------
(***************************************************************************)
(* Theorems about the hash table of HashTbl.tla, for any keys, any hash    *)
(* function and any capacity: links stay in the array and the free index   *)
(* names an empty slot, and, for the uses SafeUse allows, the chains       *)
(* partition the entries and the table implements KeyValueMap.             *)
(***************************************************************************)
EXTENDS HashTbl, Integers, FiniteSetTheorems, LeastNumber

(***************************************************************************)
(* Tables                                                                  *)
(***************************************************************************)
Links(n) == (0 .. n - 1) \cup {Invalid}

\* What a slot holds in an array of n slots.
Entry(e, n) ==
  /\ DOMAIN e = {"key", "value", "hash", "next"}
  /\ e.key \in Keys \cup {NoKey} /\ e.value \in Values \cup {NoValue}
  /\ e.hash \in Nat /\ e.next \in Links(n)

Array(d, n) == DOMAIN d = 0 .. n - 1 /\ \A i \in 0 .. n - 1 : Entry(d[i], n)

Table(t) ==
  /\ DOMAIN t = {"capacity", "freeIndex", "data"}
  /\ t.capacity \in 0 .. MaxCapacity
  /\ t.freeIndex \in Slots(t) \cup {0, Invalid}
  /\ Array(t.data, t.capacity)
  /\ t.freeIndex \in Slots(t) => IsEmpty(t.data[t.freeIndex])

\* The same entry, whatever it links to.
Same(e, f) == e.key = f.key /\ e.value = f.value /\ e.hash = f.hash

LEMMA Numbers == Invalid \in Nat /\ MaxCapacity \in Nat /\ MaxCapacity <= Invalid
<1>1. Invalid \in Nat
  BY SMT DEF Invalid
<1> QED
  BY <1>1, HashTblAssumption DEF HashTblAssumption

LEMMA InArray ==
  ASSUME NEW n \in Nat \ {0}, NEW h \in Nat
  PROVE  h % n \in 0 .. n - 1
OBVIOUS

Written(d, p, x) == [d EXCEPT ![p] = x]
Linked(d, q, f) == [d EXCEPT ![q].next = f]

LEMMA Write ==
  ASSUME NEW n \in Nat, NEW d, Array(d, n), NEW x, Entry(x, n), NEW p
  PROVE  /\ Array(Written(d, p, x), n)
         /\ \A i \in 0 .. n - 1 : Written(d, p, x)[i] = IF i = p THEN x ELSE d[i]
BY DEF Array, Written

LEMMA Link ==
  ASSUME NEW n \in Nat, NEW d, Array(d, n), NEW q, NEW f \in Links(n)
  PROVE  /\ Array(Linked(d, q, f), n)
         /\ \A i \in 0 .. n - 1 : /\ Same(Linked(d, q, f)[i], d[i])
                                 /\ Linked(d, q, f)[i].next = IF i = q THEN f ELSE d[i].next
<1> DEFINE r == [d EXCEPT ![q].next = f]
<1>1. DOMAIN r = 0 .. n - 1
  BY DEF Array
<1>2. ASSUME NEW i \in 0 .. n - 1
      PROVE  /\ Entry(r[i], n) /\ Same(r[i], d[i])
             /\ r[i].next = IF i = q THEN f ELSE d[i].next
  <2>1. Entry(d[i], n) /\ i \in DOMAIN d
    BY DEF Array
  <2>2. r[i] = IF i = q THEN [d[i] EXCEPT !.next = f] ELSE d[i]
    BY <2>1
  <2>3. CASE i = q
    <3> DEFINE e == [d[i] EXCEPT !.next = f]
    <3>1. /\ DOMAIN e = DOMAIN d[i] /\ e.key = d[i].key /\ e.value = d[i].value /\ e.hash = d[i].hash
          /\ e.next = f
      BY <2>1 DEF Entry
    <3>2. r[i] = e
      BY <2>2, <2>3
    <3> HIDE DEF e, r
    <3> QED
      BY <2>1, <2>3, <3>1, <3>2 DEF Entry, Same
  <2>4. CASE i # q
    <3>1. r[i] = d[i]
      BY <2>2, <2>4
    <3> HIDE DEF r
    <3> QED
      BY <2>1, <2>4, <3>1 DEF Same
  <2> QED
    BY <2>3, <2>4
<1> HIDE DEF r
<1>3. Array(r, n)
  BY <1>1, <1>2 DEF Array
<1> QED
  BY <1>2, <1>3 DEF r, Linked

(***************************************************************************)
(* What Put does                                                           *)
(***************************************************************************)
\* The free index moves to an empty slot, past none, or the array has none left.
LEMMA AdvancedIs ==
  ASSUME NEW t, Table(t), t.capacity > 0
  PROVE  /\ Advanced(t) \in Slots(t) \cup {Invalid}
         /\ Advanced(t) \in Slots(t) => Advanced(t) > t.freeIndex /\ IsEmpty(t.data[Advanced(t)])
         /\ \A i \in Slots(t) : i > t.freeIndex /\ i < Advanced(t) => ~IsEmpty(t.data[i])
<1> DEFINE later == {i \in Slots(t) : i > t.freeIndex /\ IsEmpty(t.data[i])}
<1>1. t.capacity \in Nat /\ t.capacity <= Invalid /\ Invalid \in Nat /\ later \in SUBSET Nat
      /\ t.freeIndex \in Nat
  BY Numbers DEF Table, Slots
<1>2. CASE later = {}
  <2>1. Advanced(t) = Invalid
    BY <1>2 DEF Advanced
  <2> QED
    BY <1>1, <1>2, <2>1 DEF Slots
<1>3. CASE later # {}
  <2>1. Advanced(t) = Min(later)
    BY <1>3 DEF Advanced
  <2>2. Min(later) \in later /\ \A m \in later : Min(later) <= m
    BY <1>1, <1>3, MinIsLeast
  <2>3. Advanced(t) \in later /\ \A m \in later : Advanced(t) <= m
    BY <2>1, <2>2
  <2>4. ASSUME NEW i \in Slots(t), i > t.freeIndex, i < Advanced(t)
        PROVE  ~IsEmpty(t.data[i])
    <3>1. i \notin later
      BY <1>1, <2>3, <2>4 DEF Slots
    <3> QED
      BY <2>4, <3>1
  <2> QED
    BY <2>3, <2>4
<1> QED
  BY <1>2, <1>3

LEMMA StoreIs ==
  ASSUME NEW n \in Nat, NEW e, Entry(e, n), NEW next \in Links(n)
  PROVE  Entry(Store(e, next), n) /\ Same(Store(e, next), e) /\ Store(e, next).next = next
<1>1. /\ DOMAIN Store(e, next) = {"key", "value", "hash", "next"}
      /\ Store(e, next).key = e.key /\ Store(e, next).value = e.value
      /\ Store(e, next).hash = e.hash /\ Store(e, next).next = next
  BY DEF Store
<1> QED
  BY <1>1 DEF Entry, Same

\* An empty slot is filled.
LEMMA PutHereIs ==
  ASSUME NEW t, Table(t), t.capacity > 0, NEW e, Entry(e, t.capacity), NEW pos \in Slots(t),
         NEW r, r = PutHere(t, e, pos)
  PROVE  /\ DOMAIN r = {"capacity", "freeIndex", "data"} /\ r.capacity = t.capacity
         /\ r.freeIndex = IF pos = t.freeIndex THEN Advanced(t) ELSE t.freeIndex
         /\ Array(r.data, t.capacity)
         /\ \A i \in Slots(t) : IF i = pos THEN Same(r.data[i], e) /\ r.data[i].next = t.data[i].next
                                ELSE r.data[i] = t.data[i]
<1> DEFINE x == Store(e, t.data[pos].next)
           n == t.capacity
           d == Written(t.data, pos, x)
<1>1. /\ DOMAIN t = {"capacity", "freeIndex", "data"} /\ Array(t.data, n)
      /\ n \in Nat /\ pos \in 0 .. n - 1
  BY DEF Table, Slots, Links
<1>2. pos \in DOMAIN t.data /\ t.data[pos].next \in Links(n)
  BY <1>1 DEF Array, Entry
<1>3. r.data = d
  BY <1>1, <1>2 DEF PutHere, Written
<1>4. DOMAIN r = {"capacity", "freeIndex", "data"} /\ r.capacity = t.capacity
      /\ r.freeIndex = IF pos = t.freeIndex THEN Advanced(t) ELSE t.freeIndex
  BY <1>1 DEF PutHere
<1>5. Entry(x, n) /\ Same(x, e) /\ x.next = t.data[pos].next
  BY <1>1, <1>2, StoreIs
<1> HIDE DEF x
<1>6. Array(d, n) /\ \A i \in 0 .. n - 1 : d[i] = IF i = pos THEN x ELSE t.data[i]
  BY <1>1, <1>5, Write
<1> HIDE DEF d
<1>7. \A i \in Slots(t) : IF i = pos THEN Same(d[i], e) /\ d[i].next = t.data[i].next
                          ELSE d[i] = t.data[i]
  BY <1>5, <1>6 DEF Slots
<1> QED
  BY <1>3, <1>4, <1>6, <1>7

\* The entry that was in the way is in the free slot, and the one before it
\* links there.
LEMMA PutEvictingIs ==
  ASSUME NEW t, Table(t), t.capacity > 0, NEW e, Entry(e, t.capacity), NEW pos \in Slots(t),
         t.freeIndex \in Slots(t) \cup {Invalid}, NEW r, r = PutEvicting(t, e, pos),
         NEW q, q = BeforeIn(t, MainPos(t, t.data[pos].hash), pos)
  PROVE  /\ DOMAIN r = {"capacity", "freeIndex", "data"} /\ r.capacity = t.capacity
         /\ r.freeIndex = Advanced(t)
         /\ Array(r.data, t.capacity)
         /\ \A i \in Slots(t) :
              /\ Same(r.data[i], IF i = pos THEN e ELSE IF i = t.freeIndex THEN t.data[pos] ELSE t.data[i])
              /\ r.data[i].next = IF i = pos THEN Invalid ELSE IF i = q THEN t.freeIndex
                                  ELSE IF i = t.freeIndex THEN t.data[pos].next ELSE t.data[i].next
<1> DEFINE f == t.freeIndex
           x == Store(e, Invalid)
           a == Written(t.data, f, t.data[pos])
           b == Linked(a, q, f)
           d == Written(b, pos, x)
           n == t.capacity
<1>1. /\ DOMAIN t = {"capacity", "freeIndex", "data"} /\ Array(t.data, n)
      /\ n \in Nat /\ pos \in 0 .. n - 1 /\ f \in Links(n)
  BY DEF Table, Slots, Links
<1>2. Entry(t.data[pos], n)
  BY <1>1 DEF Array
<1>3. r.data = d /\ DOMAIN r = {"capacity", "freeIndex", "data"} /\ r.capacity = n
      /\ r.freeIndex = Advanced(t)
  BY <1>1 DEF PutEvicting, Written, Linked
<1>4. Entry(x, n) /\ Same(x, e) /\ x.next = Invalid
  <2>1. Invalid \in Links(n)
    BY DEF Links
  <2> QED
    BY <1>1, <2>1, StoreIs
<1> HIDE DEF x
<1>5. Array(a, n) /\ \A i \in 0 .. n - 1 : a[i] = IF i = f THEN t.data[pos] ELSE t.data[i]
  BY <1>1, <1>2, Write
<1> HIDE DEF a
<1>6. /\ Array(b, n)
      /\ \A i \in 0 .. n - 1 : Same(b[i], a[i]) /\ b[i].next = IF i = q THEN f ELSE a[i].next
  BY <1>1, <1>5, Link
<1> HIDE DEF b
<1>7. Array(d, n) /\ \A i \in 0 .. n - 1 : d[i] = IF i = pos THEN x ELSE b[i]
  BY <1>1, <1>4, <1>6, Write
<1> HIDE DEF d
<1>8. ASSUME NEW i \in 0 .. n - 1
      PROVE  /\ Same(d[i], IF i = pos THEN e ELSE IF i = f THEN t.data[pos] ELSE t.data[i])
             /\ d[i].next = IF i = pos THEN Invalid ELSE IF i = q THEN f
                            ELSE IF i = f THEN t.data[pos].next ELSE t.data[i].next
  BY <1>4, <1>5, <1>6, <1>7
<1> QED
  BY <1>3, <1>7, <1>8 DEF Slots

\* The entry is in the free slot, at the end of the chain.
LEMMA PutLastIs ==
  ASSUME NEW t, Table(t), t.capacity > 0, NEW e, Entry(e, t.capacity), NEW pos \in Slots(t),
         t.freeIndex \in Slots(t) \cup {Invalid}, NEW r, r = PutLast(t, e, pos),
         NEW q, q = LastOf(t, pos)
  PROVE  /\ DOMAIN r = {"capacity", "freeIndex", "data"} /\ r.capacity = t.capacity
         /\ r.freeIndex = Advanced(t)
         /\ Array(r.data, t.capacity)
         /\ \A i \in Slots(t) :
              /\ Same(r.data[i], IF i = t.freeIndex THEN e ELSE t.data[i])
              /\ r.data[i].next = IF i = q THEN t.freeIndex ELSE t.data[i].next
<1> DEFINE f == t.freeIndex
           n == t.capacity
           b == Linked(t.data, q, f)
           x == Store(e, b[f].next)
           d == Written(b, f, x)
<1>1. /\ DOMAIN t = {"capacity", "freeIndex", "data"} /\ Array(t.data, n)
      /\ n \in Nat /\ pos \in 0 .. n - 1 /\ f \in Links(n)
  BY DEF Table, Slots, Links
<1>2. /\ Array(b, n)
      /\ \A i \in 0 .. n - 1 : Same(b[i], t.data[i]) /\ b[i].next = IF i = q THEN f ELSE t.data[i].next
  BY <1>1, Link
<1>3. r.data = d /\ DOMAIN r = {"capacity", "freeIndex", "data"}
      /\ r.capacity = n /\ r.freeIndex = Advanced(t)
  BY <1>1 DEF PutLast, Written, Linked
<1> HIDE DEF b
<1>5. CASE f \in 0 .. n - 1
  <2>1. Entry(b[f], n)
    BY <1>2, <1>5 DEF Array
  <2>2. Entry(x, n) /\ Same(x, e) /\ x.next = b[f].next
    BY <1>1, <2>1, StoreIs DEF Entry
  <2> HIDE DEF x
  <2>3. Array(d, n) /\ \A i \in 0 .. n - 1 : d[i] = IF i = f THEN x ELSE b[i]
    BY <1>1, <1>2, <2>2, Write
  <2> HIDE DEF d
  <2>4. ASSUME NEW i \in 0 .. n - 1
        PROVE  /\ Same(d[i], IF i = f THEN e ELSE t.data[i])
               /\ d[i].next = IF i = q THEN f ELSE t.data[i].next
    BY <1>2, <2>2, <2>3
  <2> QED
    BY <1>3, <2>3, <2>4 DEF Slots
<1>6. CASE f \notin 0 .. n - 1
  <2>1. DOMAIN d = 0 .. n - 1 /\ \A i \in 0 .. n - 1 : d[i] = b[i]
    BY <1>2, <1>6 DEF Array, Written
  <2> HIDE DEF d
  <2>2. Array(d, n)
    BY <1>2, <2>1 DEF Array
  <2>3. ASSUME NEW i \in 0 .. n - 1
        PROVE  /\ Same(d[i], IF i = f THEN e ELSE t.data[i])
               /\ d[i].next = IF i = q THEN f ELSE t.data[i].next
    BY <1>2, <1>6, <2>1
  <2> QED
    BY <1>3, <2>2, <2>3 DEF Slots
<1> QED
  BY <1>5, <1>6

LEMMA PutTable ==
  ASSUME NEW t, Table(t), t.capacity > 0, NEW e, Entry(e, t.capacity)
  PROVE  Table(Put(t, e)) /\ Put(t, e).capacity = t.capacity
<1> DEFINE pos == MainPos(t, e.hash)
           f == t.freeIndex
           r == Put(t, e)
<1>1. /\ t.capacity \in Nat \ {0} /\ e.hash \in Nat /\ t.capacity <= Invalid /\ Invalid \in Nat
      /\ f \in Slots(t) \cup {Invalid}
      /\ f \in Slots(t) => IsEmpty(t.data[f])
      /\ t.capacity \in 0 .. MaxCapacity
  BY Numbers DEF Table, Entry, Slots
<1>2. pos \in Slots(t)
  BY <1>1, InArray DEF MainPos, Slots
<1>3. /\ Advanced(t) \in Slots(t) \cup {Invalid}
      /\ Advanced(t) \in Slots(t) => Advanced(t) > f /\ Advanced(t) # f /\ IsEmpty(t.data[Advanced(t)])
  BY <1>1, AdvancedIs DEF Slots
<1> DEFINE Shape(x) ==
             /\ DOMAIN x = {"capacity", "freeIndex", "data"} /\ x.capacity = t.capacity
             /\ x.freeIndex \in Slots(t) \cup {Invalid} /\ Array(x.data, t.capacity)
             /\ x.freeIndex \in Slots(t) => IsEmpty(x.data[x.freeIndex])
<1> HIDE DEF r, pos, f
<1>4. ASSUME r = PutHere(t, e, pos)
      PROVE  Shape(r)
  <2>1. /\ DOMAIN r = {"capacity", "freeIndex", "data"} /\ r.capacity = t.capacity
        /\ r.freeIndex = (IF pos = f THEN Advanced(t) ELSE f) /\ Array(r.data, t.capacity)
    BY <1>1, <1>2, <1>4, PutHereIs DEF f
  <2>2. ASSUME NEW i \in Slots(t), i = r.freeIndex
        PROVE  IsEmpty(r.data[i])
    <3>1. i # pos /\ IsEmpty(t.data[i])
      BY <1>1, <1>3, <2>1, <2>2
    <3>2. r.data[i] = t.data[i]
      BY <1>1, <1>2, <1>4, <3>1, PutHereIs
    <3> QED
      BY <3>1, <3>2
  <2>3. r.freeIndex \in Slots(t) \cup {Invalid}
    BY <1>1, <1>3, <2>1
  <2> QED
    BY <2>1, <2>2, <2>3
<1>5. ASSUME r = PutEvicting(t, e, pos) /\ ~IsEmpty(t.data[pos])
      PROVE  Shape(r)
  <2>1. /\ DOMAIN r = {"capacity", "freeIndex", "data"} /\ r.capacity = t.capacity
        /\ r.freeIndex = Advanced(t) /\ Array(r.data, t.capacity)
    BY <1>1, <1>2, <1>5, PutEvictingIs DEF f
  <2>2. ASSUME NEW i \in Slots(t), i = r.freeIndex
        PROVE  IsEmpty(r.data[i])
    <3>1. i # f /\ IsEmpty(t.data[i]) /\ i # pos
      BY <1>3, <1>5, <2>1, <2>2
    <3>2. Same(r.data[i], t.data[i])
      BY <1>1, <1>2, <1>5, <3>1, PutEvictingIs DEF f
    <3> QED
      BY <3>1, <3>2 DEF IsEmpty, Same
  <2>3. r.freeIndex \in Slots(t) \cup {Invalid}
    BY <1>1, <1>3, <2>1
  <2> QED
    BY <2>1, <2>2, <2>3
<1>6. ASSUME r = PutLast(t, e, pos)
      PROVE  Shape(r)
  <2>1. /\ DOMAIN r = {"capacity", "freeIndex", "data"} /\ r.capacity = t.capacity
        /\ r.freeIndex = Advanced(t) /\ Array(r.data, t.capacity)
    BY <1>1, <1>2, <1>6, PutLastIs DEF f
  <2>2. ASSUME NEW i \in Slots(t), i = r.freeIndex
        PROVE  IsEmpty(r.data[i])
    <3>1. i # f /\ IsEmpty(t.data[i])
      BY <1>3, <2>1, <2>2
    <3>2. Same(r.data[i], t.data[i])
      BY <1>1, <1>2, <1>6, <3>1, PutLastIs DEF f
    <3> QED
      BY <3>1, <3>2 DEF IsEmpty, Same
  <2>3. r.freeIndex \in Slots(t) \cup {Invalid}
    BY <1>1, <1>3, <2>1
  <2> QED
    BY <2>1, <2>2, <2>3
<1>7. Shape(r)
  BY <1>4, <1>5, <1>6 DEF Put, r, pos
<1>8. Slots(r) = Slots(t)
  BY <1>7 DEF Slots
<1>9. Table(r)
  BY <1>1, <1>7, <1>8 DEF Table
<1> QED
  BY <1>7, <1>9 DEF r

LEMMA FreshTable ==
  ASSUME NEW n \in 0 .. MaxCapacity
  PROVE  Table(Fresh(n)) /\ Fresh(n).capacity = n
<1>1. /\ DOMAIN Empty = {"key", "value", "hash", "next"} /\ Empty.key = NoKey /\ Empty.value = NoValue
      /\ Empty.hash = 0 /\ Empty.next = Invalid
  BY DEF Empty
<1>2. Entry(Empty, n)
  BY <1>1 DEF Entry, Links
<1>3. /\ DOMAIN Fresh(n) = {"capacity", "freeIndex", "data"} /\ Fresh(n).capacity = n
      /\ Fresh(n).freeIndex = 0 /\ Fresh(n).data = [i \in 0 .. n - 1 |-> Empty]
  BY DEF Fresh
<1>4. Array(Fresh(n).data, n) /\ \A i \in 0 .. n - 1 : IsEmpty(Fresh(n).data[i])
  BY <1>1, <1>2, <1>3 DEF Array, IsEmpty
<1> QED
  BY <1>3, <1>4 DEF Table, Slots

(***************************************************************************)
(* The larger array                                                        *)
(***************************************************************************)
\* The tables tbl_realloc goes through, of which it returns the last.
Moves(moved, t) ==
  /\ moved[0] = Fresh(2 * t.capacity) /\ Realloc(t) = moved[t.capacity]
  /\ \A i \in 1 .. t.capacity : moved[i] = Put(moved[i - 1], t.data[i - 1])

LEMMA MovedExists ==
  ASSUME NEW first, NEW d, NEW n \in Nat
  PROVE  \E f : f = [i \in 0 .. n |-> IF i = 0 THEN first ELSE Put(f[i - 1], d[i - 1])]
<1> DEFINE Defined(k) == \E f : f = [i \in 0 .. k |-> IF i = 0 THEN first ELSE Put(f[i - 1], d[i - 1])]
           T == {k \in 0 .. n : Defined(k)}
<1>1. 0 \in T
  <2> DEFINE f == [i \in 0 .. 0 |-> first]
  <2>1. f = [i \in 0 .. 0 |-> IF i = 0 THEN first ELSE Put(f[i - 1], d[i - 1])]
    OBVIOUS
  <2> HIDE DEF f
  <2> QED
    BY <2>1
<1>2. ASSUME NEW k \in 0 .. n - 1, k \in T
      PROVE  k + 1 \in T
  <2>1. PICK f : f = [i \in 0 .. k |-> IF i = 0 THEN first ELSE Put(f[i - 1], d[i - 1])]
    BY <1>2
  <2> DEFINE g == [i \in 0 .. k + 1 |-> IF i = k + 1 THEN Put(f[k], d[k]) ELSE f[i]]
  <2>2. ASSUME NEW i \in 0 .. k + 1
        PROVE  g[i] = IF i = 0 THEN first ELSE Put(g[i - 1], d[i - 1])
    <3>1. CASE i = k + 1
      BY <3>1
    <3>2. CASE i \in 0 .. k
      <4>1. g[i] = f[i] /\ (i # 0 => i - 1 \in 0 .. k /\ g[i - 1] = f[i - 1])
        BY <3>2
      <4>2. f[i] = IF i = 0 THEN first ELSE Put(f[i - 1], d[i - 1])
        BY <2>1, <3>2
      <4> HIDE DEF g
      <4> QED
        BY <4>1, <4>2
    <3> QED
      BY <3>1, <3>2
  <2>3. g = [i \in 0 .. k + 1 |-> g[i]]
    OBVIOUS
  <2> HIDE DEF g
  <2>4. g = [i \in 0 .. k + 1 |-> IF i = 0 THEN first ELSE Put(g[i - 1], d[i - 1])]
    BY <2>2, <2>3
  <2> QED
    BY <2>4
<1> HIDE DEF T
<1>3. 0 .. n \subseteq T
  BY <1>1, <1>2, InductionUpTo
<1> QED
  BY <1>3 DEF T

LEMMA ReallocMoves ==
  ASSUME NEW t, Table(t)
  PROVE  \E moved : Moves(moved, t)
<1> DEFINE n == t.capacity
           d == t.data
           first == Fresh(2 * n)
           moved == CHOOSE f : f = [i \in 0 .. n |-> IF i = 0 THEN first ELSE Put(f[i - 1], d[i - 1])]
<1>1. n \in Nat
  BY DEF Table
<1>2. Realloc(t) = moved[n]
  BY DEF Realloc
<1> HIDE DEF n, d, first
<1>3. moved = [i \in 0 .. n |-> IF i = 0 THEN first ELSE Put(moved[i - 1], d[i - 1])]
  BY <1>1, MovedExists
<1> HIDE DEF moved
<1>4. moved[0] = first /\ \A i \in 1 .. n : moved[i] = Put(moved[i - 1], d[i - 1])
  BY <1>1, <1>3
<1>5. Moves(moved, t)
  BY <1>2, <1>4 DEF Moves, n, d, first
<1> QED
  BY <1>5

LEMMA ReallocTable ==
  ASSUME NEW t, Table(t), t.capacity > 0, 2 * t.capacity <= MaxCapacity
  PROVE  Table(Realloc(t)) /\ Realloc(t).capacity = 2 * t.capacity
<1> DEFINE n == t.capacity
<1>1. PICK moved : Moves(moved, t)
  BY ReallocMoves
<1>2. n \in Nat \ {0} /\ 2 * n \in 0 .. MaxCapacity /\ 2 * n > 0
  BY Numbers DEF Table
<1> DEFINE T == {k \in 0 .. n : Table(moved[k]) /\ moved[k].capacity = 2 * n}
<1>3. 0 \in T
  BY <1>1, <1>2, FreshTable DEF Moves
<1>4. ASSUME NEW k \in 0 .. n - 1, k \in T
      PROVE  k + 1 \in T
  <2>1. moved[k + 1] = Put(moved[k], t.data[k])
    BY <1>1, <1>2 DEF Moves
  <2>2. Entry(t.data[k], n)
    BY DEF Table, Array
  <2>3. Entry(t.data[k], 2 * n)
    BY <1>2, <2>2 DEF Entry, Links
  <2>4. Table(moved[k]) /\ moved[k].capacity = 2 * n
    BY <1>4
  <2>5. Table(moved[k + 1]) /\ moved[k + 1].capacity = 2 * n
    BY <1>2, <2>1, <2>3, <2>4, PutTable
  <2> QED
    BY <1>2, <2>5
<1> HIDE DEF T
<1>5. 0 .. n \subseteq T
  BY <1>2, <1>3, <1>4, InductionUpTo
<1>6. n \in T
  BY <1>2, <1>5
<1> QED
  BY <1>1, <1>6 DEF Moves, T

(***************************************************************************)
(* Chains                                                                  *)
(***************************************************************************)
LEMMA WalkExists ==
  ASSUME NEW p, NEW succ, NEW n \in Nat
  PROVE  \E w : w = [i \in 1 .. n |-> IF i = 1 THEN p ELSE succ[w[i - 1]]]
<1> DEFINE Defined(k) == \E w : w = [i \in 1 .. k |-> IF i = 1 THEN p ELSE succ[w[i - 1]]]
           T == {k \in 0 .. n : Defined(k)}
<1>1. 0 \in T
  <2> DEFINE w == [i \in 1 .. 0 |-> p]
  <2>1. w = [i \in 1 .. 0 |-> IF i = 1 THEN p ELSE succ[w[i - 1]]]
    OBVIOUS
  <2> HIDE DEF w
  <2>2. \E v : v = [i \in 1 .. 0 |-> IF i = 1 THEN p ELSE succ[v[i - 1]]]
    BY <2>1, Zenon
  <2>3. Defined(0)
    BY <2>2
  <2> HIDE DEF Defined
  <2> QED
    BY <2>3
<1>2. ASSUME NEW k \in 0 .. n - 1, k \in T
      PROVE  k + 1 \in T
  <2>1. PICK w : w = [i \in 1 .. k |-> IF i = 1 THEN p ELSE succ[w[i - 1]]]
    BY <1>2
  <2> DEFINE next == IF k = 0 THEN p ELSE succ[w[k]]
             g == [i \in 1 .. k + 1 |-> IF i = k + 1 THEN next ELSE w[i]]
  <2>2. ASSUME NEW i \in 1 .. k + 1
        PROVE  g[i] = IF i = 1 THEN p ELSE succ[g[i - 1]]
    <3>1. CASE i = k + 1
      BY <3>1
    <3>2. CASE i \in 1 .. k
      <4>1. g[i] = w[i] /\ (i # 1 => i - 1 \in 1 .. k /\ g[i - 1] = w[i - 1])
        BY <3>2
      <4>2. w[i] = IF i = 1 THEN p ELSE succ[w[i - 1]]
        BY <2>1, <3>2
      <4> HIDE DEF g
      <4> QED
        BY <4>1, <4>2
    <3> QED
      BY <3>1, <3>2
  <2>3. g = [i \in 1 .. k + 1 |-> g[i]]
    OBVIOUS
  <2> HIDE DEF g
  <2>4. g = [i \in 1 .. k + 1 |-> IF i = 1 THEN p ELSE succ[g[i - 1]]]
    BY <2>2, <2>3
  <2> QED
    BY <2>4
<1> HIDE DEF T
<1>3. 0 .. n \subseteq T
  BY <1>1, <1>2, InductionUpTo
<1> QED
  BY <1>3 DEF T

Succ(t, i) == IF t.data[i].next = Invalid THEN i ELSE t.data[i].next

\* A walk of as many steps as there are slots, along next.
LEMMA ChainIs ==
  ASSUME NEW t, Table(t), NEW p \in Slots(t)
  PROVE  /\ Chain(t, p) \in [1 .. t.capacity -> Slots(t)]
         /\ Chain(t, p)[1] = p
         /\ \A k \in 1 .. t.capacity - 1 : Chain(t, p)[k + 1] = Succ(t, Chain(t, p)[k])
<1> DEFINE n == t.capacity
           S == Slots(t)
           succ == [i \in S |-> IF t.data[i].next = Invalid THEN i ELSE t.data[i].next]
           w == CHOOSE f : f = [i \in 1 .. n |-> IF i = 1 THEN p ELSE succ[f[i - 1]]]
<1>1. n \in Nat \ {0} /\ S = 0 .. n - 1
  BY DEF Table, Slots
<1>2. succ \in [S -> S]
  <2>1. \A i \in S : t.data[i].next \in S \cup {Invalid}
    BY <1>1 DEF Table, Array, Entry, Links
  <2> QED
    BY <2>1
<1>3. \A i \in S : succ[i] = Succ(t, i)
  BY DEF Succ
<1>4. Chain(t, p) = w
  BY DEF Chain
<1> HIDE DEF n, S, succ
<1>5. w = [i \in 1 .. n |-> IF i = 1 THEN p ELSE succ[w[i - 1]]]
  BY <1>1, WalkExists
<1> HIDE DEF w
<1>6. w[1] = p /\ DOMAIN w = 1 .. n /\ \A k \in 1 .. n - 1 : w[k + 1] = succ[w[k]]
  BY <1>1, <1>5
<1> DEFINE T == {k \in 0 .. n - 1 : w[k + 1] \in S}
<1>7. 0 \in T
  BY <1>1, <1>6 DEF S
<1>8. ASSUME NEW k \in 0 .. (n - 1) - 1, k \in T
      PROVE  k + 1 \in T
  <2>1. k + 1 \in 1 .. n - 1 /\ w[k + 1] \in S
    BY <1>1, <1>8
  <2>2. w[k + 1 + 1] = succ[w[k + 1]]
    BY <1>6, <2>1
  <2>3. w[k + 1 + 1] \in S
    BY <1>2, <2>1, <2>2
  <2> QED
    BY <1>1, <2>1, <2>3
<1> HIDE DEF T
<1>9. n - 1 \in Nat
  BY <1>1
<1>10. 0 .. n - 1 \subseteq T
  BY <1>7, <1>8, <1>9, InductionUpTo
<1>11. \A i \in 1 .. n : w[i] \in S
  <2> TAKE i \in 1 .. n
  <2>1. i - 1 \in 0 .. n - 1 /\ (i - 1) + 1 = i
    BY <1>1
  <2>2. w[(i - 1) + 1] \in S
    BY <1>10, <2>1 DEF T
  <2> QED
    BY <2>1, <2>2
<1>12. w \in [1 .. n -> S]
  BY <1>5, <1>6, <1>11
<1>13. \A k \in 1 .. n - 1 : w[k + 1] = Succ(t, w[k])
  <2> TAKE k \in 1 .. n - 1
  <2>1. k \in 1 .. n
    BY <1>1
  <2>2. w[k + 1] = succ[w[k]] /\ w[k] \in S
    BY <1>6, <1>11, <2>1
  <2> QED
    BY <1>3, <2>2
<1> QED
  BY <1>4, <1>6, <1>12, <1>13 DEF n, S

\* Where tbl_remove_impl meets the hash first is a slot of the chain at its
\* main position, and that slot is taken.
LEMMA FirstHitIs ==
  ASSUME NEW t, Table(t), NEW k, hashOf[k] \in Nat, FirstHit(t, k) # Invalid
  PROVE  LET head == MainPos(t, hashOf[k]) IN
         /\ t.capacity > 0 /\ head \in Slots(t) /\ ~IsEmpty(t.data[head])
         /\ MainPos(t, t.data[head].hash) = head
         /\ FirstHit(t, k) \in Range(Chain(t, head)) /\ FirstHit(t, k) \in Slots(t)
         /\ t.data[FirstHit(t, k)].hash = hashOf[k]
<1> DEFINE head == MainPos(t, hashOf[k])
           chain == ChainOf(t, k)
           I == {i \in 1 .. Len(chain) : t.data[chain[i]].hash = hashOf[k] /\ SameKind(t.data[chain[i]], k)}
<1>1. CASE chain = <<>>
  <2>1. I = {}
    BY <1>1
  <2> HIDE DEF chain
  <2>2. FirstHit(t, k) = Invalid
    BY <2>1 DEF FirstHit, SelectInSeq, chain
  <2> QED
    BY <2>2
<1>2. CASE chain # <<>>
  <2>1. t.capacity # 0 /\ ~IsEmpty(t.data[head]) /\ MainPos(t, t.data[head].hash) = head
        /\ chain = Chain(t, head)
    BY <1>2 DEF ChainOf
  <2>2. t.capacity \in Nat \ {0}
    BY <2>1 DEF Table
  <2>3. head \in Slots(t)
    BY <2>2, InArray DEF MainPos, Slots
  <2> HIDE DEF head
  <2>4. chain \in [1 .. t.capacity -> Slots(t)]
    BY <2>1, <2>3, ChainIs
  <2>5. chain \in Seq(Slots(t)) /\ Len(chain) = t.capacity
    BY <2>2, <2>4
  <2>6. I # {}
    <3> HIDE DEF chain
    <3> SUFFICES ASSUME I = {}
                 PROVE  FALSE
      OBVIOUS
    <3> QED
      BY DEF FirstHit, SelectInSeq, chain
  <2>7. Min(I) \in I
    <3>1. I \in SUBSET Nat
      BY <2>2, <2>5
    <3> HIDE DEF I
    <3> QED
      BY <2>6, <3>1, MinIsLeast
  <2>8. FirstHit(t, k) = chain[Min(I)]
    <3>1. I \subseteq 1 .. Len(chain) /\ Len(chain) \in Nat
      BY <2>2, <2>5
    <3>2. 0 \notin I
      BY <3>1
    <3>3. Min(I) # 0
      BY <2>7, <3>2
    <3> QED
      BY <2>6, <3>3 DEF FirstHit, SelectInSeq
  <2> HIDE DEF chain, I
  <2> DEFINE m == Min(I)
  <2>9. m \in 1 .. t.capacity /\ t.data[chain[m]].hash = hashOf[k]
    BY <2>5, <2>7 DEF I
  <2>10. chain[m] \in Slots(t) /\ chain[m] \in Range(chain)
    BY <2>4, <2>9 DEF Range
  <2> QED
    BY <2>1, <2>2, <2>3, <2>8, <2>9, <2>10 DEF head
<1> QED
  BY <1>1, <1>2

(***************************************************************************)
(* The type invariant                                                      *)
(***************************************************************************)
Given(a) == a \in {<<>>} \cup {<<k>> : k \in Keys} \cup (Keys \X Values)

TableInv ==
  /\ Table(tbl) /\ hashOf \in [Keys -> Hashes]
  /\ Given(args)
  /\ result \in {"none", "again", "outOfMemory", "true", "false"} /\ hung \in BOOLEAN

\* What a call may be given.
LEMMA GivenIs ==
  /\ Given(<<>>)
  /\ \A k \in Keys : Given(<<k>>)
  /\ \A k \in Keys, v \in Values : Given(<<k, v>>)
BY DEF Given

\* The table the call works on has an array; when it is full it is tbl itself.
LEMMA AllocatedIs ==
  ASSUME TableInv
  PROVE  /\ Table(Allocated) /\ Allocated.capacity > 0
         /\ \A k \in Keys : IsFull(Allocated, k) => Allocated = tbl /\ tbl.capacity > 0
<1>1. Table(tbl) /\ tbl.capacity \in Nat
  BY DEF TableInv, Table
<1>2. CASE tbl.capacity = 0
  <2>1. MinCapacity \in 0 .. MaxCapacity /\ MinCapacity > 0 /\ Invalid # 0
    BY Numbers, HashTblAssumption DEF HashTblAssumption
  <2>2. Allocated = Fresh(MinCapacity) /\ Allocated.freeIndex = 0
    BY <1>2 DEF Allocated, Fresh
  <2> QED
    BY <2>1, <2>2, FreshTable DEF IsFull
<1>3. CASE tbl.capacity # 0
  BY <1>1, <1>3 DEF Allocated
<1> QED
  BY <1>2, <1>3

LEMMA SetInKeeps ==
  ASSUME TableInv, NEW t, Table(t), t.capacity > 0, NEW k \in Keys, NEW v \in Values, SetIn(t, k, v),
         args' = <<k, v>>, UNCHANGED <<hashOf, hung>>
  PROVE  TableInv'
<1> DEFINE e == [key |-> k, value |-> v, hash |-> hashOf[k], next |-> Invalid]
<1>1. Entry(e, t.capacity)
  <2>1. hashOf[k] \in Nat
    BY HashTblAssumption DEF TableInv, HashTblAssumption
  <2> QED
    BY <2>1 DEF Entry, Links
<1> HIDE DEF e
<1>2. Table(Put(t, e))
  BY <1>1, PutTable
<1>3. tbl' \in {t, Put(t, e)} /\ result' \in {"none", "again"}
  BY DEF SetIn, e
<1>4. Table(tbl')
  BY <1>2, <1>3
<1>5. Table(tbl)'
  BY <1>4 DEF Table, Slots, Array, IsEmpty
<1>6. Given(args)'
  BY GivenIs DEF Given
<1> QED
  BY <1>3, <1>5, <1>6 DEF TableInv

(***************************************************************************)
(* Removal                                                                 *)
(***************************************************************************)
LEMMA EmptyIs == \A n \in Nat : Entry(Empty, n) /\ IsEmpty(Empty) /\ Empty.next = Invalid
<1>1. /\ DOMAIN Empty = {"key", "value", "hash", "next"} /\ Empty.key = NoKey /\ Empty.value = NoValue
      /\ Empty.hash = 0 /\ Empty.next = Invalid
  BY DEF Empty
<1> QED
  BY <1>1 DEF Entry, Links, IsEmpty

LEMMA UnlinkIs ==
  ASSUME Table(tbl), NEW head, NEW slot \in Slots(tbl), NEW r, r = Unlink(head, slot),
         NEW q, q = BeforeIn(tbl, head, slot)
  PROVE  /\ DOMAIN r = {"capacity", "freeIndex", "data"} /\ r.capacity = tbl.capacity
         /\ r.freeIndex = LowerFree(slot) /\ Array(r.data, tbl.capacity)
         /\ r.data[slot] = Empty
         /\ \A i \in Slots(tbl) \ {slot} :
              /\ Same(r.data[i], tbl.data[i])
              /\ r.data[i].next = IF i = q THEN tbl.data[slot].next ELSE tbl.data[i].next
<1> DEFINE n == tbl.capacity
           a == Linked(tbl.data, q, tbl.data[slot].next)
           d == Written(a, slot, Empty)
<1>1. /\ DOMAIN tbl = {"capacity", "freeIndex", "data"} /\ Array(tbl.data, n)
      /\ n \in Nat /\ slot \in 0 .. n - 1
  BY DEF Table, Slots
<1>2. tbl.data[slot].next \in Links(n)
  BY <1>1 DEF Array, Entry
<1>3. r.data = d /\ DOMAIN r = {"capacity", "freeIndex", "data"} /\ r.capacity = n
      /\ r.freeIndex = LowerFree(slot)
  BY <1>1 DEF Unlink, Written, Linked
<1>4. /\ Array(a, n)
      /\ \A i \in 0 .. n - 1 : /\ Same(a[i], tbl.data[i])
                               /\ a[i].next = IF i = q THEN tbl.data[slot].next ELSE tbl.data[i].next
  BY <1>1, <1>2, Link
<1> HIDE DEF a
<1>5. Array(d, n) /\ \A i \in 0 .. n - 1 : d[i] = IF i = slot THEN Empty ELSE a[i]
  BY <1>1, <1>4, EmptyIs, Write
<1> HIDE DEF d
<1> QED
  BY <1>1, <1>3, <1>4, <1>5 DEF Slots

LEMMA PullUpIs ==
  ASSUME Table(tbl), NEW slot \in Slots(tbl), NEW second \in Slots(tbl),
         second = tbl.data[slot].next, NEW r, r = PullUp(slot)
  PROVE  /\ DOMAIN r = {"capacity", "freeIndex", "data"} /\ r.capacity = tbl.capacity
         /\ r.freeIndex = LowerFree(second) /\ Array(r.data, tbl.capacity)
         /\ r.data[second] = Empty
         /\ \A i \in Slots(tbl) \ {second} : r.data[i] = IF i = slot THEN tbl.data[second] ELSE tbl.data[i]
<1> DEFINE n == tbl.capacity
           a == Written(tbl.data, slot, tbl.data[second])
           d == Written(a, second, Empty)
<1>1. /\ DOMAIN tbl = {"capacity", "freeIndex", "data"} /\ Array(tbl.data, n)
      /\ n \in Nat /\ slot \in 0 .. n - 1 /\ second \in 0 .. n - 1
  BY DEF Table, Slots
<1>2. Entry(tbl.data[second], n)
  BY <1>1 DEF Array
<1>3. r.data = d /\ DOMAIN r = {"capacity", "freeIndex", "data"} /\ r.capacity = n
      /\ r.freeIndex = LowerFree(second)
  BY <1>1 DEF PullUp, Written
<1>4. Array(a, n) /\ \A i \in 0 .. n - 1 : a[i] = IF i = slot THEN tbl.data[second] ELSE tbl.data[i]
  BY <1>1, <1>2, Write
<1> HIDE DEF a
<1>5. Array(d, n) /\ \A i \in 0 .. n - 1 : d[i] = IF i = second THEN Empty ELSE a[i]
  BY <1>1, <1>4, EmptyIs, Write
<1> HIDE DEF d
<1> QED
  BY <1>1, <1>3, <1>4, <1>5 DEF Slots

LEMMA ClearIs ==
  ASSUME Table(tbl), NEW slot \in Slots(tbl), NEW r, r = Clear(slot)
  PROVE  /\ DOMAIN r = {"capacity", "freeIndex", "data"} /\ r.capacity = tbl.capacity
         /\ r.freeIndex = tbl.freeIndex /\ Array(r.data, tbl.capacity)
         /\ \A i \in Slots(tbl) : r.data[i] = IF i = slot THEN Empty ELSE tbl.data[i]
<1> DEFINE n == tbl.capacity
           d == Written(tbl.data, slot, Empty)
<1>1. /\ DOMAIN tbl = {"capacity", "freeIndex", "data"} /\ Array(tbl.data, n)
      /\ n \in Nat /\ slot \in 0 .. n - 1
  BY DEF Table, Slots
<1>2. r.data = d /\ DOMAIN r = {"capacity", "freeIndex", "data"} /\ r.capacity = n
      /\ r.freeIndex = tbl.freeIndex
  BY <1>1 DEF Clear, Written
<1>3. Array(d, n) /\ \A i \in 0 .. n - 1 : d[i] = IF i = slot THEN Empty ELSE tbl.data[i]
  BY <1>1, EmptyIs, Write
<1> HIDE DEF d
<1> QED
  BY <1>2, <1>3 DEF Slots

\* The free index is lowered to the slot that is freed, or stays where it was.
LEMMA RemovalKeeps ==
  ASSUME Table(tbl), NEW slot \in Slots(tbl), NEW r,
         DOMAIN r = {"capacity", "freeIndex", "data"}, r.capacity = tbl.capacity,
         Array(r.data, tbl.capacity), IsEmpty(r.data[slot]), r.freeIndex \in {slot, tbl.freeIndex},
         \A i \in Slots(tbl) : IsEmpty(tbl.data[i]) => IsEmpty(r.data[i])
  PROVE  Table(r)
<1>1. Slots(r) = Slots(tbl)
  BY DEF Slots
<1> QED
  BY <1>1 DEF Table

LEMMA RemoveFoundTable ==
  ASSUME TableInv, NEW k \in Keys, RemoveFound(k)
  PROVE  Table(tbl')
<1> DEFINE slot == FirstHit(tbl, k)
           head == MainPos(tbl, hashOf[k])
<1>1. /\ Table(tbl) /\ hashOf[k] \in Nat /\ slot # Invalid
  BY HashTblAssumption DEF TableInv, HashTblAssumption, RemoveFound
<1>2. /\ tbl.capacity > 0 /\ head \in Slots(tbl) /\ slot \in Slots(tbl) /\ ~IsEmpty(tbl.data[head])
  BY <1>1, FirstHitIs
<1>3. \/ tbl' = Unlink(head, slot)
      \/ tbl' = PullUp(head) /\ tbl.data[head].next # Invalid
      \/ tbl' = Clear(slot)
  BY DEF RemoveFound
<1> HIDE DEF slot, head
<1>4. CASE tbl' = Unlink(head, slot)
  <2>1. PICK q : q = BeforeIn(tbl, head, slot)
    OBVIOUS
  <2>2. /\ DOMAIN tbl' = {"capacity", "freeIndex", "data"} /\ tbl'.capacity = tbl.capacity
        /\ tbl'.freeIndex \in {slot, tbl.freeIndex} /\ Array(tbl'.data, tbl.capacity)
        /\ tbl'.data[slot] = Empty
        /\ \A i \in Slots(tbl) \ {slot} : Same(tbl'.data[i], tbl.data[i])
    BY <1>1, <1>2, <1>4, <2>1, UnlinkIs DEF LowerFree
  <2>3. IsEmpty(Empty)
    BY EmptyIs
  <2>4. \A i \in Slots(tbl) : IsEmpty(tbl.data[i]) => IsEmpty(tbl'.data[i])
    BY <2>2, <2>3 DEF Same, IsEmpty
  <2> QED
    BY <1>1, <1>2, <2>2, <2>3, <2>4, RemovalKeeps
<1>5. CASE tbl' = PullUp(head) /\ tbl.data[head].next # Invalid
  <2> DEFINE second == tbl.data[head].next
  <2>1. second \in Slots(tbl)
    BY <1>1, <1>2, <1>5 DEF Table, Array, Entry, Links, Slots
  <2>2. /\ DOMAIN tbl' = {"capacity", "freeIndex", "data"} /\ tbl'.capacity = tbl.capacity
        /\ tbl'.freeIndex \in {second, tbl.freeIndex} /\ Array(tbl'.data, tbl.capacity)
        /\ tbl'.data[second] = Empty
        /\ \A i \in Slots(tbl) \ {second} : tbl'.data[i] = IF i = head THEN tbl.data[second] ELSE tbl.data[i]
    BY <1>1, <1>2, <1>5, <2>1, PullUpIs DEF LowerFree
  <2>3. IsEmpty(Empty)
    BY EmptyIs
  <2>4. \A i \in Slots(tbl) : IsEmpty(tbl.data[i]) => IsEmpty(tbl'.data[i])
    BY <1>2, <2>2, <2>3
  <2> HIDE DEF second
  <2> QED
    BY <1>1, <2>1, <2>2, <2>3, <2>4, RemovalKeeps
<1>6. CASE tbl' = Clear(slot)
  <2>1. /\ DOMAIN tbl' = {"capacity", "freeIndex", "data"} /\ tbl'.capacity = tbl.capacity
        /\ tbl'.freeIndex = tbl.freeIndex /\ Array(tbl'.data, tbl.capacity)
        /\ \A i \in Slots(tbl) : tbl'.data[i] = IF i = slot THEN Empty ELSE tbl.data[i]
    BY <1>1, <1>2, <1>6, ClearIs
  <2>2. IsEmpty(Empty)
    BY EmptyIs
  <2>3. IsEmpty(tbl'.data[slot]) /\ \A i \in Slots(tbl) : IsEmpty(tbl.data[i]) => IsEmpty(tbl'.data[i])
    BY <1>2, <2>1, <2>2
  <2> QED
    BY <1>1, <1>2, <2>1, <2>3, RemovalKeeps
<1> QED
  BY <1>3, <1>4, <1>5, <1>6

LEMMA TableStep ==
  ASSUME TableInv, [Next]_vars
  PROVE  TableInv'
<1>1. Table(tbl') => Table(tbl)'
  BY DEF Table, Slots, Array, IsEmpty
<1>2. ASSUME NEW k \in Keys, NEW v \in Values, SetFits(k, v)
      PROVE  TableInv'
  <2>1. Table(Allocated) /\ Allocated.capacity > 0
    BY AllocatedIs
  <2> QED
    BY <1>2, <2>1, SetInKeeps DEF SetFits
<1>3. ASSUME NEW k \in Keys, NEW v \in Values, SetGrows(k, v)
      PROVE  TableInv'
  <2>1. tbl.capacity > 0 /\ Table(tbl) /\ 2 * tbl.capacity <= MaxCapacity
    BY <1>3, AllocatedIs DEF SetGrows, TableInv
  <2>2. Table(Realloc(tbl)) /\ Realloc(tbl).capacity > 0
    BY <2>1, ReallocTable DEF Table
  <2> QED
    BY <1>3, <2>2, SetInKeeps DEF SetGrows
<1>4. ASSUME UNCHANGED <<tbl, hashOf>>, Given(args'), hung' \in BOOLEAN,
             result' \in {"none", "again", "outOfMemory", "true", "false"}
      PROVE  TableInv'
  BY <1>1, <1>4 DEF TableInv, Given
<1>5. ASSUME NEW k \in Keys, NEW v \in Values, SetFails(k, v)
      PROVE  TableInv'
  BY <1>4, <1>5, GivenIs DEF TableInv, SetFails
<1>6. ASSUME NEW k \in Keys, RemoveAbsent(k) \/ RemoveHangs(k)
      PROVE  TableInv'
  BY <1>4, <1>6, GivenIs DEF TableInv, RemoveAbsent, RemoveHangs
<1>7. ASSUME NEW k \in Keys, RemoveFound(k)
      PROVE  TableInv'
  <2>1. Given(args')
    BY <1>7, GivenIs DEF RemoveFound
  <2>2. Given(args)'
    BY <2>1 DEF Given
  <2> QED
    BY <1>1, <1>7, <2>2, RemoveFoundTable DEF TableInv, RemoveFound
<1>8. CASE Deinit
  <2>1. Table(tbl')
    BY <1>8, FreshTable, Numbers DEF Deinit
  <2>2. Given(args)'
    BY <1>8 DEF TableInv, Deinit, Given
  <2> QED
    BY <1>1, <1>8, <2>1, <2>2 DEF TableInv, Deinit
<1>9. CASE UNCHANGED vars
  <2>1. Given(args)' /\ Table(tbl')
    BY <1>9 DEF vars, TableInv, Given
  <2> QED
    BY <1>1, <1>9, <2>1 DEF vars, TableInv
<1>10. CASE Next
  <2>1. CASE \E k \in Keys, v \in Values : SetFits(k, v) \/ SetGrows(k, v) \/ SetFails(k, v)
    BY <1>2, <1>3, <1>5, <2>1
  <2>2. CASE \E k \in Keys : RemoveAbsent(k) \/ RemoveHangs(k) \/ RemoveFound(k)
    BY <1>6, <1>7, <2>2
  <2> QED
    BY <1>8, <1>10, <2>1, <2>2 DEF Next
<1> QED
  BY <1>9, <1>10

THEOREM TableInvariant == Spec => []TableInv
<1>1. Init => TableInv
  <2>1. Table(Fresh(0))
    BY FreshTable, Numbers
  <2>2. Init => Table(tbl)
    BY <2>1 DEF Init
  <2> QED
    BY <2>2, GivenIs DEF Init, TableInv
<1>2. TableInv /\ [Next]_vars => TableInv'
  BY TableStep
<1> QED
  BY <1>1, <1>2, PTL DEF Spec

\* Every link names a slot or none, through evictions, reallocations and
\* removals, for any keys, hash function and capacities.
THEOREM HashTypeCorrect == Spec => []TypeOK
<1>1. TableInv => TypeOK
  <2> SUFFICES ASSUME TableInv
               PROVE  TypeOK
    OBVIOUS
  <2>1. ASSUME NEW i \in Slots(tbl)
        PROVE  /\ tbl.data[i].key \in Keys \cup {NoKey}
               /\ tbl.data[i].value \in Values \cup {NoValue}
               /\ tbl.data[i].next \in Slots(tbl) \cup {Invalid}
    <3>1. Entry(tbl.data[i], tbl.capacity)
      BY <2>1 DEF TableInv, Table, Array, Slots
    <3> QED
      BY <3>1 DEF Entry, Links, Slots
  <2>2. /\ tbl.capacity \in 0 .. MaxCapacity /\ DOMAIN tbl.data = Slots(tbl)
        /\ tbl.freeIndex \in Slots(tbl) \cup {0, Invalid}
    BY DEF TableInv, Table, Array, Slots
  <2> QED
    BY <2>1, <2>2 DEF TableInv, TypeOK, Given
<1> QED
  BY <1>1, TableInvariant, PTL

\* What is stored at the free index overwrites no entry.
THEOREM HashFreeIndexIsFree == Spec => []FreeIndexIsFree
<1>1. TableInv => FreeIndexIsFree
  BY DEF TableInv, FreeIndexIsFree, Table
<1> QED
  BY <1>1, TableInvariant, PTL

(***************************************************************************)
(* Chains that start at their main positions                               *)
(***************************************************************************)
\* nx links the slots of O, hm gives their main positions, and rank how far a
\* slot is from the head of its chain.
Forest(O, nx, hm, rank) ==
  /\ rank \in [O -> Nat]
  /\ \A i \in O : rank[i] = 0 <=> hm[i] = i
  /\ \A i \in O : nx[i] # Invalid => nx[i] \in O /\ hm[nx[i]] = hm[i] /\ rank[nx[i]] = rank[i] + 1
  /\ \A i \in O : hm[i] # i => \E j \in O : nx[j] = i
  /\ \A i, j \in O : nx[i] = nx[j] /\ nx[i] # Invalid => i = j

\* A new chain of one slot.
LEMMA ForestHead ==
  ASSUME NEW O, NEW nx, NEW hm, NEW rank, Forest(O, nx, hm, rank), Invalid \notin O,
         NEW p, p \notin O, NEW nx2, NEW hm2, nx2[p] = Invalid, hm2[p] = p,
         \A i \in O : nx2[i] = nx[i] /\ hm2[i] = hm[i]
  PROVE  \E rank2 : Forest(O \cup {p}, nx2, hm2, rank2)
<1> DEFINE rank2 == [i \in O \cup {p} |-> IF i = p THEN 0 ELSE rank[i]]
<1>1. rank2 \in [O \cup {p} -> Nat] /\ rank2[p] = 0 /\ \A i \in O : rank2[i] = rank[i]
  BY DEF Forest
<1> HIDE DEF rank2
<1>2. Forest(O \cup {p}, nx2, hm2, rank2)
  BY <1>1 DEF Forest
<1> QED
  BY <1>2

\* A slot at the end of a chain.
LEMMA ForestLast ==
  ASSUME NEW O, NEW nx, NEW hm, NEW rank, Forest(O, nx, hm, rank),
         NEW f, f \notin O, f # Invalid, NEW q \in O, nx[q] = Invalid,
         NEW nx2, NEW hm2, nx2[f] = Invalid, nx2[q] = f, hm2[f] = hm[q], hm[q] # f,
         \A i \in O : hm2[i] = hm[i] /\ (i # q => nx2[i] = nx[i])
  PROVE  \E rank2 : Forest(O \cup {f}, nx2, hm2, rank2)
<1> DEFINE rank2 == [i \in O \cup {f} |-> IF i = f THEN rank[q] + 1 ELSE rank[i]]
<1>1. rank2 \in [O \cup {f} -> Nat] /\ rank2[f] = rank[q] + 1 /\ rank2[f] # 0
      /\ \A i \in O : rank2[i] = rank[i]
  BY DEF Forest
<1> HIDE DEF rank2
<1>2. Forest(O \cup {f}, nx2, hm2, rank2)
  BY <1>1 DEF Forest
<1> QED
  BY <1>2

\* A slot's place in its chain is taken by another, and it heads a new one.
LEMMA ForestEvict ==
  ASSUME NEW O, NEW nx, NEW hm, NEW rank, Forest(O, nx, hm, rank), Invalid \notin O,
         NEW f, f \notin O, f # Invalid, NEW p \in O, hm[p] # p, hm[p] \in O,
         NEW q \in O, nx[q] = p, NEW nx2, NEW hm2,
         nx2[p] = Invalid, hm2[p] = p, nx2[q] = f, nx2[f] = nx[p], hm2[f] = hm[p],
         \A i \in O : i # p => hm2[i] = hm[i] /\ (i # q => nx2[i] = nx[i])
  PROVE  \E rank2 : Forest(O \cup {f}, nx2, hm2, rank2)
<1> DEFINE rank2 == [i \in O \cup {f} |-> IF i = f THEN rank[p] ELSE IF i = p THEN 0 ELSE rank[i]]
<1>1. rank2 \in [O \cup {f} -> Nat] /\ rank2[f] = rank[p] /\ rank2[p] = 0
      /\ \A i \in O : i # p => rank2[i] = rank[i]
  BY DEF Forest
<1> HIDE DEF rank2
<1>2. hm[p] # f /\ q # p /\ rank[p] # 0 /\ rank[p] = rank[q] + 1
  BY DEF Forest
<1>3. \A i \in O \cup {f} : rank2[i] = 0 <=> hm2[i] = i
  BY <1>1, <1>2 DEF Forest
<1>4. \A i \in O \cup {f} : nx2[i] # Invalid =>
        nx2[i] \in O \cup {f} /\ hm2[nx2[i]] = hm2[i] /\ rank2[nx2[i]] = rank2[i] + 1
  BY <1>1, <1>2 DEF Forest
<1>5. ASSUME NEW i \in O \cup {f}, hm2[i] # i
      PROVE  \E j \in O \cup {f} : nx2[j] = i
  <2>1. CASE i = f
    BY <2>1
  <2>2. CASE i # f
    <3>1. i \in O /\ i # p /\ hm[i] # i
      BY <1>5, <2>2
    <3>2. PICK j \in O : nx[j] = i
      BY <3>1 DEF Forest
    <3> QED
      BY <3>1, <3>2
  <2> QED
    BY <2>1, <2>2
<1>6. \A i, j \in O \cup {f} : nx2[i] = nx2[j] /\ nx2[i] # Invalid => i = j
  BY <1>2 DEF Forest
<1>7. Forest(O \cup {f}, nx2, hm2, rank2)
  BY <1>1, <1>3, <1>4, <1>5, <1>6 DEF Forest
<1> QED
  BY <1>7

\* A slot leaves its chain: the one before it links to the one behind it.
LEMMA ForestCut ==
  ASSUME NEW O, NEW nx, NEW hm, NEW rank, Forest(O, nx, hm, rank), Invalid \notin O,
         NEW s \in O, hm[s] # s, NEW q \in O, nx[q] = s,
         \A i \in O : hm[i] = hm[s] /\ rank[i] = rank[s] => i = s,
         NEW nx2, NEW hm2, nx2[q] = nx[s],
         \A i \in O \ {s} : hm2[i] = hm[i] /\ (i # q => nx2[i] = nx[i])
  PROVE  \E rank2 : Forest(O \ {s}, nx2, hm2, rank2)
<1> DEFINE later(i) == hm[i] = hm[s] /\ rank[i] > rank[s]
           rank2 == [i \in O \ {s} |-> IF later(i) THEN rank[i] - 1 ELSE rank[i]]
<1>1. rank \in [O -> Nat] /\ rank[s] = rank[q] + 1 /\ hm[q] = hm[s] /\ q # s
  BY DEF Forest
<1>2. rank2 \in [O \ {s} -> Nat]
  BY <1>1
<1>3. \A i \in O \ {s} : rank2[i] = IF later(i) THEN rank[i] - 1 ELSE rank[i]
  OBVIOUS
<1> HIDE DEF rank2
<1>4. ASSUME NEW i \in O \ {s}
      PROVE  /\ rank2[i] = 0 <=> hm2[i] = i
             /\ nx2[i] # Invalid =>
                  nx2[i] \in O \ {s} /\ hm2[nx2[i]] = hm2[i] /\ rank2[nx2[i]] = rank2[i] + 1
  <2>1. rank2[i] = 0 <=> rank[i] = 0
    BY <1>1, <1>3
  <2>2. rank[i] = 0 <=> hm[i] = i
    BY DEF Forest
  <2>3. CASE i = q
    BY <1>1, <1>3, <2>1, <2>2, <2>3 DEF Forest
  <2>4. ASSUME i # q, nx[i] # Invalid
        PROVE  nx[i] \in O \ {s} /\ hm2[nx[i]] = hm2[i] /\ rank2[nx[i]] = rank2[i] + 1
    <3>1. nx[i] \in O \ {s} /\ hm[nx[i]] = hm[i] /\ rank[nx[i]] = rank[i] + 1
      BY <2>4 DEF Forest
    <3>2. later(nx[i]) <=> later(i)
      BY <1>1, <3>1
    <3> QED
      BY <1>1, <1>3, <3>1, <3>2
  <2> QED
    BY <2>1, <2>2, <2>3, <2>4
<1>5. ASSUME NEW i \in O \ {s}, hm2[i] # i
      PROVE  \E j \in O \ {s} : nx2[j] = i
  <2>1. PICK j \in O : nx[j] = i
    BY <1>5 DEF Forest
  <2> QED
    BY <1>1, <2>1
<1>6. \A i, j \in O \ {s} : nx2[i] = nx2[j] /\ nx2[i] # Invalid => i = j
  BY <1>1 DEF Forest
<1>7. Forest(O \ {s}, nx2, hm2, rank2)
  BY <1>2, <1>4, <1>5, <1>6 DEF Forest
<1> QED
  BY <1>7

\* A chain of one slot goes.
LEMMA ForestDrop ==
  ASSUME NEW O, NEW nx, NEW hm, NEW rank, Forest(O, nx, hm, rank), Invalid \notin O,
         NEW s \in O, hm[s] = s, nx[s] = Invalid, NEW nx2, NEW hm2,
         \A i \in O \ {s} : hm2[i] = hm[i] /\ nx2[i] = nx[i]
  PROVE  \E rank2 : Forest(O \ {s}, nx2, hm2, rank2)
<1> DEFINE rank2 == [i \in O \ {s} |-> rank[i]]
<1>1. rank2 \in [O \ {s} -> Nat] /\ \A i \in O \ {s} : rank2[i] = rank[i]
  BY DEF Forest
<1> HIDE DEF rank2
<1>2. \A i \in O : nx[i] # s
  BY DEF Forest
<1>3. Forest(O \ {s}, nx2, hm2, rank2)
  BY <1>1, <1>2 DEF Forest
<1> QED
  BY <1>3

\* A rank is below the number of slots: as many slots come before it.
LEMMA RankBound ==
  ASSUME NEW O, IsFiniteSet(O), Invalid \notin O, NEW nx, NEW hm, NEW rank, Forest(O, nx, hm, rank)
  PROVE  \A i \in O : rank[i] < Cardinality(O)
<1> DEFINE Before(r) == \E S \in SUBSET O : Cardinality(S) = r + 1 /\ \A j \in S : rank[j] <= r
           T == {r \in Nat : \A i \in O : rank[i] = r => Before(r)}
<1>1. 0 \in T
  <2>1. ASSUME NEW i \in O, rank[i] = 0
        PROVE  Before(0)
    <3>1. {i} \in SUBSET O /\ \A j \in {i} : rank[j] <= 0
      BY <2>1
    <3>2. Cardinality({i}) = 1
      BY FS_Singleton, Zenon
    <3> QED
      BY <3>1, <3>2
  <2> HIDE DEF Before
  <2> QED
    BY <2>1
<1>2. ASSUME NEW r \in Nat, r \in T
      PROVE  r + 1 \in T
  <2>1. ASSUME NEW i \in O, rank[i] = r + 1
        PROVE  Before(r + 1)
    <3>1. PICK j \in O : nx[j] = i
      BY <2>1 DEF Forest
    <3>2. rank[j] = r
      <4>1. rank[i] = rank[j] + 1 /\ rank[j] \in Nat
        BY <3>1 DEF Forest
      <4> QED
        BY <2>1, <4>1
    <3>3. PICK S \in SUBSET O : Cardinality(S) = r + 1 /\ \A m \in S : rank[m] <= r
      BY <1>2, <3>2
    <3>4. i \notin S
      BY <2>1, <3>3
    <3>5. IsFiniteSet(S)
      BY FS_Subset
    <3>6. Cardinality(S \cup {i}) = (r + 1) + 1
      BY <3>3, <3>4, <3>5, FS_AddElement
    <3>7. \A m \in S \cup {i} : rank[m] <= r + 1
      <4>1. rank \in [O -> Nat]
        BY DEF Forest
      <4> QED
        BY <2>1, <3>3, <4>1
    <3> QED
      BY <3>6, <3>7
  <2> HIDE DEF Before
  <2> QED
    BY <2>1
<1> HIDE DEF T, Before
<1>3. Nat \subseteq T
  BY <1>1, <1>2, Induction
<1>4. ASSUME NEW i \in O
      PROVE  rank[i] < Cardinality(O)
  <2>1. rank[i] \in Nat
    BY DEF Forest
  <2>2. Before(rank[i])
    BY <1>3, <2>1 DEF T
  <2>3. PICK S \in SUBSET O : Cardinality(S) = rank[i] + 1
    BY <2>2 DEF Before
  <2>4. Cardinality(S) <= Cardinality(O) /\ Cardinality(O) \in Nat
    BY FS_Subset, FS_CardinalityType
  <2> QED
    BY <2>1, <2>3, <2>4
<1> QED
  BY <1>4

Nexts(t) == [i \in Occupied(t) |-> t.data[i].next]
Homes(t) == [i \in Occupied(t) |-> MainPos(t, t.data[i].hash)]
Rooted(t, rank) == Forest(Occupied(t), Nexts(t), Homes(t), rank)

LEMMA OccupiedIs ==
  ASSUME NEW t, Table(t)
  PROVE  /\ IsFiniteSet(Slots(t)) /\ Cardinality(Slots(t)) = t.capacity
         /\ Occupied(t) \subseteq Slots(t) /\ IsFiniteSet(Occupied(t))
         /\ Cardinality(Occupied(t)) \in 0 .. t.capacity
         /\ Invalid \notin Slots(t)
<1>1. t.capacity \in Nat /\ t.capacity <= Invalid /\ Invalid \in Nat
  BY Numbers DEF Table
<1>2. IsFiniteSet(Slots(t)) /\ Cardinality(Slots(t)) = t.capacity
  <2>1. /\ IsFiniteSet(0 .. t.capacity - 1)
        /\ Cardinality(0 .. t.capacity - 1) = IF 0 > t.capacity - 1 THEN 0 ELSE (t.capacity - 1) - 0 + 1
    <3>1. 0 \in Int /\ t.capacity - 1 \in Int
      BY <1>1
    <3> QED
      BY <3>1, FS_Interval, Zenon
  <2> QED
    BY <1>1, <2>1 DEF Slots
<1>3. Occupied(t) \in SUBSET Slots(t)
  BY DEF Occupied
<1>4. IsFiniteSet(Occupied(t)) /\ Cardinality(Occupied(t)) <= t.capacity
  BY <1>2, <1>3, FS_Subset
<1>5. Cardinality(Occupied(t)) \in Nat
  BY <1>4, FS_CardinalityType
<1> QED
  BY <1>1, <1>2, <1>3, <1>4, <1>5 DEF Slots

\* From its head a chain is walked without leaving it, one rank at each step.
LEMMA ChainStays ==
  ASSUME NEW t, Table(t), NEW rank, Rooted(t, rank), NEW p \in Occupied(t), Homes(t)[p] = p
  PROVE  \A k \in 1 .. t.capacity :
           /\ Chain(t, p)[k] \in Occupied(t) /\ Homes(t)[Chain(t, p)[k]] = p
           /\ rank[Chain(t, p)[k]] = k - 1 \/ Nexts(t)[Chain(t, p)[k]] = Invalid
<1> DEFINE n == t.capacity
           O == Occupied(t)
           nx == Nexts(t)
           hm == Homes(t)
           c == Chain(t, p)
           On(i, k) == i \in O /\ hm[i] = p /\ (rank[i] = k - 1 \/ nx[i] = Invalid)
           T == {k \in 0 .. n - 1 : On(c[k + 1], k + 1)}
<1>1. p \in Slots(t) /\ n \in Nat \ {0}
  BY DEF Occupied, Slots, Table
<1>2. c[1] = p /\ \A k \in 1 .. n - 1 : c[k + 1] = Succ(t, c[k])
  BY <1>1, ChainIs
<1>3. \A i \in O : Succ(t, i) = IF nx[i] = Invalid THEN i ELSE nx[i]
  BY DEF Succ, Nexts
<1>4. Forest(O, nx, hm, rank) /\ hm[p] = p
  BY DEF Rooted
<1> HIDE DEF n, O, nx, hm, c
<1>5. 0 \in T
  BY <1>1, <1>2, <1>4 DEF Forest, O
<1>6. ASSUME NEW k \in 0 .. (n - 1) - 1, k \in T
      PROVE  k + 1 \in T
  <2>1. k + 1 \in 1 .. n - 1 /\ On(c[k + 1], k + 1)
    BY <1>1, <1>6
  <2>2. c[k + 1 + 1] = IF nx[c[k + 1]] = Invalid THEN c[k + 1] ELSE nx[c[k + 1]]
    BY <1>2, <1>3, <2>1
  <2>3. On(c[k + 1 + 1], k + 1 + 1)
    <3>1. CASE nx[c[k + 1]] = Invalid
      BY <2>1, <2>2, <3>1
    <3>2. CASE nx[c[k + 1]] # Invalid
      BY <1>4, <2>1, <2>2, <3>2 DEF Forest
    <3> QED
      BY <3>1, <3>2
  <2> HIDE DEF On
  <2> QED
    BY <1>1, <2>1, <2>3
<1> HIDE DEF T
<1>7. n - 1 \in Nat
  BY <1>1
<1>8. 0 .. n - 1 \subseteq T
  BY <1>5, <1>6, <1>7, InductionUpTo
<1>9. ASSUME NEW k \in 1 .. n
      PROVE  On(c[k], k)
  <2>1. k - 1 \in 0 .. n - 1 /\ (k - 1) + 1 = k
    BY <1>1
  <2>2. On(c[(k - 1) + 1], (k - 1) + 1)
    BY <1>8, <2>1 DEF T
  <2> QED
    BY <2>1, <2>2
<1> QED
  BY <1>9 DEF n, O, nx, hm, c

\* The chain ends within the array.
LEMMA ChainEnds ==
  ASSUME NEW t, Table(t), NEW rank, Rooted(t, rank), NEW p \in Occupied(t), Homes(t)[p] = p
  PROVE  LastOf(t, p) \in Occupied(t) /\ Homes(t)[LastOf(t, p)] = p /\ Nexts(t)[LastOf(t, p)] = Invalid
<1> DEFINE n == t.capacity
           i == LastOf(t, p)
           O == Occupied(t)
           nx == Nexts(t)
           hm == Homes(t)
<1>1. n \in Nat \ {0} /\ IsFiniteSet(O) /\ Cardinality(O) \in 0 .. n /\ Invalid \notin O
  <2>1. p \in Slots(t) /\ n \in Nat
    BY DEF Occupied, Table
  <2>2. n # 0
    BY <2>1 DEF Slots
  <2> QED
    BY <2>1, <2>2, OccupiedIs
<1>2. i \in O /\ hm[i] = p /\ (rank[i] = n - 1 \/ nx[i] = Invalid)
  BY <1>1, ChainStays DEF LastOf
<1>3. Forest(O, nx, hm, rank)
  BY DEF Rooted
<1> HIDE DEF i, O, nx, hm, n
<1>4. \A j \in O : rank[j] < Cardinality(O)
  BY <1>1, <1>3, RankBound
<1>5. nx[i] = Invalid
  <2> SUFFICES ASSUME nx[i] # Invalid
               PROVE  FALSE
    OBVIOUS
  <2>1. nx[i] \in O /\ rank[nx[i]] = rank[i] + 1 /\ rank[i] = n - 1
    BY <1>2, <1>3 DEF Forest
  <2>2. rank[nx[i]] < Cardinality(O)
    BY <1>4, <2>1
  <2> QED
    BY <1>1, <2>1, <2>2
<1> QED
  BY <1>2, <1>5 DEF i, O, nx, hm

\* Every entry is on the chain of its main position, as far from it as its rank.
LEMMA OnItsChain ==
  ASSUME NEW t, Table(t), NEW rank, Rooted(t, rank), NEW i \in Occupied(t)
  PROVE  LET p == Homes(t)[i] IN
         /\ p \in Occupied(t) /\ Homes(t)[p] = p
         /\ rank[i] + 1 \in 1 .. t.capacity /\ Chain(t, p)[rank[i] + 1] = i
<1> DEFINE n == t.capacity
           O == Occupied(t)
           nx == Nexts(t)
           hm == Homes(t)
           c(p) == Chain(t, p)
           Reached(j) == hm[j] \in O /\ hm[hm[j]] = hm[j] /\ c(hm[j])[rank[j] + 1] = j
           T == {r \in 0 .. n : \A j \in O : rank[j] = r => Reached(j)}
<1>1. n \in Nat \ {0} /\ IsFiniteSet(O) /\ Cardinality(O) \in 0 .. n /\ Invalid \notin O
      /\ O \subseteq Slots(t)
  <2>1. i \in Slots(t) /\ n \in Nat
    BY DEF Occupied, Table
  <2>2. n # 0
    BY <2>1 DEF Slots
  <2> QED
    BY <2>1, <2>2, OccupiedIs
<1>2. Forest(O, nx, hm, rank)
  BY DEF Rooted
<1>3. \A p \in O : c(p)[1] = p /\ \A k \in 1 .. n - 1 : c(p)[k + 1] = Succ(t, c(p)[k])
  BY <1>1, ChainIs
<1>4. \A j \in O : Succ(t, j) = IF nx[j] = Invalid THEN j ELSE nx[j]
  BY DEF Succ, Nexts
<1> HIDE DEF O, nx, hm, n, c
<1>5. \A j \in O : rank[j] < Cardinality(O) /\ rank[j] \in Nat
  BY <1>1, <1>2, RankBound DEF Forest
<1>6. 0 \in T
  <2>1. ASSUME NEW j \in O, rank[j] = 0
        PROVE  Reached(j)
    <3>1. hm[j] = j
      BY <1>2, <2>1 DEF Forest
    <3> QED
      BY <1>3, <2>1, <3>1
  <2> HIDE DEF Reached
  <2> QED
    BY <1>1, <2>1
<1>7. ASSUME NEW r \in 0 .. n - 1, r \in T
      PROVE  r + 1 \in T
  <2>1. ASSUME NEW j \in O, rank[j] = r + 1
        PROVE  Reached(j)
    <3>1. PICK m \in O : nx[m] = j
      BY <1>1, <1>2, <2>1 DEF Forest
    <3>2. rank[m] = r /\ hm[j] = hm[m]
      BY <1>1, <1>2, <1>5, <2>1, <3>1 DEF Forest
    <3>3. Reached(m)
      BY <1>7, <3>2
    <3>4. r + 1 \in 1 .. n - 1
      BY <1>1, <1>5, <2>1
    <3>5. c(hm[m])[r + 1 + 1] = Succ(t, c(hm[m])[r + 1])
      BY <1>3, <3>3, <3>4
    <3> QED
      BY <1>1, <1>4, <2>1, <3>1, <3>2, <3>3, <3>5
  <2> HIDE DEF Reached
  <2> QED
    BY <1>1, <2>1
<1> HIDE DEF T
<1>8. 0 .. n \subseteq T
  BY <1>1, <1>6, <1>7, InductionUpTo
<1>9. i \in O
  BY DEF O
<1>10. rank[i] \in 0 .. n /\ rank[i] + 1 \in 1 .. n
  BY <1>1, <1>5, <1>9
<1>11. Reached(i)
  BY <1>8, <1>9, <1>10 DEF T
<1> QED
  BY <1>10, <1>11 DEF n, O, nx, hm, c

\* On one chain no two entries have the same rank.
LEMMA RankUnique ==
  ASSUME NEW t, Table(t), NEW rank, Rooted(t, rank), NEW i \in Occupied(t), NEW j \in Occupied(t),
         Homes(t)[i] = Homes(t)[j], rank[i] = rank[j]
  PROVE  i = j
<1>1. Chain(t, Homes(t)[i])[rank[i] + 1] = i /\ Chain(t, Homes(t)[j])[rank[j] + 1] = j
  BY OnItsChain
<1> QED
  BY <1>1

\* The slots of a chain are the entries of its main position.
LEMMA ChainHolds ==
  ASSUME NEW t, Table(t), NEW rank, Rooted(t, rank), NEW p \in Occupied(t), Homes(t)[p] = p
  PROVE  Range(Chain(t, p)) = {i \in Occupied(t) : Homes(t)[i] = p}
<1>1. t.capacity \in Nat /\ p \in Slots(t)
  BY DEF Occupied, Table
<1>2. DOMAIN Chain(t, p) = 1 .. t.capacity
  BY <1>1, ChainIs
<1>3. ASSUME NEW i \in Range(Chain(t, p))
      PROVE  i \in Occupied(t) /\ Homes(t)[i] = p
  <2>1. PICK k \in 1 .. t.capacity : i = Chain(t, p)[k]
    BY <1>2 DEF Range
  <2> QED
    BY <2>1, ChainStays
<1>4. ASSUME NEW i \in Occupied(t), Homes(t)[i] = p
      PROVE  i \in Range(Chain(t, p))
  <2>1. rank[i] + 1 \in 1 .. t.capacity /\ Chain(t, p)[rank[i] + 1] = i
    BY <1>4, OnItsChain
  <2> QED
    BY <1>2, <2>1 DEF Range
<1> QED
  BY <1>3, <1>4

(***************************************************************************)
(* What a table holds                                                      *)
(***************************************************************************)
Filed(t) ==
  \A i \in Occupied(t) : /\ t.data[i].key \in Keys /\ t.data[i].value \in Values
                         /\ t.data[i].hash = hashOf[t.data[i].key]

Distinct(t) == \A i, j \in Occupied(t) : t.data[i].key = t.data[j].key => i = j

Unlinked(t) == \A i \in Slots(t) \ Occupied(t) : t.data[i].next = Invalid

Sound(t) ==
  /\ Table(t) /\ Filed(t) /\ Distinct(t) /\ Unlinked(t)
  /\ \E rank : Rooted(t, rank)

Holds(t, k, v) == \E i \in Occupied(t) : t.data[i].key = k /\ t.data[i].value = v

\* The slots tbl_get looks at are all the entries with the key's main position.
LEMMA ChainOfIs ==
  ASSUME NEW t, Sound(t), NEW k, hashOf[k] \in Nat
  PROVE  /\ ChainOf(t, k) \in Seq(Slots(t))
         /\ Range(ChainOf(t, k)) = {i \in Occupied(t) : Homes(t)[i] = MainPos(t, hashOf[k])}
<1> DEFINE pos == MainPos(t, hashOf[k])
<1>1. PICK rank : Rooted(t, rank)
  BY DEF Sound
<1>2. Table(t) /\ t.capacity \in Nat
  BY DEF Sound, Table
<1>3. \A i \in Occupied(t) : Homes(t)[i] \in Occupied(t) /\ Homes(t)[Homes(t)[i]] = Homes(t)[i]
  BY <1>1, <1>2, OnItsChain
<1>4. \A i \in Occupied(t) : Homes(t)[i] = MainPos(t, t.data[i].hash)
  BY DEF Homes
<1>5. CASE t.capacity = 0 \/ IsEmpty(t.data[pos]) \/ MainPos(t, t.data[pos].hash) # pos
  <2>1. ChainOf(t, k) = <<>>
    BY <1>5 DEF ChainOf
  <2>2. Range(<<>>) = {}
    BY DEF Range
  <2>3. ASSUME NEW i \in Occupied(t)
        PROVE  Homes(t)[i] # pos
    <3>1. i \in Slots(t) /\ (Homes(t)[i] = pos => ~IsEmpty(t.data[pos]) /\ MainPos(t, t.data[pos].hash) = pos)
      BY <1>3, <1>4 DEF Occupied
    <3>2. t.capacity # 0
      BY <3>1 DEF Slots
    <3> QED
      BY <1>5, <3>1, <3>2
  <2> HIDE DEF pos
  <2> QED
    BY <2>1, <2>2, <2>3 DEF pos
<1>6. CASE ~(t.capacity = 0 \/ IsEmpty(t.data[pos]) \/ MainPos(t, t.data[pos].hash) # pos)
  <2>1. ChainOf(t, k) = Chain(t, pos)
    BY <1>6 DEF ChainOf
  <2>2. pos \in Slots(t)
    BY <1>2, <1>6, InArray DEF MainPos, Slots
  <2>3. pos \in Occupied(t) /\ Homes(t)[pos] = pos
    BY <1>4, <1>6, <2>2 DEF Occupied
  <2>4. Chain(t, pos) \in [1 .. t.capacity -> Slots(t)]
    BY <1>2, <2>2, ChainIs
  <2>5. Chain(t, pos) \in Seq(Slots(t))
    BY <1>2, <2>4
  <2> HIDE DEF pos
  <2>6. Range(Chain(t, pos)) = {i \in Occupied(t) : Homes(t)[i] = pos}
    BY <1>1, <1>2, <2>3, ChainHolds
  <2> QED
    BY <2>1, <2>5, <2>6 DEF pos
<1> QED
  BY <1>5, <1>6

\* The key's entry, if there is one, is among them.
LEMMA KeyIsThere ==
  ASSUME NEW t, Sound(t), NEW k, hashOf[k] \in Nat, NEW i \in Occupied(t), t.data[i].key = k
  PROVE  i \in Range(ChainOf(t, k)) /\ t.data[i].hash = hashOf[k]
<1>1. t.data[i].hash = hashOf[k]
  BY DEF Sound, Filed
<1>2. Homes(t)[i] = MainPos(t, hashOf[k])
  BY <1>1 DEF Homes
<1> QED
  BY <1>1, <1>2, ChainOfIs

LEMMA FoundIs ==
  ASSUME NEW t, Sound(t), NEW k, hashOf[k] \in Nat, Terminated
  PROVE  Found(t, k) <=> \E i \in Occupied(t) : t.data[i].key = k
<1>1. \A i \in Range(ChainOf(t, k)) : i \in Occupied(t)
  BY ChainOfIs
<1> QED
  BY <1>1, KeyIsThere DEF Found, SameKey

\* tbl_get returns the value of the key's entry, and nothing without one.
LEMMA LookupIs ==
  ASSUME NEW t, Sound(t), NEW k, hashOf[k] \in Nat
  PROVE  /\ \A v : Holds(t, k, v) => Lookup(t, k) = v
         /\ (\A v : ~Holds(t, k, v)) => Lookup(t, k) = NoValue
<1> DEFINE s == ChainOf(t, k)
           I == {i \in 1 .. Len(s) : t.data[s[i]].key = k}
           hit == IF I # {} THEN Min(I) ELSE 0
<1>1. Lookup(t, k) = IF hit = 0 THEN NoValue ELSE t.data[s[hit]].value
  BY DEF Lookup, SelectInSeq
<1>2. s \in Seq(Slots(t)) /\ Range(s) \subseteq Occupied(t)
  BY ChainOfIs
<1>3. \A i \in Occupied(t) : t.data[i].key = k => i \in Range(s)
  BY KeyIsThere
<1> HIDE DEF s
<1>4. \A i \in Range(s) : \E m \in 1 .. Len(s) : s[m] = i
  BY <1>2 DEF Range
<1>5. I \in SUBSET Nat
  BY <1>2
<1>6. CASE I = {}
  <2>1. \A i \in Occupied(t) : t.data[i].key # k
    BY <1>3, <1>4, <1>6
  <2>2. Lookup(t, k) = NoValue
    BY <1>1, <1>6
  <2> QED
    BY <2>1, <2>2 DEF Holds
<1>7. CASE I # {}
  <2>1. Min(I) \in I
    BY <1>5, <1>7, MinIsLeast
  <2>2. hit \in 1 .. Len(s) /\ t.data[s[hit]].key = k
    BY <1>7, <2>1
  <2> HIDE DEF hit, I
  <2>3. s[hit] \in Occupied(t) /\ hit # 0
    BY <1>2, <2>2 DEF Range
  <2>4. Lookup(t, k) = t.data[s[hit]].value
    BY <1>1, <2>3
  <2>5. Holds(t, k, Lookup(t, k))
    BY <2>2, <2>3, <2>4 DEF Holds
  <2>6. \A v : Holds(t, k, v) => Lookup(t, k) = v
    BY <2>2, <2>3, <2>4 DEF Holds, Sound, Distinct
  <2> QED
    BY <2>5, <2>6
<1> QED
  BY <1>6, <1>7

\* tbl_remove meets the key's entry, or one of the same hash before it.
LEMMA FirstHitMisses ==
  ASSUME NEW t, Sound(t), NEW k, hashOf[k] \in Nat, FirstHit(t, k) = Invalid
  PROVE  \A i \in Occupied(t) : t.data[i].key # k
<1> SUFFICES ASSUME NEW i \in Occupied(t), t.data[i].key = k
             PROVE  FALSE
  OBVIOUS
<1> DEFINE s == ChainOf(t, k)
           I == {m \in 1 .. Len(s) : t.data[s[m]].hash = hashOf[k] /\ SameKind(t.data[s[m]], k)}
           hit == IF I # {} THEN Min(I) ELSE 0
<1>1. FirstHit(t, k) = IF hit = 0 THEN Invalid ELSE s[hit]
  BY DEF FirstHit, SelectInSeq
<1>2. s \in Seq(Slots(t)) /\ i \in Range(s) /\ t.data[i].hash = hashOf[k]
  BY ChainOfIs, KeyIsThere
<1> HIDE DEF s
<1>3. I \in SUBSET Nat /\ I # {}
  BY <1>2 DEF Range, SameKind
<1>4. Min(I) \in I
  BY <1>3, MinIsLeast
<1>5. hit \in 1 .. Len(s)
  BY <1>3, <1>4
<1>6. s[hit] \in Slots(t)
  BY <1>2, <1>5
<1>7. FirstHit(t, k) = s[hit]
  BY <1>1, <1>5
<1>8. Invalid \notin Slots(t)
  BY OccupiedIs DEF Sound
<1> QED
  BY <1>6, <1>7, <1>8

(***************************************************************************)
(* An entry is placed                                                      *)
(***************************************************************************)
\* Every slot below the free index is taken, every slot when there is none.
NoGap(t) == \A i \in Slots(t) : i < t.freeIndex => i \in Occupied(t)

\* The slot x is taken, the entry e is in the slot at, which is x or the slot
\* whose entry is in x now.
Placed(t, r, e, x, at) ==
  /\ Table(r) /\ r.capacity = t.capacity /\ Unlinked(r)
  /\ x \notin Occupied(t) /\ Occupied(r) = Occupied(t) \cup {x}
  /\ at \in Occupied(r) /\ Same(r.data[at], e)
  /\ at # x => Same(r.data[x], t.data[at])
  /\ \A i \in Occupied(t) \ {at} : Same(r.data[i], t.data[i])
  /\ r.freeIndex = t.freeIndex \/ (r.freeIndex = Advanced(t) /\ x = t.freeIndex)
  /\ \E rank : Rooted(r, rank)

New(t, e) ==
  /\ Entry(e, t.capacity) /\ e.key \in Keys /\ e.value \in Values /\ e.hash = hashOf[e.key]
  /\ \A i \in Occupied(t) : t.data[i].key # e.key

LEMMA PlacedIs ==
  ASSUME NEW t, Sound(t), NEW e, New(t, e), NEW r, NEW x, NEW at, Placed(t, r, e, x, at)
  PROVE  /\ Sound(r)
         /\ \A k, v : Holds(r, k, v) <=> Holds(t, k, v) \/ (k = e.key /\ v = e.value)
<1>1. Filed(t) /\ Distinct(t)
  BY DEF Sound
<1>2. \A i \in Occupied(r) : \/ i = at /\ Same(r.data[i], e)
                             \/ i = x /\ at \in Occupied(t) /\ Same(r.data[i], t.data[at])
                             \/ i \in Occupied(t) \ {at} /\ Same(r.data[i], t.data[i])
  BY DEF Placed
<1>3. Filed(r)
  BY <1>1, <1>2 DEF Filed, Same, New
<1>4. Distinct(r)
  BY <1>1, <1>2 DEF Distinct, Same, New, Placed
<1>5. Sound(r)
  BY <1>3, <1>4 DEF Sound, Placed
<1>6. ASSUME NEW k, NEW v, Holds(r, k, v)
      PROVE  Holds(t, k, v) \/ (k = e.key /\ v = e.value)
  BY <1>2, <1>6 DEF Holds, Same
<1>7. \A i \in Occupied(t) : \E j \in Occupied(r) : Same(r.data[j], t.data[i])
  BY DEF Placed
<1>8. ASSUME NEW k, NEW v, Holds(t, k, v) \/ (k = e.key /\ v = e.value)
      PROVE  Holds(r, k, v)
  <2>1. CASE Holds(t, k, v)
    BY <1>7, <2>1 DEF Holds, Same
  <2>2. CASE k = e.key /\ v = e.value
    BY <2>2 DEF Holds, Same, Placed
  <2> QED
    BY <1>8, <2>1, <2>2
<1> QED
  BY <1>5, <1>6, <1>8

LEMMA PlacedNoGap ==
  ASSUME NEW t, Sound(t), t.capacity > 0, NoGap(t), NEW e, NEW r, NEW x, NEW at, Placed(t, r, e, x, at)
  PROVE  NoGap(r)
<1>1. /\ Table(t) /\ t.capacity \in Nat /\ t.freeIndex \in Nat /\ Invalid \in Nat
      /\ Slots(t) = 0 .. t.capacity - 1
  BY Numbers DEF Sound, Table, Slots
<1>2. Slots(r) = Slots(t) /\ Occupied(r) = Occupied(t) \cup {x}
  BY DEF Placed, Slots
<1>3. /\ Advanced(t) \in Slots(t) \cup {Invalid}
      /\ \A i \in Slots(t) : i > t.freeIndex /\ i < Advanced(t) => i \in Occupied(t)
  BY <1>1, AdvancedIs DEF Occupied
<1>4. ASSUME NEW i \in Slots(t), i < r.freeIndex
      PROVE  i \in Occupied(r)
  <2>1. CASE r.freeIndex = t.freeIndex
    BY <1>2, <1>4, <2>1 DEF NoGap
  <2>2. CASE r.freeIndex = Advanced(t) /\ x = t.freeIndex
    <3>1. i < t.freeIndex => i \in Occupied(t)
      BY DEF NoGap
    <3>2. i < t.freeIndex \/ i = t.freeIndex \/ i > t.freeIndex
      BY <1>1
    <3> QED
      BY <1>2, <1>3, <1>4, <2>2, <3>1, <3>2
  <2> QED
    BY <2>1, <2>2 DEF Placed
<1> QED
  BY <1>2, <1>4 DEF NoGap

LEMMA HomeIs ==
  ASSUME NEW t, NEW i \in Occupied(t)
  PROVE  Nexts(t)[i] = t.data[i].next /\ Homes(t)[i] = MainPos(t, t.data[i].hash)
BY DEF Nexts, Homes

LEMMA PutHerePlaces ==
  ASSUME NEW t, Sound(t), t.capacity > 0, NEW e, New(t, e), NEW pos, pos = MainPos(t, e.hash),
         NEW r, r = PutHere(t, e, pos), Table(r), IsEmpty(t.data[pos])
  PROVE  Placed(t, r, e, pos, pos)
<1>1. Table(t) /\ Unlinked(t) /\ Entry(e, t.capacity) /\ t.capacity \in Nat \ {0} /\ e.hash \in Nat
  BY DEF Sound, New, Table, Entry
<1>2. pos \in Slots(t)
  BY <1>1, InArray DEF MainPos, Slots
<1>3. /\ r.capacity = t.capacity
      /\ r.freeIndex = IF pos = t.freeIndex THEN Advanced(t) ELSE t.freeIndex
      /\ \A i \in Slots(t) : IF i = pos THEN Same(r.data[i], e) /\ r.data[i].next = t.data[i].next
                             ELSE r.data[i] = t.data[i]
  BY <1>1, <1>2, PutHereIs
<1>4. Slots(r) = Slots(t)
  BY <1>3 DEF Slots
<1>5. e.key # NoKey
  BY HashTblAssumption DEF New, HashTblAssumption
<1>6. pos \notin Occupied(t) /\ Occupied(r) = Occupied(t) \cup {pos}
  BY <1>2, <1>3, <1>4, <1>5 DEF Occupied, IsEmpty, Same
<1>7. t.data[pos].next = Invalid /\ Unlinked(r)
  BY <1>1, <1>2, <1>3, <1>4, <1>6 DEF Unlinked
<1>8. \A h : MainPos(r, h) = MainPos(t, h)
  BY <1>3 DEF MainPos
<1>9. \A i \in Occupied(t) : i \in Slots(t) /\ i # pos /\ r.data[i] = t.data[i]
  BY <1>3, <1>6 DEF Occupied
<1>10. \A i \in Occupied(t) : Nexts(r)[i] = Nexts(t)[i] /\ Homes(r)[i] = Homes(t)[i]
  BY <1>6, <1>8, <1>9, HomeIs
<1>11. Nexts(r)[pos] = Invalid /\ Homes(r)[pos] = pos
  BY <1>2, <1>3, <1>6, <1>7, <1>8, HomeIs DEF Same
<1>12. \E rank : Rooted(r, rank)
  <2>1. PICK rank : Forest(Occupied(t), Nexts(t), Homes(t), rank)
    BY DEF Sound, Rooted
  <2>2. Invalid \notin Occupied(t)
    BY <1>1, OccupiedIs
  <2>3. \E rank2 : Forest(Occupied(t) \cup {pos}, Nexts(r), Homes(r), rank2)
    BY <1>6, <1>10, <1>11, <2>1, <2>2, ForestHead
  <2> QED
    BY <1>6, <2>3 DEF Rooted
<1> QED
  BY <1>2, <1>3, <1>6, <1>7, <1>9, <1>12 DEF Placed, Same

LEMMA PutLastPlaces ==
  ASSUME NEW t, Sound(t), t.capacity > 0, NEW e, New(t, e), NEW pos, pos = MainPos(t, e.hash),
         NEW r, r = PutLast(t, e, pos), Table(r),
         ~IsEmpty(t.data[pos]), MainPos(t, t.data[pos].hash) = pos, t.freeIndex \in Slots(t)
  PROVE  Placed(t, r, e, t.freeIndex, t.freeIndex)
<1> DEFINE f == t.freeIndex
           q == LastOf(t, pos)
<1>1. Table(t) /\ Unlinked(t) /\ Entry(e, t.capacity) /\ t.capacity \in Nat \ {0} /\ e.hash \in Nat
      /\ f \in Slots(t) /\ IsEmpty(t.data[f])
  BY DEF Sound, New, Table, Entry
<1>2. pos \in Slots(t)
  BY <1>1, InArray DEF MainPos, Slots
<1>3. pos \in Occupied(t) /\ Homes(t)[pos] = pos
  BY <1>2, HomeIs DEF Occupied
<1>4. PICK rank : Rooted(t, rank)
  BY DEF Sound
<1>5. q \in Occupied(t) /\ Homes(t)[q] = pos /\ Nexts(t)[q] = Invalid
  BY <1>1, <1>3, <1>4, ChainEnds
<1> HIDE DEF q
<1>6. /\ r.capacity = t.capacity /\ r.freeIndex = Advanced(t)
      /\ \A i \in Slots(t) : /\ Same(r.data[i], IF i = f THEN e ELSE t.data[i])
                             /\ r.data[i].next = IF i = q THEN f ELSE t.data[i].next
  BY <1>1, <1>2, PutLastIs DEF q
<1> HIDE DEF f
<1>7. Slots(r) = Slots(t)
  BY <1>6 DEF Slots
<1>8. e.key # NoKey
  BY HashTblAssumption DEF New, HashTblAssumption
<1>9. f \notin Occupied(t) /\ Occupied(r) = Occupied(t) \cup {f}
  BY <1>1, <1>6, <1>7, <1>8 DEF Occupied, IsEmpty, Same
<1>10. t.data[f].next = Invalid /\ Unlinked(r)
  BY <1>1, <1>5, <1>6, <1>7, <1>9 DEF Unlinked
<1>11. \A h : MainPos(r, h) = MainPos(t, h)
  BY <1>6 DEF MainPos
<1>12. \A i \in Occupied(t) : i \in Slots(t) /\ i # f
  BY <1>9 DEF Occupied
<1>13. \A i \in Occupied(t) : Homes(r)[i] = Homes(t)[i] /\ (i # q => Nexts(r)[i] = Nexts(t)[i])
  BY <1>6, <1>9, <1>11, <1>12, HomeIs DEF Same
<1>14. Nexts(r)[f] = Invalid /\ Homes(r)[f] = Homes(t)[q] /\ Nexts(r)[q] = f /\ Homes(t)[q] # f
  BY <1>1, <1>3, <1>5, <1>6, <1>9, <1>10, <1>11, <1>12, HomeIs DEF Same
<1>15. \E rank2 : Rooted(r, rank2)
  <2>1. Forest(Occupied(t), Nexts(t), Homes(t), rank)
    BY <1>4 DEF Rooted
  <2>2. f # Invalid
    BY <1>1, OccupiedIs
  <2>3. \E rank2 : Forest(Occupied(t) \cup {f}, Nexts(r), Homes(r), rank2)
    BY <1>5, <1>9, <1>13, <1>14, <2>1, <2>2, ForestLast
  <2> QED
    BY <1>9, <2>3 DEF Rooted
<1>16. Same(r.data[f], e) /\ \A i \in Occupied(t) : Same(r.data[i], t.data[i])
  BY <1>1, <1>6, <1>12
<1> QED
  BY <1>6, <1>9, <1>10, <1>15, <1>16 DEF Placed, f

\* A slot that does not head its chain has one before it, which BeforeIn finds.
LEMMA BeforeInIs ==
  ASSUME NEW t, Table(t), NEW rank, Rooted(t, rank), NEW i \in Occupied(t), NEW p,
         p = Homes(t)[i], p # i, NEW q, q = BeforeIn(t, p, i)
  PROVE  q \in Occupied(t) /\ Homes(t)[q] = p /\ Nexts(t)[q] = i
<1>1. p \in Occupied(t) /\ Homes(t)[p] = p
  BY OnItsChain
<1>2. Range(Chain(t, p)) = {j \in Occupied(t) : Homes(t)[j] = p}
  BY <1>1, ChainHolds
<1>3. PICK j \in Occupied(t) : Nexts(t)[j] = i
  BY DEF Rooted, Forest
<1>4. i # Invalid
  BY OccupiedIs
<1>5. Homes(t)[j] = p
  BY <1>3, <1>4 DEF Rooted, Forest
<1>6. j \in Range(Chain(t, p)) /\ t.data[j].next = i
  BY <1>2, <1>3, <1>5, HomeIs
<1>7. q \in Range(Chain(t, p)) /\ t.data[q].next = i
  BY <1>6 DEF BeforeIn
<1> QED
  BY <1>2, <1>7, HomeIs

LEMMA PutEvictingPlaces ==
  ASSUME NEW t, Sound(t), t.capacity > 0, NEW e, New(t, e), NEW pos, pos = MainPos(t, e.hash),
         NEW r, r = PutEvicting(t, e, pos), Table(r),
         ~IsEmpty(t.data[pos]), MainPos(t, t.data[pos].hash) # pos, t.freeIndex \in Slots(t)
  PROVE  Placed(t, r, e, t.freeIndex, pos)
<1> DEFINE f == t.freeIndex
           head == MainPos(t, t.data[pos].hash)
           q == BeforeIn(t, head, pos)
<1>1. Table(t) /\ Unlinked(t) /\ Entry(e, t.capacity) /\ t.capacity \in Nat \ {0} /\ e.hash \in Nat
      /\ f \in Slots(t) /\ IsEmpty(t.data[f])
  BY DEF Sound, New, Table, Entry
<1>2. pos \in Slots(t)
  BY <1>1, InArray DEF MainPos, Slots
<1>3. pos \in Occupied(t) /\ Homes(t)[pos] = head /\ head # pos
  BY <1>2, HomeIs DEF Occupied
<1>4. PICK rank : Rooted(t, rank)
  BY DEF Sound
<1>5. head \in Occupied(t)
  BY <1>1, <1>3, <1>4, OnItsChain
<1>6. q \in Occupied(t) /\ Nexts(t)[q] = pos
  <2> HIDE DEF head
  <2> QED
    BY <1>1, <1>3, <1>4, BeforeInIs
<1>7. /\ r.capacity = t.capacity /\ r.freeIndex = Advanced(t)
      /\ \A i \in Slots(t) :
           /\ Same(r.data[i], IF i = pos THEN e ELSE IF i = f THEN t.data[pos] ELSE t.data[i])
           /\ r.data[i].next = IF i = pos THEN Invalid ELSE IF i = q THEN f
                               ELSE IF i = f THEN t.data[pos].next ELSE t.data[i].next
  BY <1>1, <1>2, PutEvictingIs
<1> HIDE DEF f, q, head
<1>8. Slots(r) = Slots(t)
  BY <1>7 DEF Slots
<1>9. e.key # NoKey
  BY HashTblAssumption DEF New, HashTblAssumption
<1>10. f \notin Occupied(t) /\ f # pos /\ f # q
  BY <1>1, <1>3, <1>6 DEF Occupied
<1>11. Occupied(r) = Occupied(t) \cup {f}
  <2>1. ~IsEmpty(r.data[pos]) /\ ~IsEmpty(r.data[f])
    BY <1>1, <1>2, <1>3, <1>7, <1>9, <1>10 DEF Occupied, IsEmpty, Same
  <2>2. \A i \in Slots(t) : i # pos /\ i # f => (IsEmpty(r.data[i]) <=> IsEmpty(t.data[i]))
    BY <1>7 DEF IsEmpty, Same
  <2> QED
    BY <1>1, <1>3, <1>8, <2>1, <2>2 DEF Occupied
<1>12. Unlinked(r)
  <2>1. ASSUME NEW i \in Slots(t) \ Occupied(r)
        PROVE  r.data[i].next = Invalid
    <3>1. i # pos /\ i # f /\ i # q /\ i \in Slots(t) \ Occupied(t)
      BY <1>3, <1>6, <1>11, <2>1
    <3>2. r.data[i].next = t.data[i].next
      BY <1>7, <3>1
    <3> QED
      BY <1>1, <3>1, <3>2 DEF Unlinked
  <2> QED
    BY <1>8, <2>1 DEF Unlinked
<1>13. \A h : MainPos(r, h) = MainPos(t, h)
  BY <1>7 DEF MainPos
<1>14. \A i \in Occupied(t) : i \in Slots(t) /\ i # f
  BY <1>10 DEF Occupied
<1>15. \A i \in Occupied(t) : i # pos =>
         Homes(r)[i] = Homes(t)[i] /\ (i # q => Nexts(r)[i] = Nexts(t)[i])
  BY <1>7, <1>11, <1>13, <1>14, HomeIs DEF Same
<1>16. Nexts(r)[pos] = Invalid /\ Homes(r)[pos] = pos
  BY <1>2, <1>3, <1>7, <1>11, <1>13, HomeIs DEF Same
<1>17. Nexts(r)[f] = Nexts(t)[pos] /\ Homes(r)[f] = Homes(t)[pos]
  BY <1>1, <1>3, <1>7, <1>10, <1>11, <1>13, HomeIs DEF Same
<1>18. q # pos
  <2>1. q = pos => FALSE
    BY <1>3, <1>4, <1>6, OccupiedIs, <1>1 DEF Rooted, Forest
  <2> QED
    BY <2>1
<1>19. Nexts(r)[q] = f
  BY <1>6, <1>7, <1>11, <1>14, <1>18, HomeIs
<1>20. \E rank2 : Rooted(r, rank2)
  <2>1. Forest(Occupied(t), Nexts(t), Homes(t), rank)
    BY <1>4 DEF Rooted
  <2>2. f # Invalid /\ Invalid \notin Occupied(t)
    BY <1>1, OccupiedIs
  <2>3. \E rank2 : Forest(Occupied(t) \cup {f}, Nexts(r), Homes(r), rank2)
    BY <1>3, <1>5, <1>6, <1>10, <1>15, <1>16, <1>17, <1>19, <2>1, <2>2, ForestEvict
  <2> QED
    BY <1>11, <2>3 DEF Rooted
<1>21. Same(r.data[pos], e) /\ Same(r.data[f], t.data[pos])
       /\ \A i \in Occupied(t) \ {pos} : Same(r.data[i], t.data[i])
  BY <1>1, <1>2, <1>7, <1>10, <1>14
<1> QED
  BY <1>3, <1>7, <1>10, <1>11, <1>12, <1>20, <1>21 DEF Placed, f

\* tbl_set places an entry that is not there in one more slot.
LEMMA PutSound ==
  ASSUME NEW t, Sound(t), t.capacity > 0, NEW e, New(t, e),
         IsEmpty(t.data[MainPos(t, e.hash)]) \/ t.freeIndex \in Slots(t)
  PROVE  /\ Sound(Put(t, e)) /\ Put(t, e).capacity = t.capacity
         /\ \A k, v : Holds(Put(t, e), k, v) <=> Holds(t, k, v) \/ (k = e.key /\ v = e.value)
         /\ \E x : x \notin Occupied(t) /\ Occupied(Put(t, e)) = Occupied(t) \cup {x}
         /\ NoGap(t) => NoGap(Put(t, e))
<1> DEFINE r == Put(t, e)
           pos == MainPos(t, e.hash)
<1>1. Table(r) /\ r.capacity = t.capacity
  BY PutTable DEF Sound, New
<1>2. \E x, at : Placed(t, r, e, x, at)
  <2>1. CASE IsEmpty(t.data[pos])
    <3>1. r = PutHere(t, e, pos)
      BY <2>1 DEF Put
    <3> HIDE DEF r, pos
    <3>2. Placed(t, r, e, pos, pos)
      BY <1>1, <2>1, <3>1, PutHerePlaces DEF pos
    <3> QED
      BY <3>2
  <2>2. CASE ~IsEmpty(t.data[pos]) /\ MainPos(t, t.data[pos].hash) # pos
    <3>1. r = PutEvicting(t, e, pos) /\ t.freeIndex \in Slots(t)
      BY <2>2 DEF Put
    <3> HIDE DEF r, pos
    <3>2. Placed(t, r, e, t.freeIndex, pos)
      BY <1>1, <2>2, <3>1, PutEvictingPlaces DEF pos
    <3> QED
      BY <3>2
  <2>3. CASE ~IsEmpty(t.data[pos]) /\ MainPos(t, t.data[pos].hash) = pos
    <3>1. r = PutLast(t, e, pos) /\ t.freeIndex \in Slots(t)
      BY <2>3 DEF Put
    <3> HIDE DEF r, pos
    <3>2. Placed(t, r, e, t.freeIndex, t.freeIndex)
      BY <1>1, <2>3, <3>1, PutLastPlaces DEF pos
    <3> QED
      BY <3>2
  <2> QED
    BY <2>1, <2>2, <2>3
<1> HIDE DEF r
<1>3. PICK x, at : Placed(t, r, e, x, at)
  BY <1>2
<1>4. Sound(r) /\ \A k, v : Holds(r, k, v) <=> Holds(t, k, v) \/ (k = e.key /\ v = e.value)
  BY <1>3, PlacedIs
<1>5. NoGap(t) => NoGap(r)
  BY <1>3, PlacedNoGap
<1> QED
  BY <1>1, <1>3, <1>4, <1>5 DEF Placed, r

(***************************************************************************)
(* The larger array holds the same                                         *)
(***************************************************************************)
LEMMA FreshSound ==
  ASSUME NEW n \in 0 .. MaxCapacity
  PROVE  /\ Sound(Fresh(n)) /\ NoGap(Fresh(n)) /\ Occupied(Fresh(n)) = {}
         /\ \A k, v : ~Holds(Fresh(n), k, v)
<1> DEFINE t == Fresh(n)
<1>1. Table(t)
  BY FreshTable
<1>2. /\ Slots(t) = 0 .. n - 1 /\ t.freeIndex = 0
      /\ \A i \in Slots(t) : t.data[i] = Empty
  BY DEF Fresh, Slots
<1>3. IsEmpty(Empty) /\ Empty.next = Invalid
  BY DEF Empty, IsEmpty
<1> HIDE DEF t
<1>4. Occupied(t) = {}
  BY <1>2, <1>3 DEF Occupied
<1>5. Filed(t) /\ Distinct(t) /\ Unlinked(t) /\ \A k, v : ~Holds(t, k, v)
  BY <1>2, <1>3, <1>4 DEF Filed, Distinct, Unlinked, Holds
<1>6. n \in Nat
  BY Numbers
<1>7. NoGap(t)
  BY <1>2, <1>6 DEF NoGap
<1>8. \E rank : Rooted(t, rank)
  <2> DEFINE rank == [i \in {} |-> 0]
  <2>1. rank \in [{} -> Nat]
    OBVIOUS
  <2> HIDE DEF rank
  <2>2. Rooted(t, rank)
    BY <1>4, <2>1 DEF Rooted, Forest
  <2> QED
    BY <2>2
<1> QED
  BY <1>1, <1>4, <1>5, <1>7, <1>8 DEF Sound, t

\* While a slot is not taken, the free index names one.
LEMMA RoomLeft ==
  ASSUME NEW t, Table(t), t.capacity > 0, NoGap(t), Cardinality(Occupied(t)) < t.capacity
  PROVE  t.freeIndex \in Slots(t)
<1>1. /\ t.capacity \in Nat \ {0} /\ t.capacity <= Invalid /\ Invalid \in Nat
      /\ t.freeIndex \in Slots(t) \cup {Invalid} /\ Slots(t) = 0 .. t.capacity - 1
  BY Numbers DEF Table, Slots
<1>2. Occupied(t) # Slots(t)
  BY <1>1, OccupiedIs
<1>3. Occupied(t) \subseteq Slots(t)
  BY OccupiedIs
<1>4. CASE t.freeIndex = Invalid
  <2>1. \A i \in Slots(t) : i < t.freeIndex
    BY <1>1, <1>4
  <2>2. Slots(t) \subseteq Occupied(t)
    BY <2>1 DEF NoGap
  <2> QED
    BY <1>2, <1>3, <2>2
<1> QED
  BY <1>1, <1>4

LEMMA ReallocSound ==
  ASSUME NEW t, Sound(t), t.capacity > 0, 2 * t.capacity <= MaxCapacity, Occupied(t) = Slots(t),
         NEW r, r = Realloc(t)
  PROVE  /\ Sound(r) /\ NoGap(r) /\ r.capacity = 2 * t.capacity /\ r.freeIndex \in Slots(r)
         /\ \A k, v : Holds(r, k, v) <=> Holds(t, k, v)
<1> DEFINE n == t.capacity
           d == t.data
           Moved(k, key, v) == \E i \in 0 .. k - 1 : d[i].key = key /\ d[i].value = v
           Good(m, k) ==
             /\ Sound(m) /\ NoGap(m) /\ m.capacity = 2 * n /\ Cardinality(Occupied(m)) = k
             /\ \A key, v : Holds(m, key, v) <=> Moved(k, key, v)
<1>1. PICK moved : Moves(moved, t)
  BY ReallocMoves DEF Sound
<1>2. n \in Nat \ {0} /\ 2 * n \in 0 .. MaxCapacity /\ 2 * n > 0 /\ Slots(t) = 0 .. n - 1
  BY Numbers DEF Sound, Table, Slots
<1>3. \A i \in 0 .. n - 1 : /\ Entry(d[i], n) /\ d[i].key \in Keys /\ d[i].value \in Values
                            /\ d[i].hash = hashOf[d[i].key]
  BY <1>2 DEF Sound, Filed, Table, Array
<1>4. \A i, j \in 0 .. n - 1 : d[i].key = d[j].key => i = j
  BY <1>2 DEF Sound, Distinct
<1>5. /\ moved[0] = Fresh(2 * n) /\ r = moved[n]
      /\ \A k \in 1 .. n : moved[k] = Put(moved[k - 1], d[k - 1])
  BY <1>1 DEF Moves
<1>6. \A key, v : Holds(t, key, v) <=> Moved(n, key, v)
  BY <1>2 DEF Holds
<1> HIDE DEF n, d
<1> DEFINE T == {k \in 0 .. n : Good(moved[k], k)}
<1>7. 0 \in T
  <2>1. Fresh(2 * n).capacity = 2 * n
    BY DEF Fresh
  <2>2. \A key, v : ~Moved(0, key, v)
    OBVIOUS
  <2> HIDE DEF Moved
  <2>3. Good(Fresh(2 * n), 0)
    BY <1>2, <2>1, <2>2, FreshSound, FS_EmptySet
  <2> QED
    BY <1>2, <1>5, <2>3
<1>8. ASSUME NEW k \in 0 .. n - 1, k \in T
      PROVE  k + 1 \in T
  <2> DEFINE m == moved[k]
             e == d[k]
             next == moved[k + 1]
  <2>1. next = Put(m, e)
    BY <1>2, <1>5
  <2>2. /\ Sound(m) /\ NoGap(m) /\ m.capacity = 2 * n /\ Cardinality(Occupied(m)) = k
        /\ \A key, v : Holds(m, key, v) <=> Moved(k, key, v)
    BY <1>8
  <2> HIDE DEF m, next
  <2>3. New(m, e)
    <3>1. Entry(e, 2 * n)
      <4>1. Entry(e, n)
        BY <1>3
      <4> QED
        BY <1>2, <4>1 DEF Entry, Links
    <3>2. ASSUME NEW i \in Occupied(m), m.data[i].key = e.key
          PROVE  FALSE
      <4>1. Holds(m, e.key, m.data[i].value)
        BY <3>2 DEF Holds
      <4>2. PICK j \in 0 .. k - 1 : d[j].key = e.key
        BY <2>2, <4>1
      <4>3. j \in 0 .. n - 1 /\ j # k
        BY <1>2
      <4> QED
        BY <1>4, <4>2, <4>3
    <3> QED
      BY <1>3, <2>2, <3>1, <3>2 DEF New
  <2>4. m.freeIndex \in Slots(m)
    BY <1>2, <2>2, RoomLeft DEF Sound
  <2>5. /\ Sound(next) /\ next.capacity = 2 * n /\ NoGap(next)
        /\ \A key, v : Holds(next, key, v) <=> Holds(m, key, v) \/ (key = e.key /\ v = e.value)
        /\ \E x : x \notin Occupied(m) /\ Occupied(next) = Occupied(m) \cup {x}
    BY <1>2, <2>1, <2>2, <2>3, <2>4, PutSound
  <2>6. Cardinality(Occupied(next)) = k + 1
    <3>1. PICK x : x \notin Occupied(m) /\ Occupied(next) = Occupied(m) \cup {x}
      BY <2>5
    <3>2. IsFiniteSet(Occupied(m))
      BY <2>2, OccupiedIs DEF Sound
    <3> QED
      BY <2>2, <3>1, <3>2, FS_AddElement
  <2>7. ASSUME NEW key, NEW v
        PROVE  Holds(next, key, v) <=> Moved(k + 1, key, v)
    <3>1. \A i : i \in 0 .. (k + 1) - 1 <=> i \in 0 .. k - 1 \/ i = k
      OBVIOUS
    <3>2. Moved(k + 1, key, v) <=> Moved(k, key, v) \/ (key = e.key /\ v = e.value)
      BY <3>1
    <3> QED
      BY <2>2, <2>5, <3>2
  <2> HIDE DEF Moved
  <2>8. Good(next, k + 1)
    BY <2>5, <2>6, <2>7
  <2> QED
    BY <1>2, <2>8 DEF next
<1> HIDE DEF T
<1>9. 0 .. n \subseteq T
  BY <1>2, <1>7, <1>8, InductionUpTo
<1>10. Good(r, n)
  <2> HIDE DEF Good
  <2>1. n \in T
    BY <1>2, <1>9
  <2> QED
    BY <1>5, <2>1 DEF T
<1>11. r.freeIndex \in Slots(r)
  BY <1>2, <1>10, RoomLeft DEF Sound
<1> HIDE DEF Moved
<1> QED
  BY <1>6, <1>10, <1>11 DEF n

(***************************************************************************)
(* An entry is removed                                                     *)
(***************************************************************************)
\* The slot gone is free, and the entry that was in slot s is there no more.
Removed(t, r, s, gone) ==
  /\ Table(r) /\ r.capacity = t.capacity /\ Unlinked(r)
  /\ s \in Occupied(t) /\ gone \in Occupied(t) /\ Occupied(r) = Occupied(t) \ {gone}
  /\ s # gone => Same(r.data[s], t.data[gone])
  /\ \A i \in Occupied(t) \ {s, gone} : Same(r.data[i], t.data[i])
  /\ \E rank : Rooted(r, rank)

LEMMA RemovedIs ==
  ASSUME NEW t, Sound(t), NEW r, NEW s, NEW gone, Removed(t, r, s, gone)
  PROVE  /\ Sound(r)
         /\ \A k, v : Holds(r, k, v) <=> Holds(t, k, v) /\ k # t.data[s].key
<1>1. Filed(t) /\ Distinct(t)
  BY DEF Sound
<1>2. \A i \in Occupied(r) : \/ i = s /\ s # gone /\ Same(r.data[i], t.data[gone])
                             \/ i \in Occupied(t) \ {s, gone} /\ Same(r.data[i], t.data[i])
  BY DEF Removed
<1>3. Filed(r)
  BY <1>1, <1>2 DEF Filed, Same, Removed
<1>4. Distinct(r)
  BY <1>1, <1>2 DEF Distinct, Same, Removed
<1>5. Sound(r)
  BY <1>3, <1>4 DEF Sound, Removed
<1>6. ASSUME NEW k, NEW v, Holds(r, k, v)
      PROVE  Holds(t, k, v) /\ k # t.data[s].key
  BY <1>1, <1>2, <1>6 DEF Holds, Same, Distinct, Removed
<1>7. \A i \in Occupied(t) \ {s} : \E j \in Occupied(r) : Same(r.data[j], t.data[i])
  BY DEF Removed
<1>8. ASSUME NEW k, NEW v, Holds(t, k, v), k # t.data[s].key
      PROVE  Holds(r, k, v)
  BY <1>7, <1>8 DEF Holds, Same
<1> QED
  BY <1>5, <1>6, <1>8

LEMMA UnlinkRemoves ==
  ASSUME Sound(tbl), NEW s \in Occupied(tbl), NEW head, head = Homes(tbl)[s], head # s,
         NEW r, r = Unlink(head, s), Table(r)
  PROVE  Removed(tbl, r, s, s)
<1> DEFINE q == BeforeIn(tbl, head, s)
           O == Occupied(tbl)
<1>1. PICK rank : Rooted(tbl, rank)
  BY DEF Sound
<1>2. Table(tbl) /\ Unlinked(tbl) /\ s \in Slots(tbl)
  BY DEF Sound, Occupied
<1>3. q \in O /\ Homes(tbl)[q] = head /\ Nexts(tbl)[q] = s
  BY <1>1, <1>2, BeforeInIs
<1>4. /\ r.capacity = tbl.capacity /\ r.data[s] = Empty
      /\ \A i \in Slots(tbl) \ {s} :
           /\ Same(r.data[i], tbl.data[i])
           /\ r.data[i].next = IF i = q THEN tbl.data[s].next ELSE tbl.data[i].next
  BY <1>2, UnlinkIs
<1> HIDE DEF q
<1>5. IsEmpty(Empty) /\ Empty.next = Invalid
  BY DEF IsEmpty, Empty
<1>6. Slots(r) = Slots(tbl)
  BY <1>4 DEF Slots
<1>7. Occupied(r) = O \ {s}
  BY <1>4, <1>5, <1>6 DEF Occupied, Same, IsEmpty
<1>8. q # s
  <2>1. Invalid \notin O
    BY <1>2, OccupiedIs
  <2> QED
    BY <1>1, <1>3, <2>1 DEF Rooted, Forest
<1>9. Unlinked(r)
  BY <1>2, <1>3, <1>4, <1>5, <1>6, <1>7 DEF Unlinked
<1>10. \A h : MainPos(r, h) = MainPos(tbl, h)
  BY <1>4 DEF MainPos
<1>11. \A i \in O \ {s} : i \in Slots(tbl)
  BY DEF Occupied
<1>12. \A i \in O \ {s} : Homes(r)[i] = Homes(tbl)[i] /\ (i # q => Nexts(r)[i] = Nexts(tbl)[i])
  BY <1>4, <1>7, <1>10, <1>11, HomeIs DEF Same
<1>13. Nexts(r)[q] = Nexts(tbl)[s]
  BY <1>3, <1>4, <1>7, <1>8, <1>11, HomeIs
<1>14. \E rank2 : Rooted(r, rank2)
  <2>1. Forest(O, Nexts(tbl), Homes(tbl), rank) /\ Invalid \notin O
    BY <1>1, <1>2, OccupiedIs DEF Rooted
  <2>2. \A i \in O : Homes(tbl)[i] = Homes(tbl)[s] /\ rank[i] = rank[s] => i = s
    BY <1>1, <1>2, RankUnique
  <2>3. \E rank2 : Forest(O \ {s}, Nexts(r), Homes(r), rank2)
    BY <1>3, <1>12, <1>13, <2>1, <2>2, ForestCut
  <2> QED
    BY <1>7, <2>3 DEF Rooted
<1>15. \A i \in O \ {s, s} : Same(r.data[i], tbl.data[i])
  BY <1>4, <1>11
<1> QED
  BY <1>4, <1>7, <1>9, <1>14, <1>15 DEF Removed

LEMMA PullUpRemoves ==
  ASSUME Sound(tbl), NEW s \in Occupied(tbl), Homes(tbl)[s] = s, NEW second,
         second = tbl.data[s].next, second # Invalid, NEW r, r = PullUp(s), Table(r)
  PROVE  Removed(tbl, r, s, second)
<1> DEFINE O == Occupied(tbl)
<1>1. PICK rank : Rooted(tbl, rank)
  BY DEF Sound
<1>2. Table(tbl) /\ Unlinked(tbl) /\ s \in Slots(tbl)
  BY DEF Sound, Occupied
<1>3. Nexts(tbl)[s] = second
  BY HomeIs
<1>4. second \in O /\ Homes(tbl)[second] = s /\ second # s
  BY <1>1, <1>3 DEF Rooted, Forest
<1>5. second \in Slots(tbl)
  BY <1>4 DEF Occupied
<1>6. /\ r.capacity = tbl.capacity /\ r.data[second] = Empty
      /\ \A i \in Slots(tbl) \ {second} : r.data[i] = IF i = s THEN tbl.data[second] ELSE tbl.data[i]
  BY <1>2, <1>5, PullUpIs
<1>7. IsEmpty(Empty) /\ Empty.next = Invalid
  BY DEF IsEmpty, Empty
<1>8. Slots(r) = Slots(tbl)
  BY <1>6 DEF Slots
<1>9. Occupied(r) = O \ {second}
  BY <1>2, <1>4, <1>6, <1>7, <1>8 DEF Occupied
<1>10. Unlinked(r)
  BY <1>2, <1>6, <1>7, <1>8, <1>9 DEF Unlinked
<1>11. \A h : MainPos(r, h) = MainPos(tbl, h)
  BY <1>6 DEF MainPos
<1>12. \A i \in O \ {second} : i \in Slots(tbl)
  BY DEF Occupied
<1>13. \A i \in O \ {second} : i # s => Homes(r)[i] = Homes(tbl)[i] /\ Nexts(r)[i] = Nexts(tbl)[i]
  BY <1>6, <1>9, <1>11, <1>12, HomeIs
<1>14. Nexts(r)[s] = Nexts(tbl)[second] /\ Homes(r)[s] = Homes(tbl)[s]
  BY <1>4, <1>6, <1>9, <1>11, <1>12, HomeIs
<1>15. \E rank2 : Rooted(r, rank2)
  <2>1. Forest(O, Nexts(tbl), Homes(tbl), rank) /\ Invalid \notin O
    BY <1>1, <1>2, OccupiedIs DEF Rooted
  <2>2. \A i \in O : Homes(tbl)[i] = Homes(tbl)[second] /\ rank[i] = rank[second] => i = second
    BY <1>1, <1>2, <1>4, RankUnique
  <2>3. \A i \in O \ {second} : Homes(r)[i] = Homes(tbl)[i] /\ (i # s => Nexts(r)[i] = Nexts(tbl)[i])
    BY <1>13, <1>14
  <2>4. \E rank2 : Forest(O \ {second}, Nexts(r), Homes(r), rank2)
    BY <1>3, <1>4, <1>14, <2>1, <2>2, <2>3, ForestCut
  <2> QED
    BY <1>9, <2>4 DEF Rooted
<1>16. Same(r.data[s], tbl.data[second]) /\ \A i \in O \ {s, second} : Same(r.data[i], tbl.data[i])
  BY <1>4, <1>6, <1>12 DEF Same
<1> QED
  BY <1>4, <1>6, <1>9, <1>10, <1>15, <1>16 DEF Removed

LEMMA ClearRemoves ==
  ASSUME Sound(tbl), NEW s \in Occupied(tbl), Homes(tbl)[s] = s, tbl.data[s].next = Invalid,
         NEW r, r = Clear(s), Table(r)
  PROVE  Removed(tbl, r, s, s)
<1> DEFINE O == Occupied(tbl)
<1>1. PICK rank : Rooted(tbl, rank)
  BY DEF Sound
<1>2. Table(tbl) /\ Unlinked(tbl) /\ s \in Slots(tbl)
  BY DEF Sound, Occupied
<1>3. r.capacity = tbl.capacity /\ \A i \in Slots(tbl) : r.data[i] = IF i = s THEN Empty ELSE tbl.data[i]
  BY <1>2, ClearIs
<1>4. IsEmpty(Empty) /\ Empty.next = Invalid
  BY DEF IsEmpty, Empty
<1>5. Slots(r) = Slots(tbl)
  BY <1>3 DEF Slots
<1>6. Occupied(r) = O \ {s}
  BY <1>2, <1>3, <1>4, <1>5 DEF Occupied
<1>7. Unlinked(r)
  BY <1>2, <1>3, <1>4, <1>5, <1>6 DEF Unlinked
<1>8. \A h : MainPos(r, h) = MainPos(tbl, h)
  BY <1>3 DEF MainPos
<1>9. \A i \in O \ {s} : i \in Slots(tbl) /\ r.data[i] = tbl.data[i]
  BY <1>3 DEF Occupied
<1>10. \A i \in O \ {s} : Homes(r)[i] = Homes(tbl)[i] /\ Nexts(r)[i] = Nexts(tbl)[i]
  BY <1>6, <1>8, <1>9, HomeIs
<1>11. \E rank2 : Rooted(r, rank2)
  <2>1. Forest(O, Nexts(tbl), Homes(tbl), rank) /\ Invalid \notin O
    BY <1>1, <1>2, OccupiedIs DEF Rooted
  <2>2. Nexts(tbl)[s] = Invalid
    BY HomeIs
  <2>3. \E rank2 : Forest(O \ {s}, Nexts(r), Homes(r), rank2)
    BY <1>10, <2>1, <2>2, ForestDrop
  <2> QED
    BY <1>6, <2>3 DEF Rooted
<1> QED
  BY <1>3, <1>6, <1>7, <1>9, <1>11 DEF Removed, Same

LEMMA RemoveFoundSound ==
  ASSUME TableInv, Sound(tbl), NEW k \in Keys, RemoveFound(k), NEW r, r = tbl'
  PROVE  /\ Sound(r) /\ r.capacity = tbl.capacity
         /\ \A key, v : Holds(r, key, v) <=> Holds(tbl, key, v) /\ key # k
         /\ \E v \in Values : Holds(tbl, k, v)
<1> DEFINE s == FirstHit(tbl, k)
           head == MainPos(tbl, hashOf[k])
<1>1. hashOf[k] \in Nat /\ s # Invalid /\ tbl.data[s].key = k
  BY HashTblAssumption DEF TableInv, HashTblAssumption, RemoveFound, SameKey
<1>2. s \in Slots(tbl) /\ tbl.data[s].hash = hashOf[k]
  BY <1>1, FirstHitIs DEF TableInv
<1>3. s \in Occupied(tbl) /\ Homes(tbl)[s] = head
  <2>1. k # NoKey
    BY HashTblAssumption DEF HashTblAssumption
  <2>2. s \in Occupied(tbl)
    BY <1>1, <1>2, <2>1 DEF Occupied, IsEmpty
  <2> HIDE DEF s
  <2> QED
    BY <1>2, <2>2, HomeIs
<1>4. Table(r)
  BY RemoveFoundTable
<1>5. \/ s # head /\ r = Unlink(head, s)
      \/ s = head /\ tbl.data[head].next # Invalid /\ r = PullUp(head)
      \/ s = head /\ tbl.data[head].next = Invalid /\ r = Clear(head)
  BY DEF RemoveFound
<1> HIDE DEF s, head
<1>6. \E gone : Removed(tbl, r, s, gone)
  <2>1. CASE s # head /\ r = Unlink(head, s)
    <3>1. Removed(tbl, r, s, s)
      BY <1>3, <1>4, <2>1, UnlinkRemoves
    <3> QED
      BY <3>1
  <2>2. CASE s = head /\ tbl.data[head].next # Invalid /\ r = PullUp(head)
    <3>1. Removed(tbl, r, s, tbl.data[s].next)
      BY <1>3, <1>4, <2>2, PullUpRemoves
    <3> QED
      BY <3>1
  <2>3. CASE s = head /\ tbl.data[head].next = Invalid /\ r = Clear(head)
    <3>1. Removed(tbl, r, s, s)
      BY <1>3, <1>4, <2>3, ClearRemoves
    <3> QED
      BY <3>1
  <2> QED
    BY <1>5, <2>1, <2>2, <2>3
<1>7. PICK gone : Removed(tbl, r, s, gone)
  BY <1>6
<1>8. Sound(r) /\ \A key, v : Holds(r, key, v) <=> Holds(tbl, key, v) /\ key # k
  BY <1>1, <1>7, RemovedIs
<1>9. \E v \in Values : Holds(tbl, k, v)
  BY <1>1, <1>3 DEF Sound, Filed, Holds
<1> QED
  BY <1>7, <1>8, <1>9 DEF Removed

(***************************************************************************)
(* The table is a map                                                      *)
(***************************************************************************)
\* The table is given whole keys, and where keys are removed it never grows.
SafeUse == Terminated /\ (Removing => 2 * MinCapacity > MaxCapacity)

MapInv ==
  /\ TableInv /\ Sound(tbl)
  /\ Removing => tbl.capacity \in {0, MinCapacity}
  /\ ~Removing => NoGap(tbl)

Kept(t, r) == \A k, v : Holds(r, k, v) <=> Holds(t, k, v)
Added(t, r, key, value) ==
  /\ \A v : ~Holds(t, key, v)
  /\ \A k, v : Holds(r, k, v) <=> Holds(t, k, v) \/ (k = key /\ v = value)
Dropped(t, r, key) ==
  /\ \E v \in Values : Holds(t, key, v)
  /\ \A k, v : Holds(r, k, v) <=> Holds(t, k, v) /\ k # key

\* What a step does to what the table holds, what was called for, and the code
\* the call returns.
Called(given, code) == args' = given /\ result' = code
Effect(t, r) ==
  \/ \E k \in Keys, v \in Values : Called(<<k, v>>, "none") /\ Added(t, r, k, v)
  \/ /\ \E k \in Keys, v, w \in Values : Called(<<k, v>>, "again") /\ Holds(t, k, w)
     /\ Kept(t, r)
  \/ \E k \in Keys : Called(<<k>>, "true") /\ Dropped(t, r, k)
  \/ \E k \in Keys : Called(<<k>>, "false") /\ Kept(t, r) /\ \A v : ~Holds(t, k, v)
  \/ \E k \in Keys, v \in Values : Called(<<k, v>>, "outOfMemory") /\ Kept(t, r)
  \/ UNCHANGED <<args, result>> /\ Kept(t, r)
  \/ UNCHANGED <<args, result>> /\ \A k, v : ~Holds(r, k, v)

LEMMA SetInSound ==
  ASSUME TableInv, Terminated, NEW t, Sound(t), t.capacity > 0, NEW k \in Keys, NEW v \in Values,
         SetIn(t, k, v), IsEmpty(t.data[MainPos(t, hashOf[k])]) \/ t.freeIndex \in Slots(t),
         NEW r, r = tbl'
  PROVE  /\ Sound(r) /\ r.capacity = t.capacity /\ (NoGap(t) => NoGap(r))
         /\ \/ result' = "none" /\ Added(t, r, k, v)
            \/ result' = "again" /\ Kept(t, r) /\ \E w \in Values : Holds(t, k, w)
<1> DEFINE e == [key |-> k, value |-> v, hash |-> hashOf[k], next |-> Invalid]
<1>1. hashOf[k] \in Nat
  BY HashTblAssumption DEF TableInv, HashTblAssumption
<1>2. Found(t, k) <=> \E i \in Occupied(t) : t.data[i].key = k
  BY <1>1, FoundIs
<1>3. CASE Found(t, k)
  <2>1. r = t /\ result' = "again"
    BY <1>3 DEF SetIn
  <2>2. \E w \in Values : Holds(t, k, w)
    BY <1>2, <1>3 DEF Holds, Sound, Filed
  <2> QED
    BY <2>1, <2>2 DEF Kept
<1>4. CASE ~Found(t, k)
  <2>1. r = Put(t, e) /\ result' = "none"
    BY <1>4 DEF SetIn
  <2>2. Entry(e, t.capacity) /\ e.key = k /\ e.value = v /\ e.hash = hashOf[k]
    BY <1>1 DEF Entry, Links
  <2> HIDE DEF e
  <2>3. New(t, e)
    BY <1>2, <1>4, <2>2 DEF New
  <2>4. /\ Sound(r) /\ r.capacity = t.capacity /\ (NoGap(t) => NoGap(r))
        /\ \A key, w : Holds(r, key, w) <=> Holds(t, key, w) \/ (key = k /\ w = v)
    BY <2>1, <2>2, <2>3, PutSound
  <2>5. \A w : ~Holds(t, k, w)
    BY <1>2, <1>4 DEF Holds
  <2> QED
    BY <2>1, <2>4, <2>5 DEF Added
<1> QED
  BY <1>3, <1>4

LEMMA SetFitsSound ==
  ASSUME MapInv, SafeUse, NEW k \in Keys, NEW v \in Values, SetFits(k, v), NEW r, r = tbl'
  PROVE  /\ Sound(r) /\ Effect(tbl, r)
         /\ Removing => r.capacity \in {0, MinCapacity}
         /\ ~Removing => NoGap(r)
<1>1. Sound(tbl) /\ tbl.capacity \in Nat /\ TableInv
  BY DEF MapInv, Sound, Table
<1>2. MinCapacity \in 0 .. MaxCapacity /\ MinCapacity > 0
  BY Numbers, HashTblAssumption DEF HashTblAssumption
<1>3. PICK t : t = Allocated
  OBVIOUS
<1>4. /\ Sound(t) /\ t.capacity > 0 /\ Kept(tbl, t)
      /\ Removing => t.capacity \in {0, MinCapacity}
      /\ ~Removing => NoGap(t)
  <2>1. CASE tbl.capacity = 0
    <3>1. t = Fresh(MinCapacity) /\ t.capacity = MinCapacity
      BY <1>3, <2>1 DEF Allocated, Fresh
    <3>2. Occupied(tbl) = {}
      BY <2>1 DEF Occupied, Slots
    <3>3. Kept(tbl, t)
      BY <1>2, <3>1, <3>2, FreshSound DEF Kept, Holds
    <3> QED
      BY <1>2, <3>1, <3>3, FreshSound
  <2>2. CASE tbl.capacity # 0
    BY <1>1, <1>3, <2>2 DEF Allocated, MapInv, Kept
  <2> QED
    BY <2>1, <2>2
<1>5. SetIn(t, k, v) /\ ~IsFull(t, k)
  BY <1>3 DEF SetFits
<1>6. t.freeIndex \in Slots(t) \cup {Invalid}
  BY <1>4 DEF Sound, Table, Slots
<1>7. IsEmpty(t.data[MainPos(t, hashOf[k])]) \/ t.freeIndex \in Slots(t)
  BY <1>5, <1>6 DEF IsFull
<1>8. /\ Sound(r) /\ r.capacity = t.capacity /\ (NoGap(t) => NoGap(r))
      /\ \/ result' = "none" /\ Added(t, r, k, v)
         \/ result' = "again" /\ Kept(t, r) /\ \E w \in Values : Holds(t, k, w)
  BY <1>1, <1>4, <1>5, <1>7, SetInSound DEF SafeUse
<1>9. Effect(tbl, r)
  <2>1. args' = <<k, v>>
    BY DEF SetFits
  <2> QED
    BY <1>4, <1>8, <2>1 DEF Effect, Called, Added, Kept
<1> QED
  BY <1>4, <1>8, <1>9

LEMMA SetGrowsSound ==
  ASSUME MapInv, SafeUse, NEW k \in Keys, NEW v \in Values, SetGrows(k, v), NEW r, r = tbl'
  PROVE  Sound(r) /\ Effect(tbl, r) /\ ~Removing /\ NoGap(r)
<1>1. Sound(tbl) /\ Table(tbl) /\ tbl.capacity \in Nat /\ TableInv
  BY DEF MapInv, Sound, Table
<1>2. tbl.capacity > 0 /\ IsFull(tbl, k) /\ 2 * tbl.capacity <= MaxCapacity
  BY <1>1, AllocatedIs DEF SetGrows
<1>3. ~Removing /\ NoGap(tbl)
  <2>1. MinCapacity \in Nat /\ MaxCapacity \in Nat
    BY Numbers, HashTblAssumption DEF HashTblAssumption
  <2> QED
    BY <1>2, <2>1 DEF MapInv, SafeUse
<1>4. Occupied(tbl) = Slots(tbl)
  <2>1. tbl.freeIndex = Invalid
    BY <1>2 DEF IsFull
  <2>2. \A i \in Slots(tbl) : i < Invalid
    BY <1>1, Numbers DEF Slots, Table
  <2> QED
    BY <1>3, <2>1, <2>2 DEF NoGap, Occupied
<1>5. PICK t : t = Realloc(tbl)
  OBVIOUS
<1>6. /\ Sound(t) /\ NoGap(t) /\ t.capacity > 0 /\ t.freeIndex \in Slots(t) /\ Kept(tbl, t)
  BY <1>1, <1>2, <1>4, <1>5, ReallocSound DEF Kept
<1>7. SetIn(t, k, v)
  BY <1>5 DEF SetGrows
<1>8. /\ Sound(r) /\ r.capacity = t.capacity /\ (NoGap(t) => NoGap(r))
      /\ \/ result' = "none" /\ Added(t, r, k, v)
         \/ result' = "again" /\ Kept(t, r) /\ \E w \in Values : Holds(t, k, w)
  BY <1>1, <1>6, <1>7, SetInSound DEF SafeUse
<1>9. Effect(tbl, r)
  <2>1. args' = <<k, v>>
    BY DEF SetGrows
  <2> QED
    BY <1>6, <1>8, <2>1 DEF Effect, Called, Added, Kept
<1> QED
  BY <1>3, <1>6, <1>8, <1>9

\* The predicates on tables speak of the hash function, which never changes.
LEMMA SoundNext ==
  ASSUME NEW r, r = tbl', hashOf' = hashOf, Sound(r)
  PROVE  Sound(tbl)' /\ (NoGap(r) => NoGap(tbl)')
<1>1. Table(r) /\ Filed(r) /\ Distinct(r) /\ Unlinked(r) /\ \E rank : Rooted(r, rank)
  BY DEF Sound
<1>2. Table(tbl)'
  BY <1>1 DEF Table, Slots, Array, IsEmpty
<1>3. Filed(tbl)' /\ Distinct(tbl)' /\ Unlinked(tbl)'
  BY <1>1 DEF Filed, Distinct, Unlinked, Occupied, Slots, IsEmpty
<1>4. (\E rank : Rooted(tbl, rank))'
  BY <1>1 DEF Rooted, Nexts, Homes, MainPos, Occupied, Slots, IsEmpty
<1>5. NoGap(r) => NoGap(tbl)'
  BY DEF NoGap, Occupied, Slots, IsEmpty
<1> QED
  BY <1>2, <1>3, <1>4, <1>5 DEF Sound

LEMMA MapStep ==
  ASSUME MapInv, SafeUse, [Next]_vars
  PROVE  MapInv' /\ Effect(tbl, tbl')
<1> DEFINE Step(r) ==
             /\ Sound(r) /\ hashOf' = hashOf /\ Effect(tbl, r)
             /\ Removing => r.capacity \in {0, MinCapacity}
             /\ ~Removing => NoGap(r)
<1>1. TableInv /\ Sound(tbl) /\ TableInv'
  BY TableStep DEF MapInv
<1>2. PICK r : r = tbl'
  OBVIOUS
<1>3. ASSUME r = tbl, hashOf' = hashOf,
             \/ UNCHANGED <<args, result>>
             \/ \E k \in Keys, v \in Values : Called(<<k, v>>, "outOfMemory")
             \/ \E k \in Keys : Called(<<k>>, "false") /\ \A v : ~Holds(tbl, k, v)
      PROVE  Step(r)
  BY <1>3 DEF MapInv, Effect, Kept
<1>4. ASSUME NEW k \in Keys, NEW v \in Values, SetFits(k, v)
      PROVE  Step(r)
  <2>1. hashOf' = hashOf
    BY <1>4 DEF SetFits
  <2> QED
    BY <1>2, <1>4, <2>1, SetFitsSound
<1>5. ASSUME NEW k \in Keys, NEW v \in Values, SetGrows(k, v)
      PROVE  Step(r)
  <2>1. hashOf' = hashOf
    BY <1>5 DEF SetGrows
  <2> QED
    BY <1>2, <1>5, <2>1, SetGrowsSound
<1>6. ASSUME NEW k \in Keys, NEW v \in Values, SetFails(k, v)
      PROVE  Step(r)
  <2>1. r = tbl /\ hashOf' = hashOf /\ Called(<<k, v>>, "outOfMemory")
    BY <1>2, <1>6 DEF SetFails, Called
  <2> QED
    BY <1>3, <2>1
<1>7. ASSUME NEW k \in Keys, RemoveAbsent(k)
      PROVE  Step(r)
  <2>1. hashOf[k] \in Nat
    BY <1>1, HashTblAssumption DEF TableInv, HashTblAssumption
  <2>2. \A v : ~Holds(tbl, k, v)
    BY <1>1, <1>7, <2>1, FirstHitMisses DEF RemoveAbsent, Holds
  <2> QED
    BY <1>2, <1>3, <1>7, <2>2 DEF RemoveAbsent, Called
<1>8. ASSUME NEW k \in Keys, RemoveHangs(k)
      PROVE  Step(r)
  BY <1>2, <1>3, <1>8 DEF RemoveHangs
<1>9. ASSUME NEW k \in Keys, RemoveFound(k), Removing
      PROVE  Step(r)
  <2>1. hashOf' = hashOf /\ Called(<<k>>, "true")
    BY <1>9 DEF RemoveFound, Called
  <2>2. Sound(r) /\ r.capacity = tbl.capacity /\ Dropped(tbl, r, k)
    BY <1>1, <1>2, <1>9, RemoveFoundSound DEF Dropped
  <2> QED
    BY <1>9, <2>1, <2>2 DEF Effect, MapInv
<1>10. ASSUME Deinit
       PROVE  Step(r)
  <2>1. r = Fresh(0) /\ hashOf' = hashOf /\ UNCHANGED <<args, result>>
    BY <1>2, <1>10 DEF Deinit
  <2>2. 0 \in 0 .. MaxCapacity /\ Fresh(0).capacity = 0
    BY Numbers DEF Fresh
  <2> QED
    BY <2>1, <2>2, FreshSound DEF Effect
<1>11. ASSUME UNCHANGED vars
       PROVE  Step(r)
  BY <1>2, <1>3, <1>11 DEF vars
<1>12. Step(r)
  <2> HIDE DEF Step
  <2> QED
    BY <1>4, <1>5, <1>6, <1>7, <1>8, <1>9, <1>10, <1>11 DEF Next
<1>13. Sound(tbl)' /\ (NoGap(r) => NoGap(tbl)')
  BY <1>2, <1>12, SoundNext
<1> QED
  BY <1>1, <1>2, <1>12, <1>13 DEF MapInv

THEOREM HashMapInvariant ==
  ASSUME SafeUse
  PROVE  Spec => []MapInv
<1>1. Init => MapInv
  <2> SUFFICES ASSUME Init
               PROVE  MapInv
    OBVIOUS
  <2>1. 0 \in 0 .. MaxCapacity /\ Fresh(0).capacity = 0 /\ tbl = Fresh(0)
    BY Numbers DEF Fresh, Init
  <2>2. Sound(tbl) /\ NoGap(tbl)
    BY <2>1, FreshSound
  <2>3. TableInv
    BY <2>2, GivenIs DEF Init, TableInv, Sound
  <2> QED
    BY <2>1, <2>2, <2>3 DEF MapInv
<1>2. MapInv /\ [Next]_vars => MapInv'
  BY MapStep
<1> QED
  BY <1>1, <1>2, PTL DEF Spec

\* "If we reach here, there are no free spaces left in the hash table": where no
\* key is removed, the array is doubled only when every slot is taken.
THEOREM HashFullBeforeGrowing ==
  ASSUME SafeUse, ~Removing
  PROVE  Spec => []NoFreeSpacesLeft
<1>1. MapInv => NoFreeSpacesLeft
  <2> SUFFICES ASSUME MapInv, tbl.freeIndex = Invalid
               PROVE  Occupied(tbl) = Slots(tbl)
    BY DEF NoFreeSpacesLeft
  <2>1. \A i \in Slots(tbl) : i < Invalid
    BY Numbers DEF MapInv, Sound, Slots, Table
  <2> QED
    BY <2>1 DEF MapInv, NoGap, Occupied
<1> QED
  BY <1>1, HashMapInvariant, PTL

\* Every entry is on the chain of its main position, every chain ends, and none
\* holds an entry of another: after evictions and removals in any order.
THEOREM HashWellLinked ==
  ASSUME SafeUse
  PROVE  Spec => []WellLinked
<1>1. MapInv => WellLinked
  <2> SUFFICES ASSUME MapInv, NEW i \in Occupied(tbl), NEW head, head = MainPos(tbl, tbl.data[i].hash)
               PROVE  /\ i \in Range(Chain(tbl, head))
                      /\ tbl.data[LastOf(tbl, head)].next = Invalid
                      /\ \A j \in Range(Chain(tbl, head)) :
                           ~IsEmpty(tbl.data[j]) /\ MainPos(tbl, tbl.data[j].hash) = head
    BY DEF WellLinked
  <2>1. PICK rank : Rooted(tbl, rank)
    BY DEF MapInv, Sound
  <2>2. Table(tbl) /\ Homes(tbl)[i] = head
    BY HomeIs DEF MapInv, Sound
  <2>3. head \in Occupied(tbl) /\ Homes(tbl)[head] = head
    BY <2>1, <2>2, OnItsChain
  <2>4. LastOf(tbl, head) \in Occupied(tbl) /\ Nexts(tbl)[LastOf(tbl, head)] = Invalid
    BY <2>1, <2>2, <2>3, ChainEnds
  <2>5. Range(Chain(tbl, head)) = {j \in Occupied(tbl) : Homes(tbl)[j] = head}
    BY <2>1, <2>2, <2>3, ChainHolds
  <2>6. \A j \in Occupied(tbl) : ~IsEmpty(tbl.data[j])
    BY DEF Occupied
  <2> QED
    BY <2>2, <2>4, <2>5, <2>6, HomeIs
<1> QED
  BY <1>1, HashMapInvariant, PTL

\* tbl_set refuses a whole key that is there: no key is in two entries.
THEOREM HashKeysUnique ==
  ASSUME SafeUse
  PROVE  Spec => []KeysUnique
<1>1. MapInv => KeysUnique
  BY DEF MapInv, Sound, Distinct, KeysUnique
<1> QED
  BY <1>1, HashMapInvariant, PTL

\* m is what the table holds, as a function.
Stored(t, m) ==
  /\ m \in [Keys -> Values \cup {NoValue}]
  /\ \A k \in Keys : \A v \in Values : m[k] = v <=> Holds(t, k, v)

LEMMA ContentsIs == MapInv => Stored(tbl, Contents)
<1> SUFFICES ASSUME MapInv
             PROVE  Stored(tbl, Contents)
  OBVIOUS
<1>1. Sound(tbl) /\ hashOf \in [Keys -> Hashes] /\ Filed(tbl)
  BY DEF MapInv, TableInv, Sound
<1>2. ASSUME NEW k \in Keys
      PROVE  /\ Lookup(tbl, k) \in Values \cup {NoValue}
             /\ \A v \in Values : Lookup(tbl, k) = v <=> Holds(tbl, k, v)
  <2>1. hashOf[k] \in Nat
    BY <1>1, HashTblAssumption DEF HashTblAssumption
  <2>2. \A v : Holds(tbl, k, v) => Lookup(tbl, k) = v /\ v \in Values
    BY <1>1, <2>1, LookupIs DEF Holds, Filed
  <2>3. (\A v : ~Holds(tbl, k, v)) => Lookup(tbl, k) = NoValue
    BY <1>1, <2>1, LookupIs
  <2>4. NoValue \notin Values
    BY HashTblAssumption DEF HashTblAssumption
  <2> QED
    BY <2>2, <2>3, <2>4
<1> QED
  BY <1>2 DEF Stored, Contents

LEMMA SameContents ==
  ASSUME NEW t, NEW r, NEW m, NEW m2, Stored(t, m), Stored(r, m2), Kept(t, r)
  PROVE  m2 = m
<1>1. ASSUME NEW k \in Keys
      PROVE  m2[k] = m[k]
  BY DEF Stored, Kept
<1> QED
  BY <1>1 DEF Stored

LEMMA AddedContents ==
  ASSUME NEW t, NEW r, NEW m, NEW m2, Stored(t, m), Stored(r, m2),
         NEW key \in Keys, NEW value \in Values, Added(t, r, key, value)
  PROVE  m[key] = NoValue /\ m2 = [m EXCEPT ![key] = value]
<1>1. m[key] = NoValue /\ m2[key] = value
  BY DEF Stored, Added
<1>2. ASSUME NEW k \in Keys, k # key
      PROVE  m2[k] = m[k]
  BY <1>2 DEF Stored, Added
<1> QED
  BY <1>1, <1>2 DEF Stored

LEMMA DroppedContents ==
  ASSUME NEW t, NEW r, NEW m, NEW m2, Stored(t, m), Stored(r, m2), NEW key \in Keys, Dropped(t, r, key)
  PROVE  m[key] # NoValue /\ m2 = [m EXCEPT ![key] = NoValue]
<1>1. NoValue \notin Values
  BY HashTblAssumption DEF HashTblAssumption
<1>2. m[key] # NoValue /\ m2[key] = NoValue
  BY <1>1 DEF Stored, Dropped
<1>3. ASSUME NEW k \in Keys, k # key
      PROVE  m2[k] = m[k]
  BY <1>3 DEF Stored, Dropped
<1> QED
  BY <1>2, <1>3 DEF Stored

LEMMA MapSimulates ==
  ASSUME NEW r, r = tbl', Effect(tbl, r), Stored(tbl, Contents), NEW m2, m2 = Contents', Stored(r, m2)
  PROVE  [Map!Next]_(Map!vars)
<1>0. NoValue \notin Values
  BY HashTblAssumption DEF HashTblAssumption
<1>1. PICK m : m = Contents
  OBVIOUS
<1>2. Stored(tbl, m)
  BY <1>1
<1>3. ASSUME NEW k \in Keys, NEW v \in Values, Called(<<k, v>>, "none"), Added(tbl, r, k, v)
      PROVE  Map!Set(k, v)
  <2>1. m[k] = NoValue /\ m2 = [m EXCEPT ![k] = v]
    BY <1>2, <1>3, AddedContents
  <2> QED
    BY <1>1, <1>3, <2>1 DEF Map!Set, Map!Called, Called
<1>4. ASSUME NEW k \in Keys, NEW v \in Values, NEW w \in Values, Called(<<k, v>>, "again"),
             Kept(tbl, r), Holds(tbl, k, w)
      PROVE  Map!Refuse(k, v)
  <2>1. m2 = m /\ m[k] = w
    BY <1>2, <1>4, SameContents DEF Stored
  <2> QED
    BY <1>0, <1>1, <1>4, <2>1 DEF Map!Refuse, Map!Called, Called
<1>5. ASSUME NEW k \in Keys, Called(<<k>>, "true"), Dropped(tbl, r, k)
      PROVE  Map!Remove(k)
  <2>1. m[k] # NoValue /\ m2 = [m EXCEPT ![k] = NoValue]
    BY <1>2, <1>5, DroppedContents
  <2> QED
    BY <1>1, <1>5, <2>1 DEF Map!Remove, Map!Called, Called
<1>6. ASSUME NEW k \in Keys, Called(<<k>>, "false"), Kept(tbl, r), \A v : ~Holds(tbl, k, v)
      PROVE  Map!Absent(k)
  <2>1. m2 = m /\ m[k] = NoValue
    BY <1>2, <1>6, SameContents DEF Stored
  <2> QED
    BY <1>1, <1>6, <2>1 DEF Map!Absent, Map!Called, Called
<1>7. ASSUME NEW k \in Keys, NEW v \in Values, Called(<<k, v>>, "outOfMemory"), Kept(tbl, r)
      PROVE  Map!OutOfMemory(k, v)
  <2>1. m2 = m
    BY <1>2, <1>7, SameContents
  <2> QED
    BY <1>1, <1>7, <2>1 DEF Map!OutOfMemory, Map!Called, Called
<1>8. CASE UNCHANGED <<args, result>> /\ Kept(tbl, r)
  <2>1. m2 = m
    BY <1>2, <1>8, SameContents
  <2> QED
    BY <1>1, <1>8, <2>1 DEF Map!vars
<1>9. CASE UNCHANGED <<args, result>> /\ \A k, v : ~Holds(r, k, v)
  <2>1. m2 = [k \in Keys |-> NoValue]
    <3>1. \A k \in Keys : m2[k] = NoValue
      BY <1>9 DEF Stored
    <3> QED
      BY <3>1 DEF Stored
  <2> QED
    BY <1>9, <2>1 DEF Map!Next, Map!Clear
<1> QED
  BY <1>3, <1>4, <1>5, <1>6, <1>7, <1>8, <1>9 DEF Effect, Map!Next

\* After any calls a get returns the value the key was set to, and each call
\* the code the map returns: through evictions, reallocations and removals.
THEOREM HashImplementsMap ==
  ASSUME SafeUse
  PROVE  Spec => ImplementsMap
<1>1. Init /\ MapInv => Map!Init
  <2> SUFFICES ASSUME Init, MapInv
               PROVE  Map!Init
    OBVIOUS
  <2>1. 0 \in 0 .. MaxCapacity
    BY Numbers
  <2>2. \A k, v : ~Holds(tbl, k, v)
    BY <2>1, FreshSound DEF Init
  <2>3. PICK m : m = Contents
    OBVIOUS
  <2>4. m = [k \in Keys |-> NoValue]
    <3>1. Stored(tbl, m)
      BY <2>3, ContentsIs
    <3>2. \A k \in Keys : m[k] = NoValue
      BY <2>2, <3>1 DEF Stored
    <3> QED
      BY <3>1, <3>2 DEF Stored
  <2> QED
    BY <2>3, <2>4 DEF Init, Map!Init
<1>2. MapInv' => Stored(tbl, Contents)'
  BY ContentsIs, PTL
<1>3. MapInv /\ MapInv' /\ [Next]_vars => [Map!Next]_(Map!vars)
  <2> SUFFICES ASSUME MapInv, MapInv', [Next]_vars
               PROVE  [Map!Next]_(Map!vars)
    OBVIOUS
  <2>1. PICK r : r = tbl'
    OBVIOUS
  <2>2. PICK m2 : m2 = Contents'
    OBVIOUS
  <2>3. Stored(r, m2)
    BY <1>2, <2>1, <2>2 DEF Stored, Holds, Occupied, Slots, IsEmpty
  <2>4. Effect(tbl, r)
    BY <2>1, MapStep
  <2>5. Stored(tbl, Contents)
    BY ContentsIs
  <2> QED
    BY <2>1, <2>2, <2>3, <2>4, <2>5, MapSimulates
<1> QED
  BY <1>1, <1>3, HashMapInvariant, PTL DEF Spec, ImplementsMap, Map!Spec

==============================================================================
