------------------------------ MODULE SortProofs ------------------------------
(***************************************************************************)
(* Theorems about array_sort, ArraySort.tla: whatever the pivots, it puts  *)
(* the elements in the order of their keys and loses none.                 *)
(***************************************************************************)
EXTENDS ArraySort, FiniteSetTheorems, LeastNumber

(***************************************************************************)
(* Arrangements of the same elements                                       *)
(***************************************************************************)
\* pi exchanges indices between l and h.
Shuffle(pi, n, l, h) ==
  /\ pi \in [1 .. n -> 1 .. n]
  /\ \A i, j \in 1 .. n : pi[i] = pi[j] => i = j
  /\ \A j \in 1 .. n : \E i \in 1 .. n : pi[i] = j
  /\ \A i \in 1 .. n : i \in l .. h <=> pi[i] \in l .. h
  /\ \A i \in 1 .. n : i \notin l .. h => pi[i] = i

\* u holds the elements of t, in another order between l and h.
Rearranged(t, u, n, l, h) ==
  \E pi : Shuffle(pi, n, l, h) /\ \A i \in 1 .. n : u[i] = t[pi[i]]

LEMMA RearrangedSelf ==
  ASSUME NEW n \in Nat, NEW l \in Int, NEW h \in Int, NEW t
  PROVE  Rearranged(t, t, n, l, h)
<1> DEFINE same == [i \in 1 .. n |-> i]
<1>1. same \in [1 .. n -> 1 .. n] /\ \A i \in 1 .. n : same[i] = i
  OBVIOUS
<1> HIDE DEF same
<1>2. Shuffle(same, n, l, h) /\ \A i \in 1 .. n : t[i] = t[same[i]]
  BY <1>1 DEF Shuffle
<1> QED
  BY <1>2 DEF Rearranged

LEMMA RearrangedTwice ==
  ASSUME NEW n \in Nat, NEW l \in Int, NEW h \in Int, NEW t, NEW u, NEW v,
         NEW l1 \in Int, NEW h1 \in Int, NEW l2 \in Int, NEW h2 \in Int,
         l <= l1, h1 <= h, l <= l2, h2 <= h,
         Rearranged(t, u, n, l1, h1), Rearranged(u, v, n, l2, h2)
  PROVE  Rearranged(t, v, n, l, h)
<1>1. PICK p : Shuffle(p, n, l1, h1) /\ \A i \in 1 .. n : u[i] = t[p[i]]
  BY DEF Rearranged
<1>2. PICK q : Shuffle(q, n, l2, h2) /\ \A i \in 1 .. n : v[i] = u[q[i]]
  BY DEF Rearranged
<1> DEFINE both == [i \in 1 .. n |-> p[q[i]]]
<1>3. /\ \A i \in 1 .. n : p[i] \in 1 .. n /\ q[i] \in 1 .. n
      /\ \A i, j \in 1 .. n : (p[i] = p[j] => i = j) /\ (q[i] = q[j] => i = j)
  BY <1>1, <1>2 DEF Shuffle
<1>4. \A j \in 1 .. n : (\E i \in 1 .. n : p[i] = j) /\ (\E i \in 1 .. n : q[i] = j)
  BY <1>1, <1>2, Zenon DEF Shuffle
<1>5. \A i \in 1 .. n : i \notin l .. h => p[i] = i /\ q[i] = i
  <2>1. \A i \in 1 .. n : i \notin l .. h => i \notin l1 .. h1 /\ i \notin l2 .. h2
    OBVIOUS
  <2> QED
    BY <1>1, <1>2, <2>1, Zenon DEF Shuffle
<1>6. both \in [1 .. n -> 1 .. n] /\ \A i \in 1 .. n : both[i] = p[q[i]]
  BY <1>3
<1> HIDE DEF both
<1>7. ASSUME NEW i \in 1 .. n, NEW j \in 1 .. n, both[i] = both[j]
      PROVE  i = j
  <2>1. p[q[i]] = p[q[j]] /\ q[i] \in 1 .. n /\ q[j] \in 1 .. n
    BY <1>3, <1>6, <1>7
  <2>2. q[i] = q[j]
    BY <1>3, <2>1
  <2> QED
    BY <1>3, <2>2
<1>8. ASSUME NEW j \in 1 .. n
      PROVE  \E i \in 1 .. n : both[i] = j
  <2>1. PICK k \in 1 .. n : p[k] = j
    BY <1>4
  <2>2. PICK i \in 1 .. n : q[i] = k
    BY <1>4
  <2> QED
    BY <1>6, <2>1, <2>2
<1>9. \A i \in 1 .. n : i \notin l .. h => both[i] = i
  BY <1>5, <1>6
<1>10. \A i \in 1 .. n : i \in l .. h <=> both[i] \in l .. h
  BY <1>6, <1>7, <1>9
<1>11. ASSUME NEW i \in 1 .. n
       PROVE  v[i] = t[both[i]]
  <2>1. q[i] \in 1 .. n /\ both[i] = p[q[i]]
    BY <1>3, <1>6
  <2>2. v[i] = u[q[i]]
    BY <1>2
  <2>3. u[q[i]] = t[p[q[i]]]
    BY <1>1, <2>1
  <2> QED
    BY <2>1, <2>2, <2>3
<1>12. Shuffle(both, n, l, h)
  BY <1>6, <1>7, <1>8, <1>9, <1>10, Zenon DEF Shuffle
<1> QED
  BY <1>11, <1>12, Zenon DEF Rearranged

\* array_sort_swap.
LEMMA SwapRearranges ==
  ASSUME NEW n \in Nat, NEW S, NEW t \in [1 .. n -> S], NEW l \in 1 .. n + 1, NEW h \in 0 .. n,
         NEW i \in l .. h, NEW j \in l .. h
  PROVE  /\ Swap(t, i, j) \in [1 .. n -> S]
         /\ \A k \in 1 .. n : Swap(t, i, j)[k] = IF k = i THEN t[j] ELSE IF k = j THEN t[i] ELSE t[k]
         /\ Rearranged(t, Swap(t, i, j), n, l, h)
<1> DEFINE other == [k \in 1 .. n |-> IF k = i THEN j ELSE IF k = j THEN i ELSE k]
<1>1. /\ Swap(t, i, j) \in [1 .. n -> S]
      /\ \A k \in 1 .. n : Swap(t, i, j)[k] = IF k = i THEN t[j] ELSE IF k = j THEN t[i] ELSE t[k]
  BY DEF Swap
<1>2. /\ other \in [1 .. n -> 1 .. n]
      /\ \A k \in 1 .. n : other[k] = IF k = i THEN j ELSE IF k = j THEN i ELSE k
  OBVIOUS
<1> HIDE DEF other
<1>3. \A k \in 1 .. n : other[other[k]] = k
  BY <1>2
<1>4. \A k \in 1 .. n : k \in l .. h <=> other[k] \in l .. h
  BY <1>2
<1>5. Shuffle(other, n, l, h)
  <2>1. \A k, m \in 1 .. n : other[k] = other[m] => k = m
    BY <1>2, <1>3
  <2>2. \A m \in 1 .. n : \E k \in 1 .. n : other[k] = m
    BY <1>2, <1>3
  <2>3. \A k \in 1 .. n : k \notin l .. h => other[k] = k
    BY <1>2
  <2> QED
    BY <1>2, <1>4, <2>1, <2>2, <2>3 DEF Shuffle
<1>6. \A k \in 1 .. n : Swap(t, i, j)[k] = t[other[k]]
  BY <1>1, <1>2
<1> QED
  BY <1>1, <1>5, <1>6 DEF Rearranged

(***************************************************************************)
(* array_sort_partition                                                    *)
(***************************************************************************)
First(t, l, h) == [cells |-> Swap(t, (l + h) \div 2, h), mem |-> l]

Stepped(seen, i, h, key) ==
  IF key[seen.cells[i - 1]] < key[seen.cells[h]]
  THEN [cells |-> Swap(seen.cells, seen.mem, i - 1), mem |-> seen.mem + 1]
  ELSE seen

\* f is the recursion of Partition up to element m.
Scans(f, t, l, h, m, key) ==
  f = [i \in l .. m |-> IF i = l THEN First(t, l, h) ELSE Stepped(f[i - 1], i, h, key)]

LEMMA ScanExists ==
  ASSUME NEW t, NEW key, NEW l \in Nat, NEW h \in Nat, l <= h
  PROVE  \E f : Scans(f, t, l, h, h, key)
<1> DEFINE T == {k \in 0 .. h - l : \E f : Scans(f, t, l, h, l + k, key)}
<1>1. 0 \in T
  <2> DEFINE f == [i \in l .. l + 0 |-> First(t, l, h)]
  <2>1. Scans(f, t, l, h, l + 0, key)
    BY DEF Scans
  <2> QED
    BY <2>1
<1>2. ASSUME NEW k \in 0 .. h - l - 1, k \in T
      PROVE  k + 1 \in T
  <2>1. PICK f : Scans(f, t, l, h, l + k, key)
    BY <1>2
  <2> DEFINE more(i) == IF i = l THEN First(t, l, h) ELSE Stepped(f[i - 1], i, h, key)
             g == [i \in l .. l + (k + 1) |-> more(i)]
  <2>2. \A i \in l .. l + k : f[i] = more(i)
    BY <2>1 DEF Scans
  <2>3. \A i \in l .. l + k : g[i] = f[i]
    BY <2>2
  <2>4. ASSUME NEW i \in l .. l + (k + 1)
        PROVE  more(i) = IF i = l THEN First(t, l, h) ELSE Stepped(g[i - 1], i, h, key)
    <3>1. i # l => g[i - 1] = f[i - 1]
      BY <2>3
    <3> HIDE DEF g
    <3> QED
      BY <3>1
  <2>5. Scans(g, t, l, h, l + (k + 1), key)
    <3>1. g = [i \in l .. l + (k + 1) |-> more(i)]
      OBVIOUS
    <3> HIDE DEF g, more
    <3>2. g = [i \in l .. l + (k + 1) |-> IF i = l THEN First(t, l, h) ELSE Stepped(g[i - 1], i, h, key)]
      BY <2>4, <3>1
    <3> QED
      BY <3>2, Zenon DEF Scans
  <2> HIDE DEF g
  <2> QED
    BY <2>5
<1> HIDE DEF T
<1>3. 0 .. h - l \subseteq T
  BY <1>1, <1>2, InductionUpTo
<1>4. h - l \in T /\ l + (h - l) = h
  BY <1>3
<1> QED
  BY <1>4 DEF T

\* Before element i is compared: those before mem are less than the pivot, those
\* from mem on are not.
Split(st, t, n, S, l, h, i, key) ==
  /\ st.cells \in [1 .. n -> S] /\ st.mem \in l .. i
  /\ Rearranged(t, st.cells, n, l, h)
  /\ \A k \in l .. st.mem - 1 : key[st.cells[k]] < key[st.cells[h]]
  /\ \A k \in st.mem .. i - 1 : ~(key[st.cells[k]] < key[st.cells[h]])

LEMMA StepSplits ==
  ASSUME NEW n \in Nat, NEW S, NEW key, NEW t, NEW l \in 1 .. n, NEW h \in 1 .. n,
         NEW i \in l + 1 .. h, NEW seen, Split(seen, t, n, S, l, h, i - 1, key)
  PROVE  Split(Stepped(seen, i, h, key), t, n, S, l, h, i, key)
<1> DEFINE c == seen.cells
           m == seen.mem
<1>1. /\ c \in [1 .. n -> S] /\ m \in l .. i - 1 /\ Rearranged(t, c, n, l, h)
      /\ \A k \in l .. m - 1 : key[c[k]] < key[c[h]]
      /\ \A k \in m .. i - 2 : ~(key[c[k]] < key[c[h]])
  BY DEF Split
<1>2. CASE key[c[i - 1]] < key[c[h]]
  <2> DEFINE d == Swap(c, m, i - 1)
             st == [cells |-> d, mem |-> m + 1]
  <2>1. Stepped(seen, i, h, key) = st /\ st.cells = d /\ st.mem = m + 1
    BY <1>2 DEF Stepped
  <2>2. m \in l .. h /\ i - 1 \in l .. h /\ l \in 1 .. n + 1 /\ h \in 0 .. n
    BY <1>1
  <2> HIDE DEF c, m
  <2>3. /\ d \in [1 .. n -> S]
        /\ \A k \in 1 .. n : d[k] = IF k = m THEN c[i - 1] ELSE IF k = i - 1 THEN c[m] ELSE c[k]
        /\ Rearranged(c, d, n, l, h)
    <3>1. PICK j \in l .. h : j = i - 1
      BY <2>2
    <3>2. d = Swap(c, m, j)
      BY <3>1
    <3> HIDE DEF d
    <3>3. /\ d \in [1 .. n -> S] /\ Rearranged(c, d, n, l, h)
          /\ \A k \in 1 .. n : d[k] = IF k = m THEN c[j] ELSE IF k = j THEN c[m] ELSE c[k]
      <4>1. c \in [1 .. n -> S] /\ m \in l .. h /\ l \in 1 .. n + 1 /\ h \in 0 .. n
        BY <1>1, <2>2
      <4>2. d \in [1 .. n -> S] /\ Rearranged(c, d, n, l, h)
        BY <3>2, <4>1, SwapRearranges
      <4>3. ASSUME NEW k \in 1 .. n
            PROVE  Swap(c, m, j)[k] = IF k = m THEN c[j] ELSE IF k = j THEN c[m] ELSE c[k]
        BY <4>1 DEF Swap
      <4> QED
        BY <3>2, <4>2, <4>3
    <3> QED
      BY <3>1, <3>3
  <2>4. Rearranged(t, d, n, l, h)
    BY <1>1, <2>3, RearrangedTwice
  <2>5. d[h] = c[h]
    BY <1>1, <2>3
  <2>6. ASSUME NEW k \in l .. (m + 1) - 1
        PROVE  key[d[k]] < key[d[h]]
    BY <1>1, <1>2, <2>3, <2>5
  <2>7. ASSUME NEW k \in m + 1 .. i - 1
        PROVE  ~(key[d[k]] < key[d[h]])
    <3>1. d[k] = IF k = i - 1 THEN c[m] ELSE c[k]
      BY <1>1, <2>3
    <3>2. m \in m .. i - 2 /\ (k # i - 1 => k \in m .. i - 2)
      BY <1>1
    <3> QED
      BY <1>1, <2>5, <3>1, <3>2
  <2> HIDE DEF d
  <2>8. m + 1 \in l .. i
    BY <1>1
  <2> HIDE DEF st
  <2> QED
    BY <2>1, <2>3, <2>4, <2>6, <2>7, <2>8 DEF Split
<1>3. CASE ~(key[c[i - 1]] < key[c[h]])
  <2>1. Stepped(seen, i, h, key) = seen
    BY <1>3 DEF Stepped
  <2> HIDE DEF c, m
  <2>2. \A k \in m .. i - 1 : ~(key[c[k]] < key[c[h]])
    BY <1>1, <1>3
  <2>3. m \in l .. i
    BY <1>1
  <2> QED
    BY <1>1, <2>1, <2>2, <2>3 DEF Split, c, m
<1> QED
  BY <1>2, <1>3

LEMMA ScanSplits ==
  ASSUME NEW n \in Nat, NEW S, NEW key, NEW t \in [1 .. n -> S],
         NEW l \in 1 .. n, NEW h \in 1 .. n, l < h,
         NEW f, Scans(f, t, l, h, h, key)
  PROVE  Split(f[h], t, n, S, l, h, h, key)
<1> DEFINE Good(i) == Split(f[i], t, n, S, l, h, i, key)
           T == {k \in 0 .. h - l : Good(l + k)}
<1>1. \A i \in l .. h : f[i] = IF i = l THEN First(t, l, h) ELSE Stepped(f[i - 1], i, h, key)
  BY DEF Scans
<1>2. 0 \in T
  <2>1. f[l] = First(t, l, h) /\ l + 0 = l
    BY <1>1
  <2>2. (l + h) \div 2 \in l .. h /\ h \in l .. h /\ l \in 1 .. n + 1 /\ h \in 0 .. n
    OBVIOUS
  <2> DEFINE d == Swap(t, (l + h) \div 2, h)
  <2>3. d \in [1 .. n -> S] /\ Rearranged(t, d, n, l, h)
    <3>1. PICK p \in l .. h : p = (l + h) \div 2
      BY <2>2
    <3>2. d = Swap(t, p, h)
      BY <3>1
    <3> HIDE DEF d
    <3> QED
      BY <2>2, <3>2, SwapRearranges
  <2>4. f[l].cells = d /\ f[l].mem = l
    BY <2>1 DEF First
  <2> HIDE DEF d
  <2>5. Good(l)
    BY <2>3, <2>4 DEF Split
  <2> HIDE DEF Good
  <2> QED
    BY <2>1, <2>5
<1>3. ASSUME NEW k \in 0 .. h - l - 1, k \in T
      PROVE  k + 1 \in T
  <2>1. ASSUME NEW i, i = l + (k + 1)
        PROVE  Good(i)
    <3>1. i \in l + 1 .. h /\ i \in l .. h /\ i # l /\ i - 1 = l + k
      BY <2>1
    <3>2. Good(i - 1)
      BY <1>3, <3>1
    <3>3. f[i] = Stepped(f[i - 1], i, h, key)
      BY <1>1, <3>1
    <3> QED
      BY <3>1, <3>2, <3>3, StepSplits
  <2> HIDE DEF Good
  <2> QED
    BY <2>1
<1> HIDE DEF Good
<1>4. 0 .. h - l \subseteq T
  <2>1. h - l \in Nat
    OBVIOUS
  <2> HIDE DEF T
  <2> QED
    BY <1>2, <1>3, <2>1, InductionUpTo
<1>5. h - l \in T /\ l + (h - l) = h
  BY <1>4
<1> QED
  BY <1>5 DEF Good

\* The pivot is where it belongs: what is less before it, the rest behind it.
Parted(r, t, n, S, l, h, key) ==
  /\ r.cells \in [1 .. n -> S] /\ r.mem \in l .. h
  /\ Rearranged(t, r.cells, n, l, h)
  /\ \A k \in l .. r.mem - 1 : key[r.cells[k]] < key[r.cells[r.mem]]
  /\ \A k \in r.mem + 1 .. h : ~(key[r.cells[k]] < key[r.cells[r.mem]])

LEMMA PartitionSplits ==
  ASSUME NEW n \in Nat, NEW S, NEW key, NEW t \in [1 .. n -> S],
         NEW l \in 1 .. n, NEW h \in 1 .. n, l < h
  PROVE  Parted(Partition(t, l, h, key), t, n, S, l, h, key)
<1> DEFINE scan == CHOOSE f : Scans(f, t, l, h, h, key)
           st == scan[h]
           c == st.cells
           m == st.mem
           d == Swap(c, m, h)
<1>1. Scans(scan, t, l, h, h, key)
  <2>1. l \in Nat /\ h \in Nat /\ l <= h
    OBVIOUS
  <2>2. \E f : Scans(f, t, l, h, h, key)
    BY <2>1, ScanExists
  <2> QED
    BY <2>2, Zenon
<1>2. Partition(t, l, h, key) = [cells |-> d, mem |-> m]
  BY Zenon DEF Partition, Scans, First, Stepped
<1> HIDE DEF scan
<1>3. Split(st, t, n, S, l, h, h, key)
  BY <1>1, ScanSplits
<1>4. /\ c \in [1 .. n -> S] /\ m \in l .. h /\ Rearranged(t, c, n, l, h)
      /\ \A k \in l .. m - 1 : key[c[k]] < key[c[h]]
      /\ \A k \in m .. h - 1 : ~(key[c[k]] < key[c[h]])
  BY <1>3 DEF Split
<1>5. PICK r : r = Partition(t, l, h, key) /\ r.cells = d /\ r.mem = m
  BY <1>2
<1> HIDE DEF c, m
<1>6. /\ d \in [1 .. n -> S]
      /\ \A k \in 1 .. n : d[k] = IF k = m THEN c[h] ELSE IF k = h THEN c[m] ELSE c[k]
      /\ Rearranged(c, d, n, l, h)
  <2>1. h \in l .. h /\ l \in 1 .. n + 1 /\ h \in 0 .. n
    OBVIOUS
  <2> QED
    BY <1>4, <2>1, SwapRearranges
<1> HIDE DEF d
<1>7. Rearranged(t, d, n, l, h)
  BY <1>4, <1>6, RearrangedTwice
<1>8. d[m] = c[h]
  BY <1>4, <1>6
<1>9. ASSUME NEW k \in l .. m - 1
      PROVE  key[d[k]] < key[d[m]]
  BY <1>4, <1>6, <1>8
<1>10. ASSUME NEW k \in m + 1 .. h
       PROVE  ~(key[d[k]] < key[d[m]])
  <2>1. d[k] = IF k = h THEN c[m] ELSE c[k]
    BY <1>4, <1>6
  <2>2. m \in m .. h - 1 /\ (k # h => k \in m .. h - 1)
    BY <1>4
  <2> QED
    BY <1>4, <1>8, <2>1, <2>2
<1> QED
  BY <1>4, <1>5, <1>6, <1>7, <1>9, <1>10 DEF Parted

(***************************************************************************)
(* array_sort_recurse                                                      *)
(***************************************************************************)
\* r holds the elements of t, in the order of their keys between l and h.
Ordered(r, l, h, key) == \A i \in l .. h - 1 : key[r[i]] <= key[r[i + 1]]
SortedFrom(r, t, n, S, l, h, key) ==
  r \in [1 .. n -> S] /\ Rearranged(t, r, n, l, h) /\ Ordered(r, l, h, key)

\* Where the elements between l and h come from, and those outside.
Within(t, u, n, l, h) ==
  \A i \in 1 .. n : IF i \in l .. h THEN \E j \in l .. h : u[i] = t[j] ELSE u[i] = t[i]

LEMMA RearrangedWithin ==
  ASSUME NEW n, NEW l, NEW h, NEW t, NEW u, Rearranged(t, u, n, l, h)
  PROVE  Within(t, u, n, l, h)
<1>1. PICK pi : Shuffle(pi, n, l, h) /\ \A k \in 1 .. n : u[k] = t[pi[k]]
  BY DEF Rearranged
<1>2. ASSUME NEW i \in 1 .. n
      PROVE  IF i \in l .. h THEN \E j \in l .. h : u[i] = t[j] ELSE u[i] = t[i]
  <2>1. (i \in l .. h => pi[i] \in l .. h) /\ (i \notin l .. h => pi[i] = i)
    BY <1>1, Zenon DEF Shuffle
  <2> QED
    BY <1>1, <2>1
<1> QED
  BY <1>2, Zenon DEF Within

\* The parts before and behind the pivot are sorted: so is the whole.
LEMMA PartsSorted ==
  ASSUME NEW n \in Nat, NEW S, NEW key, \A x \in S : key[x] \in Int,
         NEW l \in 1 .. n, NEW h \in 1 .. n, NEW m \in l .. h, NEW t,
         NEW c \in [1 .. n -> S], Rearranged(t, c, n, l, h),
         \A k \in l .. m - 1 : key[c[k]] < key[c[m]],
         \A k \in m + 1 .. h : ~(key[c[k]] < key[c[m]]),
         NEW u, SortedFrom(u, c, n, S, l, m - 1, key),
         NEW v, SortedFrom(v, u, n, S, m + 1, h, key)
  PROVE  SortedFrom(v, t, n, S, l, h, key)
<1>1. /\ u \in [1 .. n -> S] /\ Rearranged(c, u, n, l, m - 1) /\ Ordered(u, l, m - 1, key)
      /\ v \in [1 .. n -> S] /\ Rearranged(u, v, n, m + 1, h) /\ Ordered(v, m + 1, h, key)
  BY DEF SortedFrom
<1>2. Rearranged(t, v, n, l, h)
  <2>1. PICK p \in Int, q \in Int : p = m - 1 /\ q = m + 1
    OBVIOUS
  <2>2. Rearranged(c, u, n, l, p) /\ Rearranged(u, v, n, q, h) /\ p <= h /\ l <= q
    BY <1>1, <2>1
  <2>3. Rearranged(t, u, n, l, h)
    BY <2>1, <2>2, RearrangedTwice
  <2> QED
    BY <2>1, <2>2, <2>3, RearrangedTwice
<1>3. ASSUME NEW i \in 1 .. n
      PROVE  /\ i \in l .. m - 1 => \E j \in l .. m - 1 : u[i] = c[j]
             /\ i \notin l .. m - 1 => u[i] = c[i]
             /\ i \in m + 1 .. h => \E j \in m + 1 .. h : v[i] = u[j]
             /\ i \notin m + 1 .. h => v[i] = u[i]
  <2>1. Within(c, u, n, l, m - 1) /\ Within(u, v, n, m + 1, h)
    BY <1>1, RearrangedWithin, Zenon
  <2> QED
    BY <2>1, Zenon DEF Within
<1>4. v[m] = c[m] /\ c[m] \in S
  BY <1>3
<1>5. ASSUME NEW i \in l .. m - 1
      PROVE  v[i] = u[i] /\ key[v[i]] < key[v[m]]
  <2>1. v[i] = u[i]
    BY <1>3
  <2>2. PICK j \in l .. m - 1 : u[i] = c[j]
    BY <1>3
  <2> QED
    BY <1>4, <2>1, <2>2
<1>6. ASSUME NEW i \in m + 1 .. h
      PROVE  key[v[m]] <= key[v[i]]
  <2>1. PICK j \in m + 1 .. h : v[i] = u[j]
    BY <1>3
  <2>2. u[j] = c[j] /\ c[j] \in S
    BY <1>3
  <2>3. ~(key[c[j]] < key[c[m]])
    OBVIOUS
  <2> QED
    BY <1>4, <2>1, <2>2, <2>3
<1>7. ASSUME NEW i \in l .. h - 1
      PROVE  key[v[i]] <= key[v[i + 1]]
  <2>1. key[v[i]] \in Int /\ key[v[i + 1]] \in Int
    BY <1>1
  <2>2. CASE i < m - 1
    <3>1. v[i] = u[i] /\ v[i + 1] = u[i + 1]
      BY <1>5, <2>2
    <3>2. i \in l .. (m - 1) - 1
      BY <2>2
    <3> QED
      BY <1>1, <3>1, <3>2 DEF Ordered
  <2>3. CASE i = m - 1
    <3>1. i \in l .. m - 1 /\ i + 1 = m
      BY <2>3
    <3>2. key[v[i]] < key[v[m]]
      BY <1>5, <3>1
    <3>3. key[v[i]] < key[v[i + 1]]
      BY <3>1, <3>2, Zenon
    <3> QED
      BY <2>1, <3>3
  <2>4. CASE i = m
    BY <1>6, <2>4
  <2>5. CASE i > m
    <3>1. i \in m + 1 .. h - 1
      BY <2>5
    <3> QED
      BY <1>1, <3>1 DEF Ordered
  <2> QED
    BY <2>2, <2>3, <2>4, <2>5
<1> QED
  BY <1>1, <1>2, <1>7 DEF SortedFrom, Ordered

(* The recursion: a call takes an arrangement, low and high.               *)
CallsUpTo(n, S, k) ==
  {call \in [1 .. n -> S] \X (1 .. n + 1) \X (0 .. n) : call[3] - call[2] < k}

Recursed(f, call, key) ==
  IF call[2] >= call[3] THEN call[1]
  ELSE LET split == Partition(call[1], call[2], call[3], key)
       IN  f[<<f[<<split.cells, call[2], split.mem - 1>>], split.mem + 1, call[3]>>]

Sorts(f, D, key) == f = [call \in D |-> Recursed(f, call, key)]

LEMMA CallParts ==
  ASSUME NEW n, NEW S, NEW k, NEW call \in CallsUpTo(n, S, k)
  PROVE  /\ call[1] \in [1 .. n -> S] /\ call[2] \in 1 .. n + 1 /\ call[3] \in 0 .. n
         /\ call[3] - call[2] < k
BY DEF CallsUpTo

\* The calls a call makes are smaller.
LEMMA PartsAreSmaller ==
  ASSUME NEW n \in Nat, NEW S, NEW key, NEW k \in Nat,
         NEW call \in CallsUpTo(n, S, k + 1), call[2] < call[3],
         NEW split, split = Partition(call[1], call[2], call[3], key)
  PROVE  /\ <<split.cells, call[2], split.mem - 1>> \in CallsUpTo(n, S, k)
         /\ \A u \in [1 .. n -> S] : <<u, split.mem + 1, call[3]>> \in CallsUpTo(n, S, k)
<1> DEFINE t == call[1]
           l == call[2]
           h == call[3]
<1>1. t \in [1 .. n -> S] /\ l \in 1 .. n + 1 /\ h \in 0 .. n /\ h - l < k + 1
  BY CallParts
<1> HIDE DEF t, l, h
<1>2. l < h
  BY DEF l, h
<1>3. l \in 1 .. n /\ h \in 1 .. n
  BY <1>1, <1>2
<1>4. split.cells \in [1 .. n -> S] /\ split.mem \in l .. h
  <2>1. split = Partition(t, l, h, key)
    BY DEF t, l, h
  <2>2. Parted(split, t, n, S, l, h, key)
    BY <1>1, <1>2, <1>3, <2>1, PartitionSplits
  <2> QED
    BY <2>2 DEF Parted
<1>5. ASSUME NEW u \in [1 .. n -> S], NEW a \in 1 .. n + 1, NEW b \in 0 .. n, b - a < k
      PROVE  <<u, a, b>> \in CallsUpTo(n, S, k)
  BY <1>5 DEF CallsUpTo
<1>6. <<split.cells, l, split.mem - 1>> \in CallsUpTo(n, S, k)
  <2>1. PICK b \in 0 .. n : b = split.mem - 1
    BY <1>1, <1>4
  <2>2. b - l < k
    BY <1>1, <1>4, <2>1
  <2> QED
    BY <1>1, <1>4, <1>5, <2>1, <2>2
<1>7. ASSUME NEW u \in [1 .. n -> S]
      PROVE  <<u, split.mem + 1, h>> \in CallsUpTo(n, S, k)
  <2>1. PICK a \in 1 .. n + 1 : a = split.mem + 1
    BY <1>3, <1>4
  <2>2. h - a < k
    BY <1>1, <1>4, <2>1
  <2> QED
    BY <1>1, <1>5, <2>1, <2>2
<1> QED
  BY <1>6, <1>7 DEF l, h

LEMMA CallsGrow ==
  ASSUME NEW n, NEW S, NEW k \in Nat
  PROVE  CallsUpTo(n, S, k) \subseteq CallsUpTo(n, S, k + 1)
<1>1. ASSUME NEW call \in [1 .. n -> S] \X (1 .. n + 1) \X (0 .. n), call[3] - call[2] < k
      PROVE  call[3] - call[2] < k + 1
  <2>1. call[2] \in 1 .. n + 1 /\ call[3] \in 0 .. n
    OBVIOUS
  <2> QED
    BY <1>1, <2>1
<1> QED
  BY <1>1, Zenon DEF CallsUpTo

SameOn(f, g, n, S, k) ==
  \A call \in CallsUpTo(n, S, k) : f[call] \in [1 .. n -> S] /\ g[call] = f[call]

\* A call gives the elements in another order, and asks only for smaller calls.
LEMMA RecursedOnSmaller ==
  ASSUME NEW n \in Nat, NEW S, NEW key, NEW k \in Nat,
         NEW f, NEW g, SameOn(f, g, n, S, k),
         NEW call \in CallsUpTo(n, S, k + 1)
  PROVE  Recursed(f, call, key) \in [1 .. n -> S] /\ Recursed(g, call, key) = Recursed(f, call, key)
<1>1. CASE call[2] >= call[3]
  <2>1. call[1] \in [1 .. n -> S]
    BY CallParts
  <2> QED
    BY <1>1, <2>1 DEF Recursed
<1>2. CASE ~(call[2] >= call[3])
  <2> DEFINE split == Partition(call[1], call[2], call[3], key)
             left == <<split.cells, call[2], split.mem - 1>>
             right(u) == <<u, split.mem + 1, call[3]>>
  <2>1. call[2] < call[3]
    BY <1>2, CallParts
  <2>2. left \in CallsUpTo(n, S, k) /\ \A u \in [1 .. n -> S] : right(u) \in CallsUpTo(n, S, k)
    BY <2>1, PartsAreSmaller
  <2>3. Recursed(f, call, key) = f[right(f[left])] /\ Recursed(g, call, key) = g[right(g[left])]
    BY <1>2, Zenon DEF Recursed
  <2> HIDE DEF split, left, right
  <2>4. f[left] \in [1 .. n -> S] /\ g[left] = f[left]
    BY <2>2 DEF SameOn
  <2> QED
    BY <2>2, <2>3, <2>4 DEF SameOn
<1> QED
  BY <1>1, <1>2

LEMMA SortExists ==
  ASSUME NEW n \in Nat, NEW S, NEW key
  PROVE  \E f \in [CallsUpTo(n, S, n) -> [1 .. n -> S]] : Sorts(f, CallsUpTo(n, S, n), key)
<1> DEFINE A == [1 .. n -> S]
           D(k) == CallsUpTo(n, S, k)
           T == {k \in 0 .. n : \E f \in [D(k) -> A] : Sorts(f, D(k), key)}
<1>1. 0 \in T
  <2> DEFINE f == [call \in D(0) |-> call[1]]
  <2>1. ASSUME NEW call \in D(0)
        PROVE  call[1] \in A /\ Recursed(f, call, key) = call[1]
    <3>1. call[1] \in A /\ call[2] >= call[3]
      BY CallParts
    <3> QED
      BY <3>1 DEF Recursed
  <2> HIDE DEF D, A
  <2>2. f \in [D(0) -> A] /\ f = [call \in D(0) |-> Recursed(f, call, key)]
    BY <2>1, Zenon
  <2> HIDE DEF f
  <2>3. \E h \in [D(0) -> A] : Sorts(h, D(0), key)
    BY <2>2, Zenon DEF Sorts
  <2> QED
    BY <2>3
<1>2. ASSUME NEW k \in 0 .. n - 1, k \in T
      PROVE  k + 1 \in T
  <2>1. PICK f \in [D(k) -> A] : Sorts(f, D(k), key)
    BY <1>2
  <2> DEFINE g == [call \in D(k + 1) |-> Recursed(f, call, key)]
  <2>2. k \in Nat /\ D(k) \subseteq D(k + 1)
    BY CallsGrow
  <2>3. \A call \in D(k) : f[call] = Recursed(f, call, key)
    BY <2>1, Zenon DEF Sorts
  <2>4. \A call \in D(k) : g[call] = f[call]
    <3> HIDE DEF D
    <3> QED
      BY <2>2, <2>3
  <2>5. ASSUME NEW call \in D(k + 1)
        PROVE  Recursed(f, call, key) \in A /\ Recursed(g, call, key) = Recursed(f, call, key)
    <3>1. \A c \in D(k) : f[c] \in A
      OBVIOUS
    <3>2. SameOn(f, g, n, S, k)
      BY <2>4, <3>1, Zenon DEF SameOn
    <3> HIDE DEF g
    <3> QED
      BY <2>2, <3>2, RecursedOnSmaller
  <2>6. g \in [D(k + 1) -> A] /\ g = [call \in D(k + 1) |-> Recursed(g, call, key)]
    <3>1. g = [call \in D(k + 1) |-> Recursed(f, call, key)]
      OBVIOUS
    <3> HIDE DEF g, D, A
    <3> QED
      BY <2>5, <3>1, Zenon
  <2> HIDE DEF g, D, A
  <2>7. \E h \in [D(k + 1) -> A] : Sorts(h, D(k + 1), key)
    BY <2>6, Zenon DEF Sorts
  <2> QED
    BY <2>7
<1> HIDE DEF T
<1>3. n \in T
  BY <1>1, <1>2, InductionUpTo
<1> QED
  BY <1>3 DEF T

\* What the recursion gives for a call.
LEMMA CallsSort ==
  ASSUME NEW n \in Nat, NEW S, NEW key, \A x \in S : key[x] \in Int,
         NEW f, Sorts(f, CallsUpTo(n, S, n), key)
  PROVE  \A call \in CallsUpTo(n, S, n) : SortedFrom(f[call], call[1], n, S, call[2], call[3], key)
<1> DEFINE D(k) == CallsUpTo(n, S, k)
           Good(call) == SortedFrom(f[call], call[1], n, S, call[2], call[3], key)
           T == {k \in 0 .. n : \A call \in D(k) : call \in D(n) /\ Good(call)}
<1>1. \A call \in D(n) : f[call] = Recursed(f, call, key)
  BY Zenon DEF Sorts
<1>2. ASSUME NEW call \in D(n), call[2] >= call[3]
      PROVE  Good(call)
  <2>1. call[1] \in [1 .. n -> S] /\ call[2] \in Int /\ call[3] \in Int
    BY CallParts
  <2>2. f[call] = call[1]
    BY <1>1, <1>2 DEF Recursed
  <2>3. Rearranged(call[1], call[1], n, call[2], call[3])
    BY <2>1, RearrangedSelf
  <2>4. Ordered(call[1], call[2], call[3], key)
    BY <1>2, <2>1 DEF Ordered
  <2> QED
    BY <2>1, <2>2, <2>3, <2>4 DEF SortedFrom
<1>3. ASSUME NEW k \in 0 .. n - 1, \A call \in D(k) : call \in D(n) /\ Good(call), NEW call \in D(k + 1)
      PROVE  call \in D(n) /\ Good(call)
  <2> DEFINE t == call[1]
             l == call[2]
             h == call[3]
             split == Partition(t, l, h, key)
             left == <<split.cells, l, split.mem - 1>>
             u == f[left]
             right == <<u, split.mem + 1, h>>
  <2>1. t \in [1 .. n -> S] /\ l \in 1 .. n + 1 /\ h \in 0 .. n /\ h - l < k + 1
    BY CallParts
  <2>2. call \in D(n)
    BY <2>1 DEF CallsUpTo
  <2>3. CASE ~(l >= h)
    <3>1. l \in 1 .. n /\ h \in 1 .. n /\ l < h /\ k \in Nat
      BY <2>1, <2>3
    <3>2. Parted(split, t, n, S, l, h, key)
      <4> HIDE DEF t, l, h
      <4> QED
        BY <2>1, <3>1, PartitionSplits
    <3>3. left \in D(k) /\ \A v \in [1 .. n -> S] : <<v, split.mem + 1, h>> \in D(k)
      BY <3>1, PartsAreSmaller
    <3>4. SortedFrom(u, split.cells, n, S, l, split.mem - 1, key)
      <4>1. Good(left)
        BY <1>3, <3>3
      <4>2. left[1] = split.cells /\ left[2] = l /\ left[3] = split.mem - 1
        OBVIOUS
      <4> HIDE DEF left, split, l
      <4> QED
        BY <4>1, <4>2
    <3>5. u \in [1 .. n -> S]
      BY <3>4 DEF SortedFrom
    <3>6. SortedFrom(f[right], u, n, S, split.mem + 1, h, key)
      <4>1. Good(right)
        <5>1. right \in D(k)
          <6> HIDE DEF u
          <6> QED
            BY <3>3, <3>5
        <5> HIDE DEF right
        <5> QED
          BY <1>3, <5>1
      <4>2. right[1] = u /\ right[2] = split.mem + 1 /\ right[3] = h
        OBVIOUS
      <4> HIDE DEF right, split, h, u
      <4> QED
        BY <4>1, <4>2
    <3>7. f[call] = f[right]
      BY <1>1, <2>2, <2>3, Zenon DEF Recursed
    <3> HIDE DEF split, t, l, h, u, right
    <3>8. SortedFrom(f[right], t, n, S, l, h, key)
      <4>1. /\ split.cells \in [1 .. n -> S] /\ split.mem \in l .. h
            /\ Rearranged(t, split.cells, n, l, h)
            /\ \A j \in l .. split.mem - 1 : key[split.cells[j]] < key[split.cells[split.mem]]
            /\ \A j \in split.mem + 1 .. h : ~(key[split.cells[j]] < key[split.cells[split.mem]])
        BY <3>2 DEF Parted
      <4> QED
        BY <3>1, <3>4, <3>6, <4>1, PartsSorted, Zenon
    <3> QED
      BY <2>2, <3>7, <3>8 DEF t, l, h
  <2> QED
    BY <1>2, <2>2, <2>3
<1> HIDE DEF Good
<1>4. 0 \in T
  <2>1. ASSUME NEW call \in D(0)
        PROVE  call \in D(n) /\ call[2] >= call[3]
    BY CallParts DEF CallsUpTo
  <2> QED
    BY <1>2, <2>1
<1>5. ASSUME NEW k \in 0 .. n - 1, k \in T
      PROVE  k + 1 \in T
  BY <1>3, <1>5
<1> HIDE DEF T
<1>6. n \in T
  BY <1>4, <1>5, InductionUpTo
<1> QED
  BY <1>6 DEF T, Good

\* array_sort: for any elements and keys, the result holds the elements there
\* were, in the order of their keys.
THEOREM SortedSorts ==
  ASSUME NEW S, NEW s \in Seq(S), NEW key, \A x \in Range(s) : key[x] \in Int
  PROVE  SortedFrom(Sorted(s, 1, Len(s), key), s, Len(s), Range(s), 1, Len(s), key)
<1> DEFINE n == Len(s)
           R == Range(s)
           first == <<s, 1, n>>
           sort == CHOOSE f : Sorts(f, Calls(s), key)
<1>1. n \in Nat /\ s \in [1 .. n -> R] /\ SubSeq(s, 1, n) = s
  BY DEF Range
<1>2. Calls(s) = CallsUpTo(n, R, n)
  <2>1. ASSUME NEW call \in [1 .. n -> R] \X (1 .. n + 1) \X (0 .. n)
        PROVE  call[3] - call[2] < n
    <3>1. call[2] \in 1 .. n + 1 /\ call[3] \in 0 .. n
      OBVIOUS
    <3> QED
      BY <1>1, <3>1
  <2> QED
    BY <2>1, Zenon DEF Calls, CallsUpTo
<1>3. Sorts(sort, CallsUpTo(n, R, n), key)
  <2> HIDE DEF n, R
  <2>1. \E f : Sorts(f, CallsUpTo(n, R, n), key)
    BY <1>1, SortExists
  <2> QED
    BY <1>2, <2>1, Zenon
<1>4. Sorted(s, 1, Len(s), key) = sort[first]
  <2>1. Sorted(s, 1, Len(s), key) = sort[<<SubSeq(s, 1, Len(s)), 1, Len(s)>>]
    BY Zenon DEF Sorted, Sorts, Recursed
  <2> HIDE DEF sort
  <2> QED
    BY <1>1, <2>1
<1> HIDE DEF sort
<1>5. first \in CallsUpTo(n, R, n)
  <2> HIDE DEF n, R
  <2>1. first \in [1 .. n -> R] \X (1 .. n + 1) \X (0 .. n) /\ first[3] - first[2] < n
    BY <1>1
  <2> HIDE DEF first
  <2> QED
    BY <2>1 DEF CallsUpTo
<1>6. first[1] = s /\ first[2] = 1 /\ first[3] = n
  OBVIOUS
<1> HIDE DEF n, R, first
<1>7. \A x \in R : key[x] \in Int
  BY DEF R
<1>8. SortedFrom(sort[first], first[1], n, R, first[2], first[3], key)
  BY <1>1, <1>3, <1>5, <1>7, CallsSort
<1> QED
  BY <1>4, <1>6, <1>8 DEF n, R

\* As many elements have a value before as after.
SameCounts(t, u, n) ==
  \A v : Cardinality({i \in 1 .. n : u[i] = v}) = Cardinality({i \in 1 .. n : t[i] = v})

LEMMA RearrangedCounts ==
  ASSUME NEW n \in Nat, NEW l, NEW h, NEW t, NEW u, Rearranged(t, u, n, l, h)
  PROVE  SameCounts(t, u, n)
<1> SUFFICES ASSUME NEW v
             PROVE  Cardinality({i \in 1 .. n : u[i] = v}) = Cardinality({i \in 1 .. n : t[i] = v})
  BY DEF SameCounts
<1> DEFINE Before == {i \in 1 .. n : t[i] = v}
           After == {i \in 1 .. n : u[i] = v}
<1>1. PICK pi : Shuffle(pi, n, l, h) /\ \A k \in 1 .. n : u[k] = t[pi[k]]
  BY DEF Rearranged
<1>2. /\ \A k \in 1 .. n : pi[k] \in 1 .. n
      /\ \A i, j \in 1 .. n : pi[i] = pi[j] => i = j
      /\ \A j \in 1 .. n : \E i \in 1 .. n : pi[i] = j
  BY <1>1 DEF Shuffle
<1> DEFINE f == [i \in After |-> pi[i]]
<1>3. f \in [After -> Before]
  BY <1>1, <1>2
<1>4. f \in Bijection(After, Before)
  <2>1. \A i, j \in After : f[i] = f[j] => i = j
    BY <1>2
  <2>2. \A j \in Before : \E i \in After : f[i] = j
    BY <1>1, <1>2
  <2> HIDE DEF f, Before, After
  <2> QED
    BY <1>3, <2>1, <2>2 DEF Bijection, IsInjective, Injection, Surjection
<1>5. IsFiniteSet(After)
  BY FS_Interval, FS_Subset
<1> HIDE DEF f, Before, After
<1>6. Cardinality(After) = Cardinality(Before)
  BY <1>4, <1>5, FS_Bijection DEF ExistsBijection
<1> QED
  BY <1>6 DEF Before, After

===============================================================================
