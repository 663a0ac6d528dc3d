----------------------------- MODULE LeastNumber -----------------------------
(***************************************************************************)
(* Facts about natural numbers the other proofs need, and about sequences  *)
(* laid one behind the other.  Induction is stated over a set: the cases   *)
(* for which the claim holds.                                              *)
(***************************************************************************)
EXTENDS Integers, FiniteSetsExt, SequencesExt, WellFoundedInduction, TLAPS

\* A set of natural numbers that is not empty has a least member.
LEMMA LeastNumberExists ==
  ASSUME NEW S \in SUBSET Nat, S # {}
  PROVE  \E n \in S : \A m \in S : n <= m
<1>1. IsWellFoundedOn(OpToRel(<, Nat), Nat)
  BY NatLessThanWellFounded
<1>2. PICK n \in S : \A m \in S : ~(<<m, n>> \in OpToRel(<, Nat))
  BY <1>1, WFMin
<1>3. \A m \in S : ~(m < n)
  BY <1>2, Zenon DEF OpToRel
<1> QED
  BY <1>3

\* Induction up to n: every number up to n is a case that holds.
LEMMA InductionUpTo ==
  ASSUME NEW n \in Nat, NEW T,
         0 \in T,
         \A k \in 0 .. n - 1 : k \in T => k + 1 \in T
  PROVE  0 .. n \subseteq T
<1> SUFFICES ASSUME ~(0 .. n \subseteq T)
             PROVE  FALSE
  OBVIOUS
<1> DEFINE Missing == (0 .. n) \ T
<1>0. Missing \in SUBSET Nat /\ Missing # {}
  OBVIOUS
<1>1. PICK m \in Missing : \A k \in Missing : m <= k
  BY <1>0, LeastNumberExists
<1>2. m # 0 /\ m - 1 \in 0 .. n - 1
  BY <1>1
<1>3. m - 1 \in T
  BY <1>1, <1>2
<1> QED
  BY <1>1, <1>2, <1>3

\* Induction over all numbers.
LEMMA Induction ==
  ASSUME NEW T,
         0 \in T,
         \A k \in Nat : k \in T => k + 1 \in T
  PROVE  Nat \subseteq T
<1> SUFFICES ASSUME NEW n \in Nat
             PROVE  n \in T
  OBVIOUS
<1>1. 0 .. n \subseteq T
  BY InductionUpTo
<1> QED
  BY <1>1

\* f is defined by recursion on 0 .. n: rule[i] leads from its value at i - 1 to
\* the one at i.
DefinedBy(f, n, S, first, rule) ==
  f \in [0 .. n -> S] /\ f[0] = first /\ \A i \in 1 .. n : f[i] = rule[i][f[i - 1]]

\* Such a function exists.
LEMMA RecursionUpTo ==
  ASSUME NEW n \in Nat, NEW S, NEW first \in S, NEW rule \in [1 .. n -> [S -> S]]
  PROVE  \E f : DefinedBy(f, n, S, first, rule)
<1> DEFINE Is(f, k) == DefinedBy(f, k, S, first, rule)
           T == {k \in 0 .. n : \E f : Is(f, k)}
<1>1. 0 \in T
  <2>1. Is([i \in 0 .. 0 |-> first], 0)
    BY DEF DefinedBy
  <2> HIDE DEF Is
  <2> QED
    BY <2>1
<1>2. ASSUME NEW k \in 0 .. n - 1, k \in T
      PROVE  k + 1 \in T
  <2>1. PICK f : Is(f, k)
    BY <1>2
  <2>2. f \in [0 .. k -> S] /\ f[0] = first /\ \A i \in 1 .. k : f[i] = rule[i][f[i - 1]]
    BY <2>1 DEF DefinedBy
  <2> DEFINE next == rule[k + 1][f[k]]
             g == [i \in 0 .. k + 1 |-> IF i = k + 1 THEN next ELSE f[i]]
  <2>3. next \in S
    <3>1. k + 1 \in 1 .. n /\ f[k] \in S
      BY <2>2
    <3>2. rule[k + 1] \in [S -> S]
      BY <3>1
    <3> QED
      BY <3>1, <3>2
  <2>4. g[k + 1] = next /\ \A i \in 0 .. k : g[i] = f[i]
    OBVIOUS
  <2> HIDE DEF next
  <2>5. g \in [0 .. k + 1 -> S]
    BY <2>2, <2>3
  <2> HIDE DEF g
  <2>6. \A i \in 1 .. k + 1 : g[i] = rule[i][g[i - 1]]
    BY <2>2, <2>4 DEF next
  <2>7. Is(g, k + 1)
    BY <2>2, <2>4, <2>5, <2>6 DEF DefinedBy
  <2> HIDE DEF Is
  <2> QED
    BY <2>7
<1> HIDE DEF T
<1>3. 0 .. n \subseteq T
  BY <1>1, <1>2, InductionUpTo
<1>4. n \in T
  BY <1>3
<1>5. \E f : Is(f, n)
  BY <1>4 DEF T
<1> QED
  BY <1>5

LEMMA MinIsLeast ==
  ASSUME NEW S \in SUBSET Nat, S # {}
  PROVE  Min(S) \in S /\ \A m \in S : Min(S) <= m
<1>1. \E n \in S : \A m \in S : n <= m
  BY LeastNumberExists
<1> QED
  BY <1>1 DEF Min

\* A set of numbers none of which is above a bound has a greatest member.
LEMMA MaxIsGreatest ==
  ASSUME NEW n \in Nat, NEW S \in SUBSET (0 .. n), S # {}
  PROVE  Max(S) \in S /\ \A m \in S : Max(S) >= m
<1> DEFINE Gaps == {n - m : m \in S}
<1>1. Gaps \in SUBSET Nat /\ Gaps # {}
  <2>1. \A m \in S : m \in 0 .. n /\ n - m \in Nat
    OBVIOUS
  <2> QED
    BY <2>1, Zenon
<1>2. PICK d \in Gaps : \A e \in Gaps : d <= e
  BY <1>1, LeastNumberExists
<1>3. PICK x \in S : d = n - x
  BY <1>2
<1>4. \A m \in S : x >= m
  BY <1>2, <1>3
<1> QED
  BY <1>3, <1>4 DEF Max

(***************************************************************************)
(* Sequences laid one behind the other                                     *)
(***************************************************************************)
\* f is the recursion of FlattenSeq.
Flattens(f, d, n) == f = [i \in 1 .. n |-> IF i = 1 THEN d[i] ELSE f[i - 1] \o d[i]]

LEMMA FlattenExists ==
  ASSUME NEW n \in Nat, NEW d
  PROVE  \E f : Flattens(f, d, n)
<1> DEFINE T == {k \in 0 .. n : \E f : Flattens(f, d, k)}
<1>1. 0 \in T
  <2> DEFINE f == [i \in 1 .. 0 |-> d[i]]
  <2>1. Flattens(f, d, 0)
    BY DEF Flattens
  <2> HIDE DEF f
  <2> QED
    BY <2>1
<1>2. ASSUME NEW k \in 0 .. n - 1, k \in T
      PROVE  k + 1 \in T
  <2>1. PICK f : Flattens(f, d, k)
    BY <1>2
  <2> DEFINE more(i) == IF i = 1 THEN d[i] ELSE f[i - 1] \o d[i]
             g == [i \in 1 .. k + 1 |-> more(i)]
  <2>2. \A i \in 1 .. k : f[i] = more(i)
    BY <2>1 DEF Flattens
  <2>3. \A i \in 1 .. k : g[i] = f[i]
    BY <2>2
  <2>4. ASSUME NEW i \in 1 .. k + 1
        PROVE  more(i) = IF i = 1 THEN d[i] ELSE g[i - 1] \o d[i]
    <3>1. i # 1 => i - 1 \in 1 .. k
      OBVIOUS
    <3>2. i # 1 => g[i - 1] = f[i - 1]
      BY <2>3, <3>1
    <3> HIDE DEF g
    <3> QED
      BY <3>2
  <2>5. Flattens(g, d, k + 1)
    <3>1. g = [i \in 1 .. k + 1 |-> more(i)]
      OBVIOUS
    <3> HIDE DEF g, more
    <3>2. g = [i \in 1 .. k + 1 |-> IF i = 1 THEN d[i] ELSE g[i - 1] \o d[i]]
      BY <2>4, <3>1
    <3> QED
      BY <3>2, Zenon DEF Flattens
  <2> HIDE DEF g
  <2> QED
    BY <2>5
<1> HIDE DEF T
<1>3. n \in T
  BY <1>1, <1>2, InductionUpTo
<1> QED
  BY <1>3 DEF T

FirstOf(d, k) == [j \in 1 .. k |-> d[j]]

LEMMA FlattenedBy ==
  ASSUME NEW n \in Nat \ {0}, NEW d
  PROVE  \E f : Flattens(f, d, n) /\ FlattenSeq(FirstOf(d, n)) = f[n]
<1> DEFINE p == FirstOf(d, n)
           f == CHOOSE f : Flattens(f, p, n)
<1>1. Len(p) = n /\ \A i \in 1 .. n : p[i] = d[i]
  BY DEF FirstOf
<1> HIDE DEF p
<1>2. Flattens(f, p, n)
  BY FlattenExists
<1>3. FlattenSeq(p) = f[n]
  BY <1>1, Zenon DEF FlattenSeq, Flattens
<1> HIDE DEF f
<1>4. Flattens(f, d, n)
  BY <1>1, <1>2 DEF Flattens
<1> QED
  BY <1>3, <1>4 DEF p

\* One sequence more.
LEMMA FlattenNext ==
  ASSUME NEW k \in Nat, NEW d
  PROVE  /\ FlattenSeq(FirstOf(d, 0)) = <<>>
         /\ FlattenSeq(FirstOf(d, 1)) = d[1]
         /\ k # 0 => FlattenSeq(FirstOf(d, k + 1)) = FlattenSeq(FirstOf(d, k)) \o d[k + 1]
<1>1. FlattenSeq(FirstOf(d, 0)) = <<>>
  <2>1. FirstOf(d, 0) = <<>>
    BY DEF FirstOf
  <2> QED
    BY <2>1 DEF FlattenSeq
<1>2. FlattenSeq(FirstOf(d, 1)) = d[1]
  <2>1. PICK f : Flattens(f, d, 1) /\ FlattenSeq(FirstOf(d, 1)) = f[1]
    BY FlattenedBy
  <2> QED
    BY <2>1 DEF Flattens
<1>3. ASSUME k # 0
      PROVE  FlattenSeq(FirstOf(d, k + 1)) = FlattenSeq(FirstOf(d, k)) \o d[k + 1]
  <2>1. k \in Nat \ {0} /\ k + 1 \in Nat \ {0}
    BY <1>3
  <2>2. PICK f : Flattens(f, d, k) /\ FlattenSeq(FirstOf(d, k)) = f[k]
    BY <2>1, FlattenedBy
  <2>3. PICK g : Flattens(g, d, k + 1) /\ FlattenSeq(FirstOf(d, k + 1)) = g[k + 1]
    BY <2>1, FlattenedBy
  <2>4. \A i \in 1 .. k : f[i] = IF i = 1 THEN d[i] ELSE f[i - 1] \o d[i]
    BY <2>2 DEF Flattens
  <2>5. \A i \in 1 .. k + 1 : g[i] = IF i = 1 THEN d[i] ELSE g[i - 1] \o d[i]
    BY <2>3 DEF Flattens
  <2> DEFINE T == {i \in 0 .. k : i = 0 \/ f[i] = g[i]}
  <2>6. 0 \in T
    OBVIOUS
  <2>7. ASSUME NEW i \in 0 .. k - 1, i \in T
        PROVE  i + 1 \in T
    <3>1. PICK j \in 1 .. k : j = i + 1 /\ j - 1 = i
      OBVIOUS
    <3>2. f[j] = g[j]
      BY <2>4, <2>5, <2>7, <3>1
    <3> QED
      BY <3>1, <3>2
  <2> HIDE DEF T
  <2>8. k \in T
    BY <2>6, <2>7, InductionUpTo
  <2>9. f[k] = g[k]
    BY <1>3, <2>8 DEF T
  <2>10. PICK j \in 1 .. k + 1 : j = k + 1 /\ j # 1 /\ j - 1 = k
    BY <2>1
  <2>11. g[j] = g[k] \o d[j]
    BY <2>5, <2>10
  <2> QED
    BY <2>2, <2>3, <2>9, <2>10, <2>11
<1> QED
  BY <1>1, <1>2, <1>3

==============================================================================
