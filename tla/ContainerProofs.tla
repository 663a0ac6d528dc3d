---------------------------- MODULE ContainerProofs ----------------------------
(***************************************************************************)
(* Theorems about the growing String of Strings.tla: the text is what was  *)
(* appended and the terminator lies behind it, for any inputs, files and   *)
(* bound of memory; and about the arrays of Arrays.tla: they keep within   *)
(* their blocks and array_sort sorts, for any elements and keys.           *)
(***************************************************************************)
EXTENDS Strings, Arrays, SortProofs

(***************************************************************************)
(* The invariant                                                           *)
(***************************************************************************)
Cells == Chars \cup {Nul, Raw}

\* A string whose text is t, in a block with a cell to spare.
Holding(s, t) ==
  /\ DOMAIN s = {"length", "data"}
  /\ s.data \in Seq(Cells) /\ t \in Seq(Chars)
  /\ s.length \in Nat /\ s.length = Len(t)
  /\ Len(s.data) \in Powers \cup {0} /\ Len(s.data) <= MaxStrCapacity
  /\ IF Len(s.data) = 0 THEN s.length = 0 ELSE s.length < Len(s.data)
  /\ \A i \in 1 .. s.length : s.data[i] = t[i]

Ended(s) == Len(s.data) # 0 /\ s.data[s.length + 1] = Nul

StrInv == Holding(string, text) /\ (ended => Ended(string))

(***************************************************************************)
(* The block                                                               *)
(***************************************************************************)
LEMMA PowersAreNumbers == Powers \subseteq Nat /\ 2 ^ 30 \in Powers
<1>1. ASSUME NEW k \in 0 .. 30
      PROVE  2 ^ k \in Nat
  <2>1. CASE k \in {0, 1, 2, 3, 4, 5, 6, 7}
    <3>1. /\ 2 ^ 0 \in Nat /\ 2 ^ 1 \in Nat /\ 2 ^ 2 \in Nat /\ 2 ^ 3 \in Nat
          /\ 2 ^ 4 \in Nat /\ 2 ^ 5 \in Nat /\ 2 ^ 6 \in Nat /\ 2 ^ 7 \in Nat
      OBVIOUS
    <3> QED
      BY <2>1, <3>1, ZenonT(30)
  <2>2. CASE k \in {8, 9, 10, 11, 12, 13, 14, 15}
    <3>1. /\ 2 ^ 8 \in Nat /\ 2 ^ 9 \in Nat /\ 2 ^ 10 \in Nat /\ 2 ^ 11 \in Nat
          /\ 2 ^ 12 \in Nat /\ 2 ^ 13 \in Nat /\ 2 ^ 14 \in Nat /\ 2 ^ 15 \in Nat
      OBVIOUS
    <3> QED
      BY <2>2, <3>1, ZenonT(30)
  <2>3. CASE k \in {16, 17, 18, 19, 20, 21, 22, 23}
    <3>1. /\ 2 ^ 16 \in Nat /\ 2 ^ 17 \in Nat /\ 2 ^ 18 \in Nat /\ 2 ^ 19 \in Nat
          /\ 2 ^ 20 \in Nat /\ 2 ^ 21 \in Nat /\ 2 ^ 22 \in Nat /\ 2 ^ 23 \in Nat
      OBVIOUS
    <3> QED
      BY <2>3, <3>1, ZenonT(30)
  <2>4. CASE k \in {24, 25, 26, 27, 28, 29, 30}
    <3>1. /\ 2 ^ 24 \in Nat /\ 2 ^ 25 \in Nat /\ 2 ^ 26 \in Nat /\ 2 ^ 27 \in Nat
          /\ 2 ^ 28 \in Nat /\ 2 ^ 29 \in Nat /\ 2 ^ 30 \in Nat
      OBVIOUS
    <3> QED
      BY <2>4, <3>1, ZenonT(30)
  <2> QED
    BY <2>1, <2>2, <2>3, <2>4
<1>2. 2 ^ 30 \in Powers
  BY DEF Powers
<1> QED
  BY <1>1, <1>2 DEF Powers

\* What a request that fits makes of the capacity.
LEMMA RoomGranted ==
  ASSUME NEW s, Len(s.data) \in Powers \cup {0}, NEW newlen \in Nat, Fits(s, newlen)
  PROVE  /\ CapacityFor(s, newlen) \in Powers \cap Nat
         /\ newlen < CapacityFor(s, newlen) /\ Len(s.data) <= CapacityFor(s, newlen)
         /\ CapacityFor(s, newlen) <= MaxStrCapacity
<1> DEFINE larger == {p \in Powers : p > newlen}
           c == CapacityFor(s, newlen)
<1>1. Len(s.data) \in Nat /\ c <= MaxStrCapacity /\ newlen < MaxStrCapacity
  BY PowersAreNumbers DEF Fits
<1>2. larger \in SUBSET Nat /\ larger # {}
  <2>1. 2 ^ 30 \in Powers /\ 2 ^ 30 \in Nat /\ Powers \subseteq Nat
    BY PowersAreNumbers
  <2>2. MaxStrCapacity \in Nat /\ MaxStrCapacity <= 2 ^ 30
    BY StringsAssumption, <2>1 DEF StringsAssumption
  <2>3. newlen < 2 ^ 30
    BY <1>1, <2>1, <2>2
  <2>4. 2 ^ 30 \in larger
    BY <2>1, <2>3
  <2> QED
    BY <2>1, <2>4
<1>3. PICK n \in larger : \A m \in larger : n <= m
  BY <1>2, LeastNumberExists
<1>4. LeastOf(larger) \in larger
  BY <1>3 DEF LeastOf
<1>5. CASE newlen >= Len(s.data)
  <2>1. c \in larger
    BY <1>4, <1>5 DEF CapacityFor, Pow2GreaterThan
  <2> QED
    BY <1>1, <1>2, <1>5, <2>1
<1>6. CASE ~(newlen >= Len(s.data))
  <2>1. c = Len(s.data) /\ newlen < Len(s.data)
    BY <1>1, <1>6 DEF CapacityFor
  <2> QED
    BY <1>1, <2>1
<1> QED
  BY <1>5, <1>6

\* str_realloc keeps the cells there were.
LEMMA GrownCells ==
  ASSUME NEW s, s.data \in Seq(Cells), NEW newlen \in Nat, CapacityFor(s, newlen) \in Nat
  PROVE  /\ Grown(s, newlen) \in Seq(Cells) /\ Len(Grown(s, newlen)) = CapacityFor(s, newlen)
         /\ \A i \in 1 .. Len(s.data) : i <= CapacityFor(s, newlen) => Grown(s, newlen)[i] = s.data[i]
<1> DEFINE c == CapacityFor(s, newlen)
           d == s.data
<1>1. Raw \in Cells
  BY DEF Cells
<1>2. Grown(s, newlen) = [i \in 1 .. c |-> IF i <= Len(d) THEN d[i] ELSE Raw]
  BY DEF Grown
<1> HIDE DEF c, d, Cells
<1>3. d \in Seq(Cells) /\ c \in Nat
  BY DEF c, d
<1>4. [i \in 1 .. c |-> IF i <= Len(d) THEN d[i] ELSE Raw] \in [1 .. c -> Cells]
  BY <1>1, <1>3
<1> QED
  BY <1>2, <1>3, <1>4 DEF c, d

\* What memcpy into the block changes.
LEMMA OverlaidCells ==
  ASSUME NEW data \in Seq(Cells), NEW n \in Nat, NEW cells \in Seq(Cells)
  PROVE  /\ Overlay(data, n, cells) \in Seq(Cells) /\ Len(Overlay(data, n, cells)) = Len(data)
         /\ \A i \in 1 .. Len(data) :
              Overlay(data, n, cells)[i] = IF i \in n + 1 .. n + Len(cells) THEN cells[i - n] ELSE data[i]
<1> HIDE DEF Cells
<1>1. \A i \in n + 1 .. n + Len(cells) : cells[i - n] \in Cells
  OBVIOUS
<1>2. Overlay(data, n, cells) = [i \in 1 .. Len(data) |-> IF i \in n + 1 .. n + Len(cells) THEN cells[i - n] ELSE data[i]]
  BY DEF Overlay
<1>3. [i \in 1 .. Len(data) |-> IF i \in n + 1 .. n + Len(cells) THEN cells[i - n] ELSE data[i]]
        \in [1 .. Len(data) -> Cells]
  BY <1>1
<1> QED
  BY <1>2, <1>3

(***************************************************************************)
(* The calls                                                               *)
(***************************************************************************)
LEMMA ClearHolds ==
  ASSUME NEW s, NEW t, Holding(s, t)
  PROVE  Holding(ClearedStr(s), <<>>)
<1>1. /\ DOMAIN ClearedStr(s) = {"length", "data"}
      /\ ClearedStr(s).length = 0 /\ ClearedStr(s).data = s.data
  BY DEF Holding, ClearedStr
<1>2. <<>> \in Seq(Chars) /\ Len(<<>>) = 0
  OBVIOUS
<1>3. Len(s.data) \in Nat
  BY PowersAreNumbers DEF Holding
<1> QED
  BY <1>1, <1>2, <1>3 DEF Holding

LEMMA AppendHolds ==
  ASSUME NEW s, NEW t, Holding(s, t), NEW input \in Seq(Chars), Fits(s, s.length + Len(input))
  PROVE  Holding(Appended(s, input), t \o input) /\ Ended(Appended(s, input))
<1> DEFINE newlen == s.length + Len(input)
           c == CapacityFor(s, newlen)
           grown == Grown(s, newlen)
           cells == Append(input, Nul)
           data == Overlay(grown, s.length, cells)
           r == Appended(s, input)
<1>1. /\ s.data \in Seq(Cells) /\ t \in Seq(Chars) /\ s.length \in Nat /\ s.length = Len(t)
      /\ Len(input) \in Nat /\ newlen \in Nat /\ Len(s.data) \in Powers \cup {0}
      /\ \A i \in 1 .. s.length : s.data[i] = t[i]
  BY DEF Holding
<1>2. s.length <= Len(s.data) /\ Len(s.data) \in Nat
  BY PowersAreNumbers DEF Holding
<1>3. c \in Powers \cap Nat /\ newlen < c /\ Len(s.data) <= c /\ c <= MaxStrCapacity
  BY <1>1, RoomGranted
<1>4. grown \in Seq(Cells) /\ Len(grown) = c /\ \A i \in 1 .. Len(s.data) : grown[i] = s.data[i]
  BY <1>1, <1>2, <1>3, GrownCells
<1>5. cells \in Seq(Cells) /\ Len(cells) = Len(input) + 1
      /\ cells[Len(input) + 1] = Nul /\ \A i \in 1 .. Len(input) : cells[i] = input[i]
  BY DEF Cells
<1>6. r = [length |-> newlen, data |-> data]
  BY DEF Appended
<1> HIDE DEF c, grown, cells
<1>7. /\ data \in Seq(Cells) /\ Len(data) = c
      /\ \A i \in 1 .. c :
           data[i] = IF i \in s.length + 1 .. s.length + Len(cells) THEN cells[i - s.length] ELSE grown[i]
  BY <1>1, <1>4, <1>5, OverlaidCells
<1> HIDE DEF data, r
<1>8. t \o input \in Seq(Chars) /\ Len(t \o input) = newlen
      /\ \A i \in 1 .. newlen : (t \o input)[i] = IF i <= s.length THEN t[i] ELSE input[i - s.length]
  BY <1>1
<1>9. ASSUME NEW i \in 1 .. newlen
      PROVE  data[i] = (t \o input)[i]
  <2>1. i \in 1 .. c
    BY <1>1, <1>3
  <2>2. CASE i <= s.length
    <3>1. data[i] = grown[i]
      BY <1>1, <1>7, <2>1, <2>2
    <3>2. grown[i] = s.data[i] /\ s.data[i] = t[i]
      BY <1>1, <1>2, <1>4, <2>2
    <3> QED
      BY <1>8, <2>2, <3>1, <3>2
  <2>3. CASE ~(i <= s.length)
    <3>1. i \in s.length + 1 .. s.length + Len(cells) /\ i - s.length \in 1 .. Len(input)
      BY <1>1, <1>5, <2>3
    <3>2. data[i] = cells[i - s.length]
      BY <1>7, <2>1, <3>1
    <3>3. cells[i - s.length] = input[i - s.length]
      BY <1>5, <3>1
    <3> QED
      BY <1>8, <2>3, <3>2, <3>3
  <2> QED
    BY <2>2, <2>3
<1>10. ASSUME NEW j, j = newlen + 1
       PROVE  data[j] = Nul
  <2>1. j \in 1 .. c /\ j \in s.length + 1 .. s.length + Len(cells) /\ j - s.length = Len(input) + 1
    BY <1>1, <1>3, <1>5, <1>10
  <2>2. data[j] = cells[j - s.length]
    BY <1>7, <2>1
  <2> QED
    BY <1>5, <2>1, <2>2
<1>11. r.length = newlen /\ r.data = data /\ DOMAIN r = {"length", "data"}
  BY <1>6
<1>12. c # 0
  BY <1>1, <1>3
<1> HIDE DEF newlen, Cells
<1>13. Len(r.data) = c /\ newlen \in Nat /\ newlen < c /\ c \in Powers \cup {0}
  BY <1>1, <1>3, <1>7, <1>11
<1>14. Holding(r, t \o input)
  BY <1>3, <1>7, <1>8, <1>9, <1>11, <1>12, <1>13 DEF Holding
<1>15. Ended(r)
  BY <1>10, <1>11, <1>12, <1>13 DEF Ended
<1> QED
  BY <1>14, <1>15 DEF r

\* A short read: the text stays, whatever was read over its terminator.
LEMMA ReadShortHolds ==
  ASSUME NEW s, NEW t, Holding(s, t), NEW bytes \in Seq(Chars), NEW k \in 0 .. Len(bytes) - 1,
         Fits(s, s.length + Len(bytes))
  PROVE  Holding(ReadShort(s, bytes, k), t) /\ Ended(ReadShort(s, bytes, k))
<1> DEFINE newlen == s.length + Len(bytes)
           c == CapacityFor(s, newlen)
           grown == Grown(s, newlen)
           got == SubSeq(bytes, 1, k)
           read == Overlay(grown, s.length, got)
           nul == <<Nul>>
           data == Overlay(read, s.length, nul)
           r == ReadShort(s, bytes, k)
<1>1. /\ s.data \in Seq(Cells) /\ t \in Seq(Chars) /\ s.length \in Nat /\ s.length = Len(t)
      /\ Len(bytes) \in Nat /\ newlen \in Nat /\ Len(s.data) \in Powers \cup {0}
      /\ \A i \in 1 .. s.length : s.data[i] = t[i]
  BY DEF Holding
<1>2. s.length <= Len(s.data) /\ Len(s.data) \in Nat
  BY PowersAreNumbers DEF Holding
<1>3. c \in Powers \cap Nat /\ newlen < c /\ Len(s.data) <= c /\ c <= MaxStrCapacity
  BY <1>1, RoomGranted
<1>4. grown \in Seq(Cells) /\ Len(grown) = c /\ \A i \in 1 .. Len(s.data) : grown[i] = s.data[i]
  BY <1>1, <1>2, <1>3, GrownCells
<1>5. got \in Seq(Cells) /\ nul \in Seq(Cells) /\ Len(nul) = 1 /\ nul[1] = Nul
  BY DEF Cells
<1>6. r = [length |-> s.length, data |-> data]
  BY DEF ReadShort
<1> HIDE DEF c, grown, got, nul
<1>7. read \in Seq(Cells) /\ Len(read) = c
  BY <1>1, <1>4, <1>5, OverlaidCells
<1>8. \A i \in 1 .. c :
        read[i] = IF i \in s.length + 1 .. s.length + Len(got) THEN got[i - s.length] ELSE grown[i]
  BY <1>1, <1>4, <1>5, OverlaidCells
<1> HIDE DEF read
<1>9. data \in Seq(Cells) /\ Len(data) = c
  BY <1>1, <1>5, <1>7, OverlaidCells
<1>10. \A i \in 1 .. c :
         data[i] = IF i \in s.length + 1 .. s.length + Len(nul) THEN nul[i - s.length] ELSE read[i]
  BY <1>1, <1>5, <1>7, OverlaidCells
<1> HIDE DEF data, r
<1>11. ASSUME NEW i \in 1 .. s.length
      PROVE  data[i] = t[i]
  <2>1. i \in 1 .. c /\ i \in 1 .. Len(s.data) /\ ~(i >= s.length + 1)
    BY <1>1, <1>2, <1>3
  <2>2. data[i] = read[i]
    BY <1>1, <1>10, <2>1
  <2>3. read[i] = grown[i]
    BY <1>1, <1>8, <2>1
  <2> QED
    BY <1>1, <1>4, <2>1, <2>2, <2>3
<1>12. ASSUME NEW j, j = s.length + 1
       PROVE  data[j] = Nul
  <2>1. j \in 1 .. c /\ j \in s.length + 1 .. s.length + Len(nul) /\ j - s.length = 1
    BY <1>1, <1>3, <1>5, <1>12
  <2>2. data[j] = nul[j - s.length]
    BY <1>10, <2>1
  <2> QED
    BY <1>5, <2>1, <2>2
<1>13. r.length = s.length /\ r.data = data /\ DOMAIN r = {"length", "data"}
  BY <1>6
<1>14. c # 0 /\ s.length < c
  BY <1>1, <1>3
<1> HIDE DEF newlen, Cells
<1>15. Len(r.data) = c /\ c \in Powers \cup {0}
  BY <1>3, <1>9, <1>13
<1>16. Holding(r, t)
  BY <1>1, <1>3, <1>9, <1>11, <1>13, <1>14, <1>15 DEF Holding
<1>17. Ended(r)
  BY <1>12, <1>13, <1>14, <1>15 DEF Ended
<1> QED
  BY <1>16, <1>17 DEF r

LEMMA ReserveHolds ==
  ASSUME NEW s, NEW t, Holding(s, t), NEW n \in Nat, Fits(s, n)
  PROVE  /\ Holding([s EXCEPT !.data = Grown(s, n)], t)
         /\ Ended(s) => Ended([s EXCEPT !.data = Grown(s, n)])
<1> DEFINE c == CapacityFor(s, n)
           grown == Grown(s, n)
           r == [s EXCEPT !.data = Grown(s, n)]
<1>1. /\ s.data \in Seq(Cells) /\ s.length \in Nat /\ t \in Seq(Chars) /\ s.length = Len(t)
      /\ Len(s.data) \in Powers \cup {0} /\ \A i \in 1 .. s.length : s.data[i] = t[i]
  BY DEF Holding
<1>2. Len(s.data) \in Nat /\ (IF Len(s.data) = 0 THEN s.length = 0 ELSE s.length < Len(s.data))
  BY PowersAreNumbers DEF Holding
<1>3. c \in Powers \cap Nat /\ n < c /\ Len(s.data) <= c /\ c <= MaxStrCapacity
  BY <1>1, RoomGranted
<1>4. grown \in Seq(Cells) /\ Len(grown) = c /\ \A i \in 1 .. Len(s.data) : grown[i] = s.data[i]
  BY <1>1, <1>2, <1>3, GrownCells
<1>5. r.length = s.length /\ r.data = grown /\ DOMAIN r = {"length", "data"}
  BY DEF Holding
<1> HIDE DEF c, grown, r, Cells
<1>6. c # 0 /\ s.length < c /\ s.length <= Len(s.data)
  BY <1>1, <1>2, <1>3
<1>7. \A i \in 1 .. s.length : grown[i] = t[i]
  BY <1>1, <1>2, <1>4, <1>6
<1>8. Holding(r, t)
  BY <1>1, <1>3, <1>4, <1>5, <1>6, <1>7 DEF Holding
<1>9. Ended(s) => Ended(r)
  <2> SUFFICES ASSUME Ended(s)
               PROVE  Ended(r)
    OBVIOUS
  <2>1. s.length + 1 \in 1 .. Len(s.data) /\ s.data[s.length + 1] = Nul
    BY <1>1, <1>2 DEF Ended
  <2> QED
    BY <1>4, <1>5, <1>6, <2>1 DEF Ended
<1> QED
  BY <1>8, <1>9 DEF r

LEMMA SubtractHolds ==
  ASSUME NEW s, NEW t, Holding(s, t), Len(s.data) # 0, NEW len \in 0 .. s.length
  PROVE  LET r == [length |-> len, data |-> Overlay(s.data, len, <<Nul>>)] IN
         Holding(r, SubSeq(t, 1, len)) /\ Ended(r)
<1> DEFINE nul == <<Nul>>
           data == Overlay(s.data, len, nul)
           r == [length |-> len, data |-> data]
<1>1. /\ s.data \in Seq(Cells) /\ s.length \in Nat /\ t \in Seq(Chars) /\ s.length = Len(t)
      /\ Len(s.data) \in Powers \cup {0} /\ Len(s.data) <= MaxStrCapacity
      /\ s.length < Len(s.data) /\ \A i \in 1 .. s.length : s.data[i] = t[i]
  BY DEF Holding
<1>2. Len(s.data) \in Nat /\ len \in Nat /\ nul \in Seq(Cells) /\ Len(nul) = 1 /\ nul[1] = Nul
  BY <1>1 DEF Cells
<1> HIDE DEF nul, Cells
<1>3. s.data \in Seq(Cells) /\ len \in Nat /\ nul \in Seq(Cells)
  BY <1>1, <1>2
<1>4. data \in Seq(Cells) /\ Len(data) = Len(s.data)
  BY <1>3, OverlaidCells
<1>5. \A i \in 1 .. Len(s.data) :
        data[i] = IF i \in len + 1 .. len + Len(nul) THEN nul[i - len] ELSE s.data[i]
  BY <1>3, OverlaidCells
<1> HIDE DEF data
<1>6. ASSUME NEW i \in 1 .. len
      PROVE  data[i] = SubSeq(t, 1, len)[i]
  <2>1. i \in 1 .. Len(s.data) /\ i \in 1 .. s.length /\ ~(i >= len + 1)
    BY <1>1, <1>2
  <2>2. data[i] = s.data[i]
    BY <1>2, <1>5, <2>1
  <2> QED
    BY <1>1, <2>1, <2>2
<1>7. ASSUME NEW j, j = len + 1
      PROVE  data[j] = Nul
  <2>1. j \in 1 .. Len(s.data) /\ j \in len + 1 .. len + Len(nul) /\ j - len = 1
    BY <1>1, <1>2, <1>7
  <2>2. data[j] = nul[j - len]
    BY <1>5, <2>1
  <2> QED
    BY <1>2, <2>1, <2>2
<1>8. SubSeq(t, 1, len) \in Seq(Chars) /\ Len(SubSeq(t, 1, len)) = len
  BY <1>1, <1>2
<1>9. len < Len(data)
  BY <1>1, <1>2, <1>4
<1>10. /\ r.length = len /\ r.data = data /\ DOMAIN r = {"length", "data"}
      /\ Len(data) # 0 /\ Len(data) = Len(s.data)
  BY <1>1, <1>2, <1>4, <1>9
<1> HIDE DEF r
<1>11. Holding(r, SubSeq(t, 1, len))
  BY <1>1, <1>2, <1>4, <1>6, <1>8, <1>9, <1>10 DEF Holding
<1>12. Ended(r)
  BY <1>7, <1>10 DEF Ended
<1> QED
  BY <1>11, <1>12 DEF r, data, nul

(***************************************************************************)
(* The theorems                                                            *)
(***************************************************************************)
LEMMA NoBlockHolds == Holding(NoBlock, <<>>)
<1>1. NoBlock.length = 0 /\ NoBlock.data = <<>> /\ DOMAIN NoBlock = {"length", "data"}
  BY DEF NoBlock
<1>2. <<>> \in Seq(Cells) /\ <<>> \in Seq(Chars) /\ Len(<<>>) = 0
  OBVIOUS
<1>3. 0 <= MaxStrCapacity
  BY StringsAssumption DEF StringsAssumption
<1> QED
  BY <1>1, <1>2, <1>3 DEF Holding

LEMMA AppendToKeeps ==
  ASSUME NEW s, NEW t, Holding(s, t), NEW input \in Inputs \cup Files, AppendTo(s, t, input)
  PROVE  StrInv'
<1>1. input \in Seq(Chars)
  BY StringsAssumption DEF StringsAssumption
<1> QED
  BY <1>1, AppendHolds DEF AppendTo, StrBecomes, StrInv

LEMMA ReadToKeeps ==
  ASSUME NEW s, NEW t, Holding(s, t), NEW bytes \in Inputs \cup Files, ReadTo(s, t, bytes)
  PROVE  StrInv'
<1>1. bytes \in Seq(Chars)
  BY StringsAssumption DEF StringsAssumption
<1>2. CASE StrBecomes(Appended(s, bytes), t \o bytes, TRUE)
  BY <1>1, <1>2, AppendHolds DEF ReadTo, StrBecomes, StrInv
<1>3. CASE \E k \in 0 .. Len(bytes) - 1 : StrBecomes(ReadShort(s, bytes, k), t, TRUE)
  BY <1>1, <1>3, ReadShortHolds DEF ReadTo, StrBecomes, StrInv
<1> QED
  BY <1>2, <1>3 DEF ReadTo

LEMMA StrStep ==
  ASSUME StrInv, [StrNext]_strVars
  PROVE  StrInv'
<1>1. Holding(string, text) /\ Holding(ClearedStr(string), <<>>)
  BY ClearHolds DEF StrInv
<1>2. ASSUME NEW input \in Inputs, StrAppend(input) \/ StrSet(input)
      PROVE  StrInv'
  BY <1>1, <1>2, AppendToKeeps DEF StrAppend, StrSet
<1>3. ASSUME NEW bytes \in Files, AppendFile(bytes) \/ SetFromFile(bytes)
      PROVE  StrInv'
  BY <1>1, <1>3, ReadToKeeps DEF AppendFile, SetFromFile
<1>4. ASSUME NEW n \in 0 .. MaxStrCapacity, StrReserve(n)
      PROVE  StrInv'
  BY <1>4, ReserveHolds DEF StrReserve, StrBecomes, StrInv
<1>5. ASSUME NEW n \in 0 .. MaxStrCapacity, StrSubtract(n)
      PROVE  StrInv'
  <2> DEFINE len == IF n >= string.length THEN 0 ELSE string.length - n
             r == [length |-> len, data |-> Overlay(string.data, len, <<Nul>>)]
  <2>1. StrBecomes(r, SubSeq(text, 1, len), TRUE) /\ string.data # <<>>
    BY <1>5 DEF StrSubtract
  <2>2. len \in 0 .. string.length
    BY <1>1, StringsAssumption DEF Holding, StringsAssumption
  <2>3. Len(string.data) # 0
    BY <1>1, <2>1 DEF Holding
  <2> HIDE DEF len
  <2>4. Holding(r, SubSeq(text, 1, len)) /\ Ended(r)
    BY <1>1, <2>2, <2>3, SubtractHolds
  <2> QED
    BY <2>1, <2>4 DEF StrBecomes, StrInv
<1>6. CASE StrClear
  BY <1>1, <1>6 DEF StrClear, StrBecomes, StrInv
<1>7. CASE StrDeinit
  BY <1>7, NoBlockHolds DEF StrDeinit, StrBecomes, StrInv
<1>8. CASE UNCHANGED strVars
  BY <1>8 DEF strVars, StrInv
<1> QED
  BY <1>2, <1>3, <1>4, <1>5, <1>6, <1>7, <1>8 DEF StrNext

THEOREM StringInvariant == StrSpec => []StrInv
<1>1. StrInit => StrInv
  BY NoBlockHolds DEF StrInit, StrInv
<1>2. StrInv /\ [StrNext]_strVars => StrInv'
  BY StrStep
<1> QED
  BY <1>1, <1>2, PTL DEF StrSpec

\* There is always a cell for the terminator: the length stays below the capacity,
\* a power of two, through every mixture of appends, reads and reservations.
THEOREM StringFits == StrSpec => []StrTypeOK
<1>1. StrInv => StrTypeOK
  <2> SUFFICES ASSUME StrInv
               PROVE  StrTypeOK
    OBVIOUS
  <2>1. string.data = <<>> <=> Len(string.data) = 0
    BY DEF StrInv, Holding
  <2> QED
    BY <2>1 DEF StrInv, Holding, StrTypeOK
<1> QED
  BY <1>1, StringInvariant, PTL

\* The text is the bytes of the calls that succeeded, for any inputs and files.
THEOREM StringHoldsText == StrSpec => []HoldsText
<1>1. StrInv => HoldsText
  <2> SUFFICES ASSUME StrInv
               PROVE  HoldsText
    OBVIOUS
  <2>1. /\ string.data \in Seq(Cells) /\ text \in Seq(Chars) /\ string.length = Len(text)
        /\ string.length \in Nat /\ \A i \in 1 .. string.length : string.data[i] = text[i]
    BY DEF StrInv, Holding
  <2>2. string.length <= Len(string.data)
    BY PowersAreNumbers DEF StrInv, Holding
  <2> QED
    BY <2>1, <2>2 DEF HoldsText
<1> QED
  BY <1>1, StringInvariant, PTL

\* Behind the text lies a terminator after every call that writes one, also after
\* a read that stopped half way.
THEOREM StringTerminated == StrSpec => []Terminated
<1>1. StrInv => Terminated
  BY DEF StrInv, Ended, Terminated
<1> QED
  BY <1>1, StringInvariant, PTL

(***************************************************************************)
(* The arrays of Arrays.tla                                                *)
(***************************************************************************)
ArrInv == arr \in [Arrs -> [items : Seq(Elems), capacity : Nat]] /\ TypeOK

\* What an array may become.
Allowed(a, items, capacity) ==
  items \in Seq(Elems) /\ capacity \in Nat /\ Len(items) <= capacity

LEMMA BecomesKeeps ==
  ASSUME ArrInv, NEW a \in Arrs, NEW items, NEW capacity, Allowed(a, items, capacity),
         Becomes(a, items, capacity)
  PROVE  ArrInv'
<1> DEFINE new == [items |-> items, capacity |-> capacity]
<1>1. new \in [items : Seq(Elems), capacity : Nat] /\ new.items = items /\ new.capacity = capacity
  BY DEF Allowed
<1>2. arr' = [arr EXCEPT ![a] = new]
  BY DEF Becomes
<1> HIDE DEF new
<1>3. arr' \in [Arrs -> [items : Seq(Elems), capacity : Nat]]
  BY <1>1, <1>2 DEF ArrInv
<1>4. ASSUME NEW b \in Arrs
      PROVE  /\ arr'[b].items \in Seq(Elems)
             /\ Len(arr'[b].items) <= arr'[b].capacity
  <2>1. CASE b = a
    BY <1>1, <1>2, <2>1 DEF ArrInv, Allowed
  <2>2. CASE b # a
    BY <1>2, <2>2 DEF ArrInv, TypeOK, count
  <2> QED
    BY <2>1, <2>2
<1> QED
  BY <1>3, <1>4 DEF ArrInv, TypeOK, count

\* Where one array stands.
LEMMA ArrayFacts ==
  ASSUME ArrInv, NEW a \in Arrs
  PROVE  /\ Allowed(a, arr[a].items, arr[a].capacity)
         /\ count(a) \in Nat /\ count(a) = Len(arr[a].items)
         /\ key \in [Elems -> Nat]
         /\ MinCapacity \in Nat \ {0} /\ MaxAppend \in Nat
BY ArraysAssumption DEF ArrInv, TypeOK, Allowed, count, ArraysAssumption

LEMMA SortKeeps ==
  ASSUME ArrInv, NEW a \in Arrs
  PROVE  /\ Sorted(arr[a].items, 1, count(a), key) \in Seq(Elems)
         /\ Len(Sorted(arr[a].items, 1, count(a), key)) = count(a)
         /\ SortOf(Sorted(arr[a].items, 1, count(a), key), arr[a].items)
<1> DEFINE s == arr[a].items
           n == Len(s)
           r == Sorted(s, 1, n, key)
<1>1. s \in Seq(Elems) /\ count(a) = n /\ n \in Nat /\ key \in [Elems -> Nat]
  BY ArrayFacts DEF Allowed
<1> HIDE DEF s
<1>2. Range(s) \subseteq Elems
  BY <1>1 DEF Range
<1>3. \A x \in Range(s) : key[x] \in Int
  BY <1>1, <1>2
<1>4. SortedFrom(r, s, n, Range(s), 1, n, key)
  BY <1>1, <1>3, SortedSorts
<1> HIDE DEF n, r
<1>5. r \in [1 .. n -> Elems] /\ Rearranged(s, r, n, 1, n) /\ Ordered(r, 1, n, key)
  BY <1>2, <1>4 DEF SortedFrom
<1>6. r \in Seq(Elems) /\ Len(r) = n /\ DOMAIN r = 1 .. n /\ DOMAIN s = 1 .. n
  BY <1>1, <1>5 DEF n
<1>7. SameCounts(s, r, n)
  BY <1>1, <1>5, RearrangedCounts
<1>8. SortOf(r, s)
  <2>1. Len(r) = Len(s) /\ \A i \in 1 .. Len(r) - 1 : key[r[i]] <= key[r[i + 1]]
    BY <1>5, <1>6 DEF Ordered, n
  <2>2. \A v \in Elems : Cardinality({i \in DOMAIN r : r[i] = v}) = Cardinality({i \in DOMAIN s : s[i] = v})
    BY <1>6, <1>7, Zenon DEF SameCounts
  <2> QED
    BY <2>1, <2>2 DEF SortOf
<1>9. Sorted(arr[a].items, 1, count(a), key) = r
  BY <1>1 DEF s, r, n
<1> QED
  BY <1>1, <1>6, <1>8, <1>9 DEF s

LEMMA ArrStep ==
  ASSUME ArrInv, [Next]_arr
  PROVE  ArrInv'
<1>1. ASSUME NEW a \in Arrs, NEW v \in Elems, PushBack(a, v)
      PROVE  ArrInv'
  <2>1. Allowed(a, Append(arr[a].items, v), RoomForOneMore(a))
    BY <1>1, ArrayFacts DEF PushBack, Allowed, RoomForOneMore, Doubled
  <2> QED
    BY <1>1, <2>1, BecomesKeeps DEF PushBack
<1>2. ASSUME NEW a \in Arrs, PopBack(a)
      PROVE  ArrInv'
  <2>1. Allowed(a, Front(arr[a].items), arr[a].capacity)
    BY <1>2, ArrayFacts DEF PopBack, Allowed, Front
  <2> QED
    BY <1>2, <2>1, BecomesKeeps DEF PopBack
<1>3. ASSUME NEW a \in Arrs, NEW i \in 1 .. count(a), NEW v \in Elems, SetAt(a, i, v)
      PROVE  ArrInv'
  <2>1. Allowed(a, [arr[a].items EXCEPT ![i] = v], arr[a].capacity)
    BY <1>3, ArrayFacts DEF SetAt, Allowed
  <2> QED
    BY <1>3, <2>1, BecomesKeeps DEF SetAt
<1>4. ASSUME NEW a \in Arrs, NEW i \in 1 .. count(a), SwapAndPop(a, i)
      PROVE  ArrInv'
  <2>1. i <= count(a) /\ count(a) \in Nat /\ i \in 1 .. count(a)
    BY <1>4, ArrayFacts DEF SwapAndPop
  <2> DEFINE t == [arr[a].items EXCEPT ![i] = Last(arr[a].items)]
  <2>2. Allowed(a, Front(t), arr[a].capacity)
    <3>1. Last(arr[a].items) \in Elems
      BY <2>1, ArrayFacts DEF Allowed, Last
    <3>2. t \in Seq(Elems) /\ Len(t) = count(a)
      BY <2>1, <3>1, ArrayFacts DEF Allowed
    <3> HIDE DEF t
    <3>3. Front(t) \in Seq(Elems) /\ Len(Front(t)) = count(a) - 1
      BY <2>1, <3>2 DEF Front
    <3>4. count(a) <= arr[a].capacity /\ arr[a].capacity \in Nat
      BY ArrayFacts DEF Allowed
    <3>5. Len(Front(t)) <= arr[a].capacity
      BY <2>1, <3>3, <3>4
    <3> QED
      BY <3>3, <3>4, <3>5 DEF Allowed
  <2> QED
    BY <1>4, <2>2, BecomesKeeps DEF SwapAndPop
<1>5. ASSUME NEW a \in Arrs, NEW n \in 0 .. count(a), ShiftLeft(a, n)
      PROVE  ArrInv'
  <2>1. Allowed(a, SubSeq(arr[a].items, n + 1, count(a)), arr[a].capacity)
    BY ArrayFacts DEF Allowed
  <2> QED
    BY <1>5, <2>1, BecomesKeeps DEF ShiftLeft
<1>6. ASSUME NEW a \in Arrs, NEW n \in 0 .. count(a), ClearFrom(a, n)
      PROVE  ArrInv'
  <2>1. Allowed(a, SubSeq(arr[a].items, 1, n), arr[a].capacity)
    BY <1>6, ArrayFacts DEF Allowed, ClearFrom
  <2> QED
    BY <1>6, <2>1, BecomesKeeps DEF ClearFrom
<1>7. ASSUME NEW a \in Arrs, NEW n \in 0 .. MaxReserve, Reserve(a, n)
      PROVE  ArrInv'
  <2>1. Allowed(a, arr[a].items, RoomFor(a, n))
    BY <1>7, ArrayFacts DEF Allowed, Reserve, RoomFor
  <2> QED
    BY <1>7, <2>1, BecomesKeeps DEF Reserve
<1>8. ASSUME NEW a \in Arrs, NEW s \in BoundedSeq(Elems, MaxAppend), AppendAll(a, s)
      PROVE  ArrInv'
  <2>1. s \in Seq(Elems)
    BY ArrayFacts DEF BoundedSeq, SeqOf
  <2>2. Allowed(a, arr[a].items \o s, RoomFor(a, count(a) + Len(s)))
    BY <1>8, <2>1, ArrayFacts DEF Allowed, AppendAll, RoomFor
  <2> QED
    BY <1>8, <2>2, BecomesKeeps DEF AppendAll
<1>9. ASSUME NEW a \in Arrs, NEW b \in Arrs, AppendArray(a, b)
      PROVE  ArrInv'
  <2>1. Allowed(a, arr[a].items, RoomFor(a, count(a) + count(b)))
    BY <1>9, ArrayFacts DEF Allowed, AppendArray, RoomFor
  <2> QED
    BY <1>9, <2>1, BecomesKeeps DEF AppendArray
<1>10. ASSUME NEW a \in Arrs, Sort(a)
       PROVE  ArrInv'
  <2>1. Allowed(a, Sorted(arr[a].items, 1, count(a), key), RoomForOneMore(a))
    BY <1>10, ArrayFacts, SortKeeps DEF Allowed, Sort, RoomForOneMore, Doubled
  <2> QED
    BY <1>10, <2>1, BecomesKeeps DEF Sort
<1>11. /\ NoData \in [items : Seq(Elems), capacity : Nat]
       /\ \A a \in Arrs : Allowed(a, NoData.items, NoData.capacity)
  BY ArraysAssumption DEF NoData, Allowed, ArraysAssumption
<1>12. ASSUME NEW a \in Arrs, NEW b \in Arrs, a # b, TakeOwnership(a, b)
       PROVE  ArrInv'
  <2>1. arr' \in [Arrs -> [items : Seq(Elems), capacity : Nat]]
    BY <1>11, <1>12 DEF TakeOwnership, ArrInv
  <2>2. ASSUME NEW c \in Arrs
        PROVE  Allowed(c, arr'[c].items, arr'[c].capacity)
    <3>1. arr'[c] = IF c = b THEN NoData ELSE IF c = a THEN arr[b] ELSE arr[c]
      BY <1>12 DEF TakeOwnership, ArrInv
    <3> QED
      BY <1>11, <3>1, ArrayFacts DEF Allowed
  <2> QED
    BY <2>1, <2>2 DEF ArrInv, TypeOK, Allowed, count
<1>13. ASSUME NEW a \in Arrs, Deinit(a)
       PROVE  ArrInv'
  <2>1. Becomes(a, <<>>, 0)
    BY <1>13 DEF Deinit, Becomes, NoData
  <2>2. Allowed(a, <<>>, 0)
    BY ArrayFacts DEF Allowed
  <2> QED
    BY <2>1, <2>2, BecomesKeeps
<1>14. CASE UNCHANGED arr
  BY <1>14 DEF ArrInv, TypeOK, count
<1> QED
  BY <1>1, <1>2, <1>3, <1>4, <1>5, <1>6, <1>7, <1>8, <1>9, <1>10, <1>12, <1>13, <1>14, Zenon DEF Next

LEMMA ArrInit == Init => ArrInv
<1> SUFFICES ASSUME Init
             PROVE  ArrInv
  OBVIOUS
<1>1. NoData \in [items : Seq(Elems), capacity : Nat] /\ NoData.items = <<>> /\ NoData.capacity = 0
  BY DEF NoData
<1>2. arr \in [Arrs -> [items : Seq(Elems), capacity : Nat]] /\ \A a \in Arrs : arr[a] = NoData
  BY <1>1 DEF Init
<1> QED
  BY <1>1, <1>2, ArraysAssumption DEF ArrInv, TypeOK, count, ArraysAssumption

\* array_push_back, array_append, array_reserve, array_take_ownership and
\* array_sort: an array never has more elements than its block has room for.
THEOREM ArraysFit == Spec => []TypeOK
<1>1. Init => ArrInv
  BY ArrInit
<1>2. ArrInv /\ [Next]_arr => ArrInv'
  BY ArrStep
<1>3. ArrInv => TypeOK
  BY DEF ArrInv
<1> QED
  BY <1>1, <1>2, <1>3, PTL DEF Spec

\* array_sort loses, doubles and misplaces no element, for arrays of any length.
THEOREM SortsInPlace == Spec => SortOrders
<1>1. ArrInv /\ [Next]_arr => [\A a \in Arrs : Sort(a) => SortOf(arr'[a].items, arr[a].items)]_arr
  <2> SUFFICES ASSUME ArrInv, NEW a \in Arrs, Sort(a)
               PROVE  SortOf(arr'[a].items, arr[a].items)
    OBVIOUS
  <2>1. arr'[a].items = Sorted(arr[a].items, 1, count(a), key)
    BY DEF Sort, Becomes, ArrInv
  <2> QED
    BY <2>1, SortKeeps
<1>2. Init => ArrInv
  BY ArrInit
<1>3. ArrInv /\ [Next]_arr => ArrInv'
  BY ArrStep
<1> QED
  BY <1>1, <1>2, <1>3, PTL DEF Spec, SortOrders

===============================================================================
