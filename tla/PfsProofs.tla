------------------------------ MODULE PfsProofs -------------------------------
(***************************************************************************)
(* Theorems about an archive and the programs that write it, Pfs.tla: what *)
(* the modification times pfs_save compares say of the writers; that the   *)
(* entries and their index agree; that pfs_open finds what pfs_save laid   *)
(* out, and so that session and file behave like a map and its copy.       *)
(***************************************************************************)
EXTENDS Pfs, SortProofs

(***************************************************************************)
(* The inductive invariant: times, and who has written since pfs_open      *)
(***************************************************************************)
\* The session has the time of the file it read.
Timed == at \in {"opened", "saving", "built", "writing"}

Times ==
  /\ now \in Nat /\ mtime \in 0 .. now /\ pfs.modTime \in 0 .. now
  /\ DOMAIN pfs = {"raw", "modTime", "entries", "byName"}

Untouched == Timed /\ since = "nobody" => mtime <= pfs.modTime

\* What another program wrote where pfs.c can notice it is later than the time
\* the session has.
Noticed ==
  /\ at \in {"opened", "saving"} /\ since = "other" => Modified
  /\ at \in {"read", "built", "writing"} => since # "other"

NoWindow == Windows = {}

TimeInv == Times /\ Untouched
WriteInv == TimeInv /\ Noticed

\* A put changes the entries and the index, and nothing else.
LEMMA PutsKeep ==
  ASSUME Times,
         NEW n \in Names, NEW c \in Contents,
         Put(n, c) \/ PutCompressedFails(n, c) \/ \E k \in 0 .. Size[c] - 1 : PutFails(n, c, k)
  PROVE  /\ UNCHANGED <<mtime, now, at, since>>
         /\ pfs'.modTime = pfs.modTime /\ DOMAIN pfs' = DOMAIN pfs
<1>1. UNCHANGED <<mtime, now, at, since>>
  BY DEF Put, PutCompressedFails, PutFails, file
<1>2. WithEntry(n).modTime = pfs.modTime /\ DOMAIN WithEntry(n) = DOMAIN pfs
  BY DEF WithEntry, Times
<1>3. CASE Put(n, c)
  BY <1>1, <1>2, <1>3 DEF Put, Filled, Times
<1>4. CASE PutCompressedFails(n, c)
  BY <1>1, <1>2, <1>4 DEF PutCompressedFails, Times
<1>5. CASE \E k \in 0 .. Size[c] - 1 : PutFails(n, c, k)
  BY <1>1, <1>2, <1>5 DEF PutFails, Times
<1> QED
  BY <1>3, <1>4, <1>5

\* Every step of the session and of the others keeps what the times say.
LEMMA TimeStep ==
  ASSUME TimeInv, [Next]_vars
  PROVE  TimeInv'
<1> USE DEF TimeInv, Times, Untouched, Timed, Goto, file
<1>1. CASE ReadFile \/ ParseFails \/ Close
  <2>1. NoPfs.modTime = 0 /\ DOMAIN NoPfs = {"raw", "modTime", "entries", "byName"}
    BY DEF NoPfs
  <2>2. pfs'.modTime = 0 /\ DOMAIN pfs' = {"raw", "modTime", "entries", "byName"}
    BY <1>1, <2>1 DEF ReadFile, ParseFails, Close
  <2> QED
    BY <1>1, <2>2 DEF ReadFile, ParseFails, Close
<1>2. CASE Parse
  <2>1. pfs'.modTime = mtime /\ DOMAIN pfs' = {"raw", "modTime", "entries", "byName"}
    BY <1>2 DEF Parse
  <2> QED
    BY <1>2, <2>1 DEF Parse
<1>3. CASE \E n \in Names, c \in Contents : Put(n, c) \/ PutCompressedFails(n, c)
  BY <1>3, PutsKeep
<1>4. CASE \E n \in Names, c \in Contents : \E k \in 0 .. Size[c] - 1 : PutFails(n, c, k)
  BY <1>4, PutsKeep
<1>5. CASE SaveBegins \/ SaveAgain \/ SaveAborts \/ SaveBuilt \/ TruncateFails
  BY <1>5 DEF SaveBegins, SaveAgain, SaveAborts, SaveBuilt, TruncateFails, SaveReturns
<1>6. CASE Truncate \/ Finish \/ FinishFails
  BY <1>6 DEF Truncate, Finish, FinishFails, Written, SessionWrote
<1>7. CASE Tick
  BY <1>7 DEF Tick
<1>8. CASE OtherWrites
  BY <1>8 DEF OtherWrites, Written
<1>9. CASE UNCHANGED vars
  BY <1>9 DEF vars
<1> QED
  BY <1>1, <1>2, <1>3, <1>4, <1>5, <1>6, <1>7, <1>8, <1>9 DEF Next

LEMMA TimeInit == Init => TimeInv
BY DEF Init, NoPfs, TimeInv, Times, Untouched, Timed

\* The clock of the file never runs ahead, and a session whose file nobody has
\* written since it was read has its time; whoever writes, and whenever.
THEOREM TimesHold == Spec => []TimeInv
<1>1. Init => TimeInv
  BY TimeInit
<1>2. TimeInv /\ [Next]_vars => TimeInv'
  BY TimeStep
<1> QED
  BY <1>1, <1>2, PTL DEF Spec

\* pfs_save refuses only a file that has been written since pfs_open, also when
\* other programs write in the windows pfs.c cannot notice.
THEOREM RefusalsAreWrites == Spec => []RefusedAfterWriteOnly
<1>1. TimeInv => RefusedAfterWriteOnly
  BY DEF TimeInv, Times, Untouched, Timed, RefusedAfterWriteOnly, Modified
<1> QED
  BY <1>1, TimesHold, PTL

(***************************************************************************)
(* Without the three windows                                               *)
(***************************************************************************)
\* A write that can be noticed stays noticed until the session reads the file
\* again, and no save gets past its second check with it.
LEMMA NoticedStep ==
  ASSUME NoWindow, WriteInv, [Next]_vars
  PROVE  Noticed'
<1> USE DEF WriteInv, TimeInv, Times, Noticed, Modified, Goto, file
<1>1. CASE ReadFile \/ Parse \/ ParseFails \/ Close
  BY <1>1 DEF ReadFile, Parse, ParseFails, Close
<1>2. CASE \E n \in Names, c \in Contents : Put(n, c) \/ PutCompressedFails(n, c)
  BY <1>2, PutsKeep
<1>3. CASE \E n \in Names, c \in Contents : \E k \in 0 .. Size[c] - 1 : PutFails(n, c, k)
  BY <1>3, PutsKeep
<1>4. CASE SaveBegins \/ SaveAgain \/ SaveAborts \/ SaveBuilt \/ TruncateFails
  BY <1>4 DEF SaveBegins, SaveAgain, SaveAborts, SaveBuilt, TruncateFails, SaveReturns
<1>5. CASE Truncate \/ Finish \/ FinishFails
  BY <1>5 DEF Truncate, Finish, FinishFails, Written, SessionWrote
<1>6. CASE Tick
  BY <1>6 DEF Tick
<1>7. CASE OtherWrites
  <2>1. at \notin {"read", "built", "writing"} /\ mtime' = now
        /\ UNCHANGED <<at, pfs>>
    BY <1>7 DEF OtherWrites, OtherMayWrite, NoWindow, Written
  <2>2. at \in {"opened", "saving"} => ~(now <= pfs.modTime)
    BY <1>7 DEF OtherWrites, OtherMayWrite, NoWindow
  <2> QED
    BY <2>1, <2>2
<1>8. CASE UNCHANGED vars
  BY <1>8 DEF vars
<1> QED
  BY <1>1, <1>2, <1>3, <1>4, <1>5, <1>6, <1>7, <1>8 DEF Next

THEOREM WritesNoticed == NoWindow => (Spec => []WriteInv)
<1> SUFFICES ASSUME NoWindow
             PROVE  Spec => []WriteInv
  OBVIOUS
<1>1. Init => WriteInv
  BY TimeInit DEF WriteInv, Noticed, Init
<1>2. WriteInv /\ [Next]_vars => WriteInv'
  BY TimeStep, NoticedStep DEF WriteInv
<1> QED
  BY <1>1, <1>2, PTL DEF Spec

\* "Before we open the file for writing, check if it has been modified by an
\* external program while we were working, and abort if so" (pfs_save): for any
\* archive and any number of writers, no save overwrites what another program
\* wrote, if others write outside the three windows of OtherMayWrite.
THEOREM NoUpdateLost == NoWindow => (Spec => NoLostUpdate)
<1> SUFFICES ASSUME NoWindow
             PROVE  Spec => [][Truncate => since # "other"]_vars
  BY DEF NoLostUpdate
<1>1. WriteInv => [Truncate => since # "other"]_vars
  BY DEF WriteInv, Noticed, Truncate, Goto
<1> QED
  BY <1>1, WritesNoticed, PTL DEF Spec

(***************************************************************************)
(* Sequences laid one behind the other                                     *)
(***************************************************************************)
\* The data of the first k files.
Flat(files, k) == FlattenSeq([j \in 1 .. k |-> files[j].data])

LEMMA FlatNext ==
  ASSUME NEW k \in Nat, NEW files, NEW S, files[k + 1].data \in Seq(S), Flat(files, k) \in Seq(S)
  PROVE  Flat(files, 0) = <<>> /\ Flat(files, k + 1) = Flat(files, k) \o files[k + 1].data
<1> DEFINE d == [j \in Nat |-> files[j].data]
<1>1. ASSUME NEW m \in Nat
      PROVE  Flat(files, m) = FlattenSeq(FirstOf(d, m))
  <2>1. [j \in 1 .. m |-> files[j].data] = FirstOf(d, m)
    BY DEF FirstOf
  <2> QED
    BY <2>1 DEF Flat
<1>2. PICK i \in Nat : i = k + 1 /\ d[i] = files[i].data
  OBVIOUS
<1> HIDE DEF d
<1>3. Flat(files, 0) = <<>>
  BY <1>1, FlattenNext
<1>4. CASE k = 0
  <2>1. Flat(files, 1) = FlattenSeq(FirstOf(d, 1)) /\ FlattenSeq(FirstOf(d, 1)) = d[1]
    BY <1>1, FlattenNext
  <2>2. i = 1 /\ k + 1 = 1
    BY <1>2, <1>4
  <2>3. Flat(files, k + 1) = files[k + 1].data
    BY <1>2, <2>1, <2>2
  <2>4. Flat(files, k) = <<>>
    BY <1>3, <1>4
  <2> QED
    BY <1>3, <2>3, <2>4
<1>5. CASE k # 0
  <2>1. FlattenSeq(FirstOf(d, k + 1)) = FlattenSeq(FirstOf(d, k)) \o d[k + 1]
    BY <1>5, FlattenNext
  <2> QED
    BY <1>1, <1>2, <1>3, <2>1
<1> QED
  BY <1>4, <1>5

\* The i-th file lies at its offset.
LiesAt(area, files, i) ==
  /\ OffsetOf(files, i) \in Nat
  /\ OffsetOf(files, i + 1) = OffsetOf(files, i) + Len(files[i].data)
  /\ OffsetOf(files, i + 1) <= Len(area)
  /\ \A m \in 1 .. Len(files[i].data) : area[OffsetOf(files, i) + m] = files[i].data[m]

LEMMA FilesLie ==
  ASSUME NEW n \in Nat, NEW S, NEW files, \A i \in 1 .. n : files[i].data \in Seq(S)
  PROVE  /\ Flat(files, n) \in Seq(S) /\ OffsetOf(files, n + 1) = Len(Flat(files, n))
         /\ \A i \in 1 .. n : LiesAt(Flat(files, n), files, i)
<1> DEFINE Laid(k) == Flat(files, k) \in Seq(S) /\ \A i \in 1 .. k : LiesAt(Flat(files, k), files, i)
           T == {k \in 0 .. n : Laid(k)}
<1>1. ASSUME NEW k \in Nat, NEW i \in Nat, i = k + 1
      PROVE  OffsetOf(files, i) = Len(Flat(files, k))
  <2>1. 1 .. i - 1 = 1 .. k
    BY <1>1
  <2> QED
    BY <2>1 DEF OffsetOf, Flat
<1>2. Flat(files, 0) = <<>>
  <2>1. [j \in 1 .. 0 |-> files[j].data] = <<>>
    OBVIOUS
  <2> QED
    BY <2>1 DEF Flat, FlattenSeq
<1>3. 0 \in T
  <2>1. <<>> \in Seq(S)
    OBVIOUS
  <2>2. Flat(files, 0) \in Seq(S)
    BY <1>2, <2>1, Zenon
  <2>3. \A i \in 1 .. 0 : LiesAt(Flat(files, 0), files, i)
    OBVIOUS
  <2>4. Laid(0)
    BY <2>2, <2>3
  <2> HIDE DEF Laid
  <2> QED
    BY <2>4
<1>4. ASSUME NEW k \in 0 .. n - 1, k \in T
      PROVE  k + 1 \in T
  <2> DEFINE a == Flat(files, k)
             x == files[k + 1].data
             b == Flat(files, k + 1)
  <2>1. k \in Nat /\ k + 1 \in 1 .. n /\ k + 1 \in 0 .. n
    OBVIOUS
  <2>2. a \in Seq(S) /\ x \in Seq(S)
    BY <1>4, <2>1
  <2>3. b = a \o x
    BY <2>1, <2>2, FlatNext
  <2>4. ASSUME NEW i \in 1 .. k
        PROVE  LiesAt(b, files, i)
    <3>1. LiesAt(a, files, i)
      BY <1>4
    <3>2. i \in 1 .. n
      BY <2>1
    <3>3. files[i].data \in Seq(S)
      BY <3>2
    <3> HIDE DEF a, b, x
    <3> QED
      BY <2>2, <2>3, <3>1, <3>3 DEF LiesAt
  <2>5. LiesAt(b, files, k + 1)
    <3>1. PICK i \in Nat : i = k + 1
      OBVIOUS
    <3>2. OffsetOf(files, i) = Len(a)
      BY <1>1, <2>1, <3>1
    <3>3. OffsetOf(files, i + 1) = Len(b)
      <4>1. b = Flat(files, i) /\ i + 1 \in Nat
        BY <3>1
      <4> QED
        BY <1>1, <4>1
    <3>4. files[i].data = x
      BY <3>1
    <3> HIDE DEF a, b, x
    <3>5. LiesAt(b, files, i)
      <4>1. Len(b) = Len(a) + Len(x) /\ Len(a) \in Nat /\ Len(x) \in Nat
        BY <2>2, <2>3
      <4>2. \A m \in 1 .. Len(x) : b[Len(a) + m] = x[m]
        BY <2>2, <2>3
      <4> QED
        BY <3>2, <3>3, <3>4, <4>1, <4>2 DEF LiesAt
    <3> QED
      BY <3>1, <3>5
  <2>6. b \in Seq(S)
    <3> HIDE DEF a, b, x
    <3> QED
      BY <2>2, <2>3
  <2>7. ASSUME NEW i \in 1 .. k + 1
        PROVE  LiesAt(b, files, i)
    <3>1. i \in 1 .. k \/ i = k + 1
      BY <2>1
    <3> QED
      BY <2>4, <2>5, <3>1
  <2>8. Laid(k + 1)
    BY <2>6, <2>7
  <2> HIDE DEF Laid
  <2> QED
    BY <2>1, <2>8
<1> HIDE DEF Laid
<1>5. 0 .. n \subseteq T
  <2> HIDE DEF T
  <2> QED
    BY <1>3, <1>4, InductionUpTo, Zenon
<1>6. OffsetOf(files, n + 1) = Len(Flat(files, n))
  BY <1>1
<1> QED
  BY <1>5, <1>6 DEF Laid

(***************************************************************************)
(* Archives                                                                *)
(***************************************************************************)
Blocks == {b \in [of : Contents \cup Seq(Names), part : Nat] : b.part = 0 => b.of \in Seq(Names)}
DirEntry == [crc : Nat, offset : Nat, ilen : Nat]
Bytes == [area : Seq(Blocks), dir : Seq(DirEntry)]

\* A file of the image pfs_save builds.
File == [crc : Nat, ilen : Nat, name : Names, data : Seq(Blocks)]

\* An entry of struct Pfs, with or without a name.
AnyEntry ==
  [crc : Nat, offset : Nat, ilen : Nat, dlen : Nat, name : Names \cup {NoName},
   replacement : Seq(Blocks)]
Entry == {e \in AnyEntry : e.name \in Names}

\* Every file of an archive that opens has its name in the list.
AllNamed(b) == Opens(b) => Len(ListOf(b)) = Len(b.dir) - 1
Archive(b) == b \in Bytes /\ AllNamed(b)

LEMMA NoBlocks == <<>> \in Seq(Blocks)
OBVIOUS

LEMMA JunkIsBlock == Junk \in Blocks
<1>1. <<>> \in Seq(Names)
  OBVIOUS
<1> QED
  BY <1>1 DEF Junk, Blocks

LEMMA BlocksOfTyped ==
  ASSUME NEW c \in Contents
  PROVE  /\ Size[c] \in Nat \ {0} /\ BlocksOf(c) \in Seq(Blocks) /\ Len(BlocksOf(c)) = Size[c]
         /\ \A i \in 1 .. Size[c] : BlocksOf(c)[i] = [of |-> c, part |-> i]
<1>1. Size[c] \in Nat \ {0}
  BY PfsAssumption
<1>2. \A i \in 1 .. Size[c] : [of |-> c, part |-> i] \in Blocks
  BY <1>1 DEF Blocks
<1> QED
  BY <1>1, <1>2 DEF BlocksOf

LEMMA SliceTyped ==
  ASSUME NEW area \in Seq(Blocks), NEW offset \in Nat, NEW len \in Nat
  PROVE  /\ Slice(area, offset, len) \in Seq(Blocks) /\ Len(Slice(area, offset, len)) = len
         /\ \A i \in 1 .. len : offset + i <= Len(area) => Slice(area, offset, len)[i] = area[offset + i]
<1> DEFINE cell(i) == IF offset + i <= Len(area) THEN area[offset + i] ELSE Junk
<1>1. ASSUME NEW i \in 1 .. len
      PROVE  cell(i) \in Blocks
  <2>1. offset + i <= Len(area) => offset + i \in 1 .. Len(area)
    OBVIOUS
  <2>2. \A j \in 1 .. Len(area) : area[j] \in Blocks
    OBVIOUS
  <2> QED
    BY <2>1, <2>2, JunkIsBlock
<1>2. Slice(area, offset, len) = [i \in 1 .. len |-> cell(i)]
  BY DEF Slice
<1>3. \A i \in 1 .. len : offset + i <= Len(area) => cell(i) = area[offset + i]
  OBVIOUS
<1> HIDE DEF cell
<1> QED
  BY <1>1, <1>2, <1>3

(***************************************************************************)
(* Entries by offset                                                       *)
(***************************************************************************)
\* What grows from each step to the next grows over all.
LEMMA StepsAscend ==
  ASSUME NEW n \in Nat, NEW f, \A i \in 1 .. n : f[i] \in Int,
         \A i \in 1 .. n - 1 : f[i] <= f[i + 1]
  PROVE  \A i, j \in 1 .. n : i <= j => f[i] <= f[j]
<1> SUFFICES ASSUME NEW i \in 1 .. n
             PROVE  \A j \in 1 .. n : i <= j => f[i] <= f[j]
  OBVIOUS
<1> DEFINE T == {k \in 0 .. n - i : f[i] <= f[i + k]}
<1>1. 0 \in T
  BY DEF T
<1>2. ASSUME NEW k \in 0 .. (n - i) - 1, k \in T
      PROVE  k + 1 \in T
  <2>1. PICK j \in 1 .. n - 1 : j = i + k
    OBVIOUS
  <2>2. f[i] <= f[j] /\ f[j] <= f[j + 1] /\ i + (k + 1) = j + 1
    BY <1>2, <2>1
  <2>3. f[i] \in Int /\ f[j] \in Int /\ f[j + 1] \in Int
    BY <2>1
  <2> QED
    BY <2>2, <2>3
<1>3. 0 .. n - i \subseteq T
  <2>1. n - i \in Nat
    OBVIOUS
  <2> HIDE DEF T
  <2> QED
    BY <1>1, <1>2, <2>1, InductionUpTo
<1>4. ASSUME NEW j \in 1 .. n, i <= j
      PROVE  f[i] <= f[j]
  <2>1. j - i \in T /\ i + (j - i) = j
    BY <1>3, <1>4
  <2> QED
    BY <2>1
<1> QED
  BY <1>4

InOffsetOrder(r, s) ==
  /\ r \in [1 .. Len(s) -> Range(s)]
  /\ \E pi : Shuffle(pi, Len(s), 1, Len(s)) /\ \A i \in 1 .. Len(s) : r[i] = s[pi[i]]
  /\ \A i, j \in 1 .. Len(s) : i <= j => r[i].offset <= r[j].offset

LEMMA ByOffsetOrders ==
  ASSUME NEW S, NEW s \in Seq(S), \A x \in S : x.offset \in Nat
  PROVE  InOffsetOrder(ByOffset(s), s)
<1> DEFINE key == [e \in Range(s) |-> e.offset]
           r == ByOffset(s)
           n == Len(s)
<1>1. \A x \in Range(s) : x \in S /\ key[x] = x.offset /\ key[x] \in Int
  BY DEF Range
<1>2. SortedFrom(r, s, n, Range(s), 1, n, key)
  <2>1. r = Sorted(s, 1, n, key)
    BY DEF ByOffset
  <2> HIDE DEF key, r
  <2> QED
    BY <1>1, <2>1, SortedSorts
<1> HIDE DEF r, key
<1>3. /\ r \in [1 .. n -> Range(s)] /\ Rearranged(s, r, n, 1, n)
      /\ \A i \in 1 .. n - 1 : key[r[i]] <= key[r[i + 1]]
  BY <1>2 DEF SortedFrom, Ordered
<1>4. n \in Nat
  OBVIOUS
<1> DEFINE off == [i \in 1 .. n |-> r[i].offset]
<1>5. \A i \in 1 .. n : off[i] \in Int
  BY <1>1, <1>3
<1>6. ASSUME NEW i \in 1 .. n - 1
      PROVE  off[i] <= off[i + 1]
  <2>1. PICK j \in 1 .. n : j = i + 1
    BY <1>4
  <2>2. key[r[i]] <= key[r[j]]
    BY <1>3, <2>1
  <2>3. i \in 1 .. n /\ r[i] \in Range(s) /\ r[j] \in Range(s)
    BY <1>3, <1>4
  <2>4. r[i].offset <= r[j].offset
    BY <1>1, <2>2, <2>3
  <2>5. off[i] = r[i].offset /\ off[j] = r[j].offset
    BY <2>3
  <2> HIDE DEF off
  <2> QED
    BY <2>1, <2>4, <2>5
<1>7. \A i \in 1 .. n : off[i] = r[i].offset
  OBVIOUS
<1> HIDE DEF off, n
<1>8. \A i, j \in 1 .. n : i <= j => off[i] <= off[j]
  BY <1>4, <1>5, <1>6, StepsAscend
<1>9. \A i, j \in 1 .. n : i <= j => r[i].offset <= r[j].offset
  BY <1>7, <1>8
<1> QED
  BY <1>3, <1>9, Zenon DEF InOffsetOrder, Rearranged, n, r

(***************************************************************************)
(* What pfs_save lays out                                                  *)
(***************************************************************************)
NamesIn(files) == [i \in 1 .. Len(files) |-> files[i].name]
Placed(files, i) == [crc |-> files[i].crc, offset |-> OffsetOf(files, i), ilen |-> files[i].ilen]
PlacedNames(files) == [crc |-> NamesCrc, offset |-> OffsetOf(files, Len(files) + 1), ilen |-> 1]
DirOf(files) == Append([i \in 1 .. Len(files) |-> Placed(files, i)], PlacedNames(files))

LaidOut(b, files) ==
  /\ b.area = Append(Flat(files, Len(files)), NamesBlock(NamesIn(files)))
  /\ b.dir \in Seq(DirEntry) /\ Len(b.dir) = Len(files) + 1
  /\ Rearranged(DirOf(files), b.dir, Len(files) + 1, 1, Len(files) + 1)

LEMMA FilesTyped ==
  ASSUME NEW files \in Seq(File)
  PROVE  /\ Flat(files, Len(files)) \in Seq(Blocks)
         /\ OffsetOf(files, Len(files) + 1) = Len(Flat(files, Len(files)))
         /\ \A i \in 1 .. Len(files) :
              /\ files[i] \in File /\ files[i].data \in Seq(Blocks)
              /\ LiesAt(Flat(files, Len(files)), files, i)
<1>1. \A i \in 1 .. Len(files) : files[i] \in File
  OBVIOUS
<1>2. \A i \in 1 .. Len(files) : files[i].data \in Seq(Blocks)
  BY <1>1 DEF File
<1>3. Len(files) \in Nat
  OBVIOUS
<1> QED
  BY <1>1, <1>2, <1>3, FilesLie, Zenon

\* No file lies behind the list of names.
LEMMA OffsetsTyped ==
  ASSUME NEW files \in Seq(File), NEW i \in 1 .. Len(files) + 1
  PROVE  /\ OffsetOf(files, i) \in Nat /\ OffsetOf(files, Len(files) + 1) \in Nat
         /\ OffsetOf(files, i) <= OffsetOf(files, Len(files) + 1)
<1> DEFINE n == Len(files)
           a == Flat(files, n)
<1>1. n \in Nat /\ a \in Seq(Blocks) /\ OffsetOf(files, n + 1) = Len(a)
      /\ \A j \in 1 .. n : LiesAt(a, files, j) /\ files[j].data \in Seq(Blocks)
  BY FilesTyped
<1> HIDE DEF n, a
<1>2. CASE i \in 1 .. n
  <2>1. LiesAt(a, files, i) /\ Len(files[i].data) \in Nat
    BY <1>1, <1>2
  <2>2. OffsetOf(files, i) \in Nat /\ OffsetOf(files, i) <= Len(a)
    BY <1>1, <2>1 DEF LiesAt
  <2> QED
    BY <1>1, <2>2 DEF n
<1>3. CASE i = n + 1
  BY <1>1, <1>3 DEF n
<1> QED
  BY <1>1, <1>2, <1>3 DEF n

LEMMA DirTyped ==
  ASSUME NEW files \in Seq(File)
  PROVE  /\ DirOf(files) \in Seq(DirEntry) /\ Len(DirOf(files)) = Len(files) + 1
         /\ \A i \in 1 .. Len(files) : DirOf(files)[i] = Placed(files, i)
         /\ DirOf(files)[Len(files) + 1] = PlacedNames(files)
         /\ \A i \in 1 .. Len(files) + 1 : DirOf(files)[i].offset = OffsetOf(files, i)
<1> DEFINE n == Len(files)
           d == [i \in 1 .. n |-> Placed(files, i)]
<1>1. n \in Nat
  OBVIOUS
<1>2. ASSUME NEW i \in 1 .. n
      PROVE  Placed(files, i) \in DirEntry
  <2>1. i \in 1 .. Len(files) + 1 /\ files[i] \in File
    OBVIOUS
  <2>2. OffsetOf(files, i) \in Nat
    BY <2>1, OffsetsTyped
  <2> QED
    BY <2>1, <2>2 DEF Placed, DirEntry, File
<1>3. PlacedNames(files) \in DirEntry
  <2>1. n + 1 \in 1 .. Len(files) + 1
    OBVIOUS
  <2>2. OffsetOf(files, n + 1) \in Nat
    BY <2>1, OffsetsTyped
  <2> QED
    BY <2>2, PfsAssumption DEF PlacedNames, DirEntry
<1>4. d \in Seq(DirEntry) /\ Len(d) = n /\ \A i \in 1 .. n : d[i] = Placed(files, i)
  BY <1>1, <1>2
<1>5. DirOf(files) = Append(d, PlacedNames(files))
  BY DEF DirOf
<1> HIDE DEF d, n
<1>6. /\ DirOf(files) \in Seq(DirEntry) /\ Len(DirOf(files)) = n + 1
      /\ \A i \in 1 .. n : DirOf(files)[i] = Placed(files, i)
      /\ DirOf(files)[n + 1] = PlacedNames(files)
  BY <1>1, <1>3, <1>4, <1>5
<1>7. ASSUME NEW i \in 1 .. n + 1
      PROVE  DirOf(files)[i].offset = OffsetOf(files, i)
  <2>1. CASE i \in 1 .. n
    <3>1. DirOf(files)[i] = Placed(files, i)
      BY <1>6, <2>1
    <3> QED
      BY <3>1 DEF Placed
  <2>2. CASE i = n + 1
    <3>1. DirOf(files)[i] = PlacedNames(files)
      BY <1>6, <2>2
    <3> QED
      BY <2>2, <3>1 DEF PlacedNames, n
  <2> QED
    BY <1>1, <2>1, <2>2
<1> QED
  BY <1>6, <1>7 DEF n

LEMMA LayoutLaysOut ==
  ASSUME NEW files \in Seq(File)
  PROVE  Layout(files) \in Bytes /\ LaidOut(Layout(files), files)
<1> DEFINE n == Len(files)
           d == DirOf(files)
           b == Layout(files)
           key == [e \in Range(d) |-> e.crc]
<1>1. n \in Nat /\ d \in Seq(DirEntry) /\ Len(d) = n + 1
  BY DirTyped
<1>2. b = [area |-> Append(Flat(files, n), NamesBlock(NamesIn(files))), dir |-> ByCrc(d)]
  BY Zenon DEF Layout, Flat, NamesIn, DirOf, Placed, PlacedNames
<1>3. NamesBlock(NamesIn(files)) \in Blocks
  <2>1. NamesIn(files) \in Seq(Names)
    <3>1. \A i \in 1 .. n : files[i].name \in Names
      BY FilesTyped DEF File
    <3> QED
      BY <1>1, <3>1 DEF NamesIn
  <2> QED
    BY <2>1 DEF NamesBlock, Blocks
<1>4. b.area \in Seq(Blocks)
  BY <1>2, <1>3, FilesTyped
<1>5. \A x \in Range(d) : x \in DirEntry /\ key[x] \in Int
  <2>1. \A x \in Range(d) : x \in DirEntry /\ key[x] = x.crc
    BY <1>1 DEF Range
  <2> QED
    BY <2>1 DEF DirEntry
<1>6. SortedFrom(ByCrc(d), d, n + 1, Range(d), 1, n + 1, key)
  <2>1. ByCrc(d) = Sorted(d, 1, Len(d), key)
    BY DEF ByCrc
  <2> HIDE DEF d, n, key
  <2> QED
    BY <1>1, <1>5, <2>1, SortedSorts
<1> HIDE DEF key
<1>7. ByCrc(d) \in [1 .. n + 1 -> Range(d)] /\ Rearranged(d, ByCrc(d), n + 1, 1, n + 1)
  BY <1>6 DEF SortedFrom
<1>8. ByCrc(d) \in Seq(DirEntry) /\ Len(ByCrc(d)) = n + 1
  <2>1. PICK r : r = ByCrc(d)
    OBVIOUS
  <2>2. r \in [1 .. n + 1 -> DirEntry]
    BY <1>5, <1>7, <2>1
  <2>3. n + 1 \in Nat
    BY <1>1
  <2> QED
    BY <2>1, <2>2, <2>3
<1>9. b \in Bytes
  BY <1>2, <1>4, <1>8 DEF Bytes
<1>10. b.area = Append(Flat(files, n), NamesBlock(NamesIn(files))) /\ b.dir = ByCrc(d)
  BY <1>2
<1> HIDE DEF b
<1>11. LaidOut(b, files)
  BY <1>7, <1>8, <1>10, Zenon DEF LaidOut
<1> QED
  BY <1>9, <1>11 DEF b

(***************************************************************************)
(* What pfs_open finds in it                                               *)
(***************************************************************************)
WalkedEntry(d) ==
  [crc |-> d.crc, offset |-> d.offset, ilen |-> d.ilen, dlen |-> d.ilen,
   name |-> NoName, replacement |-> <<>>]

LEMMA WalkedTyped ==
  ASSUME NEW b \in Bytes
  PROVE  /\ Walked(b) \in Seq(AnyEntry) /\ Len(Walked(b)) = Len(b.dir)
         /\ \A i \in 1 .. Len(b.dir) :
              Walked(b)[i] = WalkedEntry(b.dir[i]) /\ Walked(b)[i].offset = b.dir[i].offset
<1>1. b.dir \in Seq(DirEntry)
  BY DEF Bytes
<1>2. ASSUME NEW d \in DirEntry
      PROVE  WalkedEntry(d) \in AnyEntry /\ WalkedEntry(d).offset = d.offset
  BY NoBlocks DEF WalkedEntry, AnyEntry, DirEntry
<1>3. Walked(b) = [i \in 1 .. Len(b.dir) |-> WalkedEntry(b.dir[i])]
  BY <1>1 DEF Walked, WalkedEntry
<1> QED
  BY <1>1, <1>2, <1>3

LEMMA WalkedOrdered ==
  ASSUME NEW b \in Bytes
  PROVE  InOffsetOrder(ByOffset(Walked(b)), Walked(b))
<1>1. \A x \in AnyEntry : x.offset \in Nat
  BY DEF AnyEntry
<1> QED
  BY <1>1, WalkedTyped, ByOffsetOrders

\* The entry pfs_open takes for the list of names lies behind all files.
LEMMA LastIsNames ==
  ASSUME NEW files \in Seq(File), NEW b \in Bytes, LaidOut(b, files)
  PROVE  ByOffset(Walked(b))[Len(b.dir)].offset = OffsetOf(files, Len(files) + 1)
<1> DEFINE m == Len(files) + 1
           w == Walked(b)
           r == ByOffset(w)
           end == OffsetOf(files, m)
<1>1. Len(b.dir) = m /\ Len(w) = m /\ m \in 1 .. m
  BY WalkedTyped DEF LaidOut
<1>2. PICK pi : Shuffle(pi, m, 1, m) /\ \A i \in 1 .. m : r[i] = w[pi[i]]
  BY <1>1, WalkedOrdered DEF InOffsetOrder
<1>3. \A i, j \in 1 .. m : i <= j => r[i].offset <= r[j].offset
  BY <1>1, WalkedOrdered DEF InOffsetOrder
<1>4. PICK ro : Shuffle(ro, m, 1, m) /\ \A i \in 1 .. m : b.dir[i] = DirOf(files)[ro[i]]
  BY DEF LaidOut, Rearranged
<1>5. \A i \in 1 .. m : w[i].offset = b.dir[i].offset
  BY <1>1, WalkedTyped
<1>6. \A i \in 1 .. m : DirOf(files)[i].offset = OffsetOf(files, i)
  BY DirTyped
<1>7. \A i \in 1 .. m : OffsetOf(files, i) \in Nat /\ OffsetOf(files, i) <= end
  BY OffsetsTyped
<1> HIDE DEF w, r, m, end
<1>8. \A i \in 1 .. m : pi[i] \in 1 .. m /\ ro[i] \in 1 .. m
  BY <1>2, <1>4 DEF Shuffle
<1>9. \A j \in 1 .. m : (\E i \in 1 .. m : pi[i] = j) /\ (\E i \in 1 .. m : ro[i] = j)
  BY <1>2, <1>4, Zenon DEF Shuffle
<1>10. ASSUME NEW i \in 1 .. m
       PROVE  r[i].offset = OffsetOf(files, ro[pi[i]]) /\ ro[pi[i]] \in 1 .. m
  <2>1. pi[i] \in 1 .. m /\ ro[pi[i]] \in 1 .. m
    BY <1>8
  <2>2. r[i] = w[pi[i]] /\ w[pi[i]].offset = b.dir[pi[i]].offset
    BY <1>2, <1>5, <2>1
  <2>3. b.dir[pi[i]] = DirOf(files)[ro[pi[i]]]
    BY <1>4, <2>1
  <2> QED
    BY <1>6, <2>1, <2>2, <2>3
<1>11. PICK j \in 1 .. m : ro[j] = m
  BY <1>1, <1>9
<1>12. PICK i \in 1 .. m : pi[i] = j
  BY <1>9
<1>13. r[i].offset = end
  BY <1>10, <1>11, <1>12 DEF end
<1>14. r[m].offset \in Nat /\ r[m].offset <= end /\ end \in Nat
  BY <1>1, <1>7, <1>10 DEF end
<1>15. r[i].offset <= r[m].offset
  <2>1. i <= m
    BY DEF m
  <2> QED
    BY <1>1, <1>3, <2>1
<1> QED
  BY <1>1, <1>13, <1>14, <1>15 DEF r, w, m, end

\* pfs_open finds the names pfs_save wrote, or none.
LEMMA ListsNames ==
  ASSUME NEW files \in Seq(File), NEW b \in Bytes, LaidOut(b, files)
  PROVE  ListOf(b) = IF ByOffset(Walked(b))[Len(b.dir)].ilen = 1 THEN NamesIn(files) ELSE <<NoName>>
<1> DEFINE last == ByOffset(Walked(b))[Len(b.dir)]
           n == Len(files)
           a == Flat(files, n)
           list == Slice(b.area, last.offset, last.ilen)
<1>1. last.offset = Len(a) /\ a \in Seq(Blocks)
  BY LastIsNames, FilesTyped
<1>2. ListOf(b) = IF last.ilen = 1 /\ list[1].part = 0 THEN list[1].of ELSE <<NoName>>
  BY Zenon DEF ListOf
<1>3. ASSUME last.ilen = 1
      PROVE  list[1] = NamesBlock(NamesIn(files))
  <2>1. b.area = Append(a, NamesBlock(NamesIn(files)))
    BY DEF LaidOut
  <2> HIDE DEF last, a
  <2> QED
    BY <1>1, <1>3, <2>1 DEF Slice
<1>4. NamesBlock(NamesIn(files)).part = 0 /\ NamesBlock(NamesIn(files)).of = NamesIn(files)
  BY DEF NamesBlock
<1> HIDE DEF last, list
<1> QED
  BY <1>2, <1>3, <1>4 DEF last

\* What pfs_save writes has a name for every file, or does not open.
LEMMA LayoutIsArchive ==
  ASSUME NEW files \in Seq(File)
  PROVE  Archive(Layout(files))
<1> DEFINE b == Layout(files)
<1>1. b \in Bytes /\ LaidOut(b, files)
  BY LayoutLaysOut
<1> HIDE DEF b
<1>2. ASSUME Opens(b)
      PROVE  Len(ListOf(b)) = Len(b.dir) - 1
  <2>1. ListOf(b) # <<NoName>>
    BY <1>2, PfsAssumption DEF Opens, Range
  <2>2. ListOf(b) = NamesIn(files)
    BY <1>1, <2>1, ListsNames
  <2>3. Len(NamesIn(files)) = Len(files) /\ Len(files) \in Nat
    BY DEF NamesIn
  <2> QED
    BY <1>1, <2>2, <2>3 DEF LaidOut
<1> QED
  BY <1>1, <1>2 DEF Archive, AllNamed, b

(***************************************************************************)
(* The session's entries and their index                                   *)
(***************************************************************************)
\* The list pfs_open takes for the names is one, if it accepts it.
LEMMA ListTyped ==
  ASSUME NEW b \in Bytes, Opens(b)
  PROVE  ListOf(b) \in Seq(Names)
<1> DEFINE r == ByOffset(Walked(b))
           m == Len(b.dir)
           last == r[m]
           list == Slice(b.area, last.offset, last.ilen)
<1>1. b.area \in Seq(Blocks) /\ b.dir \in Seq(DirEntry)
  BY DEF Bytes
<1>2. m \in 1 .. m
  BY <1>1 DEF Opens
<1>3. last \in AnyEntry
  <2>1. Walked(b) \in Seq(AnyEntry) /\ Len(Walked(b)) = m
    BY WalkedTyped
  <2>2. r \in [1 .. m -> Range(Walked(b))]
    BY <2>1, WalkedOrdered DEF InOffsetOrder
  <2>3. Range(Walked(b)) \subseteq AnyEntry
    BY <2>1 DEF Range
  <2> HIDE DEF r, m
  <2> QED
    BY <1>2, <2>2, <2>3
<1>4. ListOf(b) = IF last.ilen = 1 /\ list[1].part = 0 THEN list[1].of ELSE <<NoName>>
  BY Zenon DEF ListOf
<1>5. ListOf(b) # <<NoName>>
  BY PfsAssumption DEF Opens, Range
<1> HIDE DEF last
<1>6. last.offset \in Nat /\ last.ilen \in Nat
  BY <1>3 DEF AnyEntry
<1>7. list \in Seq(Blocks) /\ Len(list) = last.ilen
  BY <1>1, <1>6, SliceTyped
<1> HIDE DEF list
<1>8. ASSUME last.ilen = 1, list[1].part = 0
      PROVE  list[1].of \in Seq(Names)
  <2>1. \A x \in Seq(Blocks) : Len(x) = 1 => x[1] \in Blocks
    OBVIOUS
  <2>2. list[1] \in Blocks
    BY <1>7, <1>8, <2>1
  <2> QED
    BY <1>8, <2>2 DEF Blocks
<1> QED
  BY <1>4, <1>5, <1>8

\* The entries pfs_open finds, each with its name.
LEMMA NamedTyped ==
  ASSUME NEW b, Archive(b), Opens(b)
  PROVE  /\ Named(b) \in Seq(Entry) /\ Len(Named(b)) = Len(b.dir) - 1
         /\ Len(ListOf(b)) = Len(b.dir) - 1 /\ ListOf(b) \in Seq(Names)
         /\ \A i \in 1 .. Len(b.dir) - 1 :
              /\ Named(b)[i] = [ByOffset(Walked(b))[i] EXCEPT !.name = ListOf(b)[i]]
              /\ Named(b)[i].name = ListOf(b)[i]
<1> DEFINE r == ByOffset(Walked(b))
           m == Len(b.dir)
           k == m - 1
           l == ListOf(b)
           named(i) == [r[i] EXCEPT !.name = l[i]]
<1>1. b \in Bytes /\ l \in Seq(Names) /\ Len(l) = k
  BY ListTyped DEF Archive, AllNamed
<1>2. m \in Nat /\ k \in Nat
  BY <1>1
<1>3. r \in [1 .. m -> AnyEntry]
  <2>1. Walked(b) \in Seq(AnyEntry) /\ Len(Walked(b)) = m
    BY <1>1, WalkedTyped
  <2>2. r \in [1 .. m -> Range(Walked(b))]
    BY <1>1, <2>1, WalkedOrdered DEF InOffsetOrder
  <2>3. Range(Walked(b)) \subseteq AnyEntry
    BY <2>1 DEF Range
  <2> HIDE DEF r, m
  <2> QED
    BY <2>2, <2>3
<1>4. \A i \in 1 .. k : r[i] \in AnyEntry /\ l[i] \in Names
  BY <1>1, <1>2, <1>3
<1>5. ASSUME NEW e \in AnyEntry, NEW n \in Names
      PROVE  [e EXCEPT !.name = n] \in Entry /\ [e EXCEPT !.name = n].name = n
  BY <1>5 DEF AnyEntry, Entry
<1>6. Named(b) = [i \in 1 .. k |-> named(i)]
  <2>1. Front(r) = [i \in 1 .. k |-> r[i]]
    <3>1. Len(r) = m
      BY <1>2, <1>3
    <3> HIDE DEF r, m
    <3> QED
      BY <1>2, <3>1 DEF Front
  <2>2. DOMAIN Front(r) = 1 .. k /\ \A i \in 1 .. k : Front(r)[i] = r[i]
    BY <2>1
  <2>3. Named(b) = [i \in DOMAIN Front(r) |->
                      IF i <= Len(l) THEN [Front(r)[i] EXCEPT !.name = l[i]] ELSE Front(r)[i]]
    BY Zenon DEF Named
  <2>4. \A i \in 1 .. k : i <= Len(l)
    BY <1>1, <1>2
  <2> HIDE DEF r, l, k
  <2> QED
    BY <2>2, <2>3, <2>4
<1>7. \A i \in 1 .. k : named(i) \in Entry /\ named(i).name = l[i]
  <2> HIDE DEF r, l, k
  <2> QED
    BY <1>4, <1>5
<1> HIDE DEF named
<1>8. /\ Named(b) \in Seq(Entry) /\ Len(Named(b)) = k
      /\ \A i \in 1 .. k : Named(b)[i] = named(i)
  BY <1>2, <1>6, <1>7
<1> QED
  BY <1>1, <1>7, <1>8 DEF named

\* The entries of a struct Pfs and its hash table byName agree.
Indexes(byName, entries) ==
  /\ \A n \in Names : byName[n] # 0 => byName[n] \in 1 .. Len(entries) /\ entries[byName[n]].name = n
  /\ \A i \in 1 .. Len(entries) : byName[entries[i].name] = i

Filed(p) ==
  /\ p \in [raw : Bytes, modTime : Nat, entries : Seq(Entry), byName : [Names -> Nat]]
  /\ AllNamed(p.raw)
  /\ Indexes(p.byName, p.entries)

LEMMA OpenedFiled ==
  ASSUME NEW b, Archive(b), Opens(b), NEW t \in Nat
  PROVE  Filed([raw |-> b, modTime |-> t, entries |-> Opened(b).entries, byName |-> Opened(b).byName])
<1> DEFINE l == ListOf(b)
           es == Named(b)
           x == IndexOf(l)
           p == [raw |-> b, modTime |-> t, entries |-> es, byName |-> x]
<1>1. b \in Bytes /\ AllNamed(b)
  BY DEF Archive
<1>2. Opened(b).entries = es /\ Opened(b).byName = x
  BY DEF Opened
<1>3. PICK k \in Nat : /\ es \in Seq(Entry) /\ Len(es) = k /\ l \in Seq(Names) /\ Len(l) = k
                       /\ \A i \in 1 .. k : es[i].name = l[i]
  <2>1. PICK k : k = Len(b.dir) - 1
    OBVIOUS
  <2>2. /\ es \in Seq(Entry) /\ Len(es) = k /\ l \in Seq(Names) /\ Len(l) = k
        /\ \A i \in 1 .. k : es[i].name = l[i]
    BY <2>1, NamedTyped
  <2> HIDE DEF es, l
  <2>3. k \in Nat
    BY <2>2
  <2> QED
    BY <2>2, <2>3
<1>4. \A i, j \in 1 .. k : l[i] = l[j] => i = j
  BY <1>3 DEF Opens, NoDuplicates
<1> HIDE DEF l, es
<1>5. ASSUME NEW n \in Names
      PROVE  /\ x[n] \in Nat /\ (x[n] # 0 => x[n] \in 1 .. k /\ l[x[n]] = n)
             /\ \A i \in 1 .. k : l[i] = n => x[n] = i
  <2>1. n \in Range(l) <=> \E i \in 1 .. k : l[i] = n
    BY <1>3 DEF Range
  <2>2. x[n] = IF n \in Range(l) THEN CHOOSE i \in 1 .. k : l[i] = n ELSE 0
    BY <1>3 DEF IndexOf
  <2> HIDE DEF x
  <2> QED
    BY <1>4, <2>1, <2>2
<1>6. x \in [Names -> Nat]
  <2>1. x = [n \in Names |-> x[n]]
    BY DEF IndexOf
  <2> HIDE DEF x
  <2> QED
    BY <1>5, <2>1
<1>7. \A i \in 1 .. k : es[i].name \in Names /\ es[i].name = l[i]
  BY <1>3
<1> HIDE DEF x
<1>8. p \in [raw : Bytes, modTime : Nat, entries : Seq(Entry), byName : [Names -> Nat]]
  BY <1>1, <1>3, <1>6
<1>9. p.raw = b /\ p.entries = es /\ p.byName = x
  OBVIOUS
<1> HIDE DEF p
<1>10. \A n \in Names : x[n] # 0 => x[n] \in 1 .. k /\ es[x[n]].name = n
  BY <1>5, <1>7
<1>11. \A i \in 1 .. k : x[es[i].name] = i
  BY <1>5, <1>7
<1>12. Indexes(x, es)
  BY <1>3, <1>10, <1>11 DEF Indexes
<1>13. Filed(p)
  BY <1>1, <1>8, <1>9, <1>12 DEF Filed
<1> QED
  BY <1>2, <1>13 DEF p

\* q differs from p in the entry of n only.
OthersKeep(p, q, n) ==
  /\ q.raw = p.raw /\ q.modTime = p.modTime
  /\ \A m \in Names \ {n} : q.byName[m] = p.byName[m]
       /\ (p.byName[m] # 0 => q.entries[p.byName[m]] = p.entries[p.byName[m]])

\* q is p with e as the entry of n.
Replaced(p, q, n, e) == q = [p EXCEPT !.entries = [p.entries EXCEPT ![p.byName[n]] = e]]

LEMMA EntryReplaced ==
  ASSUME NEW p, Filed(p), NEW n \in Names, p.byName[n] # 0,
         NEW e \in Entry, e.name = n, NEW q, Replaced(p, q, n, e)
  PROVE  Filed(q) /\ OthersKeep(p, q, n) /\ q.byName[n] # 0 /\ q.entries[q.byName[n]] = e
<1> DEFINE i == p.byName[n]
           es == p.entries
           fs == [es EXCEPT ![i] = e]
           k == Len(es)
<1>1. p \in [raw : Bytes, modTime : Nat, entries : Seq(Entry), byName : [Names -> Nat]]
      /\ AllNamed(p.raw)
  BY DEF Filed
<1>2. k \in Nat /\ i \in 1 .. k /\ es \in Seq(Entry)
      /\ \A j \in 1 .. k : es[j] \in Entry
  BY <1>1 DEF Filed, Indexes
<1>3. \A m \in Names : p.byName[m] # 0 => p.byName[m] \in 1 .. k /\ es[p.byName[m]].name = m
  BY DEF Filed, Indexes
<1>4. \A j \in 1 .. k : p.byName[es[j].name] = j
  BY DEF Filed, Indexes
<1>5. /\ q.raw = p.raw /\ q.modTime = p.modTime /\ q.byName = p.byName /\ q.entries = fs
      /\ q \in [raw : Bytes, modTime : Nat, entries : {fs}, byName : [Names -> Nat]]
  <2> HIDE DEF fs
  <2>1. q = [p EXCEPT !.entries = fs]
    BY DEF fs, Replaced
  <2> QED
    BY <1>1, <2>1
<1> HIDE DEF es, i, k
<1>6. fs \in Seq(Entry) /\ Len(fs) = k /\ \A j \in 1 .. k : fs[j] = IF j = i THEN e ELSE es[j]
  BY <1>2 DEF k
<1> HIDE DEF fs
<1>7. q \in [raw : Bytes, modTime : Nat, entries : Seq(Entry), byName : [Names -> Nat]]
  BY <1>5, <1>6
<1>8. ASSUME NEW m \in Names, p.byName[m] # 0
      PROVE  p.byName[m] \in 1 .. k /\ fs[p.byName[m]].name = m
  <2>1. p.byName[m] \in 1 .. k /\ es[p.byName[m]].name = m
    BY <1>3, <1>8
  <2> QED
    BY <1>3, <1>6, <2>1 DEF i
<1>9. ASSUME NEW j \in 1 .. k
      PROVE  p.byName[fs[j].name] = j
  BY <1>4, <1>6 DEF i
<1>10. Indexes(q.byName, q.entries)
  <2>1. Indexes(p.byName, fs)
    BY <1>6, <1>8, <1>9 DEF Indexes
  <2> QED
    BY <1>5, <2>1
<1>11. ASSUME NEW m \in Names \ {n}, p.byName[m] # 0
       PROVE  fs[p.byName[m]] = es[p.byName[m]]
  <2>1. p.byName[m] \in 1 .. k /\ es[p.byName[m]].name = m /\ es[i].name = n
    BY <1>3, <1>11 DEF i
  <2> QED
    BY <1>6, <2>1
<1>12. OthersKeep(p, q, n)
  BY <1>5, <1>11 DEF OthersKeep, es
<1>13. q.entries[q.byName[n]] = e
  BY <1>2, <1>5, <1>6 DEF i
<1>14. Filed(q)
  BY <1>1, <1>5, <1>7, <1>10, Zenon DEF Filed
<1> QED
  BY <1>5, <1>12, <1>13, <1>14

\* pfs_get_or_append_entry.
LEMMA WithEntryFiled ==
  ASSUME Filed(pfs), NEW n \in Names
  PROVE  /\ Filed(WithEntry(n)) /\ OthersKeep(pfs, WithEntry(n), n)
         /\ WithEntry(n).byName[n] # 0
<1> DEFINE es == pfs.entries
           k == Len(es)
           fs == Append(es, NewEntry(n))
           x == [pfs.byName EXCEPT ![n] = k + 1]
           q == WithEntry(n)
<1>1. /\ pfs \in [raw : Bytes, modTime : Nat, entries : Seq(Entry), byName : [Names -> Nat]]
      /\ AllNamed(pfs.raw)
      /\ \A m \in Names : pfs.byName[m] # 0 => pfs.byName[m] \in 1 .. k /\ es[pfs.byName[m]].name = m
      /\ \A j \in 1 .. k : pfs.byName[es[j].name] = j
  BY DEF Filed, Indexes
<1>2. CASE pfs.byName[n] # 0
  <2>1. q = pfs
    BY <1>2 DEF WithEntry
  <2> HIDE DEF q
  <2> QED
    BY <1>2, <2>1 DEF OthersKeep, q
<1>3. CASE pfs.byName[n] = 0
  <2>1. NewEntry(n) \in Entry /\ NewEntry(n).name = n
    <3>1. Crc[n] \in Nat
      BY PfsAssumption
    <3> QED
      BY <3>1, NoBlocks DEF NewEntry, Entry, AnyEntry
  <2>2. k \in Nat /\ es \in Seq(Entry) /\ \A j \in 1 .. k : es[j] \in Entry
    BY <1>1
  <2>3. /\ q.raw = pfs.raw /\ q.modTime = pfs.modTime /\ q.entries = fs /\ q.byName = x
        /\ q \in [raw : Bytes, modTime : Nat, entries : {fs}, byName : {x}]
    <3>1. q = [pfs EXCEPT !.entries = fs, !.byName = x]
      BY <1>3 DEF WithEntry
    <3> HIDE DEF q, fs, x
    <3> QED
      BY <1>1, <3>1
  <2> HIDE DEF q, es
  <2>4. /\ fs \in Seq(Entry) /\ Len(fs) = k + 1 /\ fs[k + 1] = NewEntry(n)
        /\ \A j \in 1 .. k : fs[j] = es[j]
    BY <2>1, <2>2
  <2>5. x \in [Names -> Nat] /\ \A m \in Names : x[m] = IF m = n THEN k + 1 ELSE pfs.byName[m]
    BY <1>1, <2>2
  <2> HIDE DEF fs, x, k
  <2>6. q \in [raw : Bytes, modTime : Nat, entries : Seq(Entry), byName : [Names -> Nat]]
    BY <2>3, <2>4, <2>5
  <2>7. ASSUME NEW m \in Names, x[m] # 0
        PROVE  x[m] \in 1 .. k + 1 /\ fs[x[m]].name = m
    <3>1. CASE m = n
      BY <2>1, <2>2, <2>4, <2>5, <3>1
    <3>2. CASE m # n
      <4>1. x[m] = pfs.byName[m]
        BY <2>5, <3>2
      <4>2. x[m] \in 1 .. k /\ es[x[m]].name = m
        BY <1>1, <2>7, <4>1 DEF k
      <4> QED
        BY <2>2, <2>4, <4>2
    <3> QED
      BY <3>1, <3>2
  <2>8. ASSUME NEW j \in 1 .. k + 1
        PROVE  x[fs[j].name] = j
    <3>1. CASE j = k + 1
      BY <2>1, <2>4, <2>5, <3>1
    <3>2. CASE j \in 1 .. k
      <4>1. fs[j] = es[j] /\ pfs.byName[es[j].name] = j /\ es[j].name \in Names
        BY <1>1, <2>2, <2>4, <3>2 DEF Entry
      <4>2. es[j].name # n
        BY <1>3, <3>2, <4>1
      <4> QED
        BY <2>5, <4>1, <4>2
    <3> QED
      BY <2>2, <3>1, <3>2
  <2>9. Filed(q)
    <3>1. Indexes(x, fs)
      BY <2>4, <2>7, <2>8 DEF Indexes
    <3> QED
      BY <1>1, <2>3, <2>6, <3>1 DEF Filed
  <2>10. OthersKeep(pfs, q, n)
    BY <1>1, <2>2, <2>3, <2>4, <2>5 DEF OthersKeep, es, k
  <2>11. q.byName[n] # 0
    BY <2>2, <2>3, <2>5
  <2> QED
    BY <2>9, <2>10, <2>11 DEF q
<1> QED
  BY <1>2, <1>3

LEMMA OthersKeepTwice ==
  ASSUME NEW p, NEW q, NEW r, NEW n, OthersKeep(p, q, n), OthersKeep(q, r, n)
  PROVE  OthersKeep(p, r, n)
BY DEF OthersKeep

\* A put, or one that fails: the entry of n has the number, the lengths and the
\* replacement given, and nothing else changes.
Given(n, ilen, dlen, replacement) ==
  \E p : /\ p = WithEntry(n)
         /\ Replaced(p, pfs', n,
              [p.entries[p.byName[n]] EXCEPT !.ilen = ilen, !.dlen = dlen, !.replacement = replacement])

LEMMA GivenFiled ==
  ASSUME Filed(pfs), NEW n \in Names, NEW ilen \in Nat, NEW dlen \in Nat, NEW rep \in Seq(Blocks),
         Given(n, ilen, dlen, rep)
  PROVE  /\ Filed(pfs') /\ OthersKeep(pfs, pfs', n) /\ pfs'.byName[n] # 0
         /\ \E e : /\ e = pfs'.entries[pfs'.byName[n]]
                   /\ e.ilen = ilen /\ e.dlen = dlen /\ e.replacement = rep
<1>1. PICK p, q, d, e : /\ p = WithEntry(n) /\ q = pfs' /\ d = p.entries[p.byName[n]]
                        /\ Replaced(p, q, n, e)
                        /\ e = [d EXCEPT !.ilen = ilen, !.dlen = dlen, !.replacement = rep]
  BY DEF Given
<1>2. Filed(p) /\ OthersKeep(pfs, p, n) /\ p.byName[n] # 0
  BY <1>1, WithEntryFiled
<1>3. d \in Entry /\ d.name = n
  BY <1>1, <1>2 DEF Filed, Indexes
<1>4. d \in [crc : Nat, offset : Nat, ilen : Nat, dlen : Nat, name : Names, replacement : Seq(Blocks)]
  BY <1>3 DEF Entry, AnyEntry
<1>5. /\ e \in [crc : Nat, offset : Nat, ilen : Nat, dlen : Nat, name : Names, replacement : Seq(Blocks)]
      /\ e.name = n /\ e.ilen = ilen /\ e.dlen = dlen /\ e.replacement = rep
  BY <1>1, <1>3, <1>4
<1>6. e \in Entry
  BY <1>5 DEF Entry, AnyEntry
<1>7. Filed(q) /\ OthersKeep(p, q, n) /\ q.byName[n] # 0 /\ q.entries[q.byName[n]] = e
  <2>1. Filed(p) /\ p.byName[n] # 0 /\ e \in Entry /\ Replaced(p, q, n, e) /\ e.name = n
    BY <1>1, <1>2, <1>5, <1>6
  <2>2. Filed(q) /\ OthersKeep(p, q, n)
    BY <2>1, EntryReplaced
  <2>3. q.byName[n] # 0
    BY <2>1, EntryReplaced
  <2>4. q.entries[q.byName[n]] = e
    BY <2>1, EntryReplaced
  <2> QED
    BY <2>2, <2>3, <2>4
<1>8. OthersKeep(pfs, q, n)
  BY <1>2, <1>7, OthersKeepTwice
<1> QED
  BY <1>1, <1>5, <1>7, <1>8

\* The puts of pfs.c, and what a failure leaves.
LEMMA PutsGive ==
  ASSUME Filed(pfs), NEW n \in Names, NEW c \in Contents
  PROVE  /\ Put(n, c) => Given(n, Size[c], Size[c], BlocksOf(c))
         /\ PutCompressedFails(n, c) => Given(n, Size[c], Size[c], <<>>)
         /\ \A k \in 0 .. Size[c] - 1 : PutFails(n, c, k) =>
              \E dlen \in Nat :
                /\ Given(n, Size[c], dlen, SubSeq(BlocksOf(c), 1, k))
                /\ pfs.byName[n] # 0 => dlen = pfs.entries[pfs.byName[n]].dlen
<1>1. PICK p, i : p = WithEntry(n) /\ i = p.byName[n] /\ Filed(p) /\ i # 0
  BY WithEntryFiled
<1>2. p \in [raw : Bytes, modTime : Nat, entries : Seq(Entry), byName : [Names -> Nat]]
  BY <1>1 DEF Filed
<1>3. "entries" \in DOMAIN p /\ i \in DOMAIN p.entries /\ p.entries[i].name = n
  BY <1>1, <1>2 DEF Filed, Indexes
<1>4. PICK e : /\ e = p.entries[i] /\ e.name = n
               /\ e \in [crc : Nat, offset : Nat, ilen : Nat, dlen : Nat, name : Names,
                         replacement : Seq(Blocks)]
  <2>1. p.entries[i] \in Entry
    BY <1>2, <1>3
  <2> QED
    BY <1>3, <2>1 DEF Entry, AnyEntry
<1>5. ASSUME NEW ilen, NEW dlen, NEW rep,
             pfs' = [p EXCEPT !.entries = [p.entries EXCEPT ![i] =
                       [e EXCEPT !.ilen = ilen, !.dlen = dlen, !.replacement = rep]]]
      PROVE  Given(n, ilen, dlen, rep)
  BY <1>1, <1>4, <1>5, Zenon DEF Given, Replaced
<1>6. ASSUME Put(n, c)
      PROVE  Given(n, Size[c], Size[c], BlocksOf(c))
  <2>1. pfs' = [p EXCEPT !.entries[i].ilen = Size[c], !.entries[i].dlen = Size[c],
                         !.entries[i].replacement = BlocksOf(c)]
    BY <1>1, <1>6, Zenon DEF Put, Filled
  <2>2. pfs' = [p EXCEPT !.entries = [p.entries EXCEPT ![i] =
                  [e EXCEPT !.ilen = Size[c], !.dlen = Size[c], !.replacement = BlocksOf(c)]]]
    BY <1>3, <1>4, <2>1
  <2> QED
    BY <1>5, <2>2
<1>7. ASSUME PutCompressedFails(n, c)
      PROVE  Given(n, Size[c], Size[c], <<>>)
  <2>1. pfs' = [p EXCEPT !.entries[i].ilen = Size[c], !.entries[i].dlen = Size[c],
                         !.entries[i].replacement = <<>>]
    BY <1>1, <1>7, Zenon DEF PutCompressedFails
  <2>2. pfs' = [p EXCEPT !.entries = [p.entries EXCEPT ![i] =
                  [e EXCEPT !.ilen = Size[c], !.dlen = Size[c], !.replacement = <<>>]]]
    BY <1>3, <1>4, <2>1
  <2> QED
    BY <1>5, <2>2
<1>8. ASSUME NEW k \in 0 .. Size[c] - 1, PutFails(n, c, k)
      PROVE  \E dlen \in Nat :
               /\ Given(n, Size[c], dlen, SubSeq(BlocksOf(c), 1, k))
               /\ pfs.byName[n] # 0 => dlen = pfs.entries[pfs.byName[n]].dlen
  <2> DEFINE some == SubSeq(BlocksOf(c), 1, k)
  <2>1. pfs' = [p EXCEPT !.entries[i].ilen = Size[c], !.entries[i].replacement = some]
    BY <1>1, <1>8, Zenon DEF PutFails
  <2> HIDE DEF some
  <2>2. pfs' = [p EXCEPT !.entries = [p.entries EXCEPT ![i] =
                  [e EXCEPT !.ilen = Size[c], !.replacement = some]]]
    BY <1>3, <1>4, <2>1
  <2>3. [e EXCEPT !.ilen = Size[c], !.replacement = some]
        = [e EXCEPT !.ilen = Size[c], !.dlen = e.dlen, !.replacement = some]
    BY <1>4
  <2>4. Given(n, Size[c], e.dlen, some) /\ e.dlen \in Nat
    BY <1>4, <1>5, <2>2, <2>3
  <2>5. pfs.byName[n] # 0 => e.dlen = pfs.entries[pfs.byName[n]].dlen
    BY <1>1, <1>4 DEF WithEntry
  <2> QED
    BY <2>4, <2>5 DEF some
<1> QED
  BY <1>6, <1>7, <1>8

(***************************************************************************)
(* The entries fit the names, whoever wrote the file                       *)
(***************************************************************************)
\* The files pfs_save lays out.
ImageFile(p, i) ==
  [crc |-> p.entries[i].crc, ilen |-> p.entries[i].ilen, name |-> p.entries[i].name,
   data |-> SavedData(p, p.entries[i])]
ImageFiles(p) == [i \in 1 .. Len(p.entries) |-> ImageFile(p, i)]

LEMMA SavedTyped ==
  ASSUME NEW p, p.raw \in Bytes, NEW e \in Entry
  PROVE  SavedData(p, e) \in Seq(Blocks) /\ Len(SavedData(p, e)) = e.dlen /\ e.dlen \in Nat
<1>1. p.raw.area \in Seq(Blocks)
  BY DEF Bytes
<1>2. e.offset \in Nat /\ e.dlen \in Nat /\ e.replacement \in Seq(Blocks) /\ 0 \in Nat
  BY DEF Entry, AnyEntry
<1>3. /\ Slice(p.raw.area, e.offset, e.dlen) \in Seq(Blocks)
      /\ Len(Slice(p.raw.area, e.offset, e.dlen)) = e.dlen
  BY <1>1, <1>2, SliceTyped
<1>4. Slice(e.replacement, 0, e.dlen) \in Seq(Blocks) /\ Len(Slice(e.replacement, 0, e.dlen)) = e.dlen
  BY <1>2, SliceTyped
<1> QED
  BY <1>2, <1>3, <1>4, Zenon DEF SavedData

LEMMA ImageTyped ==
  ASSUME NEW p, Filed(p)
  PROVE  /\ ImageFiles(p) \in Seq(File) /\ Len(ImageFiles(p)) = Len(p.entries)
         /\ \A i \in 1 .. Len(p.entries) : ImageFiles(p)[i] = ImageFile(p, i)
         /\ Image(p) = Layout(ImageFiles(p))
<1>1. p.raw \in Bytes /\ p.entries \in Seq(Entry)
  BY DEF Filed
<1>2. ASSUME NEW i \in 1 .. Len(p.entries)
      PROVE  ImageFile(p, i) \in File
  <2>1. p.entries[i] \in Entry
    BY <1>1
  <2>2. p.entries[i].crc \in Nat /\ p.entries[i].ilen \in Nat /\ p.entries[i].name \in Names
    BY <2>1 DEF Entry, AnyEntry
  <2>3. SavedData(p, p.entries[i]) \in Seq(Blocks)
    BY <1>1, <2>1, SavedTyped
  <2> QED
    BY <2>2, <2>3 DEF ImageFile, File
<1>3. DOMAIN p.entries = 1 .. Len(p.entries) /\ Len(p.entries) \in Nat
  BY <1>1
<1>4. Image(p) = Layout(ImageFiles(p))
  BY <1>3, Zenon DEF Image, ImageFiles, ImageFile
<1> QED
  BY <1>2, <1>3, <1>4 DEF ImageFiles

\* The archives other programs write are laid out as pfs_save does.
OtherFile(n) ==
  [crc |-> Crc[n], ilen |-> Size[OtherContent[n]], name |-> n, data |-> BlocksOf(OtherContent[n])]

LEMMA OthersLayOut ==
  ASSUME NEW b \in OtherArchives
  PROVE  \E files \in Seq(File) :
           /\ b = Layout(files)
           /\ \A i \in 1 .. Len(files) : files[i] = OtherFile(files[i].name)
           /\ \A i, j \in 1 .. Len(files) : files[i].name = files[j].name => i = j
<1>1. PICK names \in BoundedSeq(Names, Cardinality(Names)) :
        /\ NoDuplicates(names)
        /\ b = Layout([i \in DOMAIN names |->
                 [crc |-> Crc[names[i]], ilen |-> Size[OtherContent[names[i]]],
                  name |-> names[i], data |-> BlocksOf(OtherContent[names[i]])]])
  BY DEF OtherArchives
<1>2. PICK k \in Nat : names \in [1 .. k -> Names]
  <2>1. Cardinality(Names) \in Nat
    BY PfsAssumption, FS_CardinalityType
  <2>2. PICK k \in 0 .. Cardinality(Names) : names \in [1 .. k -> Names]
    BY DEF BoundedSeq, SeqOf
  <2> QED
    BY <2>1, <2>2
<1> DEFINE files == [i \in 1 .. k |-> OtherFile(names[i])]
<1>3. b = Layout(files)
  BY <1>1, <1>2 DEF OtherFile
<1>4. ASSUME NEW n \in Names
      PROVE  OtherFile(n) \in File /\ OtherFile(n).name = n
  <2>1. OtherContent[n] \in Contents /\ Crc[n] \in Nat
    BY PfsAssumption
  <2>2. Size[OtherContent[n]] \in Nat /\ BlocksOf(OtherContent[n]) \in Seq(Blocks)
    BY <2>1, BlocksOfTyped
  <2> QED
    BY <2>1, <2>2 DEF OtherFile, File
<1>5. /\ files \in Seq(File) /\ Len(files) = k
      /\ \A i \in 1 .. k : files[i] = OtherFile(files[i].name) /\ files[i].name = names[i]
  BY <1>2, <1>4
<1>6. \A i, j \in 1 .. k : names[i] = names[j] => i = j
  BY <1>1, <1>2 DEF NoDuplicates
<1> HIDE DEF files
<1> QED
  BY <1>3, <1>5, <1>6

LEMMA NothingFiled ==
  /\ Archive(Torn) /\ NoPfs.modTime = 0 /\ Filed(NoPfs)
  /\ \A b : Archive(b) => Filed([NoPfs EXCEPT !.raw = b])
<1>1. Torn \in Bytes
  <2>1. <<>> \in Seq(Blocks) /\ <<>> \in Seq(DirEntry)
    OBVIOUS
  <2> QED
    BY <2>1 DEF Torn, Bytes
<1>2. Archive(Torn)
  <2>1. ~Opens(Torn)
    BY DEF Opens, Torn
  <2> QED
    BY <1>1, <2>1 DEF Archive, AllNamed
<1>3. ASSUME NEW b, Archive(b)
      PROVE  Filed([NoPfs EXCEPT !.raw = b])
  <2> DEFINE p == [NoPfs EXCEPT !.raw = b]
             none == [n \in Names |-> 0]
  <2>1. p = [raw |-> b, modTime |-> 0, entries |-> <<>>, byName |-> none]
    BY DEF NoPfs
  <2>2. b \in Bytes /\ AllNamed(b) /\ <<>> \in Seq(Entry) /\ none \in [Names -> Nat]
    BY <1>3 DEF Archive
  <2>3. Indexes(none, <<>>)
    BY DEF Indexes
  <2> HIDE DEF none, p
  <2>4. p.raw = b /\ p.byName = none /\ p.entries = <<>>
        /\ p \in [raw : Bytes, modTime : Nat, entries : Seq(Entry), byName : [Names -> Nat]]
    BY <2>1, <2>2
  <2> QED
    BY <2>2, <2>3, <2>4 DEF Filed, p
<1>4. [NoPfs EXCEPT !.raw = Torn] = NoPfs /\ NoPfs.modTime = 0
  BY DEF NoPfs
<1> QED
  BY <1>2, <1>3, <1>4

\* There are no more entries than names.
LEMMA EntriesFit ==
  ASSUME NEW p, Filed(p)
  PROVE  /\ Len(p.entries) \in Nat /\ Len(p.entries) <= Cardinality(Names)
         /\ p.byName \in [Names -> 0 .. Len(p.entries)]
         /\ \A i \in 1 .. Len(p.entries) : p.entries[i].name \in Names
<1> DEFINE k == Len(p.entries)
           f == [i \in 1 .. k |-> p.entries[i].name]
<1>1. p.entries \in Seq(Entry) /\ p.byName \in [Names -> Nat]
  BY DEF Filed
<1>2. k \in Nat /\ \A i \in 1 .. k : p.entries[i].name \in Names
  <2>1. \A e \in Entry : e.name \in Names
    BY DEF Entry
  <2> QED
    BY <1>1, <2>1
<1>3. /\ \A n \in Names : p.byName[n] # 0 => p.byName[n] \in 1 .. k
      /\ \A i \in 1 .. k : p.byName[p.entries[i].name] = i
  BY DEF Filed, Indexes
<1> HIDE DEF k
<1>4. f \in [1 .. k -> Names] /\ \A i, j \in 1 .. k : f[i] = f[j] => i = j
  <2>1. \A i \in 1 .. k : f[i] = p.entries[i].name
    OBVIOUS
  <2>2. ASSUME NEW i \in 1 .. k, NEW j \in 1 .. k, f[i] = f[j]
        PROVE  i = j
    BY <1>3, <2>1, <2>2
  <2> QED
    BY <1>2, <2>2
<1> HIDE DEF f
<1>5. f \in Injection(1 .. k, Names)
  BY <1>4 DEF Injection, IsInjective
<1>6. Cardinality(1 .. k) <= Cardinality(Names)
  BY <1>5, PfsAssumption, FS_Injection
<1>7. Cardinality(1 .. k) = k
  BY <1>2, FS_Interval
<1> QED
  BY <1>1, <1>2, <1>3, <1>6, <1>7 DEF k

(***************************************************************************)
(* The inductive invariant: archives and entries                           *)
(***************************************************************************)
FiledInv == Archive(body) /\ Filed(pfs)

PlaceInv ==
  at \in {"closed", "read", "opened", "saving", "built", "writing"} /\ now <= MaxClock

\* Whatever is written is an archive, or empty.
LEMMA WrittenArchive ==
  ASSUME FiledInv, NEW b, Written(b),
         b = Image(pfs) \/ b = Torn \/ b \in OtherArchives
  PROVE  Archive(body')
<1>1. body' = b
  BY DEF Written
<1>2. CASE b = Image(pfs)
  <2>1. ImageFiles(pfs) \in Seq(File) /\ b = Layout(ImageFiles(pfs))
    BY <1>2, ImageTyped DEF FiledInv
  <2> QED
    BY <1>1, <2>1, LayoutIsArchive
<1>3. CASE b = Torn
  BY <1>1, <1>3, NothingFiled
<1>4. CASE b \in OtherArchives
  BY <1>1, <1>4, OthersLayOut, LayoutIsArchive
<1> QED
  BY <1>2, <1>3, <1>4

\* A put keeps the entries in order, also one that fails.
LEMMA PutsFile ==
  ASSUME Filed(pfs), NEW n \in Names, NEW c \in Contents,
         Put(n, c) \/ PutCompressedFails(n, c) \/ \E k \in 0 .. Size[c] - 1 : PutFails(n, c, k)
  PROVE  Filed(pfs') /\ OthersKeep(pfs, pfs', n) /\ pfs'.byName[n] # 0
<1>1. Size[c] \in Nat /\ BlocksOf(c) \in Seq(Blocks) /\ <<>> \in Seq(Blocks)
  BY BlocksOfTyped
<1>2. \A k \in 0 .. Size[c] - 1 : SubSeq(BlocksOf(c), 1, k) \in Seq(Blocks)
  <2>1. Len(BlocksOf(c)) \in Nat \ {0} /\ Len(BlocksOf(c)) = Size[c]
    BY BlocksOfTyped
  <2> QED
    BY <1>1, <2>1
<1>3. CASE Put(n, c)
  BY <1>1, <1>3, PutsGive, GivenFiled
<1>4. CASE PutCompressedFails(n, c)
  BY <1>1, <1>4, PutsGive, GivenFiled
<1>5. CASE \E k \in 0 .. Size[c] - 1 : PutFails(n, c, k)
  <2>1. PICK k \in 0 .. Size[c] - 1, dlen \in Nat : Given(n, Size[c], dlen, SubSeq(BlocksOf(c), 1, k))
    BY <1>5, PutsGive
  <2>2. SubSeq(BlocksOf(c), 1, k) \in Seq(Blocks)
    BY <1>2
  <2> QED
    BY <1>1, <2>1, <2>2, GivenFiled
<1> QED
  BY <1>3, <1>4, <1>5

LEMMA FiledStep ==
  ASSUME TimeInv, FiledInv, [Next]_vars
  PROVE  FiledInv'
<1> USE DEF FiledInv, file
<1>1. CASE ReadFile
  <2>1. body' = body /\ pfs' = [NoPfs EXCEPT !.raw = body]
    BY <1>1 DEF ReadFile
  <2>2. Filed(pfs')
    BY <2>1, NothingFiled
  <2> QED
    BY <2>1, <2>2
<1>2. CASE ParseFails \/ Close
  <2>1. body' = body /\ pfs' = NoPfs
    BY <1>2 DEF ParseFails, Close
  <2> QED
    BY <2>1, NothingFiled
<1>3. CASE Parse
  <2>1. /\ body' = body /\ Opens(pfs.raw)
        /\ pfs' = [raw |-> pfs.raw, modTime |-> mtime,
                   entries |-> Opened(pfs.raw).entries, byName |-> Opened(pfs.raw).byName]
    BY <1>3 DEF Parse
  <2>2. Archive(pfs.raw) /\ mtime \in Nat
    BY DEF Filed, Archive, TimeInv, Times
  <2>3. Filed(pfs')
    BY <2>1, <2>2, OpenedFiled
  <2> QED
    BY <2>1, <2>3
<1>4. CASE \E n \in Names, c \in Contents : Put(n, c) \/ PutCompressedFails(n, c)
  <2>1. body' = body
    BY <1>4 DEF Put, PutCompressedFails
  <2>2. Filed(pfs')
    BY <1>4, PutsFile
  <2> QED
    BY <2>1, <2>2
<1>5. CASE \E n \in Names, c \in Contents : \E k \in 0 .. Size[c] - 1 : PutFails(n, c, k)
  <2>1. body' = body
    BY <1>5 DEF PutFails
  <2>2. Filed(pfs')
    BY <1>5, PutsFile
  <2> QED
    BY <2>1, <2>2
<1>6. CASE SaveBegins \/ SaveAgain \/ SaveAborts \/ SaveBuilt \/ TruncateFails \/ Tick
  <2>1. body' = body /\ pfs' = pfs
    BY <1>6 DEF SaveBegins, SaveAgain, SaveAborts, SaveBuilt, TruncateFails, Tick, SaveReturns
  <2> QED
    BY <2>1
<1>7. CASE Truncate \/ Finish \/ FinishFails \/ OtherWrites
  <2>1. pfs' = pfs
    BY <1>7 DEF Truncate, Finish, FinishFails, OtherWrites
  <2>2. \E b : Written(b) /\ (b = Image(pfs) \/ b = Torn \/ b \in OtherArchives)
    BY <1>7 DEF Truncate, Finish, FinishFails, OtherWrites
  <2> QED
    BY <2>1, <2>2, WrittenArchive
<1>8. CASE UNCHANGED vars
  BY <1>8 DEF vars
<1> QED
  BY <1>1, <1>2, <1>3, <1>4, <1>5, <1>6, <1>7, <1>8 DEF Next

LEMMA PlaceStep ==
  ASSUME TimeInv, PlaceInv, [Next]_vars
  PROVE  PlaceInv'
<1>1. CASE Tick
  BY <1>1, PfsAssumption DEF Tick, PlaceInv, TimeInv, Times
<1>2. ASSUME ~Tick
      PROVE  at' \in {"closed", "read", "opened", "saving", "built", "writing"} /\ now' = now
  BY <1>2 DEF Next, vars, file, PlaceInv, Goto, ReadFile, Parse, ParseFails, Close, Put, PutFails,
     PutCompressedFails, SaveReturns, SaveBegins, SaveAgain, SaveAborts, SaveBuilt, Truncate,
     TruncateFails, Finish, FinishFails, OtherWrites
<1> QED
  BY <1>1, <1>2 DEF PlaceInv

\* The entries of a session and its index agree, and whatever is in the file is
\* laid out as pfs_save does or torn; also with failed puts and other writers.
THEOREM PfsInvHolds == Spec => [](TimeInv /\ FiledInv /\ PlaceInv)
<1>1. Init => TimeInv /\ FiledInv /\ PlaceInv
  <2> SUFFICES ASSUME Init
               PROVE  FiledInv /\ PlaceInv
    BY TimeInit
  <2>1. body \in OtherArchives /\ pfs = NoPfs /\ at = "closed" /\ now = 0
    BY DEF Init
  <2>2. Archive(body)
    BY <2>1, OthersLayOut, LayoutIsArchive
  <2> QED
    BY <2>1, <2>2, NothingFiled, PfsAssumption DEF FiledInv, PlaceInv
<1>2. TimeInv /\ FiledInv /\ PlaceInv /\ [Next]_vars => (TimeInv /\ FiledInv /\ PlaceInv)'
  BY TimeStep, FiledStep, PlaceStep
<1> QED
  BY <1>1, <1>2, PTL DEF Spec

\* For any names, contents and writers: no entry without a name, no more entries
\* than names, and no index into entries there are not.
THEOREM PfsTypes == Spec => []TypeOK
<1>1. ASSUME TimeInv, FiledInv, PlaceInv
      PROVE  TypeOK
  <2>1. /\ Len(pfs.entries) <= Cardinality(Names)
        /\ pfs.byName \in [Names -> 0 .. Len(pfs.entries)]
        /\ \A i \in 1 .. Len(pfs.entries) : pfs.entries[i].name \in Names
    BY <1>1, EntriesFit DEF FiledInv
  <2>2. DOMAIN pfs.entries = 1 .. Len(pfs.entries)
    BY <1>1 DEF FiledInv, Filed
  <2>3. {mtime, pfs.modTime} \subseteq 0 .. now /\ now \in 0 .. MaxClock
    BY <1>1, PfsAssumption DEF TimeInv, Times, PlaceInv
  <2> QED
    BY <1>1, <2>1, <2>2, <2>3 DEF TypeOK, PlaceInv
<1> QED
  BY <1>1, PfsInvHolds, PTL

\* pfs_get_or_append_entry and pfs_open keep byName and entries together: a name
\* leads to its entry and every entry is led to, for any archive.
THEOREM IndexesAgree == Spec => []IndexAgrees
<1>1. ASSUME FiledInv
      PROVE  IndexAgrees
  <2>1. DOMAIN pfs.entries = 1 .. Len(pfs.entries) /\ Indexes(pfs.byName, pfs.entries)
    BY <1>1 DEF FiledInv, Filed
  <2> QED
    BY <2>1 DEF Indexes, IndexAgrees
<1> QED
  BY <1>1, PfsInvHolds, PTL

(***************************************************************************)
(* What a put stores                                                       *)
(***************************************************************************)
LEMMA FirstBlock ==
  ASSUME NEW c \in Contents
  PROVE  BlocksOf(c)[1].of = c
<1>1. Size[c] \in Nat \ {0} /\ 1 \in 1 .. Size[c]
  BY BlocksOfTyped
<1>2. BlocksOf(c)[1] = [of |-> c, part |-> 1]
  BY <1>1 DEF BlocksOf
<1> QED
  BY <1>2

LEMMA BlocksTell ==
  ASSUME NEW c \in Contents
  PROVE  ContentOf(BlocksOf(c)) = c
<1>1. ASSUME NEW d \in Contents, BlocksOf(c) = BlocksOf(d)
      PROVE  d = c
  BY <1>1, FirstBlock
<1> QED
  BY <1>1, Zenon DEF ContentOf

LEMMA ContentTyped ==
  ASSUME NEW blocks
  PROVE  ContentOf(blocks) \in Contents \cup {Damaged}
BY Zenon DEF ContentOf

\* What pfs_save would write for the entry e.
EntryContent(p, e) ==
  IF e.ilen = e.dlen THEN ContentOf(SavedData(p, e)) ELSE IF e.dlen = 0 THEN Hollow ELSE Damaged
MapFor(p, n) == IF p.byName[n] = 0 THEN Absent ELSE EntryContent(p, p.entries[p.byName[n]])

LEMMA MapForEach ==
  ASSUME NEW p
  PROVE  MapOf(p) = [n \in Names |-> MapFor(p, n)]
BY Zenon DEF MapOf, MapFor, EntryContent

LEMMA EntryContentTyped ==
  ASSUME NEW p, NEW e
  PROVE  EntryContent(p, e) \in Contents \cup {Damaged, Hollow}
BY ContentTyped, Zenon DEF EntryContent

LEMMA WholeSlice ==
  ASSUME NEW c \in Contents
  PROVE  Slice(BlocksOf(c), 0, Size[c]) = BlocksOf(c) /\ BlocksOf(c) # <<>>
<1>1. PICK s : s = BlocksOf(c)
  OBVIOUS
<1>2. PICK k \in Nat \ {0} : k = Size[c]
  BY BlocksOfTyped
<1>3. s \in Seq(Blocks) /\ Len(s) = k
  BY <1>1, <1>2, BlocksOfTyped
<1>4. Slice(s, 0, k) = s
  BY <1>2, <1>3 DEF Slice
<1> QED
  BY <1>1, <1>2, <1>3, <1>4

\* A put, and one that fails, changes what is stored for its name only.
LEMMA OthersStay ==
  ASSUME NEW p, NEW q, NEW n \in Names, OthersKeep(p, q, n), q.byName[n] # 0
  PROVE  /\ MapFor(q, n) = EntryContent(q, q.entries[q.byName[n]])
         /\ MapFor(q, n) \in Contents \cup {Damaged, Hollow}
         /\ MapOf(q) = [MapOf(p) EXCEPT ![n] = MapFor(q, n)]
<1>1. \A e : EntryContent(q, e) = EntryContent(p, e)
  BY DEF EntryContent, SavedData, OthersKeep
<1>2. \A m \in Names \ {n} : MapFor(q, m) = MapFor(p, m)
  BY <1>1 DEF MapFor, OthersKeep
<1>3. MapOf(q) = [MapOf(p) EXCEPT ![n] = MapFor(q, n)]
  BY <1>2, MapForEach
<1>4. MapFor(q, n) = EntryContent(q, q.entries[q.byName[n]])
  BY DEF MapFor
<1> QED
  BY <1>3, <1>4, EntryContentTyped

\* pfs_put stores, whatever other entries there are and wherever their blocks lie.
LEMMA PutStored ==
  ASSUME FiledInv, NEW n \in Names, NEW c \in Contents, Put(n, c)
  PROVE  MapOf(pfs') = [MapOf(pfs) EXCEPT ![n] = c]
<1>1. Filed(pfs') /\ OthersKeep(pfs, pfs', n) /\ pfs'.byName[n] # 0
  BY PutsFile DEF FiledInv
<1>2. PICK e : /\ e = pfs'.entries[pfs'.byName[n]]
               /\ e.ilen = Size[c] /\ e.dlen = Size[c] /\ e.replacement = BlocksOf(c)
  <2>1. Size[c] \in Nat /\ BlocksOf(c) \in Seq(Blocks)
    BY BlocksOfTyped
  <2>2. Given(n, Size[c], Size[c], BlocksOf(c))
    BY PutsGive DEF FiledInv
  <2> QED
    BY <2>1, <2>2, GivenFiled DEF FiledInv
<1>3. SavedData(pfs', e) = BlocksOf(c)
  BY <1>2, WholeSlice DEF SavedData
<1>4. EntryContent(pfs', e) = c
  BY <1>2, <1>3, BlocksTell DEF EntryContent
<1> QED
  BY <1>1, <1>2, <1>4, OthersStay

\* pfs_put gives the name the content, and leaves what every other name has, for
\* any entries put, failed or read before.
THEOREM PutsStore == Spec => PutStores
<1>1. FiledInv =>
        [\A n \in Names, c \in Contents :
           Put(n, c) => MapOf(pfs)' = [MapOf(pfs) EXCEPT ![n] = c]]_vars
  BY PutStored
<1> QED
  BY <1>1, PfsInvHolds, PTL DEF PutStores

(***************************************************************************)
(* What pfs_open finds in whole files                                      *)
(***************************************************************************)
\* No file is empty, and no two have the same name.
Apart(files) ==
  /\ \A i \in 1 .. Len(files) : Len(files[i].data) # 0
  /\ \A i, j \in 1 .. Len(files) : files[i].name = files[j].name => i = j

\* A file has the length its entry says.
Exact(f) == f.ilen = Len(f.data)
Whole(files) == Apart(files) /\ \A i \in 1 .. Len(files) : Exact(files[i])

\* What each name has in files.
StoredIn(files, n) ==
  IF \E i \in 1 .. Len(files) : files[i].name = n
  THEN ContentOf(files[CHOOSE i \in 1 .. Len(files) : files[i].name = n].data)
  ELSE Absent

\* An ascending order of 1 .. m is the one there is.
LEMMA AscendingIsIdentity ==
  ASSUME NEW m \in Nat, NEW s, \A i \in 1 .. m : s[i] \in 1 .. m,
         \A i, j \in 1 .. m : i < j => s[i] < s[j]
  PROVE  \A i \in 1 .. m : s[i] = i
<1> DEFINE f == [i \in 1 .. m |-> s[i] - i]
<1>1. \A i \in 1 .. m : f[i] = s[i] - i /\ f[i] \in Int
  OBVIOUS
<1>2. ASSUME NEW i \in 1 .. m - 1
      PROVE  f[i] <= f[i + 1]
  <2>1. PICK j \in 1 .. m : j = i + 1
    OBVIOUS
  <2>2. i \in 1 .. m /\ i < j /\ s[i] < s[j] /\ s[i] \in Int /\ s[j] \in Int
    BY <2>1
  <2>3. f[i] = s[i] - i /\ f[j] = s[j] - j
    BY <1>1, <2>2
  <2> HIDE DEF f
  <2>4. f[i] <= f[j]
    BY <2>1, <2>2, <2>3
  <2> QED
    BY <2>1, <2>4
<1> HIDE DEF f
<1>3. \A i, j \in 1 .. m : i <= j => f[i] <= f[j]
  BY <1>1, <1>2, StepsAscend
<1>4. ASSUME NEW i \in 1 .. m
      PROVE  s[i] = i
  <2>1. 1 \in 1 .. m /\ m \in 1 .. m /\ 1 <= i /\ i <= m
    OBVIOUS
  <2>2. f[1] <= f[i] /\ f[i] <= f[m]
    BY <1>3, <2>1
  <2>3. f[1] = s[1] - 1 /\ f[i] = s[i] - i /\ f[m] = s[m] - m
    BY <1>1, <2>1
  <2>4. s[1] \in 1 .. m /\ s[m] \in 1 .. m /\ s[i] \in 1 .. m
    BY <2>1
  <2> QED
    BY <2>2, <2>3, <2>4
<1> QED
  BY <1>4

\* No file lies where another does.
LEMMA OffsetsAscend ==
  ASSUME NEW files \in Seq(File), Apart(files)
  PROVE  \A i, j \in 1 .. Len(files) + 1 : i < j => OffsetOf(files, i) < OffsetOf(files, j)
<1> DEFINE n == Len(files)
           m == n + 1
           off == [i \in 1 .. m |-> OffsetOf(files, i)]
<1>1. n \in Nat /\ m \in Nat
  OBVIOUS
<1>2. \A i \in 1 .. m : off[i] = OffsetOf(files, i) /\ off[i] \in Int
  BY OffsetsTyped
<1>3. ASSUME NEW i \in 1 .. n
      PROVE  off[i] < off[i + 1]
  <2>1. LiesAt(Flat(files, n), files, i) /\ files[i].data \in Seq(Blocks)
    BY FilesTyped
  <2>2. Len(files[i].data) \in Nat /\ Len(files[i].data) # 0
    BY <2>1 DEF Apart
  <2>3. OffsetOf(files, i + 1) = OffsetOf(files, i) + Len(files[i].data)
    BY <2>1 DEF LiesAt
  <2>4. i \in 1 .. m /\ i + 1 \in 1 .. m
    BY <1>1
  <2>5. off[i] = OffsetOf(files, i) /\ off[i + 1] = OffsetOf(files, i + 1) /\ off[i] \in Int
    BY <1>2, <2>4
  <2> HIDE DEF off
  <2> QED
    BY <2>2, <2>3, <2>5
<1> HIDE DEF off
<1>4. \A i, j \in 1 .. m : i <= j => off[i] <= off[j]
  <2>1. \A i \in 1 .. m : off[i] \in Int
    BY <1>2
  <2>2. ASSUME NEW i \in 1 .. m - 1
        PROVE  off[i] <= off[i + 1]
    <3>1. i \in 1 .. n /\ i + 1 \in 1 .. m /\ i \in 1 .. m
      BY <1>1
    <3>2. off[i] < off[i + 1] /\ off[i] \in Int /\ off[i + 1] \in Int
      BY <1>3, <2>1, <3>1
    <3> QED
      BY <3>2
  <2> HIDE DEF m
  <2> QED
    BY <1>1, <2>1, <2>2, StepsAscend
<1>5. ASSUME NEW i \in 1 .. m, NEW j \in 1 .. m, i < j
      PROVE  off[i] < off[j]
  <2>1. i \in 1 .. n /\ i + 1 \in 1 .. m /\ i + 1 <= j
    BY <1>1, <1>5
  <2>2. off[i] < off[i + 1]
    BY <1>3, <2>1
  <2>3. off[i + 1] <= off[j]
    BY <1>4, <2>1
  <2>4. off[i] \in Int /\ off[i + 1] \in Int /\ off[j] \in Int
    BY <1>2, <2>1
  <2> QED
    BY <2>2, <2>3, <2>4
<1> QED
  BY <1>2, <1>5

\* By offset the files are in the order they were written, with the list of
\* names behind them.
LEMMA WrittenOrder ==
  ASSUME NEW files \in Seq(File), Apart(files), NEW b \in Bytes, LaidOut(b, files)
  PROVE  \A i \in 1 .. Len(files) + 1 : ByOffset(Walked(b))[i] = WalkedEntry(DirOf(files)[i])
<1> DEFINE m == Len(files) + 1
           w == Walked(b)
           r == ByOffset(w)
<1>1. Len(b.dir) = m /\ Len(w) = m /\ m \in Nat
      /\ \A i \in 1 .. m : w[i] = WalkedEntry(b.dir[i])
  BY WalkedTyped DEF LaidOut
<1>2. PICK pi : Shuffle(pi, m, 1, m) /\ \A i \in 1 .. m : r[i] = w[pi[i]]
  BY <1>1, WalkedOrdered DEF InOffsetOrder
<1>3. \A i, j \in 1 .. m : i <= j => r[i].offset <= r[j].offset
  BY <1>1, WalkedOrdered DEF InOffsetOrder
<1>4. PICK ro : Shuffle(ro, m, 1, m) /\ \A i \in 1 .. m : b.dir[i] = DirOf(files)[ro[i]]
  BY DEF LaidOut, Rearranged
<1>5. \A i \in 1 .. m : DirOf(files)[i].offset = OffsetOf(files, i) /\ OffsetOf(files, i) \in Nat
  BY DirTyped, OffsetsTyped
<1>6. \A i, j \in 1 .. m : i < j => OffsetOf(files, i) < OffsetOf(files, j)
  BY OffsetsAscend
<1> HIDE DEF w, r, m
<1>7. \A i \in 1 .. m : pi[i] \in 1 .. m /\ ro[i] \in 1 .. m
  BY <1>2, <1>4 DEF Shuffle
<1>8. \A i, j \in 1 .. m : (pi[i] = pi[j] => i = j) /\ (ro[i] = ro[j] => i = j)
  BY <1>2, <1>4 DEF Shuffle
<1> DEFINE s == [i \in 1 .. m |-> ro[pi[i]]]
<1>9. \A i \in 1 .. m : s[i] = ro[pi[i]] /\ s[i] \in 1 .. m
  BY <1>7
<1> HIDE DEF s
<1>10. ASSUME NEW i \in 1 .. m
       PROVE  r[i] = WalkedEntry(DirOf(files)[s[i]])
  <2>1. pi[i] \in 1 .. m
    BY <1>7
  <2>2. r[i] = WalkedEntry(b.dir[pi[i]]) /\ b.dir[pi[i]] = DirOf(files)[ro[pi[i]]]
    BY <1>1, <1>2, <1>4, <2>1
  <2> QED
    BY <1>9, <2>2
<1>11. \A i \in 1 .. m : r[i].offset = OffsetOf(files, s[i])
  <2>1. \A d : WalkedEntry(d).offset = d.offset
    BY DEF WalkedEntry
  <2> QED
    BY <1>5, <1>9, <1>10, <2>1
<1>12. ASSUME NEW i \in 1 .. m, NEW j \in 1 .. m, i < j
       PROVE  s[i] < s[j]
  <2>1. s[i] # s[j]
    BY <1>7, <1>8, <1>9, <1>12
  <2>2. OffsetOf(files, s[i]) <= OffsetOf(files, s[j])
    BY <1>3, <1>11, <1>12
  <2>3. s[i] \in 1 .. m /\ s[j] \in 1 .. m
    BY <1>9
  <2>4. ~(s[j] < s[i])
    <3>1. OffsetOf(files, s[i]) \in Nat /\ OffsetOf(files, s[j]) \in Nat
      BY <1>5, <2>3
    <3> QED
      BY <1>6, <2>2, <2>3, <3>1
  <2> QED
    BY <1>1, <2>1, <2>3, <2>4
<1>13. \A i \in 1 .. m : s[i] = i
  BY <1>1, <1>9, <1>12, AscendingIsIdentity
<1> QED
  BY <1>10, <1>13 DEF m, r, w

\* The list of names is found behind files of any lengths.
LEMMA ApartLists ==
  ASSUME NEW files \in Seq(File), Apart(files), NEW b \in Bytes, LaidOut(b, files)
  PROVE  ListOf(b) = NamesIn(files)
<1> DEFINE m == Len(files) + 1
<1>1. m \in 1 .. m /\ Len(b.dir) = m
  BY DEF LaidOut
<1>2. ByOffset(Walked(b))[m] = WalkedEntry(DirOf(files)[m]) /\ DirOf(files)[m] = PlacedNames(files)
  BY <1>1, WrittenOrder, DirTyped
<1>3. ByOffset(Walked(b))[Len(b.dir)].ilen = 1
  BY <1>1, <1>2 DEF WalkedEntry, PlacedNames
<1> QED
  BY <1>3, ListsNames

\* pfs_open accepts what pfs_save wrote of whole files.
LEMMA WholeOpens ==
  ASSUME NEW files \in Seq(File), Whole(files), NEW b \in Bytes, LaidOut(b, files)
  PROVE  Opens(b) /\ ListOf(b) = NamesIn(files)
<1> DEFINE n == Len(files)
           m == n + 1
           end == OffsetOf(files, m)
<1>1. n \in Nat /\ m \in 1 .. m /\ b.dir \in Seq(DirEntry) /\ Len(b.dir) = m
  BY DEF LaidOut
<1>2. b.area \in Seq(Blocks) /\ Len(b.area) = end + 1 /\ end \in Nat
  <2>1. b.area = Append(Flat(files, n), NamesBlock(NamesIn(files)))
    BY DEF LaidOut
  <2> QED
    BY <2>1, FilesTyped DEF Bytes
<1>3. ListOf(b) = NamesIn(files)
  BY ApartLists DEF Whole
<1>4. ASSUME NEW i \in 1 .. m
      PROVE  DirOf(files)[i].offset + DirOf(files)[i].ilen <= end + 1
  <2>1. CASE i \in 1 .. n
    <3>1. DirOf(files)[i].offset = OffsetOf(files, i) /\ DirOf(files)[i].ilen = files[i].ilen
      <4>1. DirOf(files)[i] = Placed(files, i)
        BY <2>1, DirTyped
      <4> QED
        BY <4>1 DEF Placed
    <3>2. /\ files[i].ilen = Len(files[i].data)
          /\ OffsetOf(files, i) \in Nat /\ Len(files[i].data) \in Nat
          /\ OffsetOf(files, i) + Len(files[i].data) <= end
      <4>1. LiesAt(Flat(files, n), files, i) /\ files[i].data \in Seq(Blocks)
            /\ end = Len(Flat(files, n))
        BY <2>1, FilesTyped
      <4>2. files[i].ilen = Len(files[i].data)
        BY <2>1 DEF Whole, Exact
      <4> QED
        BY <4>1, <4>2 DEF LiesAt
    <3> HIDE DEF end
    <3> QED
      BY <1>2, <3>1, <3>2
  <2>2. CASE i = m
    <3>1. DirOf(files)[m] = PlacedNames(files)
      BY DirTyped
    <3> QED
      BY <1>2, <2>2, <3>1 DEF PlacedNames
  <2> QED
    BY <1>1, <2>1, <2>2
<1>5. \A i \in DOMAIN b.dir : b.dir[i].offset + b.dir[i].ilen <= Len(b.area)
  <2>1. PICK ro : Shuffle(ro, m, 1, m) /\ \A i \in 1 .. m : b.dir[i] = DirOf(files)[ro[i]]
    BY DEF LaidOut, Rearranged
  <2>2. \A i \in 1 .. m : ro[i] \in 1 .. m
    BY <2>1 DEF Shuffle
  <2>3. DOMAIN b.dir = 1 .. m
    BY <1>1
  <2> HIDE DEF m, end
  <2> QED
    BY <1>2, <1>4, <2>1, <2>2, <2>3
<1>6. /\ Range(NamesIn(files)) \subseteq Names /\ Len(NamesIn(files)) < m
      /\ NoDuplicates(NamesIn(files))
  <2>1. \A i \in 1 .. n : files[i].name \in Names
    BY FilesTyped DEF File
  <2>2. \A i, j \in 1 .. n : files[i].name = files[j].name => i = j
    BY DEF Whole, Apart
  <2>3. PICK l : l = NamesIn(files) /\ DOMAIN l = 1 .. n /\ \A i \in 1 .. n : l[i] = files[i].name
    <3>1. DOMAIN NamesIn(files) = 1 .. n /\ \A i \in 1 .. n : NamesIn(files)[i] = files[i].name
      BY DEF NamesIn
    <3> QED
      BY <3>1
  <2>4. Len(NamesIn(files)) = n
    BY <1>1 DEF NamesIn
  <2>5. n < m
    BY <1>1
  <2>6. Range(l) \subseteq Names
    BY <2>1, <2>3 DEF Range
  <2>7. NoDuplicates(l)
    BY <2>2, <2>3 DEF NoDuplicates
  <2> QED
    BY <2>3, <2>4, <2>5, <2>6, <2>7
<1>7. b.dir # <<>>
  BY <1>1
<1> QED
  BY <1>1, <1>3, <1>5, <1>6, <1>7 DEF Opens

LEMMA SameMap ==
  ASSUME NEW p, NEW q, p.raw = q.raw, p.entries = q.entries, p.byName = q.byName
  PROVE  MapOf(p) = MapOf(q)
BY DEF MapOf, SavedData

\* The session an archive is opened to, whatever its time.
OpenedAt(b, t) == [raw |-> b, modTime |-> t, entries |-> Opened(b).entries, byName |-> Opened(b).byName]

LEMMA FoundInOpened ==
  ASSUME NEW b, Opens(b), NEW t
  PROVE  MapIn(b) = MapOf(OpenedAt(b, t)) /\ OpenedAt(b, t).raw = b
         /\ OpenedAt(b, t).entries = Named(b) /\ OpenedAt(b, t).byName = IndexOf(ListOf(b))
<1>1. /\ Opened(b).raw = b /\ Opened(b).entries = Named(b) /\ Opened(b).byName = IndexOf(ListOf(b))
      /\ OpenedAt(b, t).raw = b /\ OpenedAt(b, t).entries = Named(b)
      /\ OpenedAt(b, t).byName = IndexOf(ListOf(b))
  BY DEF Opened, OpenedAt
<1>2. MapOf(Opened(b)) = MapOf(OpenedAt(b, t))
  BY <1>1, SameMap
<1> QED
  BY <1>1, <1>2 DEF MapIn

\* If pfs_open accepts what pfs_save wrote, it finds every file that has the
\* length its entry says, in whatever order the crcs put the directory and
\* whatever the entries of the other files say.
LEMMA ApartReads ==
  ASSUME NEW files \in Seq(File), Apart(files), Opens(Layout(files)), NEW n \in Names,
         \A i \in 1 .. Len(files) : files[i].name = n => Exact(files[i])
  PROVE  MapIn(Layout(files))[n] = StoredIn(files, n)
<1> DEFINE b == Layout(files)
           k == Len(files)
           p == OpenedAt(b, 0)
<1>1. b \in Bytes /\ LaidOut(b, files)
  BY LayoutLaysOut
<1>2. Archive(b)
  BY LayoutIsArchive
<1>3. Opens(b) /\ ListOf(b) = NamesIn(files)
  BY <1>1, ApartLists
<1> HIDE DEF b
<1>4. MapIn(b) = MapOf(p) /\ p.raw = b /\ p.entries = Named(b)
  BY <1>3, FoundInOpened
<1>5. Filed(p)
  <2>1. 0 \in Nat
    OBVIOUS
  <2> QED
    BY <1>2, <1>3, <2>1, OpenedFiled, Zenon DEF OpenedAt
<1>6. k \in Nat /\ Len(b.dir) = k + 1 /\ Len(b.dir) - 1 = k
  BY <1>1 DEF LaidOut
<1>7. ASSUME NEW i \in 1 .. k
      PROVE  /\ p.entries[i].name = files[i].name
             /\ files[i].name = n => EntryContent(p, p.entries[i]) = ContentOf(files[i].data)
  <2>1. i \in 1 .. Len(b.dir) - 1 /\ i \in 1 .. k + 1
    BY <1>6
  <2>2. p.entries[i] = [ByOffset(Walked(b))[i] EXCEPT !.name = ListOf(b)[i]]
    BY <1>2, <1>3, <1>4, <2>1, NamedTyped
  <2>3. ByOffset(Walked(b))[i] = WalkedEntry(DirOf(files)[i]) /\ DirOf(files)[i] = Placed(files, i)
    BY <1>1, <2>1, WrittenOrder, DirTyped
  <2>4. ListOf(b)[i] = files[i].name
    BY <1>3 DEF NamesIn
  <2>5. files[i].name = n => files[i].ilen = Len(files[i].data)
    BY DEF Exact
  <2>6. PICK e : /\ e = p.entries[i] /\ e.name = files[i].name /\ e.replacement = <<>>
                 /\ e.offset = OffsetOf(files, i)
                 /\ e.ilen = files[i].ilen /\ e.dlen = files[i].ilen
    <3>1. PICK d : d = WalkedEntry(DirOf(files)[i]) /\ d.replacement = <<>>
             /\ d.offset = OffsetOf(files, i) /\ d.ilen = files[i].ilen /\ d.dlen = files[i].ilen
      BY <2>3 DEF WalkedEntry, Placed
    <3>2. DOMAIN d = {"crc", "offset", "ilen", "dlen", "name", "replacement"}
      BY <3>1 DEF WalkedEntry
    <3> QED
      BY <2>2, <2>3, <2>4, <3>1, <3>2
  <2>7. Slice(b.area, OffsetOf(files, i), Len(files[i].data)) = files[i].data
    <3>1. PICK x : x = files[i].data /\ x \in Seq(Blocks)
      BY FilesTyped
    <3>2. PICK a : a = Flat(files, k) /\ a \in Seq(Blocks) /\ LiesAt(a, files, i)
      BY FilesTyped
    <3>3. b.area = Append(a, NamesBlock(NamesIn(files)))
      BY <1>1, <3>2 DEF LaidOut
    <3>4. PICK o \in Nat : /\ o = OffsetOf(files, i) /\ o + Len(x) <= Len(a)
                           /\ \A j \in 1 .. Len(x) : a[o + j] = x[j]
      BY <3>1, <3>2 DEF LiesAt
    <3>5. ASSUME NEW j \in 1 .. Len(x)
          PROVE  o + j <= Len(b.area) /\ b.area[o + j] = x[j]
      <4>1. o + j \in 1 .. Len(a) /\ Len(x) \in Nat
        BY <3>1, <3>2, <3>4
      <4>2. b.area[o + j] = a[o + j] /\ Len(b.area) = Len(a) + 1
        BY <3>2, <3>3, <4>1
      <4> QED
        BY <3>2, <3>4, <4>1, <4>2
    <3>6. Slice(b.area, o, Len(x)) = [j \in 1 .. Len(x) |-> x[j]]
      BY <3>5, Zenon DEF Slice
    <3>7. [j \in 1 .. Len(x) |-> x[j]] = x
      BY <3>1
    <3> QED
      BY <3>1, <3>4, <3>6, <3>7
  <2>8. files[i].name = n => SavedData(p, e) = files[i].data
    BY <1>4, <2>5, <2>6, <2>7 DEF SavedData
  <2> QED
    BY <2>6, <2>8 DEF EntryContent
<1>8. Len(p.entries) = k
  BY <1>2, <1>3, <1>4, <1>6, NamedTyped
<1>9. /\ p.byName[n] # 0 => p.byName[n] \in 1 .. k /\ p.entries[p.byName[n]].name = n
      /\ \A i \in 1 .. k : p.byName[p.entries[i].name] = i
  BY <1>5, <1>8 DEF Filed, Indexes
<1> HIDE DEF p
<1>10. MapFor(p, n) = StoredIn(files, n)
  <2>1. CASE p.byName[n] = 0
    <3>1. ~ \E i \in 1 .. k : files[i].name = n
      BY <1>7, <1>9, <2>1
    <3> QED
      BY <2>1, <3>1 DEF MapFor, StoredIn
  <2>2. CASE p.byName[n] # 0
    <3>1. PICK i \in 1 .. k : i = p.byName[n] /\ files[i].name = n
      BY <1>7, <1>9, <2>2
    <3>2. \A j \in 1 .. k : files[j].name = n => j = i
      BY <1>7, <1>9, <3>1
    <3>3. StoredIn(files, n) = ContentOf(files[i].data)
      <4>1. (CHOOSE j \in 1 .. k : files[j].name = n) = i
        BY <3>1, <3>2
      <4> QED
        BY <3>1, <4>1, Zenon DEF StoredIn
    <3> QED
      BY <1>7, <2>2, <3>1, <3>3 DEF MapFor
  <2> QED
    BY <2>1, <2>2
<1> QED
  BY <1>4, <1>10, MapForEach DEF b

(***************************************************************************)
(* No entry is of length 0                                                 *)
(***************************************************************************)
DirLong(b) == \A i \in 1 .. Len(b.dir) : b.dir[i].ilen # 0
EntriesLong(p) == \A i \in 1 .. Len(p.entries) : p.entries[i].ilen # 0
LongInv == DirLong(body) /\ DirLong(pfs.raw) /\ EntriesLong(pfs)

\* The lengths of an entry that has been read are those of the directory.
LEMMA NamedLengths ==
  ASSUME NEW b, Archive(b), Opens(b), NEW i \in 1 .. Len(b.dir) - 1
  PROVE  \E j \in 1 .. Len(b.dir) :
           Named(b)[i].ilen = b.dir[j].ilen /\ Named(b)[i].dlen = b.dir[j].ilen
<1> DEFINE m == Len(b.dir)
           w == Walked(b)
           r == ByOffset(w)
<1>1. b \in Bytes /\ m \in Nat /\ i \in 1 .. m /\ Len(w) = m
      /\ \A j \in 1 .. m : w[j] = WalkedEntry(b.dir[j])
  <2>1. b \in Bytes /\ m \in Nat
    BY DEF Archive, Bytes
  <2> QED
    BY <2>1, WalkedTyped
<1>2. PICK pi : Shuffle(pi, m, 1, m) /\ \A j \in 1 .. m : r[j] = w[pi[j]]
  BY <1>1, WalkedOrdered DEF InOffsetOrder
<1>3. PICK d, j : j = pi[i] /\ j \in 1 .. m /\ d = WalkedEntry(b.dir[j]) /\ d = r[i]
  <2>1. pi[i] \in 1 .. m
    BY <1>1, <1>2 DEF Shuffle
  <2> QED
    BY <1>1, <1>2, <2>1
<1>4. Named(b)[i] = [d EXCEPT !.name = ListOf(b)[i]]
  BY <1>3, NamedTyped
<1>5. d.ilen = b.dir[j].ilen /\ d.dlen = b.dir[j].ilen
      /\ DOMAIN d = {"crc", "offset", "ilen", "dlen", "name", "replacement"}
  BY <1>3 DEF WalkedEntry
<1>6. Named(b)[i].ilen = b.dir[j].ilen /\ Named(b)[i].dlen = b.dir[j].ilen
  BY <1>4, <1>5
<1> QED
  BY <1>3, <1>6

LEMMA LayoutLong ==
  ASSUME NEW files \in Seq(File), \A i \in 1 .. Len(files) : files[i].ilen # 0
  PROVE  DirLong(Layout(files))
<1> DEFINE m == Len(files) + 1
<1>1. PICK b : b = Layout(files) /\ LaidOut(b, files)
  BY LayoutLaysOut
<1>2. PICK ro : Shuffle(ro, m, 1, m) /\ \A i \in 1 .. m : b.dir[i] = DirOf(files)[ro[i]]
  BY <1>1 DEF LaidOut, Rearranged
<1>3. ASSUME NEW i \in 1 .. m
      PROVE  DirOf(files)[i].ilen # 0
  <2>1. CASE i \in 1 .. Len(files)
    <3>1. DirOf(files)[i] = Placed(files, i) /\ files[i].ilen # 0
      BY <2>1, DirTyped
    <3> QED
      BY <3>1 DEF Placed
  <2>2. CASE i = m
    <3>1. DirOf(files)[i] = PlacedNames(files)
      BY <2>2, DirTyped
    <3> QED
      BY <3>1 DEF PlacedNames
  <2> QED
    BY <2>1, <2>2
<1>4. \A i \in 1 .. m : ro[i] \in 1 .. m
  BY <1>2 DEF Shuffle
<1>5. Len(b.dir) = m
  BY <1>1 DEF LaidOut
<1> HIDE DEF m
<1>6. \A i \in 1 .. m : b.dir[i].ilen # 0
  BY <1>2, <1>3, <1>4
<1> QED
  BY <1>1, <1>5, <1>6 DEF DirLong

LEMMA OthersLong ==
  ASSUME NEW b \in OtherArchives
  PROVE  DirLong(b)
<1>1. PICK files \in Seq(File) :
        b = Layout(files) /\ \A i \in 1 .. Len(files) : files[i] = OtherFile(files[i].name)
  BY OthersLayOut
<1>2. ASSUME NEW i \in 1 .. Len(files)
      PROVE  files[i].ilen # 0
  <2>1. PICK n \in Names : files[i] = OtherFile(n)
    BY <1>1, FilesTyped DEF File
  <2>2. OtherContent[n] \in Contents
    BY PfsAssumption
  <2>3. Size[OtherContent[n]] # 0
    BY <2>2, BlocksOfTyped
  <2> QED
    BY <2>1, <2>3 DEF OtherFile
<1> QED
  BY <1>1, <1>2, LayoutLong

LEMMA ImageLong ==
  ASSUME NEW p, Filed(p), EntriesLong(p)
  PROVE  DirLong(Image(p))
<1>1. /\ ImageFiles(p) \in Seq(File) /\ Len(ImageFiles(p)) = Len(p.entries)
      /\ Image(p) = Layout(ImageFiles(p))
      /\ \A i \in 1 .. Len(p.entries) : ImageFiles(p)[i] = ImageFile(p, i)
  BY ImageTyped
<1>2. \A i \in 1 .. Len(p.entries) : ImageFile(p, i).ilen = p.entries[i].ilen
  BY DEF ImageFile
<1>3. \A i \in 1 .. Len(ImageFiles(p)) : ImageFiles(p)[i].ilen # 0
  BY <1>1, <1>2 DEF EntriesLong
<1> QED
  BY <1>1, <1>3, LayoutLong

\* A put gives its entry the length of a content.
LEMMA PutsLong ==
  ASSUME Filed(pfs), EntriesLong(pfs), NEW n \in Names, NEW c \in Contents,
         Put(n, c) \/ PutCompressedFails(n, c) \/ \E k \in 0 .. Size[c] - 1 : PutFails(n, c, k)
  PROVE  EntriesLong(pfs')
<1>1. Size[c] \in Nat \ {0} /\ BlocksOf(c) \in Seq(Blocks) /\ <<>> \in Seq(Blocks)
      /\ \A k \in 0 .. Size[c] - 1 : SubSeq(BlocksOf(c), 1, k) \in Seq(Blocks)
  <2>1. Size[c] \in Nat \ {0} /\ BlocksOf(c) \in Seq(Blocks) /\ Len(BlocksOf(c)) = Size[c]
    BY BlocksOfTyped
  <2> QED
    BY <2>1
<1>2. \E dlen \in Nat, rep \in Seq(Blocks) : Given(n, Size[c], dlen, rep)
  BY <1>1, PutsGive
<1>3. /\ Filed(pfs') /\ OthersKeep(pfs, pfs', n)
      /\ \E e : e = pfs'.entries[pfs'.byName[n]] /\ e.ilen = Size[c]
  BY <1>1, <1>2, GivenFiled
<1>4. ASSUME NEW i \in 1 .. Len(pfs'.entries)
      PROVE  pfs'.entries[i].ilen # 0
  <2>1. PICK m \in Names : m = pfs'.entries[i].name
    <3>1. pfs'.entries[i] \in Entry
      BY <1>3 DEF Filed
    <3> QED
      BY <3>1 DEF Entry
  <2>2. pfs'.byName[m] = i /\ i # 0
    BY <1>3, <2>1 DEF Filed, Indexes
  <2>3. CASE m = n
    BY <1>1, <1>3, <2>2, <2>3
  <2>4. CASE m # n
    <3>1. pfs.byName[m] = i /\ pfs'.entries[i] = pfs.entries[i]
      BY <1>3, <2>2, <2>4 DEF OthersKeep
    <3>2. i \in 1 .. Len(pfs.entries)
      BY <2>2, <3>1 DEF Filed, Indexes
    <3> QED
      BY <3>1, <3>2 DEF EntriesLong
  <2> QED
    BY <2>3, <2>4
<1> QED
  BY <1>4 DEF EntriesLong

LEMMA NothingLong ==
  DirLong(Torn) /\ EntriesLong(NoPfs) /\ NoPfs.raw = Torn
  /\ \A b : [NoPfs EXCEPT !.raw = b].raw = b /\ EntriesLong([NoPfs EXCEPT !.raw = b])
BY DEF DirLong, EntriesLong, Torn, NoPfs

LEMMA LongStep ==
  ASSUME FiledInv, LongInv, [Next]_vars
  PROVE  LongInv'
<1> USE DEF FiledInv, LongInv, file
<1>1. CASE ReadFile
  BY <1>1, NothingLong DEF ReadFile
<1>2. CASE ParseFails \/ Close
  BY <1>2, NothingLong DEF ParseFails, Close
<1>3. CASE Parse
  <2>1. /\ body' = body /\ Opens(pfs.raw)
        /\ pfs'.raw = pfs.raw /\ pfs'.entries = Named(pfs.raw)
    BY <1>3 DEF Parse, Opened
  <2>2. PICK b : b = pfs.raw /\ Archive(b) /\ Opens(b) /\ DirLong(b)
    BY <2>1 DEF Filed, Archive
  <2>3. Len(Named(b)) = Len(b.dir) - 1
    BY <2>2, NamedTyped
  <2>4. \A i \in 1 .. Len(b.dir) - 1 : Named(b)[i].ilen # 0
    BY <2>2, NamedLengths DEF DirLong
  <2>5. EntriesLong(pfs')
    BY <2>1, <2>2, <2>3, <2>4 DEF EntriesLong
  <2> QED
    BY <2>1, <2>5
<1>4. ASSUME NEW n \in Names, NEW c \in Contents,
             Put(n, c) \/ PutCompressedFails(n, c) \/ \E k \in 0 .. Size[c] - 1 : PutFails(n, c, k)
      PROVE  LongInv'
  <2>1. body' = body
    BY <1>4 DEF Put, PutCompressedFails, PutFails
  <2>2. pfs'.raw = pfs.raw
    BY <1>4, PutsFile DEF OthersKeep
  <2>3. EntriesLong(pfs')
    BY <1>4, PutsLong
  <2> QED
    BY <2>1, <2>2, <2>3
<1>5. CASE SaveBegins \/ SaveAgain \/ SaveAborts \/ SaveBuilt \/ TruncateFails \/ Tick
  BY <1>5 DEF SaveBegins, SaveAgain, SaveAborts, SaveBuilt, TruncateFails, Tick, SaveReturns
<1>6. CASE Truncate \/ Finish \/ FinishFails \/ OtherWrites
  <2>1. pfs' = pfs
    BY <1>6 DEF Truncate, Finish, FinishFails, OtherWrites
  <2>2. body' = Image(pfs) \/ body' = Torn \/ body' \in OtherArchives
    BY <1>6 DEF Truncate, Finish, FinishFails, OtherWrites, Written
  <2>3. DirLong(body')
    BY <2>2, ImageLong, OthersLong, NothingLong
  <2> QED
    BY <2>1, <2>3
<1>7. CASE UNCHANGED vars
  BY <1>7 DEF vars
<1> QED
  BY <1>1, <1>2, <1>3, <1>4, <1>5, <1>6, <1>7 DEF Next

\* Neither a content nor the list of names has no blocks, so no entry has the
\* inflated length 0, put, failed or read.
THEOREM NoEntryEmpty == Spec => []LongInv
<1>1. Init => LongInv
  BY OthersLong, NothingLong DEF Init, LongInv
<1>2. FiledInv /\ LongInv /\ [Next]_vars => LongInv'
  BY LongStep
<1> QED
  BY <1>1, <1>2, PfsInvHolds, PTL DEF Spec

(***************************************************************************)
(* The map and its copy                                                    *)
(***************************************************************************)
\* A put that fails leaves its name hollow only if it has had no bytes before.
LEMMA PutsHollow ==
  ASSUME Filed(pfs), EntriesLong(pfs), NEW n \in Names, NEW c \in Contents,
         Put(n, c) \/ PutCompressedFails(n, c) \/ \E k \in 0 .. Size[c] - 1 : PutFails(n, c, k),
         MapFor(pfs', n) = Hollow
  PROVE  MapFor(pfs, n) \in {Absent, Hollow}
<1>1. Size[c] \in Nat \ {0} /\ BlocksOf(c) \in Seq(Blocks) /\ <<>> \in Seq(Blocks)
      /\ \A k \in 0 .. Size[c] - 1 : SubSeq(BlocksOf(c), 1, k) \in Seq(Blocks)
  <2>1. Size[c] \in Nat \ {0} /\ BlocksOf(c) \in Seq(Blocks) /\ Len(BlocksOf(c)) = Size[c]
    BY BlocksOfTyped
  <2> QED
    BY <2>1
<1>2. PICK e : e = pfs'.entries[pfs'.byName[n]] /\ MapFor(pfs', n) = EntryContent(pfs', e)
  BY PutsFile DEF MapFor
<1>3. ContentOf(SavedData(pfs', e)) # Hollow
  BY ContentTyped, PfsAssumption DEF Damaged, Hollow
<1>4. e.ilen # e.dlen /\ e.dlen = 0
  BY <1>2, <1>3 DEF EntryContent, Damaged, Hollow
<1>5. ASSUME NEW dlen \in Nat, NEW rep \in Seq(Blocks), Given(n, Size[c], dlen, rep)
      PROVE  dlen = 0
  BY <1>1, <1>2, <1>4, <1>5, GivenFiled
<1>6. PICK dlen \in Nat : dlen = 0 /\ (pfs.byName[n] # 0 => dlen = pfs.entries[pfs.byName[n]].dlen)
  BY <1>1, <1>5, PutsGive
<1>7. CASE pfs.byName[n] = 0
  BY <1>7 DEF MapFor
<1>8. CASE pfs.byName[n] # 0
  <2>1. PICK d : d = pfs.entries[pfs.byName[n]] /\ d.dlen = 0 /\ d.ilen # 0
    BY <1>6, <1>8 DEF Filed, Indexes, EntriesLong
  <2> QED
    BY <1>8, <2>1 DEF MapFor, EntryContent
<1> QED
  BY <1>7, <1>8

\* A session without a hollow entry is saved as it is, its damaged names
\* excepted; or what is saved does not open, and there is a damaged name.
LEMMA FilledSaves ==
  ASSUME NEW p, Filed(p), EntriesLong(p), \A n \in Names : MapOf(p)[n] # Hollow
  PROVE  \/ Opens(Image(p)) /\ \A n \in Names :
              MapOf(p)[n] # Damaged => MapIn(Image(p))[n] = MapOf(p)[n]
         \/ ~Opens(Image(p)) /\ \E n \in Names : MapOf(p)[n] = Damaged
<1> DEFINE files == ImageFiles(p)
           k == Len(p.entries)
<1>1. /\ files \in Seq(File) /\ Len(files) = k /\ Image(p) = Layout(files)
      /\ \A i \in 1 .. k : files[i] = ImageFile(p, i)
  BY ImageTyped
<1>2. /\ p.raw \in Bytes /\ p.entries \in Seq(Entry)
      /\ \A n \in Names : p.byName[n] # 0 =>
           p.byName[n] \in 1 .. k /\ p.entries[p.byName[n]].name = n
      /\ \A i \in 1 .. k : p.byName[p.entries[i].name] = i
  BY DEF Filed, Indexes
<1> HIDE DEF files
<1>3. ASSUME NEW i \in 1 .. k
      PROVE  /\ files[i].name = p.entries[i].name /\ files[i].data = SavedData(p, p.entries[i])
             /\ files[i].ilen = p.entries[i].ilen
             /\ p.entries[i].name \in Names /\ p.entries[i] \in Entry
  <2>1. p.entries[i] \in Entry
    BY <1>2
  <2>2. p.entries[i].name \in Names
    BY <2>1 DEF Entry
  <2>3. files[i] = ImageFile(p, i)
    BY <1>1
  <2>4. /\ files[i].name = p.entries[i].name /\ files[i].data = SavedData(p, p.entries[i])
        /\ files[i].ilen = p.entries[i].ilen
    BY <2>3 DEF ImageFile
  <2> QED
    BY <2>1, <2>2, <2>4
<1>4. ASSUME NEW i \in 1 .. k
      PROVE  /\ Len(files[i].data) # 0
             /\ MapFor(p, files[i].name) # Damaged =>
                  MapFor(p, files[i].name) = ContentOf(files[i].data) /\ Exact(files[i])
  <2>1. PICK e, n : e = p.entries[i] /\ n = e.name /\ e \in Entry /\ n \in Names
    BY <1>3
  <2>2. p.byName[n] = i /\ i # 0
    BY <1>2, <2>1
  <2>3. MapFor(p, n) = EntryContent(p, e)
    BY <2>1, <2>2 DEF MapFor
  <2>4. MapFor(p, n) # Hollow
    BY <2>1, MapForEach
  <2>5. Len(SavedData(p, e)) = e.dlen
    BY <1>2, <2>1, SavedTyped
  <2>6. e.ilen # 0
    BY <2>1 DEF EntriesLong
  <2>7. e.dlen # 0
    BY <2>3, <2>4, <2>6 DEF EntryContent
  <2>8. MapFor(p, n) # Damaged => MapFor(p, n) = ContentOf(SavedData(p, e)) /\ e.ilen = e.dlen
    BY <2>3, <2>7 DEF EntryContent
  <2> QED
    BY <1>3, <2>1, <2>5, <2>7, <2>8 DEF Exact
<1>5. Apart(files)
  <2>1. ASSUME NEW i \in 1 .. k, NEW j \in 1 .. k, files[i].name = files[j].name
        PROVE  i = j
    BY <1>2, <1>3, <2>1
  <2> QED
    BY <1>1, <1>4, <2>1 DEF Apart
<1>6. ASSUME NEW n \in Names, MapFor(p, n) # Damaged
      PROVE  StoredIn(files, n) = MapFor(p, n)
  <2>1. CASE p.byName[n] = 0
    <3>1. ~ \E i \in 1 .. k : files[i].name = n
      BY <1>2, <1>3, <2>1
    <3> QED
      BY <1>1, <2>1, <3>1 DEF MapFor, StoredIn
  <2>2. CASE p.byName[n] # 0
    <3>1. PICK i \in 1 .. k : i = p.byName[n] /\ files[i].name = n
      BY <1>2, <1>3, <2>2
    <3>2. (CHOOSE j \in 1 .. k : files[j].name = n) = i
      BY <1>2, <1>3, <3>1
    <3>3. StoredIn(files, n) = ContentOf(files[i].data)
      BY <1>1, <3>1, <3>2, Zenon DEF StoredIn
    <3> QED
      BY <1>4, <1>6, <3>1, <3>3
  <2> QED
    BY <2>1, <2>2
<1>7. CASE Opens(Image(p))
  <2>1. ASSUME NEW n \in Names, MapOf(p)[n] # Damaged
        PROVE  MapIn(Image(p))[n] = MapOf(p)[n]
    <3>1. MapFor(p, n) = MapOf(p)[n]
      BY MapForEach
    <3>2. \A i \in 1 .. Len(files) : files[i].name = n => Exact(files[i])
      BY <1>1, <1>4, <2>1, <3>1
    <3>3. MapIn(Image(p))[n] = StoredIn(files, n)
      BY <1>1, <1>5, <1>7, <3>2, ApartReads
    <3> QED
      BY <1>6, <2>1, <3>1, <3>3
  <2> QED
    BY <1>7, <2>1
<1>8. CASE ~Opens(Image(p))
  <2>1. ASSUME \A n \in Names : MapOf(p)[n] # Damaged
        PROVE  FALSE
    <3>1. \A n \in Names : MapFor(p, n) # Damaged
      BY <2>1, MapForEach
    <3>2. \A i \in 1 .. Len(files) : Exact(files[i])
      BY <1>1, <1>3, <1>4, <3>1
    <3>3. Whole(files)
      BY <1>5, <3>2 DEF Whole
    <3>4. Layout(files) \in Bytes /\ LaidOut(Layout(files), files)
      BY <1>1, LayoutLaysOut
    <3> QED
      BY <1>1, <1>8, <3>3, <3>4, WholeOpens
  <2> QED
    BY <1>8, <2>1
<1> QED
  BY <1>7, <1>8

LEMMA MapTyped ==
  ASSUME NEW p
  PROVE  MapOf(p) \in [Names -> Contents \cup {Absent, Damaged, Hollow}]
<1>1. \A n \in Names : MapFor(p, n) \in Contents \cup {Absent, Damaged, Hollow}
  BY EntryContentTyped DEF MapFor
<1> QED
  BY <1>1, MapForEach

\* An archive is neither what a torn file nor what no session is taken for.
LEMMA MapsDiffer ==
  ASSUME NEW m \in [Names -> Contents \cup {Absent, Damaged, Hollow}]
  PROVE  m # NoArchive /\ m # Closed
<1>1. PICK n \in Names : TRUE
  BY PfsAssumption
<1>2. m[n] # "torn" /\ m[n] # "closed"
  BY PfsAssumption DEF Absent, Damaged, Hollow
<1>3. NoArchive[n] = "torn" /\ Closed[n] = "closed"
  BY DEF NoArchive, Closed
<1> QED
  BY <1>2, <1>3

\* No name is hollow in what has been read.
LEMMA FoundTyped ==
  ASSUME NEW b, Archive(b), Opens(b)
  PROVE  MapIn(b) \in [Names -> Contents \cup {Absent, Damaged}]
<1> DEFINE p == OpenedAt(b, 0)
<1>1. MapIn(b) = MapOf(p) /\ p.entries = Named(b)
  BY FoundInOpened
<1>2. Filed(p)
  <2>1. 0 \in Nat
    OBVIOUS
  <2> QED
    BY <2>1, OpenedFiled, Zenon DEF OpenedAt
<1>3. Len(p.entries) = Len(b.dir) - 1
  BY <1>1, NamedTyped
<1> HIDE DEF p
<1>4. ASSUME NEW n \in Names
      PROVE  MapFor(p, n) \in Contents \cup {Absent, Damaged}
  <2>1. CASE p.byName[n] = 0
    BY <2>1 DEF MapFor
  <2>2. CASE p.byName[n] # 0
    <3>1. PICK i \in 1 .. Len(b.dir) - 1 : i = p.byName[n]
      BY <1>2, <1>3, <2>2 DEF Filed, Indexes
    <3>2. p.entries[i].ilen = p.entries[i].dlen
      BY <1>1, <3>1, NamedLengths
    <3> QED
      BY <2>2, <3>1, <3>2, ContentTyped DEF MapFor, EntryContent
  <2> QED
    BY <2>1, <2>2
<1> QED
  BY <1>1, <1>4, MapForEach

LEMMA OthersOpen ==
  ASSUME NEW b \in OtherArchives
  PROVE  MapIn(b) \in [Names -> Contents \cup {Absent, Damaged}]
<1>1. PICK files \in Seq(File) :
        /\ b = Layout(files)
        /\ \A i \in 1 .. Len(files) : files[i] = OtherFile(files[i].name)
        /\ \A i, j \in 1 .. Len(files) : files[i].name = files[j].name => i = j
  BY OthersLayOut
<1>2. ASSUME NEW i \in 1 .. Len(files)
      PROVE  files[i].ilen = Len(files[i].data) /\ Len(files[i].data) # 0
  <2>1. PICK n \in Names : files[i] = OtherFile(n)
    BY <1>1, FilesTyped DEF File
  <2>2. OtherContent[n] \in Contents
    BY PfsAssumption
  <2>3. Len(BlocksOf(OtherContent[n])) = Size[OtherContent[n]] /\ Size[OtherContent[n]] # 0
    BY <2>2, BlocksOfTyped
  <2> QED
    BY <2>1, <2>3 DEF OtherFile
<1>3. Whole(files)
  BY <1>1, <1>2 DEF Whole, Apart, Exact
<1>4. Opens(b)
  BY <1>1, <1>3, LayoutLaysOut, WholeOpens
<1>5. Archive(b)
  BY <1>1, LayoutIsArchive
<1> QED
  BY <1>4, <1>5, FoundTyped

LEMMA TornHoldsNothing == MapIn(Torn) = NoArchive
BY DEF MapIn, Opens, Torn

LEMMA AnyMap ==
  ASSUME NEW b, Archive(b)
  PROVE  MapIn(b) \in [Names -> Contents \cup {Absent, Damaged}] \cup {NoArchive}
BY FoundTyped DEF MapIn

(***************************************************************************)
(* The refinement                                                          *)
(***************************************************************************)
\* What the session has read is still in the file when it parses it, and the
\* file it has emptied is empty until it has written it.
StoreInv ==
  /\ holds = MapIn(body)
  /\ at = "read" => pfs.raw = body
  /\ at = "writing" => body = Torn /\ since = "session"

LEMMA StoreInvStep ==
  ASSUME NoWindow, WriteInv, StoreInv, [Next]_vars
  PROVE  StoreInv'
<1> USE DEF StoreInv, Goto, file
<1>1. CASE ReadFile
  <2>1. [NoPfs EXCEPT !.raw = body].raw = body
    BY DEF NoPfs
  <2> QED
    BY <1>1, <2>1 DEF ReadFile
<1>2. CASE Parse \/ ParseFails \/ Close
  BY <1>2 DEF Parse, ParseFails, Close
<1>3. CASE \E n \in Names, c \in Contents : Put(n, c) \/ PutCompressedFails(n, c)
  BY <1>3 DEF Put, PutCompressedFails
<1>4. CASE \E n \in Names, c \in Contents : \E k \in 0 .. Size[c] - 1 : PutFails(n, c, k)
  BY <1>4 DEF PutFails
<1>5. CASE SaveBegins \/ SaveAgain \/ SaveAborts \/ SaveBuilt \/ TruncateFails
  BY <1>5 DEF SaveBegins, SaveAgain, SaveAborts, SaveBuilt, TruncateFails, SaveReturns
<1>6. CASE Truncate \/ Finish \/ FinishFails
  BY <1>6 DEF Truncate, Finish, FinishFails, Written, SessionWrote, WriteInv, Noticed
<1>7. CASE Tick
  BY <1>7 DEF Tick
<1>8. CASE OtherWrites
  BY <1>8 DEF OtherWrites, OtherMayWrite, NoWindow, Written
<1>9. CASE UNCHANGED vars
  BY <1>9 DEF vars
<1> QED
  BY <1>1, <1>2, <1>3, <1>4, <1>5, <1>6, <1>7, <1>8, <1>9 DEF Next

\* The session's copy, as ArchiveStore sees it.
View == IF at \in {"closed", "read"} THEN Closed ELSE MapOf(pfs)

Maps == [Names -> Contents \cup {Absent, Damaged}]

LEMMA StoreTerms ==
  /\ Store!Closed = Closed /\ Store!Torn = NoArchive /\ Store!Archives = Maps
  /\ Store!Absent = Absent /\ Store!Damaged = Damaged /\ Store!Hollow = Hollow
BY DEF Store!Closed, Closed, Store!Torn, NoArchive, Store!Archives, Maps, Absent, Damaged,
   Store!Absent, Store!Damaged, Hollow, Store!Hollow

LEMMA StoreStep ==
  ASSUME NoWindow, WriteInv, FiledInv, LongInv, StoreInv, [Next]_vars
  PROVE  [Store!Next]_<<holds, View, since = "other", since = "saved">>
<1>1. CASE ReadFile
  <2>1. Store!Look
    BY <1>1, StoreTerms DEF ReadFile, Goto, file, Store!Look
  <2> QED
    BY <2>1 DEF Store!Next
<1>2. CASE Parse
  <2>1. /\ at = "read" /\ at' = "opened" /\ Opens(body) /\ since' = since /\ holds' = holds
        /\ pfs' = OpenedAt(body, mtime)
    BY <1>2 DEF Parse, Goto, file, StoreInv, OpenedAt
  <2>2. since # "other" /\ holds = MapIn(body)
    BY <2>1 DEF WriteInv, Noticed, StoreInv
  <2>3. holds = MapOf(pfs') /\ holds # NoArchive
    BY <2>1, <2>2, FoundInOpened, MapTyped, MapsDiffer
  <2>4. Store!Open
    BY <2>1, <2>2, <2>3, StoreTerms DEF Store!Open
  <2> QED
    BY <2>4 DEF Store!Next
<1>3. CASE ParseFails
  BY <1>3 DEF ParseFails, Goto, file, View
<1>4. CASE Close
  <2>1. Store!Close
    BY <1>4, StoreTerms DEF Close, file, Store!Close
  <2> QED
    BY <2>1 DEF Store!Next
<1>5. ASSUME NEW n \in Names, NEW c \in Contents,
             Put(n, c) \/ PutCompressedFails(n, c) \/ \E k \in 0 .. Size[c] - 1 : PutFails(n, c, k)
      PROVE  Store!Next
  <2>1. at = "opened" /\ at' = "opened" /\ since' = since /\ holds' = holds
    BY <1>5 DEF Put, PutCompressedFails, PutFails, file
  <2>2. PICK v : /\ v = MapFor(pfs', n) /\ v \in Contents \cup {Damaged, Hollow}
                 /\ MapOf(pfs') = [MapOf(pfs) EXCEPT ![n] = v]
    BY <1>5, PutsFile, OthersStay DEF FiledInv
  <2>3. MapOf(pfs) # Closed /\ MapOf(pfs)[n] = MapFor(pfs, n)
    BY MapTyped, MapsDiffer, MapForEach
  <2>4. MapOf(pfs')[n] = v
    BY <2>2, MapForEach
  <2>5. v = Hollow => MapOf(pfs)[n] \in {Absent, Hollow}
    BY <1>5, <2>2, <2>3, PutsHollow DEF FiledInv, LongInv
  <2>6. Store!Put
    BY <2>1, <2>2, <2>4, <2>5, StoreTerms DEF Store!Put
  <2> QED
    BY <2>1, <2>3, <2>6, StoreTerms DEF Store!Next
<1>6. CASE SaveBegins \/ SaveAgain \/ SaveAborts \/ SaveBuilt \/ TruncateFails \/ Tick
  BY <1>6 DEF SaveBegins, SaveAgain, SaveAborts, SaveBuilt, TruncateFails, Tick, SaveReturns,
     Goto, file, View
<1>7. CASE Truncate
  <2>1. at = "built" /\ at' = "writing" /\ holds' = NoArchive /\ pfs' = pfs
    BY <1>7, TornHoldsNothing DEF Truncate, Goto, Written
  <2>2. since # "other" /\ since' = "session"
    BY <1>7, <2>1 DEF WriteInv, Noticed, Truncate, SessionWrote
  <2>3. MapOf(pfs) # Closed
    BY MapTyped, MapsDiffer
  <2>4. Store!Begin
    BY <2>1, <2>2, StoreTerms DEF Store!Begin
  <2> QED
    BY <2>1, <2>3, <2>4, StoreTerms DEF Store!Next
<1>8. CASE Finish
  <2>1. at = "writing" /\ at' = "opened" /\ pfs' = pfs /\ since' = "saved"
    BY <1>8 DEF Finish, Goto
  <2>2. holds = NoArchive /\ body' = Image(pfs) /\ holds' = MapIn(Image(pfs))
    BY <1>8, <2>1, TornHoldsNothing DEF Finish, Written, StoreInv
  <2>3. Archive(Image(pfs))
    BY ImageTyped, LayoutIsArchive DEF FiledInv
  <2>4. holds' \in Maps \cup {NoArchive}
    BY <2>2, <2>3, AnyMap DEF Maps
  <2>5. ASSUME \A n \in Names : MapOf(pfs)[n] # Hollow
        PROVE  \/ \A n \in Names : MapOf(pfs)[n] # Damaged => holds'[n] = MapOf(pfs)[n]
               \/ (\E n \in Names : MapOf(pfs)[n] = Damaged) /\ holds' = NoArchive
    BY <2>2, <2>5, FilledSaves DEF FiledInv, LongInv, MapIn
  <2>6. MapOf(pfs) # Closed
    BY MapTyped, MapsDiffer
  <2>7. Store!Commit
    BY <2>1, <2>2, <2>4, <2>5, StoreTerms DEF Store!Commit, Store!Filled, Store!Sound
  <2> QED
    BY <2>1, <2>6, <2>7, StoreTerms DEF Store!Next
<1>9. CASE FinishFails
  <2>1. at = "writing" /\ at' = "opened" /\ pfs' = pfs /\ holds' = NoArchive /\ holds = NoArchive
    BY <1>9, TornHoldsNothing DEF FinishFails, Goto, Written, StoreInv
  <2>2. since = "session" /\ since' = "session"
    BY <1>9, <2>1 DEF WriteInv, Noticed, StoreInv, FinishFails, SessionWrote
  <2> QED
    BY <2>1, <2>2 DEF View
<1>10. CASE OtherWrites
  <2>1. at' = at /\ pfs' = pfs /\ since' = "other" /\ holds' \in Maps
    BY <1>10, OthersOpen DEF OtherWrites, Written, Maps
  <2>2. Store!Other
    BY <2>1, StoreTerms DEF Store!Other
  <2> QED
    BY <2>2 DEF Store!Next
<1>11. CASE UNCHANGED vars
  BY <1>11 DEF vars, file, View
<1> QED
  BY <1>1, <1>2, <1>3, <1>4, <1>5, <1>6, <1>7, <1>8, <1>9, <1>10, <1>11 DEF Next

LEMMA StoreInit ==
  ASSUME Init
  PROVE  Store!Init /\ StoreInv
<1>1. /\ body \in OtherArchives /\ holds = MapIn(body) /\ at = "closed" /\ since = "nobody"
  BY DEF Init
<1>2. holds \in Maps
  BY <1>1, OthersOpen DEF Maps
<1> QED
  BY <1>1, <1>2, StoreTerms DEF Store!Init, StoreInv

\* Without the three windows the session parses what is in the file, and nobody
\* else writes while it does.
THEOREM StoreInvHolds == NoWindow => (Spec => []StoreInv)
<1> SUFFICES ASSUME NoWindow
             PROVE  Spec => []StoreInv
  OBVIOUS
<1>1. Init => StoreInv
  BY StoreInit
<1>2. WriteInv /\ StoreInv /\ [Next]_vars => StoreInv'
  BY StoreInvStep
<1> QED
  BY <1>1, <1>2, WritesNoticed, PTL DEF Spec

\* pfs.c keeps the promise of ArchiveStore, for any names, contents, crcs and
\* sizes, if others write outside the three windows of OtherMayWrite: what is
\* saved is what was put over what was read, whatever order the directory is in.
\* After a put that failed on a name with a content, a save leaves no archive or
\* one with every name that was not damaged; on a name without one, no promise.
THEOREM ArchivesAreMaps == NoWindow => (Spec => ImplementsStore)
<1> SUFFICES ASSUME NoWindow
             PROVE  Spec => Store!Spec
  BY DEF ImplementsStore
<1>1. Init => Store!Init
  BY StoreInit
<1>2. WriteInv /\ FiledInv /\ LongInv /\ StoreInv /\ [Next]_vars => [Store!Next]_Store!vars
  BY StoreStep DEF Store!vars, View
<1> QED
  BY <1>1, <1>2, PfsInvHolds, NoEntryEmpty, WritesNoticed, StoreInvHolds, PTL DEF Spec, Store!Spec

==============================================================================
