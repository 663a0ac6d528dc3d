---------------------------- MODULE RingBufProofs ----------------------------
(***************************************************************************)
(* Theorems about the ring of RingBuf.tla: its type invariant for any size *)
(* and any sets of threads, and, between one pusher and one popper, that   *)
(* packets are delivered in order, once and unaltered, as by a bounded     *)
(* FIFO.                                                                   *)
(***************************************************************************)
EXTENDS RingBufSPSC, Integers, Sequences, SequenceTheorems, TLAPS

USE RingAssumption

\* The next block of a block is a block: the circle is closed.
LEMMA NextIndexType ==
  ASSUME NEW i \in Blocks
  PROVE  nextIndex(i) \in Blocks
BY DEF nextIndex, Blocks

\* A place written into pc keeps the shape of pc.
LEMMA GotoType ==
  ASSUME NEW t \in Threads, NEW from, NEW to \in Places,
         pc \in [Threads -> Places], Goto(t, from, to)
  PROVE  pc' \in [Threads -> Places]
BY DEF Goto

LEMMA InitType == Init => TypeOK
BY DEF Init, TypeOK, Blocks, Threads, Places

\* Every access of a push keeps the types, whoever else runs.
LEMMA PushType ==
  ASSUME TypeOK, NEW p \in Producers, Push(p)
  PROVE  TypeOK'
<1> p \in Threads
  BY DEF Threads
<1> USE GotoType DEF TypeOK, cursors, flags, claims, SetIndex, Places
<1>1. CASE PushLoad(p)
  BY <1>1 DEF PushLoad
<1>2. CASE PushCheck(p)
  BY <1>2 DEF PushCheck
<1>3. CASE PushClaim(p)
  BY <1>3, NextIndexType DEF PushClaim
<1>4. CASE ClaimFails(p)
  BY <1>4 DEF ClaimFails
<1>5. CASE PushCopy(p)
  BY <1>5 DEF PushCopy
<1>6. CASE PushFlag(p)
  BY <1>6 DEF PushFlag
<1>7. CASE PushAdvLoad(p)
  BY <1>7 DEF PushAdvLoad
<1>8. CASE PushAdvTest(p)
  BY <1>8 DEF PushAdvTest
<1>9. CASE PushAdvMove(p)
  BY <1>9, NextIndexType DEF PushAdvMove
<1> QED
  BY <1>1, <1>2, <1>3, <1>4, <1>5, <1>6, <1>7, <1>8, <1>9 DEF Push, PushFinish

\* Every access of a pop keeps the types.
LEMMA PopType ==
  ASSUME TypeOK, NEW c \in Consumers, Pop(c)
  PROVE  TypeOK'
<1> c \in Threads
  BY DEF Threads
<1> USE GotoType DEF TypeOK, cursors, flags, claims, SetIndex, Places
<1>1. CASE PopLoad(c)
  BY <1>1 DEF PopLoad
<1>2. CASE PopCheck(c)
  BY <1>2 DEF PopCheck
<1>3. CASE PopClaim(c)
  BY <1>3, NextIndexType DEF PopClaim
<1>4. CASE ClaimFails(c)
  BY <1>4 DEF ClaimFails
<1>5. CASE PopCopy(c)
  BY <1>5 DEF PopCopy
<1>6. CASE PopFlag(c)
  BY <1>6 DEF PopFlag
<1>7. CASE PopAdvLoad(c)
  BY <1>7 DEF PopAdvLoad
<1>8. CASE PopAdvTest(c)
  BY <1>8 DEF PopAdvTest
<1>9. CASE PopAdvMove(c)
  BY <1>9, NextIndexType DEF PopAdvMove
<1> QED
  BY <1>1, <1>2, <1>3, <1>4, <1>5, <1>6, <1>7, <1>8, <1>9 DEF Pop, PopFinish

LEMMA NextType == TypeOK /\ [Next]_vars => TypeOK'
<1> SUFFICES ASSUME TypeOK, [Next]_vars
             PROVE  TypeOK'
  OBVIOUS
<1>1. CASE Next
  BY <1>1, PushType, PopType DEF Next
<1>2. CASE UNCHANGED vars
  BY <1>2 DEF vars, TypeOK, cursors, flags, claims
<1> QED
  BY <1>1, <1>2

\* Type correctness, for any number of blocks, pushers and poppers: every
\* cursor and every local index names a block, so that no rb->blocks[index] of
\* ringbuf.c is out of range.
THEOREM TypeCorrect == Spec => []TypeOK
<1>1. Init => TypeOK
  BY InitType
<1>2. TypeOK /\ [Next]_vars => TypeOK'
  BY NextType
<1> QED
  BY <1>1, <1>2, PTL DEF Spec

(***************************************************************************)
(* Arithmetic of the circle.                                               *)
(***************************************************************************)
LEMMA DistanceType ==
  ASSUME NEW i \in Blocks, NEW j \in Blocks
  PROVE  Distance(i, j) \in 0 .. N - 1 /\ (Distance(i, j) = 0 <=> i = j)
BY DEF Distance, Blocks

LEMMA NextIndexMoves ==
  ASSUME NEW i \in Blocks
  PROVE  nextIndex(i) # i /\ Distance(i, nextIndex(i)) = 1
BY DEF Distance, nextIndex, Blocks

LEMMA NextIndexInjective ==
  ASSUME NEW i \in Blocks, NEW j \in Blocks, nextIndex(i) = nextIndex(j)
  PROVE  i = j
BY DEF nextIndex, Blocks

\* Moving the far end on, unless it comes round to the near end.
LEMMA DistanceGrows ==
  ASSUME NEW i \in Blocks, NEW j \in Blocks, nextIndex(j) # i
  PROVE  Distance(i, nextIndex(j)) = Distance(i, j) + 1
BY DEF Distance, nextIndex, Blocks

\* Moving the near end on, unless it has met the far end.
LEMMA DistanceShrinks ==
  ASSUME NEW i \in Blocks, NEW j \in Blocks, i # j
  PROVE  Distance(nextIndex(i), j) = Distance(i, j) - 1
BY DEF Distance, nextIndex, Blocks

\* Distances add up along the order of the cursors.
LEMMA DistanceAdds ==
  ASSUME NEW i \in Blocks, NEW j \in Blocks, NEW k \in Blocks,
         Distance(i, j) <= Distance(i, k)
  PROVE  Distance(i, k) = Distance(i, j) + Distance(j, k)
BY DEF Distance, Blocks

LEMMA AtType ==
  ASSUME NEW i \in Blocks, NEW k \in 0 .. N - 1
  PROVE  At(i, k) \in Blocks /\ Distance(i, At(i, k)) = k
BY DEF At, Distance, Blocks

LEMMA AtDistance ==
  ASSUME NEW i \in Blocks, NEW j \in Blocks
  PROVE  At(i, Distance(i, j)) = j
BY DEF At, Distance, Blocks

LEMMA AtNext ==
  ASSUME NEW i \in Blocks, NEW k \in 0 .. N - 1, k + 1 < N
  PROVE  At(nextIndex(i), k) = At(i, k + 1)
BY DEF At, nextIndex, Blocks

(***************************************************************************)
(* One pusher and one popper: the inductive invariant.                     *)
(***************************************************************************)
LEMMA InitInv ==
  ASSUME NEW p, NEW c, Producers = {p}, Consumers = {c}, Init
  PROVE  IInv
<1>1. TypeOK
  BY InitType
<1>2. PushInv(p) /\ PopInv(c)
  BY DEF Init, PushInv, PopInv, Threads, WriteSettled, NoneWritten, ReadSettled, NoneRead
<1>3. CursorsOrdered
  BY DEF Init, CursorsOrdered, Distance
<1>4. Contents
  BY DEF Init, Contents, Distance
<1>5. Delivered
  BY DEF Init, Delivered, Threads
<1> QED
  BY <1>1, <1>2, <1>3, <1>4, <1>5 DEF IInv

\* Each conjunct but the pusher's own survives a push step that leaves the
\* cursors and the packets alone.
LEMMA PushFrame ==
  ASSUME NEW p, NEW c, Producers = {p}, Consumers = {c}, IInv,
         UNCHANGED <<cursors, packet, nSent, nTaken, hasBeenRead, got>>,
         pc'[c] = pc[c], index'[c] = index[c], block'[c] = block[c], ticket'[c] = ticket[c]
  PROVE  PopInv(c)' /\ CursorsOrdered' /\ Contents' /\ Delivered'
<1>1. PopInv(c)'
  BY DEF IInv, PopInv, cursors, ReadSettled, ReadClaimed, ReadFlagged, NoneRead, OnlyRead
<1>2. CursorsOrdered'
  BY DEF IInv, CursorsOrdered, cursors
<1>3. Contents'
  BY DEF IInv, Contents, Released, cursors
<1>4. Delivered'
  BY DEF IInv, Delivered
<1> QED
  BY <1>1, <1>2, <1>3, <1>4

\* The new state of one thread in an EXCEPT, and that of the other.
LEMMA OtherThread ==
  ASSUME NEW p, NEW c, Producers = {p}, Consumers = {c}
  PROVE  p # c /\ p \in Threads /\ c \in Threads /\ Threads = {p, c}
BY DEF Threads

LEMMA PushStep ==
  ASSUME NEW p, NEW c, Producers = {p}, Consumers = {c}, IInv, Push(p)
  PROVE  IInv'
<1>t. p # c /\ p \in Threads /\ c \in Threads
  BY OtherThread
<1>y. TypeOK /\ TypeOK'
  BY PushType DEF IInv
<1>i. PushInv(p) /\ PopInv(c) /\ CursorsOrdered /\ Contents /\ Delivered
  BY DEF IInv
<1>p. pc' \in [Threads -> Places]
  BY <1>y DEF TypeOK
<1> SUFFICES PushInv(p)' /\ PopInv(c)' /\ CursorsOrdered' /\ Contents' /\ Delivered'
  BY <1>y DEF IInv
<1>1. CASE PushLoad(p)
  <2>1. PushInv(p)'
    BY <1>1, <1>t, <1>y, <1>i DEF PushLoad, Goto, SetIndex, PushInv, TypeOK, cursors, flags, claims,
       WriteSettled, NoneWritten
  <2> QED
    BY <1>1, <1>t, <1>y, <2>1, PushFrame
       DEF PushLoad, Goto, SetIndex, TypeOK, cursors, flags, claims
<1>2. CASE PushCheck(p)
  <2>1. PushInv(p)'
    BY <1>2, <1>t, <1>y, <1>i DEF PushCheck, Goto, PushInv, TypeOK, cursors, flags, claims,
       WriteSettled, NoneWritten
  <2> QED
    BY <1>2, <1>t, <1>y, <2>1, PushFrame
       DEF PushCheck, Goto, TypeOK, cursors, flags, claims
<1>3. CASE PushClaim(p)
  <2>1. writeStart = writeEnd /\ writeEnd' = nextIndex(writeEnd) /\ nextIndex(writeEnd) # readStart
    BY <1>3, <1>i DEF PushClaim, Goto, PushInv, WriteSettled
  <2>2. PushInv(p)'
    BY <1>3, <1>t, <1>y, <1>i, <2>1 DEF PushClaim, Goto, PushInv, TypeOK, flags,
       WriteSettled, WriteClaimed, NoneWritten
  <2>3. PopInv(c)'
    BY <1>3, <1>t, <1>y, <1>i DEF PushClaim, Goto, PopInv, TypeOK, flags,
       ReadSettled, ReadClaimed, ReadFlagged, NoneRead, OnlyRead
  <2>4. CursorsOrdered'
    <3>1. Distance(readStart, writeEnd') = Distance(readStart, writeEnd) + 1
      BY <2>1, <1>y, DistanceGrows DEF TypeOK
    <3>2. Distance(readEnd, writeEnd') = Distance(readEnd, writeEnd) + 1
      <4>1. Distance(readStart, writeEnd) = Distance(readStart, readEnd) + Distance(readEnd, writeEnd)
        BY <1>y, <1>i, <2>1, DistanceAdds DEF CursorsOrdered, TypeOK
      <4>2. Distance(readStart, writeEnd') \in 0 .. N - 1 /\ Distance(readStart, readEnd) \in 0 .. N - 1
        BY <1>y, DistanceType DEF TypeOK
      <4>3. nextIndex(writeEnd) # readEnd
        BY <4>1, <4>2, <3>1, <2>1, <1>y, DistanceType DEF TypeOK
      <4> QED
        BY <4>3, <2>1, <1>y, DistanceGrows DEF TypeOK
    <3>3. UNCHANGED <<readStart, readEnd, writeStart, nTaken>> /\ nSent' = nSent + 1
      BY <1>3 DEF PushClaim
    <3>4. /\ Distance(readStart, readEnd) \in Nat /\ Distance(readStart, writeStart) \in Nat
          /\ Distance(readEnd, writeEnd) \in Nat /\ Distance(readStart, writeEnd) \in Nat
      BY <1>y, DistanceType DEF TypeOK
    <3>5. CursorsOrdered' <=>
            /\ Distance(readStart, readEnd) <= Distance(readStart, writeStart)
            /\ Distance(readStart, writeStart) <= Distance(readStart, writeEnd')
            /\ nSent' = nTaken + Distance(readEnd, writeEnd')
      BY <3>3 DEF CursorsOrdered
    <3> QED
      BY <3>1, <3>2, <3>3, <3>4, <3>5, <1>i, <1>y DEF CursorsOrdered, TypeOK
  <2>5. Contents'
    BY <1>3, <1>i DEF PushClaim, Contents, Released
  <2>6. Delivered'
    BY <1>3, <1>t, <1>y, <1>i DEF PushClaim, Goto, Delivered, TypeOK
  <2> QED
    BY <2>2, <2>3, <2>4, <2>5, <2>6
<1>4. CASE ClaimFails(p)
  <2>1. PushInv(p)'
    BY <1>4, <1>t, <1>y, <1>i DEF ClaimFails, Goto, PushInv, TypeOK, cursors, flags, claims,
       WriteSettled, NoneWritten
  <2> QED
    BY <1>4, <1>t, <1>y, <2>1, PushFrame
       DEF ClaimFails, Goto, TypeOK, cursors, flags, claims
<1>5. CASE PushCopy(p)
  <2>1. WriteClaimed /\ packet' = [packet EXCEPT ![writeStart] = nSent]
    BY <1>5, <1>i DEF PushCopy, Goto, PushInv
  <2>2. PushInv(p)'
    BY <1>5, <1>t, <1>y, <1>i, <2>1 DEF PushCopy, Goto, PushInv, TypeOK, cursors, flags, claims,
       WriteClaimed, NoneWritten
  <2>3. PopInv(c)'
    BY <1>5, <1>t, <1>y, <1>i DEF PushCopy, Goto, PopInv, TypeOK, cursors, flags, claims,
       ReadSettled, ReadClaimed, ReadFlagged, NoneRead, OnlyRead
  <2>4. CursorsOrdered'
    BY <1>5, <1>i DEF PushCopy, CursorsOrdered, cursors, claims
  <2>5. Contents'
    <3>1. ASSUME NEW k \in 0 .. N - 1, k < Distance(readStart, writeStart)
          PROVE  packet'[At(readStart, k)] = packet[At(readStart, k)]
      BY <3>1, <2>1, <1>y, AtType DEF TypeOK
    <3>2. UNCHANGED <<readStart, readEnd, writeStart, nTaken>>
      BY <1>5 DEF PushCopy, cursors, claims
    <3> QED
      BY <3>1, <3>2, <1>i DEF Contents, Released
  <2>6. Delivered'
    BY <1>5, <1>t, <1>y, <1>i DEF PushCopy, Goto, Delivered, TypeOK, claims
  <2> QED
    BY <2>2, <2>3, <2>4, <2>5, <2>6
<1>6. CASE PushFlag(p)
  <2>1. PushInv(p)'
    BY <1>6, <1>t, <1>y, <1>i DEF PushFlag, Goto, PushInv, TypeOK, cursors, flags, claims,
       WriteClaimed, WriteFlagged, NoneWritten, OnlyWritten
  <2> QED
    BY <1>6, <1>t, <1>y, <2>1, PushFrame
       DEF PushFlag, Goto, TypeOK, cursors, flags, claims
<1>7. CASE PushAdvLoad(p)
  <2>1. PushInv(p)'
    BY <1>7, <1>t, <1>y, <1>i DEF PushAdvLoad, Goto, SetIndex, PushInv, TypeOK, cursors, flags, claims,
       WriteSettled, WriteFlagged, NoneWritten, OnlyWritten
  <2> QED
    BY <1>7, <1>t, <1>y, <2>1, PushFrame
       DEF PushAdvLoad, Goto, SetIndex, TypeOK, cursors, flags, claims
<1>8. CASE PushAdvTest(p)
  <2>1. PushInv(p)'
    BY <1>8, <1>t, <1>y, <1>i DEF PushAdvTest, Goto, PushInv, TypeOK, cursors, flags, claims,
       WriteSettled, WriteClaimed, WriteFlagged, NoneWritten, OnlyWritten
  <2> QED
    BY <1>8, <1>t, <1>y, <2>1, PushFrame
       DEF PushAdvTest, Goto, TypeOK, cursors, flags, claims
<1>9. CASE PushAdvMove(p)
  <2>1. WriteClaimed /\ writeStart' = nextIndex(writeStart) /\ packet[writeStart] = nSent
    BY <1>9, <1>i DEF PushAdvMove, Goto, PushInv
  <2>2. UNCHANGED <<readStart, readEnd, writeEnd, packet, nSent, nTaken>>
    BY <1>9 DEF PushAdvMove, claims
  <2>3. PushInv(p)'
    BY <1>9, <1>t, <1>y, <1>i, <2>1, <2>2 DEF PushAdvMove, Goto, PushInv, TypeOK, flags, claims,
       WriteSettled, WriteClaimed, NoneWritten
  <2>4. Distance(readStart, writeStart') = Distance(readStart, writeStart) + 1
    <3>1. writeStart # readStart \/ nextIndex(writeStart) # readStart
      BY <1>y, NextIndexMoves DEF TypeOK
    <3>2. nextIndex(writeStart) # readStart
      BY <3>1, <2>1, <1>y, <1>i, DistanceType DEF CursorsOrdered, WriteClaimed, TypeOK
    <3> QED
      BY <3>2, <2>1, <1>y, DistanceGrows DEF TypeOK
  <2>5. /\ Distance(readStart, readEnd) \in 0 .. N - 1 /\ Distance(readStart, writeStart) \in 0 .. N - 1
        /\ Distance(readEnd, writeEnd) \in 0 .. N - 1
    BY <1>y, DistanceType DEF TypeOK
  <2>6. PopInv(c)'
    <3>1. readEnd # writeStart'
      BY <2>4, <2>5, <1>i, <1>y DEF CursorsOrdered, TypeOK
    <3> QED
      BY <3>1, <1>9, <1>t, <1>y, <1>i DEF PushAdvMove, Goto, PopInv, TypeOK, flags, claims,
         ReadSettled, ReadClaimed, ReadFlagged, NoneRead, OnlyRead
  <2>7. CursorsOrdered'
    <3>1. writeStart' = writeEnd
      BY <2>1 DEF WriteClaimed
    <3>2. CursorsOrdered' <=>
            /\ Distance(readStart, readEnd) <= Distance(readStart, writeStart')
            /\ Distance(readStart, writeStart') <= Distance(readStart, writeEnd)
            /\ nSent = nTaken + Distance(readEnd, writeEnd)
      BY <2>2 DEF CursorsOrdered
    <3> QED
      BY <3>1, <3>2, <2>4, <2>5, <1>i DEF CursorsOrdered
  <2>8. Contents'
    <3>1. Distance(readStart, writeEnd) = Distance(readStart, readEnd) + Distance(readEnd, writeEnd)
      <4>1. Distance(readStart, readEnd) <= Distance(readStart, writeEnd)
        BY <2>5, <1>i, <1>y, DistanceType DEF CursorsOrdered, TypeOK
      <4> QED
        BY <4>1, <1>y, DistanceAdds DEF TypeOK
    <3>2. nSent = Released + Distance(readStart, writeStart) + 1
      BY <3>1, <2>1, <2>4, <2>5, <1>i, <1>y DEF CursorsOrdered, Released, WriteClaimed, TypeOK
    <3>3. packet[At(readStart, Distance(readStart, writeStart))] = nSent
      BY <2>1, <1>y, AtDistance DEF TypeOK
    <3>4. ASSUME NEW k \in 0 .. N - 1, k < Distance(readStart, writeStart')
          PROVE  packet[At(readStart, k)] = Released + k + 1
      <4>1. CASE k < Distance(readStart, writeStart)
        BY <4>1, <1>i DEF Contents
      <4>2. CASE k = Distance(readStart, writeStart)
        BY <4>2, <3>2, <3>3
      <4> QED
        BY <4>1, <4>2, <3>4, <2>4, <2>5
    <3> QED
      BY <3>4, <2>2 DEF Contents, Released
  <2>9. Delivered'
    BY <1>9, <1>t, <1>y, <1>i DEF PushAdvMove, Goto, Delivered, TypeOK, claims
  <2> QED
    BY <2>3, <2>6, <2>7, <2>8, <2>9
<1> QED
  BY <1>1, <1>2, <1>3, <1>4, <1>5, <1>6, <1>7, <1>8, <1>9 DEF Push, PushFinish

\* A pop step that leaves the cursors and the packets alone disturbs neither
\* the pusher's conjunct nor what the cursors and the blocks say.
LEMMA PopFrame ==
  ASSUME NEW p, NEW c, Producers = {p}, Consumers = {c}, IInv,
         UNCHANGED <<cursors, packet, nSent, nTaken, hasBeenWritten>>,
         pc'[p] = pc[p], index'[p] = index[p], block'[p] = block[p], ticket'[p] = ticket[p]
  PROVE  PushInv(p)' /\ CursorsOrdered' /\ Contents'
<1>1. PushInv(p)'
  BY DEF IInv, PushInv, cursors, WriteSettled, WriteClaimed, WriteFlagged, NoneWritten, OnlyWritten
<1>2. CursorsOrdered'
  BY DEF IInv, CursorsOrdered, cursors
<1>3. Contents'
  BY DEF IInv, Contents, Released, cursors
<1> QED
  BY <1>1, <1>2, <1>3

LEMMA PopStep ==
  ASSUME NEW p, NEW c, Producers = {p}, Consumers = {c}, IInv, Pop(c)
  PROVE  IInv'
<1>t. p # c /\ p \in Threads /\ c \in Threads
  BY OtherThread
<1>y. TypeOK /\ TypeOK'
  BY PopType DEF IInv
<1>i. PushInv(p) /\ PopInv(c) /\ CursorsOrdered /\ Contents /\ Delivered
  BY DEF IInv
<1>d. /\ Distance(readStart, readEnd) \in 0 .. N - 1 /\ Distance(readStart, writeStart) \in 0 .. N - 1
      /\ Distance(readEnd, writeEnd) \in 0 .. N - 1 /\ Distance(readStart, writeEnd) \in 0 .. N - 1
  BY <1>y, DistanceType DEF TypeOK
<1> SUFFICES PushInv(p)' /\ PopInv(c)' /\ CursorsOrdered' /\ Contents' /\ Delivered'
  BY <1>y DEF IInv
<1>1. CASE PopLoad(c)
  <2>1. PopInv(c)' /\ Delivered'
    BY <1>1, <1>t, <1>y, <1>i DEF PopLoad, Goto, SetIndex, PopInv, Delivered, TypeOK, cursors, flags,
       claims, ReadSettled, NoneRead
  <2> QED
    BY <1>1, <1>t, <1>y, <2>1, PopFrame
       DEF PopLoad, Goto, SetIndex, TypeOK, cursors, flags, claims
<1>2. CASE PopCheck(c)
  <2>1. PopInv(c)' /\ Delivered'
    BY <1>2, <1>t, <1>y, <1>i DEF PopCheck, Goto, PopInv, Delivered, TypeOK, cursors, flags,
       claims, ReadSettled, NoneRead
  <2> QED
    BY <1>2, <1>t, <1>y, <2>1, PopFrame
       DEF PopCheck, Goto, TypeOK, cursors, flags, claims
<1>3. CASE PopClaim(c)
  <2>1. /\ readStart = readEnd /\ NoneRead
        /\ readEnd' = nextIndex(readEnd) /\ readEnd # writeStart
    BY <1>3, <1>i DEF PopClaim, Goto, PopInv, ReadSettled
  <2>2. UNCHANGED <<readStart, writeStart, writeEnd, packet, nSent>> /\ nTaken' = nTaken + 1
    BY <1>3 DEF PopClaim
  <2>3. PushInv(p)'
    BY <1>3, <1>t, <1>y, <1>i DEF PopClaim, Goto, PushInv, TypeOK, flags,
       WriteSettled, WriteClaimed, WriteFlagged, NoneWritten, OnlyWritten
  <2>4. PopInv(c)'
    BY <1>3, <1>t, <1>y, <1>i, <2>1 DEF PopClaim, Goto, PopInv, TypeOK, flags,
       ReadSettled, ReadClaimed, NoneRead
  <2>5. Distance(readStart, readEnd) = 0 /\ Distance(readStart, readEnd') = 1
    BY <2>1, <1>y, DistanceType, NextIndexMoves DEF TypeOK
  <2>6. Distance(readStart, writeStart) > 0 /\ readEnd # writeEnd
    BY <2>1, <1>y, <1>i, <1>d, DistanceType DEF TypeOK, CursorsOrdered
  <2>7. Distance(readEnd', writeEnd) = Distance(readEnd, writeEnd) - 1
    BY <2>1, <2>6, <1>y, DistanceShrinks DEF TypeOK
  <2>8. CursorsOrdered'
    <3>1. CursorsOrdered' <=>
            /\ Distance(readStart, readEnd') <= Distance(readStart, writeStart)
            /\ Distance(readStart, writeStart) <= Distance(readStart, writeEnd)
            /\ nSent = nTaken' + Distance(readEnd', writeEnd)
      BY <2>2 DEF CursorsOrdered
    <3> QED
      BY <3>1, <2>2, <2>5, <2>6, <2>7, <1>d, <1>i, <1>y DEF CursorsOrdered, TypeOK
  <2>9. Contents'
    <3>1. Released' = nTaken' - Distance(readStart, readEnd')
      BY <2>2 DEF Released
    <3>2. Released' = Released
      BY <3>1, <2>2, <2>5, <1>y DEF Released, TypeOK
    <3> QED
      BY <3>2, <2>2, <1>i DEF Contents
  <2>10. Delivered'
    BY <1>3, <1>t, <1>y, <1>i DEF PopClaim, Goto, Delivered, TypeOK
  <2> QED
    BY <2>3, <2>4, <2>8, <2>9, <2>10
<1>4. CASE ClaimFails(c)
  <2>1. PopInv(c)' /\ Delivered'
    BY <1>4, <1>t, <1>y, <1>i DEF ClaimFails, Goto, PopInv, Delivered, TypeOK, cursors, flags,
       claims, ReadSettled, NoneRead
  <2> QED
    BY <1>4, <1>t, <1>y, <2>1, PopFrame
       DEF ClaimFails, Goto, TypeOK, cursors, flags, claims
<1>5. CASE PopCopy(c)
  <2>1. ReadClaimed /\ block[c] = readStart /\ ticket[c] = nTaken
    BY <1>5, <1>i DEF PopCopy, Goto, PopInv
  <2>2. PopInv(c)'
    BY <1>5, <1>t, <1>y, <1>i DEF PopCopy, Goto, PopInv, TypeOK, cursors, flags, claims,
       ReadClaimed, NoneRead
  <2>3. packet[readStart] = nTaken
    <3>1. Distance(readStart, readEnd) = 1
      BY <2>1, <1>y, NextIndexMoves DEF ReadClaimed, TypeOK
    <3>2. packet[At(readStart, 0)] = Released + 1
      <4>1. 0 \in 0 .. N - 1 /\ 0 < Distance(readStart, writeStart)
        BY <3>1, <1>d, <1>i DEF CursorsOrdered
      <4>2. packet[At(readStart, 0)] = Released + 0 + 1
        BY <4>1, <1>i DEF Contents
      <4>3. Released \in Int
        BY <3>1, <1>y DEF Released, TypeOK
      <4> QED
        BY <4>2, <4>3
    <3>3. At(readStart, 0) = readStart
      BY <1>y DEF At, TypeOK, Blocks
    <3> QED
      BY <3>1, <3>2, <3>3, <1>y DEF Released, TypeOK
  <2>4. Delivered'
    BY <1>5, <1>t, <1>y, <2>1, <2>3 DEF PopCopy, Goto, Delivered, TypeOK, claims
  <2> QED
    BY <1>5, <1>t, <1>y, <2>2, <2>4, PopFrame
       DEF PopCopy, Goto, TypeOK, cursors, flags, claims
<1>6. CASE PopFlag(c)
  <2>1. PopInv(c)'
    BY <1>6, <1>t, <1>y, <1>i DEF PopFlag, Goto, PopInv, TypeOK, cursors, flags, claims,
       ReadClaimed, ReadFlagged, NoneRead, OnlyRead
  <2>2. Delivered'
    BY <1>6, <1>t, <1>y, <1>i DEF PopFlag, Goto, Delivered, TypeOK, claims
  <2> QED
    BY <1>6, <1>t, <1>y, <2>1, <2>2, PopFrame
       DEF PopFlag, Goto, TypeOK, cursors, flags, claims
<1>7. CASE PopAdvLoad(c)
  <2>1. PopInv(c)'
    BY <1>7, <1>t, <1>y, <1>i DEF PopAdvLoad, Goto, SetIndex, PopInv, TypeOK, cursors, flags, claims,
       ReadSettled, ReadFlagged, NoneRead, OnlyRead
  <2>2. Delivered'
    BY <1>7, <1>t, <1>y, <1>i DEF PopAdvLoad, Goto, Delivered, TypeOK, claims
  <2> QED
    BY <1>7, <1>t, <1>y, <2>1, <2>2, PopFrame
       DEF PopAdvLoad, Goto, SetIndex, TypeOK, cursors, flags, claims
<1>8. CASE PopAdvTest(c)
  <2>1. PopInv(c)'
    BY <1>8, <1>t, <1>y, <1>i DEF PopAdvTest, Goto, PopInv, TypeOK, cursors, flags, claims,
       ReadSettled, ReadClaimed, ReadFlagged, NoneRead, OnlyRead
  <2>2. Delivered'
    BY <1>8, <1>t, <1>y, <1>i DEF PopAdvTest, Goto, Delivered, TypeOK, claims
  <2> QED
    BY <1>8, <1>t, <1>y, <2>1, <2>2, PopFrame
       DEF PopAdvTest, Goto, TypeOK, cursors, flags, claims
<1>9. CASE PopAdvMove(c)
  <2>1. ReadClaimed /\ readStart' = nextIndex(readStart) /\ readEnd = nextIndex(readStart)
    BY <1>9, <1>i DEF PopAdvMove, Goto, PopInv, ReadClaimed
  <2>2. UNCHANGED <<readEnd, writeStart, writeEnd, packet, nSent, nTaken>>
    BY <1>9 DEF PopAdvMove, claims
  <2>3. Distance(readStart, readEnd) = 1 /\ Distance(readStart', readEnd) = 0
    BY <2>1, <1>y, NextIndexMoves, DistanceType DEF TypeOK
  <2>4. readStart # writeStart /\ readStart # writeEnd
    BY <2>3, <1>d, <1>i, <1>y, DistanceType DEF CursorsOrdered, TypeOK
  <2>5. /\ Distance(readStart', writeStart) = Distance(readStart, writeStart) - 1
        /\ Distance(readStart', writeEnd) = Distance(readStart, writeEnd) - 1
    BY <2>1, <2>4, <1>y, DistanceShrinks DEF TypeOK
  <2>6. PushInv(p)'
    <3>1. nextIndex(writeEnd) # readStart'
      BY <2>1, <2>4, <1>y, NextIndexInjective DEF TypeOK
    <3> QED
      BY <3>1, <1>9, <1>t, <1>y, <1>i DEF PopAdvMove, Goto, PushInv, TypeOK, flags, claims,
         WriteSettled, WriteClaimed, WriteFlagged, NoneWritten, OnlyWritten
  <2>7. PopInv(c)'
    BY <1>9, <1>t, <1>y, <1>i, <2>1, <2>2 DEF PopAdvMove, Goto, PopInv, TypeOK, flags, claims,
       ReadSettled, ReadClaimed, NoneRead
  <2>8. CursorsOrdered'
    <3>1. CursorsOrdered' <=>
            /\ Distance(readStart', readEnd) <= Distance(readStart', writeStart)
            /\ Distance(readStart', writeStart) <= Distance(readStart', writeEnd)
            /\ nSent = nTaken + Distance(readEnd, writeEnd)
      BY <2>2 DEF CursorsOrdered
    <3> QED
      BY <3>1, <2>3, <2>5, <1>d, <1>i DEF CursorsOrdered
  <2>9. Contents'
    <3>1. Released' = nTaken - Distance(readStart', readEnd)
      BY <2>2 DEF Released
    <3>2. Released' = Released + 1
      BY <3>1, <2>3, <1>y DEF Released, TypeOK
    <3>3. ASSUME NEW k \in 0 .. N - 1, k < Distance(readStart', writeStart)
          PROVE  packet[At(readStart', k)] = Released' + k + 1
      <4>1. k + 1 \in 0 .. N - 1 /\ k + 1 < Distance(readStart, writeStart)
        BY <3>3, <2>5, <1>d
      <4>2. packet[At(readStart, k + 1)] = Released + (k + 1) + 1
        BY <4>1, <1>i DEF Contents
      <4>3. At(readStart', k) = At(readStart, k + 1)
        BY <4>1, <2>1, <1>y, AtNext DEF TypeOK
      <4>4. Released \in Int
        BY <2>3, <1>y DEF Released, TypeOK
      <4> QED
        BY <4>2, <4>3, <4>4, <3>2
    <3> QED
      BY <3>3, <2>2 DEF Contents
  <2>10. Delivered'
    BY <1>9, <1>t, <1>y, <1>i DEF PopAdvMove, Goto, Delivered, TypeOK, claims
  <2> QED
    BY <2>6, <2>7, <2>8, <2>9, <2>10
<1> QED
  BY <1>1, <1>2, <1>3, <1>4, <1>5, <1>6, <1>7, <1>8, <1>9 DEF Pop, PopFinish

LEMMA NextInv ==
  ASSUME NEW p, NEW c, Producers = {p}, Consumers = {c}, IInv, [Next]_vars
  PROVE  IInv'
<1>1. CASE Next
  BY <1>1, PushStep, PopStep DEF Next
<1>2. CASE UNCHANGED vars
  <2> USE <1>2 DEF vars, cursors, flags, claims
  <2>1. TypeOK'
    BY NextType DEF IInv
  <2>2. (\A q \in Producers : PushInv(q))'
    BY DEF IInv, PushInv, WriteSettled, WriteClaimed, WriteFlagged, NoneWritten, OnlyWritten
  <2>3. (\A q \in Consumers : PopInv(q))'
    BY DEF IInv, PopInv, ReadSettled, ReadClaimed, ReadFlagged, NoneRead, OnlyRead
  <2>4. CursorsOrdered' /\ Contents' /\ Delivered'
    BY DEF IInv, CursorsOrdered, Contents, Released, Delivered
  <2> QED
    BY <2>1, <2>2, <2>3, <2>4 DEF IInv
<1> QED
  BY <1>1, <1>2

\* Between one pusher and one popper the inductive invariant holds, for a ring
\* of any size and any number of packets.
THEOREM RingInvariant == OneOfEach => (Spec => []IInv)
<1> SUFFICES ASSUME OneOfEach
             PROVE  Spec => []IInv
  OBVIOUS
<1>1. PICK p, c : Producers = {p} /\ Consumers = {c}
  BY DEF OneOfEach
<1>2. Init => IInv
  BY <1>1, InitInv
<1>3. IInv /\ [Next]_vars => IInv'
  BY <1>1, NextInv
<1> QED
  BY <1>2, <1>3, PTL DEF Spec

\* When the pusher (popper) holds no claim, the cursors have met and no flag is
\* left up.
LEMMA HandOffFromInv == OneOfEach /\ IInv => HandOff
<1> SUFFICES ASSUME OneOfEach, IInv
             PROVE  HandOff
  OBVIOUS
<1>1. PICK p, c : Producers = {p} /\ Consumers = {c}
  BY DEF OneOfEach
<1> QED
  BY <1>1 DEF IInv, HandOff, PushQuiet, PopQuiet, PushInv, PopInv, WriteSettled, NoneWritten,
     ReadSettled, NoneRead

\* What bg_thread.c relies on in both directions: each pop returns the packet
\* of its own claim, unaltered by the pusher going round the circle.
THEOREM RingDelivers == OneOfEach => (Spec => []Delivered)
<1>1. IInv => Delivered
  BY DEF IInv
<1> QED
  BY <1>1, RingInvariant, PTL

\* The pusher never laps the popper and the popper never passes the pusher.
THEOREM RingCursorsOrdered == OneOfEach => (Spec => []CursorsOrdered)
<1>1. IInv => CursorsOrdered
  BY DEF IInv
<1> QED
  BY <1>1, RingInvariant, PTL

\* No written packet is left behind invisible and no read block unreleased.
THEOREM RingHandsOff == OneOfEach => (Spec => []HandOff)
<1> SUFFICES ASSUME OneOfEach
             PROVE  Spec => []HandOff
  OBVIOUS
<1>1. IInv => HandOff
  BY HandOffFromInv
<1> QED
  BY <1>1, RingInvariant, PTL

(***************************************************************************)
(* The ring implements a bounded FIFO.  Under the inductive invariant the  *)
(* abstract state is a few numbers: the queue holds the packets after      *)
(* nTaken, one for every block from readEnd to writeStart.                 *)
(***************************************************************************)
Length == Distance(readEnd, writeStart)
Numbers(first, n) == [k \in 1 .. n |-> first + k]
Entered == nSent - Distance(writeStart, writeEnd)
Holding == [c \in Consumers |-> IF pc[c] = "copy" THEN packet[block[c]] ELSE got[c]]

(***************************************************************************)
(* Runs of numbers as sequences                                            *)
(***************************************************************************)
LEMMA NumbersSeq ==
  ASSUME NEW first \in Nat, NEW n \in Nat
  PROVE  Numbers(first, n) \in Seq(Nat) /\ Len(Numbers(first, n)) = n
BY DEF Numbers

LEMMA NumbersAppend ==
  ASSUME NEW first \in Nat, NEW n \in Nat
  PROVE  Numbers(first, n + 1) = Append(Numbers(first, n), first + n + 1)
BY DEF Numbers

LEMMA NumbersTail ==
  ASSUME NEW first \in Nat, NEW n \in Nat, n > 0
  PROVE  /\ Numbers(first, n) # <<>>
         /\ Head(Numbers(first, n)) = first + 1
         /\ Tail(Numbers(first, n)) = Numbers(first + 1, n - 1)
<1> DEFINE s == Numbers(first, n)
           t == Numbers(first + 1, n - 1)
<1>1. s \in Seq(Nat) /\ Len(s) = n /\ t \in Seq(Nat) /\ Len(t) = n - 1
  <2>1. n - 1 \in Nat /\ first + 1 \in Nat
    OBVIOUS
  <2> QED
    BY <2>1, NumbersSeq
<1>2. s # <<>> /\ Head(s) = s[1] /\ s[1] = first + 1
  BY <1>1 DEF Numbers
<1>3. Tail(s) \in Seq(Nat) /\ Len(Tail(s)) = n - 1 /\ \A k \in 1 .. n - 1 : Tail(s)[k] = s[k + 1]
  BY <1>1, <1>2, HeadTailProperties
<1>4. \A k \in 1 .. n - 1 : s[k + 1] = t[k]
  BY DEF Numbers
<1>5. Tail(s) = t
  BY <1>1, <1>3, <1>4, SeqEqual
<1> QED
  BY <1>2, <1>5

LEMMA AtAdds ==
  ASSUME NEW i \in Blocks, NEW j \in 0 .. N - 1, NEW k \in 0 .. N - 1, j + k < N
  PROVE  At(At(i, j), k) = At(i, j + k)
BY DEF At, Blocks

(***************************************************************************)
(* The abstract state under the invariant                                  *)
(***************************************************************************)
LEMMA LengthType ==
  ASSUME OneOfEach, IInv
  PROVE  /\ Length \in 0 .. N - 1 /\ nTaken \in Nat
         /\ Distance(readStart, writeStart) = Distance(readStart, readEnd) + Length
BY DistanceType, DistanceAdds DEF Length, IInv, TypeOK, CursorsOrdered

\* What a pop can obtain are the packets after the last one taken, in order.
LEMMA MapsQueue ==
  ASSUME OneOfEach, IInv
  PROVE  Visible = Numbers(nTaken, Length)
<1>y. TypeOK /\ Contents
  BY DEF IInv
<1>l. /\ Length \in 0 .. N - 1 /\ nTaken \in Nat
      /\ Distance(readStart, writeStart) = Distance(readStart, readEnd) + Length
  BY LengthType
<1>d. Distance(readStart, readEnd) \in 0 .. N - 1 /\ Distance(readStart, writeStart) \in 0 .. N - 1
  BY <1>y, DistanceType DEF TypeOK
<1>1. ASSUME NEW k \in 1 .. Length
      PROVE  packet[At(readEnd, k - 1)] = nTaken + k
  <2> DEFINE j == Distance(readStart, readEnd)
  <2>1. /\ k - 1 \in 0 .. N - 1 /\ j + (k - 1) \in 0 .. N - 1
        /\ j + (k - 1) < Distance(readStart, writeStart)
    BY <1>l, <1>d
  <2>2. At(readEnd, k - 1) = At(readStart, j + (k - 1))
    <3>1. readEnd = At(readStart, j)
      BY <1>y, AtDistance DEF TypeOK
    <3> HIDE DEF j
    <3>2. At(At(readStart, j), k - 1) = At(readStart, j + (k - 1))
      BY <1>y, <1>d, <2>1, AtAdds DEF TypeOK, j
    <3> QED
      BY <3>1, <3>2
  <2>3. packet[At(readStart, j + (k - 1))] = Released + (j + (k - 1)) + 1
    BY <2>1, <1>y DEF Contents
  <2>4. Released + (j + (k - 1)) + 1 = nTaken + k
    BY <1>d, <1>l DEF Released
  <2> QED
    BY <2>2, <2>3, <2>4
<1>2. Length = Distance(readEnd, writeStart)
  BY DEF Length
<1> QED
  BY <1>1, <1>2 DEF Visible, Numbers

LEMMA MapsEntered ==
  ASSUME OneOfEach, IInv
  PROVE  Entered = nTaken + Length
<1>1. TypeOK /\ CursorsOrdered
  BY DEF IInv
<1>2. Distance(readEnd, writeEnd) = Length + Distance(writeStart, writeEnd)
  <2>1. /\ Distance(readStart, writeStart) = Distance(readStart, readEnd) + Length
        /\ Distance(readStart, writeEnd) = Distance(readStart, readEnd) + Distance(readEnd, writeEnd)
    <3>1. Distance(readStart, readEnd) <= Distance(readStart, writeEnd)
      BY <1>1, DistanceType DEF CursorsOrdered, TypeOK
    <3> QED
      BY <3>1, <1>1, LengthType, DistanceAdds DEF TypeOK
  <2>2. Distance(readEnd, writeStart) <= Distance(readEnd, writeEnd)
    BY <2>1, <1>1, LengthType, DistanceType DEF CursorsOrdered, TypeOK, Length
  <2> QED
    BY <2>2, <1>1, DistanceAdds DEF TypeOK, Length
<1> QED
  BY <1>1, <1>2, LengthType, DistanceType DEF Entered, CursorsOrdered, TypeOK

\* Between the claim and the memcpy of a pop its block holds its packet.
LEMMA ClaimedPacket ==
  ASSUME OneOfEach, IInv, NEW c \in Consumers, pc[c] = "copy"
  PROVE  packet[block[c]] = nTaken
<1>y. TypeOK /\ Contents /\ CursorsOrdered /\ PopInv(c)
  BY DEF IInv
<1>1. readEnd = nextIndex(readStart) /\ block[c] = readStart
  BY <1>y DEF PopInv, ReadClaimed
<1>2. Distance(readStart, readEnd) = 1
  BY <1>1, <1>y, NextIndexMoves DEF TypeOK
<1>3. 0 \in 0 .. N - 1 /\ 0 < Distance(readStart, writeStart)
  BY <1>2, <1>y, DistanceType DEF CursorsOrdered, TypeOK
<1>4. packet[At(readStart, 0)] = Released + 0 + 1
  BY <1>3, <1>y DEF Contents
<1>5. At(readStart, 0) = readStart /\ Released = nTaken - 1
  BY <1>2, <1>y DEF At, Released, TypeOK, Blocks
<1> QED
  BY <1>1, <1>4, <1>5, <1>y DEF TypeOK

Mapping ==
  /\ Length \in 0 .. N - 1 /\ nTaken \in Nat
  /\ Visible = Numbers(nTaken, Length)
  /\ Entered = nTaken + Length
  /\ \A c \in Consumers : pc[c] = "copy" => packet[block[c]] = nTaken

LEMMA InvMaps == OneOfEach /\ IInv => Mapping
BY LengthType, MapsQueue, MapsEntered, ClaimedPacket DEF Mapping

(***************************************************************************)
(* The steps                                                               *)
(***************************************************************************)
LEMMA InitFifo == Init => Fifo!Init
<1> SUFFICES ASSUME Init
             PROVE  Fifo!Init
  OBVIOUS
<1>1. Distance(readEnd, writeStart) = 0 /\ Distance(writeStart, writeEnd) = 0
  BY DEF Init, Distance
<1>2. Visible = <<>>
  BY <1>1 DEF Visible
<1> QED
  BY <1>1, <1>2 DEF Init, Fifo!Init, Threads

\* A step that leaves these alone is not seen by the callers.
LEMMA Unseen ==
  ASSUME Mapping, Mapping', UNCHANGED <<readEnd, writeStart, nTaken>>, UNCHANGED Holding
  PROVE  UNCHANGED Fifo!vars
<1>1. UNCHANGED Length
  BY DEF Length
<1>2. UNCHANGED Visible
  BY <1>1 DEF Mapping, Numbers
<1>3. UNCHANGED Entered
  BY <1>1 DEF Mapping
<1> QED
  BY <1>2, <1>3 DEF Fifo!vars, Entered, Holding

\* A packet enters the queue when the pusher moves writeStart over its block.
LEMMA PushAdvMoveEnters ==
  ASSUME NEW p, NEW c, Producers = {p}, Consumers = {c},
         IInv, IInv', Mapping, Mapping', PushAdvMove(p)
  PROVE  Fifo!Enter
<1>t. p # c /\ p \in Threads /\ c \in Threads
  BY OtherThread
<1>y. TypeOK /\ TypeOK' /\ PushInv(p) /\ CursorsOrdered /\ CursorsOrdered'
  BY DEF IInv
<1>1. /\ writeEnd = nextIndex(writeStart) /\ writeStart' = nextIndex(writeStart)
      /\ UNCHANGED <<readStart, readEnd, writeEnd, packet, block, got, nSent, nTaken>>
  BY <1>y DEF PushAdvMove, Goto, PushInv, WriteClaimed, claims
<1>2. Entered' = Entered + 1
  <2>1. Distance(writeStart, writeEnd) = 1 /\ Distance(writeStart', writeEnd') = 0
    BY <1>1, <1>y, NextIndexMoves, DistanceType DEF TypeOK
  <2> QED
    BY <2>1, <1>1, <1>y DEF Entered, TypeOK
<1>3. Length' = Length + 1
  BY <1>1, <1>2 DEF Mapping
<1>l. Length \in Nat /\ nTaken \in Nat /\ Visible = Numbers(nTaken, Length)
  BY RingAssumption DEF Mapping, RingAssumption
<1>4. Len(Visible) = Length
  BY <1>l, NumbersSeq
<1>5. Visible' = Append(Visible, Entered')
  <2>1. Visible' = Numbers(nTaken, Length + 1) /\ Entered' = nTaken + Length + 1
    BY <1>1, <1>3, <1>l DEF Mapping
  <2> QED
    BY <2>1, <1>l, NumbersAppend
<1>6. UNCHANGED Holding
  BY <1>1, <1>t, <1>y DEF Holding, PushAdvMove, Goto, TypeOK
<1>7. Len(Visible) < N - 1
  BY <1>3, <1>4, <1>l, RingAssumption DEF Mapping, RingAssumption
<1> QED
  BY <1>2, <1>5, <1>6, <1>7 DEF Fifo!Enter, Entered, Holding

\* A pop takes the oldest packet when it claims its block.
LEMMA PopClaimTakes ==
  ASSUME NEW p, NEW c, Producers = {p}, Consumers = {c},
         IInv, IInv', Mapping, Mapping', PopClaim(c)
  PROVE  Fifo!Take(c)
<1>t. p # c /\ p \in Threads /\ c \in Threads
  BY OtherThread
<1>y. TypeOK /\ TypeOK' /\ PopInv(c)
  BY DEF IInv
<1>1. /\ readEnd # writeStart /\ readEnd' = nextIndex(readEnd)
      /\ nTaken' = nTaken + 1
      /\ UNCHANGED <<writeStart, writeEnd, packet, got, nSent>>
      /\ pc'[c] = "copy" /\ pc[c] = "claim"
  BY <1>y, <1>t DEF PopClaim, Goto, PopInv, TypeOK
<1>2. Length > 0 /\ Length' = Length - 1
  BY <1>1, <1>y, DistanceShrinks, DistanceType DEF Length, TypeOK
<1>3. Visible # <<>> /\ Head(Visible) = nTaken + 1 /\ Visible' = Tail(Visible)
  <2>1. Length \in Nat /\ nTaken \in Nat
    BY RingAssumption DEF Mapping, RingAssumption
  <2>2. Visible = Numbers(nTaken, Length) /\ Visible' = Numbers(nTaken + 1, Length - 1)
    BY <1>1, <1>2 DEF Mapping
  <2> QED
    BY <2>1, <2>2, <1>2, NumbersTail
<1>4. UNCHANGED Entered
  BY <1>1, <1>2 DEF Mapping
<1>5. Holding' = [Holding EXCEPT ![c] = Head(Visible)]
  <2>1. packet'[block'[c]] = nTaken + 1
    BY <1>1 DEF Mapping
  <2> QED
    BY <2>1, <1>1, <1>3 DEF Holding
<1> QED
  BY <1>3, <1>4, <1>5 DEF Fifo!Take, Entered, Holding

LEMMA PushFifo ==
  ASSUME NEW p, NEW c, Producers = {p}, Consumers = {c},
         IInv, IInv', Mapping, Mapping', Push(p)
  PROVE  [Fifo!Next]_(Fifo!vars)
<1>t. p # c /\ p \in Threads /\ c \in Threads
  BY OtherThread
<1>y. TypeOK /\ TypeOK' /\ PushInv(p) /\ PopInv(c) /\ CursorsOrdered
  BY DEF IInv
<1>1. CASE PushAdvMove(p)
  BY <1>1, PushAdvMoveEnters DEF Fifo!Next
<1>2. CASE ~PushAdvMove(p)
  <2>1. UNCHANGED <<readEnd, writeStart, nTaken, got>> /\ pc'[c] = pc[c] /\ block'[c] = block[c]
    BY <1>2, <1>t, <1>y DEF Push, PushFinish, PushLoad, PushCheck, PushClaim, ClaimFails, PushCopy,
       PushFlag, PushAdvLoad, PushAdvTest, Goto, SetIndex, TypeOK, cursors, claims
  <2>2. UNCHANGED Holding
    BY <2>1 DEF Holding, Mapping
  <2> QED
    BY <2>1, <2>2, Unseen
<1> QED
  BY <1>1, <1>2

LEMMA PopFifo ==
  ASSUME NEW p, NEW c, Producers = {p}, Consumers = {c},
         IInv, IInv', Mapping, Mapping', Pop(c)
  PROVE  [Fifo!Next]_(Fifo!vars)
<1>t. p # c /\ p \in Threads /\ c \in Threads
  BY OtherThread
<1>y. TypeOK /\ TypeOK'
  BY DEF IInv
<1>1. CASE PopClaim(c)
  BY <1>1, PopClaimTakes DEF Fifo!Next
<1>2. CASE PopCopy(c)
  <2>1. UNCHANGED <<readEnd, writeStart, nTaken>>
    BY <1>2 DEF PopCopy, cursors, claims
  <2>2. UNCHANGED Holding
    BY <1>2, <1>t, <1>y DEF Holding, PopCopy, Goto, TypeOK
  <2> QED
    BY <2>1, <2>2, Unseen
<1>3. CASE ~PopClaim(c) /\ ~PopCopy(c)
  <2>1. /\ UNCHANGED <<readEnd, writeStart, nTaken, got, packet, block>>
        /\ pc[c] # "copy" /\ pc'[c] # "copy"
    BY <1>3, <1>t, <1>y DEF Pop, PopFinish, PopLoad, PopCheck, ClaimFails,
       PopFlag, PopAdvLoad, PopAdvTest, PopAdvMove, Goto, SetIndex, TypeOK, cursors, claims
  <2>2. UNCHANGED Holding
    BY <2>1 DEF Holding
  <2> QED
    BY <2>1, <2>2, Unseen
<1> QED
  BY <1>1, <1>2, <1>3

LEMMA StepFifo ==
  ASSUME OneOfEach, IInv, IInv', Mapping, Mapping', [Next]_vars
  PROVE  [Fifo!Next]_(Fifo!vars)
<1>1. PICK p, c : Producers = {p} /\ Consumers = {c}
  BY DEF OneOfEach
<1>2. CASE Next
  BY <1>1, <1>2, PushFifo, PopFifo DEF Next
<1>3. CASE UNCHANGED vars
  BY <1>3, Unseen DEF vars, cursors, claims, Holding
<1> QED
  BY <1>2, <1>3

\* Between one pusher and one popper the ring, seen from its callers, is a
\* queue of at most N - 1 packets: each enters once, in the order it was pushed,
\* and the popper gets the oldest and keeps it unaltered, however the accesses
\* of ringbuf_push and ringbuf_pop interleave.
THEOREM RingImplementsFifo == OneOfEach => (Spec => ImplementsFifo)
<1> SUFFICES ASSUME OneOfEach
             PROVE  Spec => Fifo!Spec
  BY DEF ImplementsFifo
<1>1. Init => Fifo!Init
  BY InitFifo
<1>2. IInv => Mapping
  BY InvMaps
<1>3. IInv /\ IInv' /\ Mapping /\ Mapping' /\ [Next]_vars => [Fifo!Next]_(Fifo!vars)
  BY StepFifo
<1>4. Spec => []IInv
  BY RingInvariant
<1> QED
  BY <1>1, <1>2, <1>3, <1>4, PTL DEF Spec, Fifo!Spec

==============================================================================
