------------------------------- MODULE RingBuf -------------------------------
(***************************************************************************)
(* The packet ring of src/src/ringbuf.c: N blocks in a circle, four        *)
(* cursors and two flags per block, all of them sequentially consistent    *)
(* atomics (edp_atomic_posix.c), shared by threads that push and threads   *)
(* that pop.  An action is one atomic access and the local code around it. *)
(*                                                                         *)
(* A packet is abstracted to the number of the claim that reserved its     *)
(* block: the packets pushed are 1, 2, 3, ... in the order of the claims.  *)
(* 0 stands for a block that malloc returned and nobody has written.       *)
(***************************************************************************)
EXTENDS Naturals

CONSTANTS
  N,           \* RINGBUF_MAX_PACKETS
  Producers,   \* threads that call ringbuf_push
  Consumers,   \* threads that call ringbuf_pop
  MaxPackets   \* bound: number of pushes that may claim a block

ASSUME RingAssumption ==
  /\ N \in Nat \ {0, 1}
  /\ MaxPackets \in Nat
  /\ Producers \cap Consumers = {}

VARIABLES
  readStart, readEnd, writeStart, writeEnd,  \* RingBuf cursors
  hasBeenRead, hasBeenWritten,               \* RingBlock flags
  packet,                                    \* RingBlock payload
  pc, index, block,                          \* each thread's place and locals
  got,                                       \* the caller's RingPacket, per consumer
  nSent, nTaken,                             \* history: successful claims
  ticket                                     \* history: number of a thread's claim

cursors == <<readStart, readEnd, writeStart, writeEnd>>
flags == <<hasBeenRead, hasBeenWritten>>
claims == <<nSent, nTaken, ticket>>
vars == <<cursors, flags, packet, pc, index, block, got, claims>>

Threads == Producers \cup Consumers
Blocks == 0 .. N - 1

\* A mutant: the last block is not linked back to the first.
nextIndex_NoWrap(i) == i + 1

\* nextIndex as ringbuf_init links the blocks.
nextIndex(i) == IF i = N - 1 THEN 0 ELSE i + 1

\* Number of nextIndex steps from block i to block j.
Distance(i, j) == IF i <= j THEN j - i ELSE j - i + N

\* The block k steps after block i, for k < N.
At(i, k) == IF i + k < N THEN i + k ELSE i + k - N

Goto(t, from, to) == pc[t] = from /\ pc' = [pc EXCEPT ![t] = to]

SetIndex(t, i) == index' = [index EXCEPT ![t] = i]

Init ==
  /\ readStart = 0 /\ readEnd = 0 /\ writeStart = 0 /\ writeEnd = 0
  /\ hasBeenRead = [i \in Blocks |-> 0]
  /\ hasBeenWritten = [i \in Blocks |-> 0]
  /\ packet = [i \in Blocks |-> 0]
  /\ pc = [t \in Threads |-> "load"]
  /\ index = [t \in Threads |-> 0]
  /\ block = [t \in Threads |-> 0]
  /\ got = [c \in Consumers |-> 0]
  /\ nSent = 0 /\ nTaken = 0
  /\ ticket = [t \in Threads |-> 0]

(***************************************************************************)
(* ringbuf_push.  A thread at "load" is outside a call or at the top of    *)
(* the claim loop: in both it holds nothing of the ring.                   *)
(***************************************************************************)
PushLoad(p) ==
  /\ Goto(p, "load", "check")
  /\ SetIndex(p, writeEnd)
  /\ UNCHANGED <<cursors, flags, packet, block, got, claims>>

\* A mutant: a full ring is not refused.
PushCheck_NeverFull(p) ==
  /\ Goto(p, "check", "claim")
  /\ UNCHANGED <<cursors, flags, packet, index, block, got, claims>>

PushCheck(p) ==
  /\ \/ nextIndex(index[p]) = readStart /\ Goto(p, "check", "load")   \* ERR_OutOfSpace
     \/ nextIndex(index[p]) # readStart /\ Goto(p, "check", "claim")
  /\ UNCHANGED <<cursors, flags, packet, index, block, got, claims>>

\* A mutant: writeEnd is stored, not compared and exchanged.
PushClaim_Store(p) ==
  /\ nSent < MaxPackets
  /\ Goto(p, "claim", "copy")
  /\ writeEnd' = nextIndex(index[p])
  /\ block' = [block EXCEPT ![p] = index[p]]
  /\ nSent' = nSent + 1
  /\ ticket' = [ticket EXCEPT ![p] = nSent']
  /\ UNCHANGED <<readStart, readEnd, writeStart, flags, packet, index, got, nTaken>>

PushClaim(p) ==
  /\ nSent < MaxPackets
  /\ Goto(p, "claim", "copy")
  /\ writeEnd = index[p]
  /\ writeEnd' = nextIndex(index[p])
  /\ block' = [block EXCEPT ![p] = index[p]]
  /\ nSent' = nSent + 1
  /\ ticket' = [ticket EXCEPT ![p] = nSent']
  /\ UNCHANGED <<readStart, readEnd, writeStart, flags, packet, index, got, nTaken>>

\* The weak compare-and-exchange may fail even when the cursor has not moved.
ClaimFails(t) ==
  /\ Goto(t, "claim", "load")
  /\ UNCHANGED <<cursors, flags, packet, index, block, got, claims>>

PushCopy(p) ==    \* memcpy(&block->packet, p, ...)
  /\ Goto(p, "copy", "flag")
  /\ packet' = [packet EXCEPT ![block[p]] = ticket[p]]
  /\ UNCHANGED <<cursors, flags, index, block, got, claims>>

PushFlag(p) ==
  /\ Goto(p, "flag", "advLoad")
  /\ hasBeenWritten' = [hasBeenWritten EXCEPT ![block[p]] = 1]
  /\ UNCHANGED <<cursors, hasBeenRead, packet, index, block, got, claims>>

PushAdvLoad(p) ==
  /\ Goto(p, "advLoad", "advTest")
  /\ SetIndex(p, writeStart)
  /\ UNCHANGED <<cursors, flags, packet, block, got, claims>>

\* compare_exchange(&hasBeenWritten, 1, 0): leave the loop when it fails.
PushAdvTest(p) ==
  /\ \/ hasBeenWritten[index[p]] = 1 /\ Goto(p, "advTest", "advMove")
     \/ hasBeenWritten[index[p]] = 0 /\ Goto(p, "advTest", "load")    \* ERR_None
  /\ hasBeenWritten' = [hasBeenWritten EXCEPT ![index[p]] = 0]
  /\ UNCHANGED <<cursors, hasBeenRead, packet, index, block, got, claims>>

\* A mutant: the writer returns after advancing over its own block.
PushAdvMove_Once(p) ==
  /\ Goto(p, "advMove", "load")
  /\ writeStart' = IF writeStart = index[p] THEN nextIndex(index[p]) ELSE writeStart
  /\ UNCHANGED <<readStart, readEnd, writeEnd, flags, packet, index, block, got, claims>>

\* A mutant: the writer clears the flag and returns without moving writeStart.
PushAdvMove_Lost(p) ==
  /\ Goto(p, "advMove", "load")
  /\ UNCHANGED <<cursors, flags, packet, index, block, got, claims>>

\* compare_exchange(&writeStart, index, nextIndex): its result is ignored.
PushAdvMove(p) ==
  /\ Goto(p, "advMove", "advLoad")
  /\ writeStart' = IF writeStart = index[p] THEN nextIndex(index[p]) ELSE writeStart
  /\ UNCHANGED <<readStart, readEnd, writeEnd, flags, packet, index, block, got, claims>>

(***************************************************************************)
(* ringbuf_pop: the same protocol on readEnd, readStart and hasBeenRead.   *)
(***************************************************************************)
PopLoad(c) ==
  /\ Goto(c, "load", "check")
  /\ SetIndex(c, readEnd)
  /\ UNCHANGED <<cursors, flags, packet, block, got, claims>>

\* A mutant: emptiness is tested against the claimed, not the written, end.
PopCheck_WriteEnd(c) ==
  /\ \/ index[c] = writeEnd /\ Goto(c, "check", "load")
     \/ index[c] # writeEnd /\ Goto(c, "check", "claim")
  /\ UNCHANGED <<cursors, flags, packet, index, block, got, claims>>

PopCheck(c) ==
  /\ \/ index[c] = writeStart /\ Goto(c, "check", "load")             \* ERR_Again
     \/ index[c] # writeStart /\ Goto(c, "check", "claim")
  /\ UNCHANGED <<cursors, flags, packet, index, block, got, claims>>

PopClaim(c) ==
  /\ Goto(c, "claim", "copy")
  /\ readEnd = index[c]
  /\ readEnd' = nextIndex(index[c])
  /\ block' = [block EXCEPT ![c] = index[c]]
  /\ nTaken' = nTaken + 1
  /\ ticket' = [ticket EXCEPT ![c] = nTaken']
  /\ UNCHANGED <<readStart, writeStart, writeEnd, flags, packet, index, got, nSent>>

PopCopy(c) ==     \* memcpy(p, &block->packet, ...)
  /\ Goto(c, "copy", "flag")
  /\ got' = [got EXCEPT ![c] = packet[block[c]]]
  /\ UNCHANGED <<cursors, flags, packet, index, block, claims>>

PopFlag(c) ==
  /\ Goto(c, "flag", "advLoad")
  /\ hasBeenRead' = [hasBeenRead EXCEPT ![block[c]] = 1]
  /\ UNCHANGED <<cursors, hasBeenWritten, packet, index, block, got, claims>>

PopAdvLoad(c) ==
  /\ Goto(c, "advLoad", "advTest")
  /\ SetIndex(c, readStart)
  /\ UNCHANGED <<cursors, flags, packet, block, got, claims>>

PopAdvTest(c) ==
  /\ \/ hasBeenRead[index[c]] = 1 /\ Goto(c, "advTest", "advMove")
     \/ hasBeenRead[index[c]] = 0 /\ Goto(c, "advTest", "load")       \* ERR_None
  /\ hasBeenRead' = [hasBeenRead EXCEPT ![index[c]] = 0]
  /\ UNCHANGED <<cursors, hasBeenWritten, packet, index, block, got, claims>>

\* A mutant: the reader clears the flag and returns without moving readStart.
PopAdvMove_Lost(c) ==
  /\ Goto(c, "advMove", "load")
  /\ UNCHANGED <<cursors, flags, packet, index, block, got, claims>>

PopAdvMove(c) ==
  /\ Goto(c, "advMove", "advLoad")
  /\ readStart' = IF readStart = index[c] THEN nextIndex(index[c]) ELSE readStart
  /\ UNCHANGED <<readEnd, writeStart, writeEnd, flags, packet, index, block, got, claims>>

(***************************************************************************)
(* Specification                                                           *)
(***************************************************************************)
\* What a thread does once it has claimed a block: it never waits.
PushFinish(p) == PushCopy(p) \/ PushFlag(p) \/ PushAdvLoad(p) \/ PushAdvTest(p) \/ PushAdvMove(p)
PopFinish(c) == PopCopy(c) \/ PopFlag(c) \/ PopAdvLoad(c) \/ PopAdvTest(c) \/ PopAdvMove(c)

Push(p) == PushLoad(p) \/ PushCheck(p) \/ PushClaim(p) \/ ClaimFails(p) \/ PushFinish(p)
Pop(c) == PopLoad(c) \/ PopCheck(c) \/ PopClaim(c) \/ ClaimFails(c) \/ PopFinish(c)

Next == (\E p \in Producers : Push(p)) \/ (\E c \in Consumers : Pop(c))

Spec == Init /\ [][Next]_vars

\* The scheduler runs a thread that can run.  Nobody is forced to call
\* ringbuf_push or ringbuf_pop, but a call that has claimed a block goes on.
Fairness ==
  /\ \A p \in Producers : WF_vars(PushFinish(p))
  /\ \A c \in Consumers : WF_vars(PopFinish(c))

FairSpec == Spec /\ Fairness

(***************************************************************************)
(* Properties                                                              *)
(***************************************************************************)
Places == {"load", "check", "claim", "copy", "flag", "advLoad", "advTest", "advMove"}

\* Every cursor and local index names a block, every flag is a bit, every
\* payload is a packet that was pushed or an unwritten block.
TypeOK ==
  /\ readStart \in Blocks /\ readEnd \in Blocks
  /\ writeStart \in Blocks /\ writeEnd \in Blocks
  /\ hasBeenRead \in [Blocks -> {0, 1}]
  /\ hasBeenWritten \in [Blocks -> {0, 1}]
  /\ packet \in [Blocks -> Nat]
  /\ pc \in [Threads -> Places]
  /\ index \in [Threads -> Blocks]
  /\ block \in [Threads -> Blocks]
  /\ got \in [Consumers -> Nat]
  /\ nSent \in Nat /\ nTaken \in Nat
  /\ ticket \in [Threads -> Nat]

\* ringbuf_pop returns the packet of its own claim: the k-th claim of a pop
\* gets what the k-th claim of a push stored, whatever threads ran between the
\* claim, the memcpy and the return.  No packet is lost, doubled, torn from
\* its order or read before it is written.
Delivered ==
  \A c \in Consumers :
    pc[c] \in {"flag", "advLoad", "advTest", "advMove"} => got[c] = ticket[c]

\* The cursors keep their order around the circle, readStart, readEnd,
\* writeStart, writeEnd, and the claims outstanding are what lies between
\* readEnd and writeEnd: the writers never lap the readers, and the readers
\* never pass the writers (the two early returns of push and pop).
CursorsOrdered ==
  /\ Distance(readStart, readEnd) <= Distance(readStart, writeStart)
  /\ Distance(readStart, writeStart) <= Distance(readStart, writeEnd)
  /\ nSent = nTaken + Distance(readEnd, writeEnd)

\* The hand-off between threads in the advance loops loses nothing: once no
\* push (pop) holds a claim, every claimed block has been advanced over and no
\* flag is left behind for a later lap.
PushQuiet == \A p \in Producers : pc[p] \in {"load", "check", "claim"}
PopQuiet == \A c \in Consumers : pc[c] \in {"load", "check", "claim"}

HandOff ==
  /\ PushQuiet => writeStart = writeEnd /\ \A i \in Blocks : hasBeenWritten[i] = 0
  /\ PopQuiet => readStart = readEnd /\ \A i \in Blocks : hasBeenRead[i] = 0

\* What the comment in ringbuf_push_impl says of a cleared flag: "another
\* thread must have already advanced for us / Or, we've reached the end of what
\* was available".  Once no push holds a claim, either way there is nothing
\* left to advance over.
WrittenAreAdvanced == PushQuiet => writeStart = writeEnd

\* The ring implements a bounded FIFO: a packet enters the queue when
\* writeStart passes its block and leaves it when a pop claims the block.
Visible == [k \in 1 .. Distance(readEnd, writeStart) |-> packet[At(readEnd, k - 1)]]

Fifo == INSTANCE BoundedFifo WITH
  Capacity <- N - 1,
  Takers   <- Consumers,
  queue    <- Visible,
  entered  <- nSent - Distance(writeStart, writeEnd),
  holding  <- [c \in Consumers |-> IF pc[c] = "copy" THEN packet[block[c]] ELSE got[c]]

ImplementsFifo == Fifo!Spec

\* Every packet pushed becomes visible to the readers, also when the thread
\* that could advance over it has already left its loop.
EventuallyVisible ==
  \A k \in 1 .. MaxPackets :
    (nSent >= k) ~> (nSent - Distance(writeStart, writeEnd) >= k)

\* Every block taken by a reader becomes free for the writers again.
EventuallyReleased ==
  \A k \in 1 .. MaxPackets :
    (nTaken >= k) ~> (nTaken - Distance(readStart, readEnd) >= k)

==============================================================================
