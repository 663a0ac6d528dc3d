----------------------------- MODULE BoundedFifo -----------------------------
(***************************************************************************)
(* What a ring buffer of src/src/ringbuf.c promises its callers: a queue   *)
(* of at most Capacity packets.  Packets are numbered in the order they    *)
(* enter; a taker receives the oldest packet, once, and what it holds is   *)
(* not altered afterwards by anybody else.                                 *)
(***************************************************************************)
EXTENDS Naturals, Sequences

CONSTANTS Capacity, Takers

VARIABLES
  queue,    \* the packets a pop can obtain, oldest first
  entered,  \* number of packets that have entered the queue so far
  holding   \* the packet each taker obtained last (0: none yet)

vars == <<queue, entered, holding>>

Init ==
  /\ queue = <<>>
  /\ entered = 0
  /\ holding = [t \in Takers |-> 0]

Enter ==
  /\ Len(queue) < Capacity
  /\ entered' = entered + 1
  /\ queue' = Append(queue, entered')
  /\ UNCHANGED holding

Take(t) ==
  /\ queue # <<>>
  /\ holding' = [holding EXCEPT ![t] = Head(queue)]
  /\ queue' = Tail(queue)
  /\ UNCHANGED entered

Next == Enter \/ \E t \in Takers : Take(t)

Spec == Init /\ [][Next]_vars

==============================================================================
