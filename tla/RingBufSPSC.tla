----------------------------- MODULE RingBufSPSC -----------------------------
(***************************************************************************)
(* The inductive invariant of the ring when one thread pushes and one pops *)
(* (bg_thread.c: the main thread and the background thread, one ring in    *)
(* each direction).                                                        *)
(***************************************************************************)
EXTENDS RingBuf

OneOfEach == \E p, c : Producers = {p} /\ Consumers = {c}

NoneWritten == \A i \in Blocks : hasBeenWritten[i] = 0
OnlyWritten(b) == \A i \in Blocks : hasBeenWritten[i] = IF i = b THEN 1 ELSE 0
NoneRead == \A i \in Blocks : hasBeenRead[i] = 0
OnlyRead(b) == \A i \in Blocks : hasBeenRead[i] = IF i = b THEN 1 ELSE 0

\* The pusher's place fixes how far writeStart lags writeEnd and which flag is up.
WriteSettled == writeStart = writeEnd /\ NoneWritten
WriteClaimed == writeEnd = nextIndex(writeStart) /\ NoneWritten
WriteFlagged ==
  /\ writeEnd = nextIndex(writeStart)
  /\ OnlyWritten(writeStart)
  /\ packet[writeStart] = nSent

PushInv(p) ==
  /\ pc[p] \in {"load", "check", "claim"} => WriteSettled
  /\ pc[p] \in {"check", "claim"} => index[p] = writeEnd
  /\ pc[p] = "claim" => nextIndex(writeEnd) # readStart
  /\ pc[p] \in {"copy", "flag"} => WriteClaimed /\ block[p] = writeStart /\ ticket[p] = nSent
  /\ pc[p] \in {"flag", "advMove"} => packet[writeStart] = nSent
  /\ pc[p] \in {"advLoad", "advTest"} => WriteSettled \/ WriteFlagged
  /\ pc[p] \in {"advTest", "advMove"} => index[p] = writeStart
  /\ pc[p] = "advMove" => WriteClaimed

\* The popper's place does the same for readStart and readEnd.
ReadSettled == readStart = readEnd /\ NoneRead
ReadClaimed == readEnd = nextIndex(readStart) /\ NoneRead
ReadFlagged == readEnd = nextIndex(readStart) /\ OnlyRead(readStart)

PopInv(c) ==
  /\ pc[c] \in {"load", "check", "claim"} => ReadSettled
  /\ pc[c] \in {"check", "claim"} => index[c] = readEnd
  /\ pc[c] = "claim" => readEnd # writeStart
  /\ pc[c] \in {"copy", "flag"} => ReadClaimed /\ block[c] = readStart
  /\ pc[c] = "copy" => ticket[c] = nTaken
  /\ pc[c] \in {"advLoad", "advTest"} => ReadSettled \/ ReadFlagged
  /\ pc[c] \in {"advTest", "advMove"} => index[c] = readStart
  /\ pc[c] = "advMove" => ReadClaimed

\* The blocks from readStart to writeStart hold consecutive packets, ending
\* just before the packet writeStart will make visible.
Released == nTaken - Distance(readStart, readEnd)

Contents ==
  \A k \in 0 .. N - 1 :
    k < Distance(readStart, writeStart) => packet[At(readStart, k)] = Released + k + 1

IInv ==
  /\ TypeOK
  /\ \A p \in Producers : PushInv(p)
  /\ \A c \in Consumers : PopInv(c)
  /\ CursorsOrdered
  /\ Contents
  /\ Delivered

==============================================================================
